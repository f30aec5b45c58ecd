# HMA in TLA+

HMA drives a piece of work through human-approved stages and keeps what was
decided in per-run, hash-chained record files. Its hard parts are not the
evaluators one by one but their composition: commands load a chain, decide,
and append later; some hold a lock meanwhile and some do not; a second chain,
the host's, records who did the work and refers to the first; time passes, and
the repository they vouch for changes under them; and any of them can die
between two writes. This directory holds TLA+ models of those parts, the TLC
runs that check them, and proofs checked by TLAPS.

    tlc -config RunStore.cfg MCRunStore.tla       # a run
    tlapm HostStoreProofs.tla                     # the proofs: every *Proofs.tla,
                                                  # and ChainLemmas.tla

## The system

| Component | State | Operations | Hard because | Here |
|---|---|---|---|---|
| Run store (`internal/store`) | stream, head and pending files, run lock | Load, WithRunLock, Transact, Append | two-phase commit over three files; crashes; writers that read before they lock | `RunLog`, `RunStore` |
| Core chain and stage engine (`internal/engine` stage_state, transitions, approval_binding, contract_binding, resolution, ci_verification; `internal/model`) | none: functions of a chain | projections, evaluators | what a run's state *is* depends on the order of records of several families | `RunStages`, `RunControl`, `ChainRecords`, `ChainGates` |
| Commands that write the core chain (`internal/transition`, `internal/pilot`, `cmd/hma`) | the chain they loaded, the records they will append | transition, pilot, resolve, ci github, findings-import, reconcile, credit, loop evidence | check-then-append without a common lock; two appends that are not one; a repository nobody locks | `RunChain` |
| Host record store (`internal/host/store.go`) | numbered record files, anchors, directories, host lock | as the run store, plus Transact with commit | a record names a core head in another store; a file per record; directories it creates | `HostStore` |
| Host orchestration (`internal/host`, `cmd/hma/host.go`, review, credit, transition) | host chain: repository, decisions, preflights, dispatches, packets, reviews, credits | one command per record, and the transition gate's host half | what is approved must be what was reviewed, by somebody else, and still be there | `HostRecords`, `HostReview` |
| Checkpoint classification (`internal/engine/checkpoint.go`) | none | glob matching, triggers, required risk and separation | the classification is made before the locks are taken | `Checkpoint` |
| Launch authority (`internal/engine/lease.go`, `revocation.go`, `internal/host/reconcile.go`, `cmd/hma/attempt.go`) | charges, admissions, reconciliations in the host chain; a launch ledger | attempt, reconcile, loop-evidence | authority derived twice, forwards and backwards; generations, expiry and revocation; a hook that answers after it charged | `Lease`, `Launches`, `HostLaunch` |
| Findings import (`internal/host/findings_import.go`) | none | snapshot of the run's findings | a review of one unit rewrites a run-wide list | in `ChainGates`, `RunChain`, `HostReview` |
| Driver (`cmd/hmarun`) | none of its own: it reads both chains again | a resumable sequence of twenty steps | resuming after any step, with agents that outlive it | `Driver` |
| Plans and acceptance contracts (`internal/model/contract.go`) | none | form of a plan, cycle search, plan against contract | a search with three colours over a caller's graph | `PlanRules` |
| Invalidation, routes, validator contract (`internal/engine`) | none | evaluators of `hma evaluate` | - | not modelled |
| Repository state (`internal/repostate`, `cmd/hma/observe.go`) | none: one command's captures | capture, digest, manifest, fingerprint, private copy | dozens of reads of a repository that others change meanwhile | `Capture` |
| Evidence capture (`internal/evidence`) | none | process execution, object store checks | the outside world | an input |
| Inventory, CI environment, scripts | none | reports and inputs | - | not modelled |

The core chain is shared by every command. A command reads it with `Load`
(host commands while holding the host run lock, so host lock before core
lock), evaluates a human's approval against the projection, and appends with
`Append`, which takes the core lock, reloads and compares the record's position
with the chain's end. Only `host reconcile`, `host credit`, `host loop-evidence`
and the host commands' own appends keep the core lock from load to append,
through `Transact`. The position check is therefore what makes a decision
evaluated on a stale chain harmless, and a human's challenge nonce, looked for
in the whole chain, is what makes an approval single-use.

The host chain names the core chain: every host record carries the core head it
was written at, and the gates compare the two. agent-dispatch, an external
program, launches workers and reviewers and leaves run directories and receipts
in ledger namespaces; HMA reads them when it imports a review and when it
reconciles launches. `hmarun` drives the whole by calling `hma`.

## Modules

The stores:

- **`RunLog`**: what a store promises: an append-only log per run, of which
  the part ever reported to a caller is sealed; a machine crash may only take
  back an unsealed suffix.
- **`RunStore`**: the core store. `disk` is the run's directory as processes
  see it (stream, head anchor, pending anchor), `crashable` the set of directory
  contents a machine crash could leave, `dir` the store directory's own entry,
  `ordered` whether those changes reach the disk in the order made,
  `lock` the flock, and `pc`, `op`, `existing`, `want`, `known` each process's
  call. One action per system call of `loadLocked`, `recoverPending` and
  `appendLocked`: the three stats outside the lock, the lock, the read, the
  recovery's rename, sync and removal, the position check, and the commit's
  three renames, their directory syncs and the removal. `IOError` fails a call
  at any of them, `Kill` ends a process, `MachineCrash` picks a directory
  content. An anchor is the hash of a record that names its predecessor's
  anchor, so anchors are represented by the chains they identify.
- **`HostStore`**: the host store in the same manner (record files linked one by
  one, head and pending anchors, the directories above them and their syncs),
  together with what its callers do inside: `Transact` and `WithRunLock`
  callbacks that take the core lock, read or extend the core chain and commit a
  host record naming the core head they saw. The core store is taken at the
  level of `RunLog`: its chain, the part of it ever reported, and its lock. A
  crash between the core append and the host commit is therefore one of the
  steps, and so is the wait for one lock while the other is held.

The core chain:

- **`RunStages`**: stages, `ordinaryEdges`, `IsLegalEdge`, outcomes.
- **`RunControl`**: what a run's chain promises about control: one stage, legal
  edges, nothing moves or ends a run that ended, and every decision spends a
  fresh challenge.
- **`ChainRecords`**: a record is one TLA+ record with `None` for absent parts;
  `CurrentStage`, `Terminal`, `UsedNonces`, `FailureOutcome`, `Criteria`,
  `Findings`, `ActiveWaivers`, `BoundContractDigest`, ... are the projections of
  `ProjectStageState`, `ProjectResolutionState` and `contract_binding.go`, with
  "the latest such record wins" for their forward replay. `Replayed` is the
  effect the replay has on the records it is given, and `Verifies` the digest
  check of the next load (`sealed` is what a record's digest was computed over).
- **`ChainGates`**: the evaluators: `AdmitsApproval` (`EvaluateApprovalBinding`),
  `AdmitsTransition` (`EvaluateStageTransition`), `AdmitsContract`
  (`EvaluateContractBinding`), `AdmitsResolution` (`EvaluateResolution`),
  `AdmitsCI`, `HostAdmits` (the host gate's reads of the core chain),
  `ValidateRecord`, `SnapshotFindings`.
- **`RunChain`**: the commands, interleaved. `chain` is the committed core chain,
  `repo` the repository, `hostLock` the host run lock, `pc` and `job` each
  process's place and the records it intends to append. A command is its
  separate steps: begin (snapshot, packet), host gate, evaluation on the chain
  as then loaded, capture, and one `AppendNext` per record; `Abandon` refuses or
  kills it anywhere; `RepositoryChange` commits or edits at any time. `Reconcile`,
  `Credit` and `LoopEvidence` hold both locks and are one step each, with every
  prefix of their appends as an outcome.

The host chain:

- **`Checkpoint`**: `ClassifyCheckpoint` and what it rests on: the policy's globs
  and their matching, the classes of a set of changed paths, the triggers, the
  level, risk and family separation they call for, `ValidateCheckpointPolicy`.
- **`HostRecords`**: the evaluators over the host chain: `EvaluateDecision`,
  `EvaluatePreflight`, `EvaluateDispatch`, `EvaluateReview`,
  `EvaluateReviewImport`, `RequireImplementation`, `ApprovedReview`, and the host
  half of the transition gate (`ImplementationGate`, `ReviewGate`,
  `CheckpointGate`, `Creditable`, `requireIndependentCredit`). A host record is a
  record with `kind`, `unit`, `core` (the core head's position) and `at`; the
  records it refers to are named by their position.
- **`HostReview`**: how a unit's work is implemented, reviewed, validated and
  credited. `core` and `host` are the chains, `ledger` agent-dispatch's receipts,
  `target` the repository's head and uncommitted content, `draft` the dispatch
  `review-packet` has prepared and not yet recorded, `clock` the time, `gates` the
  history of gated transitions. Every command that decides and writes under the
  locks is one action; `review-packet`, which reads both chains and the
  repository first and locks later, is `PacketRead`, `PacketCommit` and
  `PacketDrop`; `Credit` may stop after any of the core records it writes.
- **`Lease`**: `DeriveLease` (`LeaseHolds`) and `RevokedAt`, the two derivations of
  one authority, as the code has them. **`Launches`**: the classification of a
  ledger's launches against the records (`Refused`, `Unauthorized`), policy
  revocations, and the gate `LaunchesReconciled`.
- **`HostLaunch`**: the hook `hma host attempt` as `Admit`, `Charge` (decide, and
  wait for the next whole second with both locks), `Commit`, `Answer` and `Die`,
  with `PolicyRefused`, `Retain` and `Replay` for its other outcomes; preflights,
  `Reconcile`, `LoopEvidence`, the transitions and waivers that end or renew
  authority; `Launch` by the controllers, told to or not, and by others, and the
  `Receipt` that follows it; `Tick`. `call` is the hook's charge in flight;
  `answers`, `observed` and `gates` are histories.
- **`PlanRules`**: which plans `hma` takes: `ValidatePlan` with its depth-first
  search for a cycle, `validateUnit`, `ValidatePlanAgainstContract`.
- **`Driver`**: `hmarun run`. `at` is the step an invocation has reached, 0 when
  none runs; `agents` the agent it waits for and one it left behind; `commits`,
  `ledger` and `report` what the agents leave; `reconciled` the latest
  reconciliation. Each of the twenty steps reads the chains, passes over what is
  done, advances or ends the invocation. `Faults` names what can go wrong
  (crashes at any step, agents that fail, commit out of scope, die without a
  receipt or outlive hmarun, time that outlasts preflights, packets and leases, a
  verdict against the work, a budget exceeded or a kernel rule that holds, a credit
  cut short), and `MaxFaults` bounds how often. `DeadEnd` names where running it
  again does not help.

The repository:

- **`Capture`**: `hma host review-packet` and the criterion check of `hma host
  credit` as sequences of passes (capture, manifest, second capture; fingerprint,
  capture, copy, second capture, fingerprint), each a sequence of reads: a git
  command or a file is one read. `repo` is HEAD, index and worktree, `stamp` the
  status-change times, `view` what the pass has seen, `captured`, `print` and `made`
  what the command keeps. `Editor` writes a file, stages a path or moves HEAD between
  any two reads. `Differences` says declaratively what a capture must bind.

- **`MCRunStore`, `MCRunChain`, `MCHostStore`, `MCHostReview`, `MCHostLaunch`,
  `MCCapture`, `MCDriver`**: the small instances.
- **`RunStoreProofs`, `RunChainProofs`, `HostStoreProofs`, `HostReviewProofs`,
  `HostLaunchProofs`, `CaptureProofs`, `DriverProofs`, `ChainLemmas`**: lemmas and
  theorems.

Definitions commented as mutants are variants of the definition after them, each
with a plausible bug; they show that the properties can fail. No action uses
one.

## Runs

| Run | Checks | Shows |
|---|---|---|
| `RunStore` | `TypeOK`, `ReadableInOrder`, `Durable`, `CallsReturn`, `ImplementsRunLog` | on either kind of file system the run loses nothing it reported, through errors, kills and crashes at any step, every call returns, and the store implements the log; with ordered directory changes the run also stays readable |
| `RunStoreUnreadable` | `Readable` fails | without the condition on that order, the head anchor that recovery promotes can outlive the unsynced stream rename it was promoted to |
| `RunStoreFreshDir` | `Durable` fails | the directory Append creates is not synced in its parent |
| `ChainDecisions` | `TypeOK`, `NoncesSpentOnce`, `LegalHistory`, `EvidenceBound`, `ImplementsRunControl` | racing decisions refine the abstract control of a run, and evidence stays tied to the revision, the approval and the visit of the stage it was taken for |
| `ChainReview` | `ContractCarried`, `EndJustified`, `WaiversAlternate`, `ReviewExitResolved`, `FindingsKept` | an accepted contract changes only by being accepted anew; findings, waivers and classifications stand when they are relied on |
| `ChainAliased` | `ChainVerifies` fails | replaying and appending under one Transact can rewrite a committed record |
| `HostStore` | `TypeOK`, `CrashSafe`, `HostNamesCore`, `CommandsReturn`, `ImplementsRunLog` | a crash leaves a host chain that can be read and lacks nothing acknowledged; no host record outlives the core record it names; with two locks, the second awaited under the first, every command returns |
| `HostReview` | `TypeOK`, `ReviewExitIndependent`, `ReviewExitAnswered`, `PacketSufficient`, `CheckpointExit`, `ClosureCredited` | what the gated transitions were let through on: an independent reviewer, launched on that content while the packet was valid, classified on the chains as they were recorded, and criteria HMA itself checked |
| `HostLaunch` | `TypeOK`, `BudgetKept`, `ChargedOnce`, `GrantJustified`, `GateReconciled` | budgets hold over generations and controllers, nothing is charged twice, what HMA says to launch is what its reconciliation authorizes, and still stood behind when it said so |
| `Capture` | `TypeOK`, `PacketIsSnapshot`, `CheckSawReviewed`, `QuietRefused` | while others change the repository, a packet describes what it binds, and that is the repository of one moment; a credited check ran on exactly what was reviewed; a repository left alone is refused only for cause |
| `Driver` | `TypeOK`, `NothingRedone`, `EndsReviewed`, `ReachesPartial`, `DeadEndsStay` | run again whenever it stops, `hmarun` reaches PARTIAL on reviewed and credited content, or one of the named dead ends, which it never leaves |
| `DriverDeadEnd` | `RerunRecovers` fails | a reviewer that dies leaves a launch that no later invocation gets past |

### Bounds

`RunStore`: two processes suffice for every race on one flock and the files it
guards; two payloads tell a lost record from a replaced one; `MaxLen = 2` gives a
commit over an empty and over a non-empty run and a second writer after each.
Both kinds of file system (`ordered`) are explored.

`RunChain`: two processes, at most `Growth` (2 to 4) records added to the chain a
run is picked up at. The seeds are chains the commands themselves build (walks
along the stages, each move spending its own challenge), so that late stages are
reached without exploring the way to them. `ChainDecisions` picks up two kinds of
run, and `OwnScenario` keeps to each its own question: an empty run, four records,
waivers and one clean repository, and a run back in VERIFICATION with evidence of an
earlier visit, two records and a repository that moves. Two fresh challenges (three where the sequence needs them), two heads and
one dirty worktree where the repository matters, two units, and contracts of
which two name the same criteria. Each cfg's packets, operations and reports are
the few that meet on its question: the legal ones, one with the wrong contract or
evidence, and one for another unit or stage. `HmaNames` has one name in
`ChainReview`: with two, `ChainAliased` applies.

`HostStore`: two processes, two host records, one core record (so heads before
and after it), both kinds of file system, every state of the directories above
the run. One payload: what tells host records apart is the core head they name.

`HostReview`: one unit, two contents of the repository (the second with a finding
HMA establishes itself), two contracts of which the second is riskier and a
milestone, four seats that share a worker, a model or a family. The run is picked
up at eight places (before the work, in review under a packet, in review by
hand, after a renegotiated contract, in validation, before its closure), each with
room for the few records, packets, launches and changes that its question needs;
`TTL = 1` and `Horizon = 2` let preflights and packets lapse.

`HostLaunch`: a unit built on another that is built on a third, two controllers
with a ledger namespace each, four attempt requests, two plans of which the second
replaces the first's wall time, attempts and cost, two policies. Half seconds, so
that a receipt's whole second can fall on either side of a record. Each start
leaves room for the records of one question: a fresh lease, a retry, a rewind, a
correction, a waiver, a reconciliation.

`Capture`: three paths (the ignore file, a tracked file, one the base tracks and the
ignore file hides since), two commits, and three changes at any reads, from three
repositories: clean, staged otherwise than on disk, and without its ignore file.
Two changes swap something and put it back; the third can hide the traces (a file
created after the first capture and staged during the second).

`Driver`: one unit, one implementer, one reviewer, and every combination of two
faults of twelve kinds, at any step. Two is the least that lets one fault happen
during the recovery from another. A packet is good for one wait and a lease for two
(the default plan and `ReviewDispatchTTL` give them an hour each, six preflight
lifetimes), so that both can end with the faults there are: a packet after a crash
and a wait, a lease while a worker is waited for twice.

`MCHostReview` also has TLC evaluate, as assumptions, that the checkpoint policy
is one `hma` takes and that the glob matcher agrees with a declarative reading of
globs for all globs and paths of up to three segments. `MCHostLaunch` has it
evaluate that the plans of its instance are plans `hma` accepts under their
contract, and that the search for a cycle in a plan's dependencies finds one
exactly where the units of a graph cannot be ranked (all graphs over three units).

### Fairness

`CallsReturn` needs a process inside a call to be scheduled (`WF(CallStep)`), and
the kernel not to pass over a waiter for a lock forever (`SF(Acquire)`; without it
a stream of other callers could starve one). `CommandsReturn` needs the same of both
locks, stated as strong fairness of a process's next step. A callback that has called
the core store is at a place of its own (`wantCore`), still holding the host lock: it
can then do nothing but take the core lock, refuse no more and return no sooner, so the
property rests on the order of the two locks; with one command that takes the host lock
under the core lock (the mutant `SealCoreThenHost`) two commands wait for each other for
ever. Nothing obliges anyone to start a call or a fault to happen.

`ReachesPartial` assumes that somebody runs `hmarun` again when it has stopped
short (`WF(Invoke)`), that an invocation is scheduled (`WF(Step)`), and that an
agent ends (`WF(Agent)`: agent-dispatch bounds its time). Humans approve what they
are asked; one who does not is a crash of the invocation. `MaxFaults` makes the
faults finite, as any claim of recovery must.

The chain commands, reviews and launches promise no progress: what is refused
waits for a human.

## Proofs

TLAPS checks the following for every value of the constants.

**`RunStoreProofs`**, for any processes, payloads, bound, and either file system:

- `TypeCorrect`: `Spec => []TypeOK`.
- `AcknowledgedIsDurable`: if the store directory is durable,
  `Spec => []Durable`: whatever a load returned or an append acknowledged is a
  prefix of the stream in every directory content a machine crash could leave.

`Durable` is not inductive. A process reports a chain after reading it, so one
needs to know that what it holds under the lock *is* the stream, and that this
stream can no longer be taken back. The conjuncts of `IInv` say so:

- between lock and unlock a process is the lock's holder, so there is only one;
- at each of its steps it knows the directory (`PhaseOK`): what it read is the
  stream, or the predecessor of its record once the stream is renamed;
- a stream that a crash could still take back is named by the visible pending
  anchor (`PendingNamesUnsettled`), so whoever reads it next, having found the
  pending anchor, syncs the directory before it reports (`recSync`);
- every crashable stream is a prefix of the visible one;
- what was reported is a prefix of every crashable stream.

Most actions touch neither the files nor the lock; one lemma (`QuietStepIInv`)
covers them, and the others have one each. Facts about prefixes are stated once.

- `ReadableWhenOrdered`: `Spec => []ReadableInOrder`: with ordered directory changes,
  whatever a crash leaves, the next load reads it.
- `LogImplemented`: if the store directory is durable, `Spec => ImplementsRunLog`.

The first adds to `IInv` what is known of the head anchor (`AnchorInv`): a directory
without a pending anchor, or whose pending anchor is not its chain's, has its head
on the chain's tail, and a process about to remove or replace the pending anchor
has seen to that. The second needs nothing new: renaming the stream extends the log,
reporting a chain seals it, a machine crash loses an unsealed suffix, and every other
step leaves the log as it is.

**`RunChainProofs`**, for any number of processes and any commands, packets,
operations, reports and seeds:

- `ChallengesSpentOnce`: `Spec => []NoncesSpentOnce`: no two records of a run
  spend the same challenge.
- `DecisionsAreLegal`: `Spec => []LegalHistory`: every approved decision was made
  from the stage the run was in, along a legal edge, and before the run ended.

Neither is inductive, for the same reason: a command evaluates its decision on a
chain it loaded without the lock, and appends later, perhaps several records.
The strengthening (`JobOK`, `JobLegal`) ties each waiting command to the position
its records were built for. While the chain has not grown past that position it
is still the chain that was evaluated, so the challenge is unspent (`Spendable`)
and the decision legal (`LegalNext`); once it has grown, the append is refused,
and nothing need be known of the records. Of the records of one command at most
the first decides anything. The commands that replay the chain under the lock
and write it back rewrite findings in committed records; that this leaves
everything control and challenges depend on as it was is `ReplayedSpends` and
`ReplayContinues`. `SameStage` shows which fields the current stage is a function
of, which takes that a non-empty set of positions has a greatest element.

- `ControlImplemented`: `Spec => ImplementsRunControl`.

Each record a command waits to append is one that `RunControl` allows after the
chain it was made for (`Follows`: quiet, a resolution, or a decision, with a challenge
nobody spent); an append that lands is then a step of `RunControl`, or leaves it as it
is. A command that replays and appends under the locks only adds quiet records to a
chain of the same control (`QuietlyGrows`).

- `EvidenceIsBound`: `Spec => []EvidenceBound`.
- `ContractIsCarried`: `Spec => []ContractCarried`.
- `EndsStand`: `Spec => [](FailureStands(chain) /\ PartialAccounted(chain))`, the first
  two conjuncts of `EndJustified`.

These three say that a record rests on the chain before it. `Backed(c, r)` collects what
a record `r` of each family needs of a chain `c`: its evidence, the approval a pilot's
evidence was captured for, the packet a CI run was asked for, the contract and its
criteria, the standing failure. `BoundInv` says that every record is backed by those
before it, and that the next record of a waiting command is backed by the chain while
this still has the length it was made for (`JobBacked`); the second record of a pilot
needs its first to be the chain's last, which the position check makes it. Replaying
rewrites findings only, and nothing in `Backed` depends on findings (`AlikeBacked`).
`Filed` ties the family a record is filed under to what it carries, without which a
resolution could supersede a classification in the projection but not in the property.
- `EndsAreJustified`: `Spec => []EndJustified`, of which `EndsStand` is two thirds; the
  rest is that a run ends PARTIAL with its findings disposed of.
- `ReviewsExitResolved`: `Spec => []ReviewExitResolved`.
- `WaiversTakeTurns`: `Spec => []WaiversAlternate`.
- `FindingsAreKept`: `Spec => []FindingsKept`.

These are about findings, which replaying does rewrite: a command that replays under the
locks and appends writes overridden dispositions back into the lists it replayed
(disagreement 1 below). `Reviewed(c, r)` collects what a record `r` owes to the findings
and waivers of a chain `c`; `ReviewInv` says that every record owes it to those before it,
that the next record of a waiting command does to the chain while this has the length it
was made for, and that between host gate and evaluation a decision's findings are resolved
under the same condition (`JobReviewed`). Most of the work is that a replay written back
keeps this (`ReplayReviewed`): the findings of a chain are those of its latest list, as the
latest overrides left them (`FindingsAt`, `SinceAt`), so an override written into a list
changes nothing that a later reader of that list sees (`SinceSame`), only what a reader
before the override would have seen. What replaying overwrites is a list no review made,
and such a list holds a BLOCK of HMA's own, which stays in every later list
(`Held`, `HmaHeld`); no decision that needed its findings resolved is recorded after one
(`Untouched`), a review starts a list of its own (`ListsAgree`), and a finding that could
be waived is made no BLOCK (`StaysWaivable`). That the chain can no longer be *read* after
such a replay is the disagreement; these four hold whether or not it can.

- `ChainTypesHold`: `Spec => []TypeOK`.

This one comes last because the types of a command in progress are earned along its
way: `TypeInv` says what a waiting command holds at each of its places (`JobTyped`): a
well-formed packet from the gate on, well-formed records from the evaluation on, and
room for them while the position they were made for is the chain's end (`Fits`). A
command starts with room for what it may append, and a growth of the chain leaves every
other waiting command behind its position, which the check before the append refuses.
What is appended is well-formed because the parts it is made of are: the packet, the
repository, the stage and contract of the chain (`StageFormed`), the reports
(`AppliedFormed`), and a replay that rewrites dispositions only (`ReplayFormed`).

**`HostStoreProofs`**, for any processes, payloads, bounds, and either file system:

- `TypesHold`: `Spec => []TypeOK`, including which locks are held where.
- `HostNamesCoreHolds`: `Spec => []HostNamesCore`: whatever directory content a
  crash leaves, the core head each host record was built on is in the sealed part
  of the core chain, and later records name later heads.

The strengthening (`NInv`) follows a core head from where it is read to where it
is named: what a process read of the core chain was sealed before it left the
core store (`Knows`), the core heads named by the host chain it read are prefixes
of that head, and every chain in the visible and in the crashable directories, and
every record about to join one, names such heads in order (`Named`). No exclusion
between processes is needed for this, and nothing about the order in which
directory changes reach the disk is used.

- `CrashSafeHolds`: `Spec => []CrashSafe`.
- `HostLogImplemented`: `Spec => ImplementsRunLog`.

The strengthening (`CrashSafeInv`) follows the commit from file to file. The records
of every crashable directory are those on disk (`Settled`), or those but for the last;
in the second case the pending anchor names the chain on disk, so the next load syncs
it before it reports it (`PendingNamesUnsettled`). `PhaseOK` and `HeadOK` are what the process inside the run
lock knows of records and head anchor at each point, and once anything was reported
every directory above the run's is durable (`AllDurable`).

**`HostReviewProofs`**, for any seats, offers, targets, contracts, policies and
starts:

- `ReviewersStandApart`: `Spec => []ReviewExitIndependent`.
- `ExitsAreAnswered`: `Spec => []ReviewExitAnswered`.
- `PacketsSayEnough`: `Spec => []PacketSufficient`.
- `CheckpointsAreReviewed`: `Spec => []CheckpointExit`.
- `ClosuresAreCredited`: `Spec => []ClosureCredited`.
- `ReviewTypesHold`: `Spec => []TypeOK`.

A gate looks at the latest review and what it answers; the properties speak of all
that came before. What closes the distance is how each record came about
(`RecordInOrder`): a decision or a review follows what it names, a reviewer was apart
from every contribution recorded by then and not only from the one under review
(`ReviewerChosen`), a review answers a dispatch nobody answered before
(`AnswersDispatch`), and one under a packet stands for one launch, made for that
packet on that content while it was valid (`AnswersLaunch`). All of it is about the
records before the one in question, so it stays true as the chain grows: each command
needs to be looked at once (`StepKeeps`, and one `...Steps` lemma per action). From
there the exits follow without further induction (`ExitIndependent`, `ExitFresh`,
`ExitMeasured`, `CheckpointReviewed`), and `GatesPassed` keeps with every gated
transition the chains it was let through on.

A packet is built from chains read outside the locks. `DraftOK` says that the one
being prepared still suffices as long as the core chain has the length it had, which
is what recording it checks; the host chain may have grown, and that what it grew by
cannot raise the level the packet was built for is where the classifier's triggers,
and the order of risks, have to be looked into (`TriggersFired`, `CoveredCallsForLess`,
`StillSuffices`).

The gate of a claim of success looks, for each passed criterion, at the latest credit
with a result for it, and separately for some credit of the latest criteria. That the
two are one credit (`CreditedAtGate`) is not in any check. A later credit would be of
the same lease generation, hence of the criteria of the same plan (`SameIssuer`), and so
have a result too; an earlier one cannot have given the latest criteria, as the
latest credit gave some after it. What is needed of how credits and criteria came
about is `CreditsInOrder`: each credit names the lease its review was dispatched in, the
criteria of that plan and the core record that gave them, after those of any earlier
credit; and criteria once given are not taken away again, which is also where a credit that
failed half way, and left evidence without criteria or criteria without credit, has to be
accounted for (`CreditKeeps`).

The proofs of the properties need of a record no more than that it is one of its kind
(`Filed`); that every record ever appended is typed in full (`FormInv`) is proved apart, one
`...Formed` lemma per action.

**`HostLaunchProofs`**, for any requests, envelopes, plans, policies, moves, units
and starts:

- `ChargedOnceHolds`: `Spec => []ChargedOnce`: no attempt, dispatch id or failure
  signature is charged twice.
- `AttemptsKeptHolds`: `Spec => []AttemptsKept`: each time an attempt is charged,
  the attempts charged so far are within what the plan of its lease allows.
- `BudgetKeptHolds`: `Spec => []BudgetKept`: and so is what they cost.
- `GrantsAreJustified`: `Spec => []GrantJustified`: what HMA says to launch is what
  reconciliation authorizes, on approvals, waivers, dependencies and a policy that
  still stand.
- `GatesAreReconciled`: `Spec => []GateReconciled`: a unit leaves authorization or
  review with everything launched until then authorized.
- `LaunchTypesHold`: `Spec => []TypeOK`.

The hook decides, waits, and then appends; the strengthening says of the charge it
waits with (`Pending`) that the host chain has not changed since, so that the
charge is still fresh, and that the charges in the chain are numerically within
its plan with it. That a generation's plan is what it was when the charge was made
takes that the core chain only grows. For the cost the same argument (`Affordable`,
`BInv`) needs what a sum over a set is, which the model takes from a fold of the community
modules, that is from a recursive function on the subsets of what it sums: that there is
one on a finite set (`SumsExist`), that it does not depend on the set it is part of
(`SumsAgree`) nor on the order in which it picks elements (`SumTakes`), all by
counting up the size of the sets (`CountUp`, from the well-foundedness of the natural
numbers). So a cost depends only on the costs summed (`CostSame`), and a charge adds its
own (`CostAdds`).

The other three come from `GInv`, which says how each record of either chain came
about (`CoreRecordInOrder`, `HostRecordInOrder`), what stands behind the charge the
hook is about to write or has written (`CallOK`), behind every answer it gave
(`GrantGood`) and every gate that was passed (`GateClean`), and that each policy seen
replaced is on record for every lease there was (`ChangeRecorded`). A grant is decided by
`DeriveLease` and judged by `RevokedAt`, two readings of the core chain that the code
keeps apart: `LeaseBehind` derives from the first all that the second looks at, and
`Honoured` that reconciliation then authorizes the launch; between the two lies the
wait, during which both locks are held, and the launch itself, which the ledger dates
back to the last whole second (`WholeSeconds`). That a policy seen replaced is never
granted under again, though restored, is `NotSeen`: such a grant would find on record
what was seen.

A gate looks only at the latest reconciliation, its core head, ledger and policy.
That what was clean then is clean now is `GateChecked`. Charges, launches and journals
since then would be seen in the host chain or the ledger (`SameLaunches`). But the
reconciliation's own record may say that policies were replaced, which ends the
authority under them, the launches it just found authorized included: these had, the
reconciliation being clean, an end set by an earlier revocation, and a later one does
not move that (`MinBesideLater`, `StillAuthorized`, `StillClean`). That nothing was ever
found takes that a finding of an unauthorized launch blocks and cannot be overridden
(`FoundStands`).

**`CaptureProofs`**, for any paths, in any order, any commits and trees, any ignore
files, any repositories to start at, and any changes between any two reads:

- `TypesHold`: `Spec => []TypeOK`.
- `PacketsAreSnapshots`: `Spec => []PacketIsSnapshot`: a written packet's manifest
  tells of every path what the digests bind, and, unless something came back to what
  it had been, that is the repository of one moment.
- `ChecksSawReviewed`: `Spec => []CheckSawReviewed`: a credited check ran on exactly
  what the reviewed digest binds, whatever was swapped in and put back meanwhile.
- `QuietAccepted`: `Spec => []QuietRefused`: a repository left alone is refused only
  for cause.

That a manifest agrees with the digests beside it needs only what each pass has read
by which step (`Read`, `KeptReads`, `Tells`). That both are of one moment takes two
captures, neither of which is of any moment by itself. What a view says is taken apart
into the single things it found the repository to hold (`Witness`: HEAD, an index entry,
a file, a path that is not untracked), each of which the repository did hold at some time
(`Founds`). As long as nothing comes back to what it was, a thing that is gone stays
gone; so there is a repository `r` that holds all the first capture found, but for what
is gone and which the second therefore can no longer find (`Anchor`). The two captures being
equal, it has found them all, and `r` has everything either names. What is in no list is
the harder half: why the second capture lists a path (`Reasons`), and that a path
which it does not list is no difference of `r` either (`UnlistedSame`), which fails only
where an ignore file came to be during the command, the other part of `torn`.

The credit path has no such premise, as its two fingerprints contain the status-change
times, which nobody can set. If a place moved between its two readings the prints
differ (`Doomed`); else nothing that was fingerprinted moved since, the repository is
what it was when the capture began (`Still`), and what each pass sees of a repository
at rest is exactly what is there (`Exact`). `QuietAccepted` follows from the same
`Exact`, for a command during which nothing changes at all.

**`DriverProofs`**, for any unit, contract, seats, faults and their number:

- `TypesHold`: `Spec => []TypeOK`.
- `NothingIsRedone`: `Spec => []NothingRedone`: however often hmarun dies and is run
  again, it decides and dispatches the work once, takes each stage once and imports a
  review's findings once, and a verdict is final.
- `EndsAreReviewed`: `Spec => []EndsReviewed`: a run that ends PARTIAL ends on the
  content a reviewer approved and HMA credited.
- `DeadEndsAreFinal`: `Spec => DeadEndsStay`: out of the places where running `hmarun`
  again is said not to help, nothing that `hmarun` or its agents do leads. Budgets and
  leases are those of any plan.

`hmarun` keeps nothing between two steps, so all it must not repeat it has to find in
the chains. The stages are taken in one direction, hence each is entered once
(`Staged`); with one decision and one dispatch of work every packet is of the same
implementation (`Worked`), so the latest packet is the one that is found, and once it is
answered each later invocation finds it answered and asks for no other (`Answered`).
Credits name that answer and its content (`Filed`); no criterion is ever
waived (`Pending`), so an outcome that rests on a settled one rests on one passed, which
the gate lets through only with a credit of what the repository then holds. Each step is one of three kinds: it files nothing, files one host
record that meets `Files`, or core records that meet `CoreFiles`; so each of the
twenty is looked at once.

That a dead end is final is about what the chains, the ledger and the report can still
become. `Moved` says of each step what it may do to them, given what it read
(`Follows`, `CoreFollows`, `WorldMoved`; one `...Moves` lemma per action), and from
`Moved` alone the rest follows: that `EndInv` is kept, and that each of the five ways to
be at an end stays one (`UnaccountableKept`, `UnresolvedKept`, `UnanswerableKept`,
`UnusableKept`, `UncreditedKept`). `EndInv` is what these need to know. A launch belongs to
one packet's run and a run is launched once, so no packet to come accounts for it
(`LedgerApart`), and what an earlier packet accounts for is settled by the chain up to
it, the lease's end with it (`AccountsKept`). A report on a packet is written once, by the one reviewer that runs
for it, so a report that no receipt lists never comes to be the one that does
(`ReportsApart`). Content only grows, so content that moved on is not seen again
(`TargetsOld`). Findings that reconciliation made belong to nobody; all others are of a
review that was imported (`CoreFindings`, `Sourced`), and since a verdict is final there
is one such import: it finds nothing it could replace, nothing replaces what it
made, and nothing is ever waived (`NothingWaived`). One credit passes all the unit's criteria, so no second
one comes to complete what a first left unfinished (`PassedTogether`). And a run past
verification has no launch that is unaccounted for (`Verified`), and what a
human is asked to end a run on is no dead end (`EndIsLive`).

**`ChainLemmas`** has the facts about chains as sequences, their beginnings and
growth that these proofs use.

The proofs assume `StoreAssumption`, `HostStoreAssumption` (`None` is no process,
the bounds are numbers), `NoneAssumption` (`None` is no process, stage, outcome,
challenge or decision), `TypesAssumption` (an approval a human can give to a packet is
one of those enumerated, the chains picked up are of well-formed records, and a contract
has finitely many criteria), `SeedsAssumption`, `OpenAssumption`, `BoundSeedsAssumption`,
`ReviewedSeedsAssumption` and `StartsAssumption` (the chains a run is picked up at are
chains of records that have the properties, or are in the order the proofs find them
in), `InputsAssumption` (a report is a unit's; an override to BLOCK is refused by
`ValidateRecord`, so none is recorded), `ReviewAssumption`
(likewise, and risks and times are numbers) and `PlansAssumption` (allowances and costs are
numbers, no unit depends on itself, which `ValidatePlan` refuses, and nothing brings
the times along that HMA or agent-dispatch sets), `CaptureAssumption` (paths, trees and
repositories have the form they have, and an absent file's content hides nothing) and
`DriverAssumption` (a contract has a criterion, which `ValidateAcceptanceContract`
requires, and a unit lists finitely many; what stands for an absent part is no stage, outcome,
unit or report). TLC evaluates them on every run of
their modules.

Model-checked only: liveness (`CallsReturn`, `CommandsReturn`, `ReachesPartial`), which is outside what the
prover handles. Every other property of a passing run is the subject of a theorem.

## Where code and documentation disagree

1. `ProjectResolutionState` takes a non-snapshot findings list by reference and
   writes overrides into it, so a command that replays and then appends in one
   `Transact` rewrites a committed record; the chain then fails its digest check
   at the next load (`ChainAliased`).
2. `recoverPending` promotes the head anchor to the stream it read
   (`jsonl.go:142-143`), and that stream's rename may never have been synced: its
   writer was killed, or its `syncDir` failed. On a file system that may reorder
   directory changes a crash before the promotion is synced can take back the
   stream and keep the head; the pending anchor that is left is then discarded and
   the run is refused for good ("host head exists without record stream", or "host
   head mismatch"). The package comment says that an interrupted commit is
   "completed or discarded on the next load instead of leaving the run permanently
   unreadable" (`jsonl.go:6-8`; `RunStoreUnreadable`). The host store recovers in the
   same way and promises readability only where directory changes are ordered: its
   `Readable` says so in the second conjunct.
3. `Append` creates the store directory without syncing its parent, unlike the
   host store, so the first acknowledged record can be lost (`RunStoreFreshDir`).
4. A reviewer that dies without a receipt leaves a launch that the next
   reconciliation records as an unauthorized dispatch, for good; `hmarun` says
   that running it again mints a fresh packet and goes on (`DriverDeadEnd`).

Others, read in the code and not given a run of their own:

- A pilot records approvals without the contract check, although
  `model/types.go` says every later approval carries the accepted digest.
- HEAD can still move between `verifyRepositoryState` and the append it precedes.
- `repostate.State` says the digest vouches for `Staged`, because both come from one
  read of the index (`snapshot.go:31-33`, `:355-356`). The changed paths come from an
  earlier read (`raw.go:80`): when the index changes between the two, `Staged` is true
  beside a digest that covers no staged entry. The flag's one user, `credit`, compares
  it with a second capture's and the index's metadata too, so nothing comes of it.
- The second capture of `review-packet` can miss what happened before it: a file
  created after the first capture and staged during the second, after `diff-index`
  and before `ls-files --others`, is in neither list. The packet then binds an
  earlier moment than the second capture's, which is why `PacketIsSnapshot` speaks
  of some moment since the command began.
- `unignoredPaths` reads `.gitignore` whenever anything is untracked, and keeps it
  as an entry of the capture though it be neither tracked nor changed
  (`paths.go:284-297`); `snapshot.go:314-316` and `observe.go:112-114` say that what
  equals an entry is what the digest covers. A manifest can describe an ignore file that
  came and went and no digest covers: the exception in `ManifestBound`.
- A file the base tracks, HEAD does not, and a committed ignore file hides makes
  `review-packet` refuse any dirty target as changed, although nothing changed: the
  manifest lists the path, the capture never read it (`observe.go:91-94`).
- A packet for a run without a contract binds a single capture, which nothing
  compares with a second.
- `hmarun` refuses a commit out of the unit's files, or of a worker that failed,
  once; the next invocation finds HEAD past the base (`run.go:1371-1376`) and
  skips those checks, although `docs/mvp-usage-guide.md:122-126` says the run
  stops. `hma` itself never compares a change with `allowed_files`.
- A core append that a credit makes before it fails leaves the criterion passed;
  `stepCredit` then passes over it and PARTIAL is refused from then on. This and
  the driver's other dead ends (output that import refuses, a verdict against the
  work, a report that is gone, a finding, a launch nobody accounts for) are
  `DeadEnd`'s disjuncts.
- The import of an approving review raises a WAIVABLE finding for a plan budget the
  change exceeds, and a BLOCK for a check that would run a shell
  (`findings_import.go:115-132`). Verification then waits for a human to waive the one,
  or override the other, or for a review of other content; `hmarun` has no step for any
  of these, so it stops there each time it is run.
- A reviewer launched after the wall time of the unit's lease, with a packet that is
  still good, is imported, its findings too; the reconciliation that follows
  finds the launch outside its validity (`reconcile.go:319-364`) and blocks the unit.
- `run.go:1871-1877` says that agent-dispatch hashes the packet without its last
  newline, so that its digest "currently fails" to equal HMA's in production;
  `dispatch_test.go:111-117` says that agent-dispatch was since corrected. `Driver` follows
  the latter. Under the former every import would be refused, and every run end at
  output that nothing can replace (`Unanswerable`).
- `stepReconcile` passes over a reconciliation that is clean at the core head, and
  does not look at launches since; the gate does, and refuses.
- A crash of `hmarun` while its worker runs lets the next invocation start a second
  one; a commit of the first after the review wedges the run.
- `hma host attempt` may answer DO_NOT_LAUNCH about an attempt it has charged; a
  launch nonetheless is reconciled as authorized, since its window is on record
  (`attempt.go:399-411`).
- `RevokedAt` does not look at waivers, `DeriveLease` does: a launch after a bound
  waiver was withdrawn is not granted but reconciles as authorized.
- The checkpoint gate neither requires reconciled launches nor asks again whether
  the implementation reviewed is still the unit's.
- `retainArtifact` (`loop.go:350-384`) syncs the directory only after a link of its
  own: an artifact that another, killed process has just linked is relied on
  without a sync, and a machine crash may take it back where directory changes
  are unordered.
- A lease stays active when an unrelated unit takes the run back to PLANNING,
  although the unit's approved route is then void.

## Simplifications

- `HostReview`: one repository and one plan per contract, so a policy's digest is
  that of its contract; the launch gate is `HostLaunch`'s; a host's declared times
  are the clock; closures and waivers come with the state a run is picked up at.
- `HostLaunch`: one unit under work, whose routes stand for worker, model and
  effort; a controller's own list of pending attempts is external, and its
  refusal a stutter; policies and plans presented are any of those there are; an
  envelope and its run are one id; reviews' dispatches come with the start; the
  transition's other gates can only refuse more; waivers are granted and withdrawn,
  but the only findings are those of unauthorized launches, which nothing overrides.
- `Driver`: an `hma` command is one step, but for a credit; the worktree is
  clean; the packet's classification always suffices, as it is the final,
  high-risk one; time passes while `hmarun` waits or is not running; agent-dispatch's
  outcomes are external. What HMA measures of the change is left open, and
  settled at the one import. `hmarun` presents one plan and one policy, so
  a launch is bounded by its packet and its lease's wall time, and no policy change
  revokes it. What a report finds is advisory: where it cites a fact HMA
  established, HMA raises the finding itself. `stepCredit` looks at the first criterion
  the unit advances (its convention is one for each unit), `Credited` at all; a credit
  gives all of them one result.
- `Capture`: one directory, whole files; HEAD's commit, its trees and objects do not
  change; what is not a file or a link, and everything that only refuses, is left out.
  Changes that restore an earlier state without a trace, and an ignore file that
  comes to be, are excluded by the premise of `BoundAtOnce` (`torn`), not by the others.
- In the other modules a snapshot of the repository is one atomic read, which
  `Capture` justifies where two are compared.
- Everywhere: formats are not modelled, and a malformed input is a refusal
  without effect; digests do not collide.

## Not modelled

Field formats and JSON strictness (`model/validate.go`, the
formats in `model/contract.go`, `exact_json.go`: a refusal without effect, which `Abandon` or simply not acting
covers), the diff digest (a function of base and head), legacy finding owners and
legacy waiver records, how a report's wording is mapped to dispositions, the stub
dispatch mode, the dialogue and document building of `hmarun`. The evaluators
that only `hma evaluate` calls (invalidation, route policy, coherence and
attestation, validator contract) keep no state, and nothing relies on them. Nothing
here covers git itself, process execution, inventories or the host's configuration.

## Plan

1. A unit whose review is by hand under a contract, several units at once in
   `HostReview`, larger instances of `HostLaunch` (two units charged).
2. The evaluators of `hma evaluate`, against reference definitions.
