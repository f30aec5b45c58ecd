----------------------------- MODULE DriverProofs -----------------------------
(***************************************************************************)
(* Proofs about Driver, for any unit, contract, seats and faults.          *)
(*                                                                         *)
(* hmarun keeps no state of its own between two steps: what it must not    *)
(* repeat it reads in the chains.  So the argument is about what a chain   *)
(* holds once and for all.  The stages are taken in one direction, so the  *)
(* core chain moves into each once (Staged).  With one decision, to        *)
(* delegate, and one dispatch of the work, every packet is of the same     *)
(* implementation (Worked), so the latest packet is the one hmarun finds;  *)
(* once it is answered, every later invocation finds it answered           *)
(* (Answered), and asks for no other.  Credit, and the end, can then only  *)
(* be of that answer's content.                                            *)
(***************************************************************************)
EXTENDS Driver, ChainLemmas, FiniteSetTheorems

-----------------------------------------------------------------------------
(* The invariant.                                                          *)

IsAgent(c) ==
    \/ c = None
    \/ c = [role |-> c.role, attempt |-> c.attempt, run |-> c.run, did |-> c.did, exit |-> c.exit]

IsLaunch(l) ==
    l = [run |-> l.run, mode |-> l.mode, worker |-> l.worker, model |-> l.model,
         target |-> l.target, started |-> l.started, packet |-> l.packet, exit |-> l.exit,
         listed |-> l.listed]

Kinds == {"repository", "decision", "preflight", "dispatch", "review", "credit"}

AgentsTyped ==
    /\ agents = [child |-> agents.child, orphan |-> agents.orphan]
    /\ \A who \in {"child", "orphan"} :
          /\ IsAgent(agents[who])
          /\ agents[who] # None /\ agents[who].role = "reviewer" =>
                agents[who].run \in DOMAIN ledger

LedgerTyped ==
    \A run \in DOMAIN ledger : IsLaunch(ledger[run]) /\ ledger[run].packet \in Packets

Typed ==
    /\ Numbered(core) /\ Numbered(host)
    /\ at \in 0..Len(runSteps) /\ room \in 0..MaxFaults
    /\ AgentsTyped /\ LedgerTyped

\* What the records of the host chain say of one another.
Filed ==
    \A i \in DOMAIN host :
        LET r == host[i] IN
        /\ r.unit = Unit /\ r.core \in 1..Len(core) /\ r.kind \in Kinds
        /\ r.kind = "decision" => r.mode = "DELEGATE"
        /\ r.kind = "review" => r.dispatch \in Packets /\ r.dispatch < i
        /\ r.kind = "credit" =>
              /\ r.review \in Of(host, "review", Unit)
              /\ host[r.review].verdict = "APPROVE" /\ host[r.review].target = r.target

\* Every packet is of the implementation there is.
Worked ==
    \A i \in Packets :
        host[i].implementation # 0 /\ host[i].implementation = RequireImplementation(host, Unit)

\* A review answers the packet hmarun finds.
Answered == \A j \in Of(host, "review", Unit) : host[j].dispatch = findReviewDispatch

\* The host's part of NothingTwice.
HostOnce ==
    /\ AtMostOne(Of(host, "decision", Unit))
    /\ AtMostOne(Of(host, "repository", Unit))
    /\ AtMostOne(implementationContributions(host, Unit))

HostInv == Filed /\ Worked /\ Answered /\ HostOnce /\ VerdictFinal

\* The run never went back, and ends in the last stage it enters.
Staged ==
    /\ \A k \in Moves :
          /\ core[k].approval.to \in Stages
          /\ stageOrder(core[k].approval.to) <= stageOrder(CurrentStage(core))
    /\ Done => CurrentStage(core) = "INDEPENDENT_VALIDATION"

\* The first criterion snapshot has the contract's criteria, and none waives one.
Pending ==
    \A k \in DOMAIN core :
        /\ core[k].kind = "criterion" /\ core[k].stage = "ACCEPTANCE_CRITERIA" =>
              core[k].criteria # NoMap
        /\ \A id \in DOMAIN core[k].criteria : core[k].criteria[id] # "WAIVED"

\* The core's part of NothingTwice.
CoreOnce ==
    /\ \A to \in Stages : AtMostOne({k \in Moves : core[k].approval.to = to})
    /\ AtMostOne({k \in DOMAIN core :
                    core[k].kind = "criterion" /\ core[k].stage = "ACCEPTANCE_CRITERIA"})
    /\ \A j : AtMostOne({k \in DOMAIN core : core[k].snapshot /\ core[k].source = j})

CoreInv == Staged /\ Pending /\ CoreOnce

DriverInv == Typed /\ HostInv /\ CoreInv /\ EndsReviewed

-----------------------------------------------------------------------------
(* Chains.                                                                 *)

LEMMA AppendGrows ==
    ASSUME NEW c, NEW r, Numbered(c)
    PROVE  /\ Grows(c, Append(c, r)) /\ Len(Append(c, r)) = Len(c) + 1
           /\ Append(c, r)[Len(c) + 1] = r
<1> DEFINE S == {c[i] : i \in DOMAIN c} \cup {r}
<1>1. c \in Seq(S) /\ r \in S
  <2>1. c \in Seq({c[i] : i \in DOMAIN c})
    BY DEF Numbered
  <2> QED BY <2>1
<1>2. Append(c, r) = c \o <<r>>
  <2> HIDE DEF S
  <2> QED BY <1>1
<1> QED BY <1>2, GrowsByOne

\* The records of a kind, once one more is filed.
LEMMA OfAppend ==
    ASSUME NEW h, NEW r, Numbered(h), NEW kind, NEW unit
    PROVE  /\ Of(h, kind, unit) \subseteq 1..Len(h) /\ Len(h) \in Nat
           /\ Of(Append(h, r), kind, unit) =
                Of(h, kind, unit) \cup
                (IF r.kind = kind /\ r.unit = unit THEN {Len(h) + 1} ELSE {})
<1>1. /\ DOMAIN h = 1..Len(h) /\ Len(h) \in Nat
      /\ DOMAIN Append(h, r) = 1..(Len(h) + 1) /\ Append(h, r)[Len(h) + 1] = r
      /\ \A i \in 1..Len(h) : Append(h, r)[i] = h[i]
  BY ChainFacts, Appended
<1> QED BY <1>1 DEF Of

LEMMA LatestOf ==
    ASSUME NEW h, Numbered(h), NEW S, S \subseteq 1..Len(h)
    PROVE  /\ S = {} => Latest(S) = 0
           /\ S # {} => Latest(S) \in S /\ \A j \in S : j <= Latest(S)
BY LastOf DEF Latest

\* Only a decision or a dispatch of work changes what the implementation is.
LEMMA SameWork ==
    ASSUME NEW h, NEW r, Numbered(h), NEW unit, r.kind # "decision", ~Implements(r)
    PROVE  RequireImplementation(Append(h, r), unit) = RequireImplementation(h, unit)
<1> DEFINE g == Append(h, r)
           d == latestDecision(h, unit)
           W(f) == {i \in Of(f, "dispatch", unit) : i > d /\ Implements(f[i]) /\ sameRoute(f[i], f[d])}
<1>1. /\ DOMAIN h = 1..Len(h) /\ Len(h) \in Nat /\ g[Len(h) + 1] = r
      /\ \A i \in 1..Len(h) : g[i] = h[i]
  BY ChainFacts, Appended
<1>2. latestDecision(g, unit) = d
  <2>1. Of(g, "decision", unit) =
            Of(h, "decision", unit) \cup
            (IF r.kind = "decision" /\ r.unit = unit THEN {Len(h) + 1} ELSE {})
    BY OfAppend
  <2> HIDE DEF g
  <2>2. Of(g, "decision", unit) = Of(h, "decision", unit)
    BY <2>1
  <2> QED BY <2>2 DEF latestDecision
<1>3. CASE d = 0
  BY <1>2, <1>3 DEF RequireImplementation
<1>4. CASE d # 0
  <2>1. d \in 1..Len(h)
    <3>1. Of(h, "decision", unit) \subseteq 1..Len(h)
      BY OfAppend
    <3> QED BY <1>4, <3>1, LatestOf DEF latestDecision
  <2>2. g[d] = h[d]
    BY <1>1, <2>1
  <2>3. W(g) = W(h)
    <3>1. Of(h, "dispatch", unit) \subseteq 1..Len(h)
      BY OfAppend
    <3>2. Of(g, "dispatch", unit) \ {Len(h) + 1} = Of(h, "dispatch", unit)
      <4>1. Len(h) + 1 \notin 1..Len(h)
        BY <1>1
      <4> QED BY <3>1, <4>1, OfAppend
    <3>3. \A i \in Of(h, "dispatch", unit) : g[i] = h[i]
      BY <1>1, <3>1
    <3> HIDE DEF g, d
    <3> QED BY <1>1, <2>2, <3>2, <3>3
  <2> HIDE DEF W, g
  <2>4. RequireImplementation(g, unit) =
            IF g[d].mode = "DIRECT" THEN d ELSE Latest(W(g))
    BY <1>2, <1>4 DEF RequireImplementation, W
  <2>5. RequireImplementation(h, unit) =
            IF h[d].mode = "DIRECT" THEN d ELSE Latest(W(h))
    BY <1>4 DEF RequireImplementation, W
  <2>6. RequireImplementation(g, unit) = RequireImplementation(h, unit)
    BY <2>2, <2>3, <2>4, <2>5
  <2> QED BY <2>6 DEF g
<1> QED BY <1>3, <1>4

-----------------------------------------------------------------------------
(* Filing a host record.                                                   *)

\* What hmarun has read in the host chain when it files r there.
Files(r) ==
    /\ r.unit = Unit /\ r.kind \in Kinds
    /\ r.kind = "decision" => r.mode = "DELEGATE" /\ Of(host, "decision", Unit) = {}
    /\ r.kind = "repository" => ~RunRepository(host)
    /\ Implements(r) => implementationContributions(host, Unit) = {}
    /\ HasPacket(r) =>
          /\ r.implementation # 0 /\ r.implementation = RequireImplementation(host, Unit)
          /\ Of(host, "review", Unit) = {}
    /\ r.kind = "review" =>
          /\ r.dispatch \in Packets /\ r.dispatch = findReviewDispatch
          /\ Of(host, "review", Unit) = {}
    /\ r.kind = "credit" =>
          /\ r.review \in Of(host, "review", Unit)
          /\ host[r.review].verdict = "APPROVE" /\ host[r.review].target = r.target

\* A record of the implementation is of work decided and dispatched.
LEMMA WorkThere ==
    ASSUME Numbered(host), Filed, RequireImplementation(host, Unit) # 0
    PROVE  Of(host, "decision", Unit) # {} /\ implementationContributions(host, Unit) # {}
<1> DEFINE d == latestDecision(host, Unit)
           W == {i \in Of(host, "dispatch", Unit) :
                    i > d /\ Implements(host[i]) /\ sameRoute(host[i], host[d])}
<1>1. d # 0
  BY DEF RequireImplementation
<1>2. Of(host, "decision", Unit) \subseteq 1..Len(host)
  BY OfAppend
<1>3. Of(host, "decision", Unit) # {} /\ d \in Of(host, "decision", Unit)
  BY <1>1, <1>2, LatestOf DEF latestDecision
<1>4. host[d].mode # "DIRECT"
  BY <1>3 DEF Filed, Of
<1>5. RequireImplementation(host, Unit) = Latest(W)
  BY <1>1, <1>4 DEF RequireImplementation
<1>6. W # {}
  <2> HIDE DEF W
  <2> QED BY <1>5 DEF Latest
<1> QED BY <1>3, <1>6 DEF implementationContributions

LEMMA HostFiles ==
    ASSUME Numbered(host), HostInv, Len(core) \in Nat, Len(core') \in Nat, Len(core) <= Len(core'),
           NEW r, Files(r), host' = Append(host, r), r.core \in 1..Len(core')
    PROVE  /\ Numbered(host') /\ HostInv' /\ Packets \subseteq Packets'
           /\ \A i \in DOMAIN host : i \in DOMAIN host' /\ host'[i] = host[i]
<1> DEFINE n == Len(host) + 1
<1>1. /\ Numbered(host') /\ Len(host) \in Nat
      /\ DOMAIN host = 1..Len(host) /\ DOMAIN host' = 1..n
      /\ \A i \in 1..Len(host) : host'[i] = host[i]
      /\ host'[n] = r /\ n \notin 1..Len(host)
  BY Appended, ChainFacts
<1>2. \A i \in DOMAIN host : i \in DOMAIN host' /\ host'[i] = host[i]
  BY <1>1
<1>3. Packets \subseteq 1..Len(host) /\ Packets' = Packets \cup (IF HasPacket(r) THEN {n} ELSE {})
  BY <1>1 DEF Packets
<1>4. \A kind : /\ Of(host, kind, Unit) \subseteq 1..Len(host)
                /\ Of(host', kind, Unit) =
                     Of(host, kind, Unit) \cup (IF r.kind = kind THEN {n} ELSE {})
  BY OfAppend DEF Files
<1>5. Packets # {} => r.kind # "decision" /\ ~Implements(r)
  BY WorkThere DEF Files, HostInv, Worked
<1>6. HasPacket(r) => r.kind # "decision" /\ ~Implements(r)
  BY DEF HasPacket, Reviews, Implements
<1>7. r.kind # "decision" /\ ~Implements(r) =>
          RequireImplementation(host', Unit) = RequireImplementation(host, Unit)
  BY SameWork
<1>8. Of(host, "review", Unit) # {} => Packets # {} /\ ~HasPacket(r) /\ r.kind # "review"
  BY DEF HostInv, Filed, Of, Files
<1>9. Filed'
  <2> SUFFICES ASSUME NEW i \in DOMAIN host'
               PROVE  LET f == host'[i] IN
                      /\ f.unit = Unit /\ f.core \in 1..Len(core') /\ f.kind \in Kinds
                      /\ f.kind = "decision" => f.mode = "DELEGATE"
                      /\ f.kind = "review" => f.dispatch \in Packets' /\ f.dispatch < i
                      /\ f.kind = "credit" =>
                            /\ f.review \in Of(host', "review", Unit)
                            /\ host'[f.review].verdict = "APPROVE"
                            /\ host'[f.review].target = f.target
    BY DEF Filed
  <2>0. Of(host, "review", Unit) \subseteq Of(host', "review", Unit)
    BY <1>4
  <2>1. CASE i \in 1..Len(host)
    <3>1. host'[i] = host[i] /\ i \in DOMAIN host
      BY <1>1, <2>1
    <3>2. host[i].kind = "credit" =>
              /\ host[i].review \in Of(host, "review", Unit)
              /\ host'[host[i].review] = host[host[i].review]
      BY <1>1, <1>4, <3>1 DEF HostInv, Filed
    <3>3. host[i].core \in 1..Len(core')
      BY <3>1 DEF HostInv, Filed
    <3> QED BY <1>3, <2>0, <3>1, <3>2, <3>3 DEF HostInv, Filed
  <2>2. CASE i = n
    <3>1. r.kind = "credit" => host'[r.review] = host[r.review]
      BY <1>1, <1>4 DEF Files
    <3>2. r.kind = "review" => r.dispatch < n
      <4>1. \A k \in Packets : k < n
        <5>1. \A k \in 1..Len(host) : k < n
          BY <1>1
        <5> QED BY <1>3, <5>1
      <4> QED BY <4>1 DEF Files
    <3>3. Packets \subseteq Packets'
      BY <1>3
    <3>4. host'[i] = r
      BY <1>1, <2>2
    <3>5. /\ r.unit = Unit /\ r.kind \in Kinds
          /\ r.kind = "decision" => r.mode = "DELEGATE"
      BY DEF Files
    <3>6. r.kind = "review" => r.dispatch \in Packets' /\ r.dispatch < i
      BY <2>2, <3>2, <3>3 DEF Files
    <3>7. r.kind = "credit" =>
              /\ r.review \in Of(host', "review", Unit)
              /\ host'[r.review].verdict = "APPROVE"
              /\ host'[r.review].target = r.target
      BY <2>0, <3>1 DEF Files
    <3>8. r.core \in 1..Len(core')
      OBVIOUS
    <3> HIDE DEF n
    <3> QED BY <3>4, <3>5, <3>6, <3>7, <3>8, Zenon
  <2>3. i \in 1..Len(host) \/ i = n
    BY <1>1
  <2> HIDE DEF n
  <2> QED BY <2>1, <2>2, <2>3, Zenon
<1>10. Worked'
  <2> SUFFICES ASSUME NEW i \in Packets'
               PROVE  /\ host'[i].implementation # 0
                      /\ host'[i].implementation = RequireImplementation(host', Unit)
    BY DEF Worked
  <2>1. RequireImplementation(host', Unit) = RequireImplementation(host, Unit)
    BY <1>3, <1>5, <1>6, <1>7
  <2>2. CASE i \in Packets
    BY <1>1, <1>3, <2>1, <2>2 DEF HostInv, Worked
  <2>3. CASE i = n /\ HasPacket(r)
    BY <1>1, <2>1, <2>3 DEF Files
  <2> QED BY <1>3, <2>2, <2>3
<1>11. ASSUME r.kind # "decision", ~Implements(r), ~HasPacket(r)
       PROVE  findReviewDispatch' = findReviewDispatch
  <2>1. RequireImplementation(host', Unit) = RequireImplementation(host, Unit)
    BY <1>7, <1>11
  <2>2. Packets' = Packets /\ \A i \in Packets : host'[i] = host[i]
    BY <1>1, <1>3, <1>11
  <2>3. {i \in Packets' : host'[i].implementation = RequireImplementation(host', Unit)} =
        {i \in Packets : host[i].implementation = RequireImplementation(host, Unit)}
    BY <2>1, <2>2
  <2> QED BY <2>3 DEF findReviewDispatch
<1>12. Answered'
  <2> SUFFICES ASSUME NEW j \in Of(host', "review", Unit)
               PROVE  host'[j].dispatch = findReviewDispatch'
    BY DEF Answered
  <2>1. CASE j \in Of(host, "review", Unit)
    <3>1. findReviewDispatch' = findReviewDispatch
      BY <1>5, <1>8, <1>11, <2>1
    <3>2. host'[j] = host[j]
      BY <1>1, <1>4, <2>1
    <3> QED BY <2>1, <3>1, <3>2 DEF HostInv, Answered
  <2>2. CASE j = n /\ r.kind = "review"
    <3>1. findReviewDispatch' = findReviewDispatch
      BY <1>11, <2>2 DEF Implements, HasPacket, Reviews
    <3> QED BY <1>1, <2>2, <3>1 DEF Files
  <2> QED BY <1>4, <2>1, <2>2
<1>13. HostOnce'
  <2>1. AtMostOne(Of(host', "decision", Unit))
    BY <1>4 DEF HostInv, HostOnce, AtMostOne, Files
  <2>2. AtMostOne(Of(host', "repository", Unit))
    <3>1. r.kind = "repository" => Of(host, "repository", Unit) = {}
      BY DEF Files, RunRepository, Of
    <3> QED BY <1>4, <3>1 DEF HostInv, HostOnce, AtMostOne
  <2>3. implementationContributions(host', Unit) =
            implementationContributions(host, Unit) \cup (IF Implements(r) THEN {n} ELSE {})
    <3> DEFINE A(h) == {i \in Of(h, "dispatch", Unit) : Implements(h[i])}
               B(h) == {i \in Of(h, "decision", Unit) : h[i].mode = "DIRECT"}
    <3>1. \A i \in 1..Len(host) : host'[i] = host[i]
      BY <1>1
    <3>2. A(host') = A(host) \cup (IF Implements(r) THEN {n} ELSE {})
      <4>1. Implements(r) => r.kind = "dispatch"
        BY DEF Implements
      <4>2. \A i \in Of(host, "dispatch", Unit) : host'[i] = host[i]
        BY <1>4, <3>1
      <4> QED BY <1>1, <1>4, <4>1, <4>2
    <3>3. B(host') = B(host)
      <4>1. r.kind = "decision" => r.mode # "DIRECT"
        BY DEF Files
      <4>2. \A i \in Of(host, "decision", Unit) : host'[i] = host[i]
        BY <1>4, <3>1
      <4> QED BY <1>1, <1>4, <4>1, <4>2
    <3> QED BY <3>2, <3>3 DEF implementationContributions
  <2>4. AtMostOne(implementationContributions(host', Unit))
    BY <2>3 DEF HostInv, HostOnce, AtMostOne, Files
  <2> QED BY <2>1, <2>2, <2>4 DEF HostOnce
<1>14. VerdictFinal'
  <2> SUFFICES ASSUME NEW j \in Of(host', "review", Unit),
                      NEW i \in Packets' \cup Of(host', "review", Unit)
               PROVE  i <= j
    BY DEF VerdictFinal
  <2>1. CASE j \in Of(host, "review", Unit)
    <3>1. i \in Packets \cup Of(host, "review", Unit)
      BY <1>3, <1>4, <1>8, <2>1
    <3> QED BY <2>1, <3>1 DEF HostInv, VerdictFinal
  <2>2. CASE j = n
    BY <1>1, <1>3, <1>4, <2>2
  <2> QED BY <1>4, <2>1, <2>2
<1> QED BY <1>1, <1>2, <1>3, <1>9, <1>10, <1>12, <1>13, <1>14 DEF HostInv

-----------------------------------------------------------------------------
(* Growing the core chain.                                                 *)

LEMMA StageOrders ==
    /\ stageOrder("GROUNDING") = 1 /\ stageOrder("ACCEPTANCE_CRITERIA") = 2
    /\ stageOrder("PLANNING") = 3 /\ stageOrder("ROUTE_SELECTION") = 4
    /\ stageOrder("IMPLEMENTATION_AUTHORIZATION") = 5
    /\ stageOrder("IMPLEMENTATION_REVIEW") = 6 /\ stageOrder("VERIFICATION") = 7
    /\ stageOrder("INDEPENDENT_VALIDATION") = 8 /\ stageOrder("RELEASE_AND_CLOSURE") = 9
<1> DEFINE I(s) == {i \in 1..Len(Order) : Order[i] = s}
<1>1. /\ I("GROUNDING") = {1} /\ I("ACCEPTANCE_CRITERIA") = {2} /\ I("PLANNING") = {3}
      /\ I("ROUTE_SELECTION") = {4} /\ I("IMPLEMENTATION_AUTHORIZATION") = {5}
      /\ I("IMPLEMENTATION_REVIEW") = {6} /\ I("VERIFICATION") = {7}
      /\ I("INDEPENDENT_VALIDATION") = {8} /\ I("RELEASE_AND_CLOSURE") = {9}
  BY DEF Order
<1>2. \A s : stageOrder(s) = IF I(s) # {} THEN Min(I(s)) ELSE 0
  BY DEF stageOrder, SelectInSeq
<1>3. \A n \in 1..9 : Min({n}) = n
  BY DEF Min
<1> HIDE DEF I
<1> QED BY <1>1, <1>2, <1>3

LEMMA StageNumbers == \A s \in Stages : stageOrder(s) \in 1..9
BY StageOrders DEF Stages

\* The current stage is the one the last move enters.
LEMMA StageFacts ==
    ASSUME NEW c, Numbered(c)
    PROVE  \/ /\ \A k \in 1..Len(c) : ~ApprovedMove(c[k])
              /\ CurrentStage(c) = "GROUNDING"
           \/ \E k \in 1..Len(c) :
                 /\ ApprovedMove(c[k]) /\ CurrentStage(c) = c[k].approval.to
                 /\ \A j \in 1..Len(c) : ApprovedMove(c[j]) => j <= k
<1> DEFINE I == {k \in 1..Len(c) : ApprovedMove(c[k])}
           i == IF I # {} THEN Max(I) ELSE 0
<1>1. CurrentStage(c) = IF i = 0 THEN "GROUNDING" ELSE c[i].approval.to
  BY DEF CurrentStage, SelectLastInSeq
<1>2. CASE I = {}
  BY <1>1, <1>2
<1>3. CASE I # {}
  <2>1. i \in I /\ \A j \in I : j <= i
    BY <1>3, LastOf
  <2>2. i # 0
    BY <2>1, ChainFacts
  <2>3. CurrentStage(c) = c[i].approval.to
    BY <1>1, <2>2
  <2> QED BY <2>1, <2>3
<1> QED BY <1>2, <1>3

LEMMA StageStays ==
    ASSUME NEW c, NEW d, Numbered(c), Grows(c, d),
           \A k \in Len(c) + 1..Len(d) : ~ApprovedMove(d[k])
    PROVE  CurrentStage(d) = CurrentStage(c)
<1>1. /\ Len(c) \in Nat /\ Len(d) \in Nat /\ Len(c) <= Len(d)
      /\ \A k \in 1..Len(c) : d[k] = c[k]
  BY GrowsFacts
<1> DEFINE I(e) == {k \in 1..Len(e) : ApprovedMove(e[k])}
<1>2. I(d) = I(c)
  BY <1>1
<1>3. I(c) # {} => Max(I(c)) \in I(c)
  <2> HIDE DEF I
  <2> SUFFICES ASSUME I(c) # {} PROVE Max(I(c)) \in I(c)
    OBVIOUS
  <2>1. I(c) \subseteq 1..Len(c)
    BY DEF I
  <2> QED BY <2>1, LastOf
<1>4. I(c) # {} => d[Max(I(c))] = c[Max(I(c))]
  BY <1>1, <1>3
<1>5. SelectLastInSeq(d, ApprovedMove) = SelectLastInSeq(c, ApprovedMove)
  BY <1>2 DEF SelectLastInSeq
<1>6. SelectLastInSeq(c, ApprovedMove) = IF I(c) # {} THEN Max(I(c)) ELSE 0
  BY DEF SelectLastInSeq
<1> HIDE DEF I
<1> QED BY <1>4, <1>5, <1>6 DEF CurrentStage

LEMMA StageMoves ==
    ASSUME NEW c, NEW d, Numbered(c), Grows(c, d), Len(d) = Len(c) + 1,
           ApprovedMove(d[Len(d)])
    PROVE  CurrentStage(d) = d[Len(d)].approval.to
<1>1. Numbered(d) /\ Len(d) \in Nat /\ Len(d) \in 1..Len(d)
  BY GrowsFacts
<1>2. PICK k \in 1..Len(d) :
          /\ ApprovedMove(d[k]) /\ CurrentStage(d) = d[k].approval.to
          /\ \A j \in 1..Len(d) : ApprovedMove(d[j]) => j <= k
  BY <1>1, StageFacts
<1>3. k = Len(d)
  BY <1>1, <1>2
<1> QED BY <1>2, <1>3

\* The criteria are some record's, and there are none only if no record has any.
LEMMA CriteriaFacts ==
    ASSUME NEW c, Numbered(c)
    PROVE  /\ \/ Criteria(c) = NoMap
              \/ \E k \in 1..Len(c) : Criteria(c) = c[k].criteria
           /\ Criteria(c) = NoMap => \A k \in 1..Len(c) : c[k].criteria = NoMap
<1> DEFINE I == {k \in 1..Len(c) : c[k].criteria # NoMap}
           i == IF I # {} THEN Max(I) ELSE 0
<1>1. Criteria(c) = IF i = 0 THEN NoMap ELSE c[i].criteria
  BY DEF Criteria, SelectLastInSeq
<1>2. CASE I = {}
  BY <1>1, <1>2
<1>3. CASE I # {}
  <2>1. i \in I
    BY <1>3, LastOf
  <2>2. i # 0
    BY <2>1, ChainFacts
  <2> QED BY <1>1, <2>1, <2>2
<1> QED BY <1>2, <1>3

\* What hmarun has read in the core chain when it files r there, alone (only) or
\* with others.
CoreFiles(r, only) ==
    /\ ApprovedMove(r) =>
          /\ only /\ ~Done
          /\ r.approval.to \in Stages /\ stageOrder(CurrentStage(core)) < stageOrder(r.approval.to)
    /\ r.kind = "outcome" => only /\ CurrentStage(core) = "INDEPENDENT_VALIDATION"
    /\ r.kind = "criterion" /\ r.stage = "ACCEPTANCE_CRITERIA" =>
          only /\ Criteria(core) = NoMap /\ r.criteria # NoMap
    /\ \A id \in DOMAIN r.criteria : r.criteria[id] # "WAIVED"
    /\ r.snapshot => only /\ ~\E k \in DOMAIN core : core[k].snapshot /\ core[k].source = r.source

LEMMA CoreGrows ==
    ASSUME Numbered(core), CoreInv, Grows(core, core'),
           \A k \in Len(core) + 1..Len(core') : CoreFiles(core'[k], Len(core') = Len(core) + 1)
    PROVE  CoreInv'
<1> DEFINE L == Len(core)
           M == Len(core')
           New == L + 1..M
           only == M = L + 1
<1>1. /\ Numbered(core') /\ L \in Nat /\ M \in Nat /\ L <= M
      /\ DOMAIN core = 1..L /\ DOMAIN core' = 1..M /\ \A k \in 1..L : core'[k] = core[k]
  BY GrowsFacts
<1>2. /\ 1..M = 1..L \cup New /\ \A k \in New : k \notin 1..L /\ k > L
      /\ only => New = {M}
  <2> HIDE DEF L, M
  <2>1. L \in Nat /\ M \in Nat /\ L <= M
    BY <1>1
  <2>2. \A k : k \in 1..M <=> k \in 1..L \/ k \in New
    BY <2>1
  <2>3. \A k \in New : k \notin 1..L /\ k > L
    BY <2>1
  <2>4. only => \A k : k \in New <=> k = M
    BY <2>1
  <2> QED BY <2>2, <2>3, <2>4
<1>3. \A k \in New : CoreFiles(core'[k], only)
  OBVIOUS
<1> HIDE DEF New, L, M, only
<1>4. Moves \subseteq 1..L /\ Moves' \subseteq 1..M
  BY <1>1 DEF Moves
<1>5. CurrentStage(core) \in Stages
  <2>1. CASE \A k \in 1..L : ~ApprovedMove(core[k])
    <3>1. ~\E k \in 1..L : ApprovedMove(core[k])
      BY <2>1
    <3> QED BY <3>1, StageFacts DEF L, Stages
  <2>2. CASE \E k \in 1..L : ApprovedMove(core[k])
    <3>1. PICK k \in 1..L : ApprovedMove(core[k]) /\ CurrentStage(core) = core[k].approval.to
      BY <2>2, StageFacts DEF L
    <3> QED BY <1>1, <3>1 DEF CoreInv, Staged, Moves
  <2> QED BY <2>1, <2>2
<1>6. ASSUME \A k \in New : ~ApprovedMove(core'[k])
      PROVE  CurrentStage(core') = CurrentStage(core) /\ Moves' = Moves
  <2>1. CurrentStage(core') = CurrentStage(core)
    BY <1>6, StageStays DEF New, L, M
  <2>2. Moves' = Moves
    BY <1>1, <1>2, <1>6 DEF Moves
  <2> QED BY <2>1, <2>2
<1>7. ASSUME NEW k \in New, ApprovedMove(core'[k])
      PROVE  /\ k = M /\ ~Done /\ Moves' = Moves \cup {M} /\ M \notin Moves
             /\ CurrentStage(core') = core'[M].approval.to
             /\ core'[M].approval.to \in Stages /\ CurrentStage(core') \in Stages
             /\ stageOrder(CurrentStage(core)) < stageOrder(CurrentStage(core'))
  <2>1. /\ only /\ ~Done /\ core'[k].approval.to \in Stages
        /\ stageOrder(CurrentStage(core)) < stageOrder(core'[k].approval.to)
    BY <1>3, <1>7 DEF CoreFiles
  <2>2. New = {M} /\ k = M
    BY <1>2, <2>1
  <2>3. CurrentStage(core') = core'[M].approval.to
    BY <1>7, <2>1, <2>2, StageMoves DEF L, M, only
  <2>4. Moves' = Moves \cup {M} /\ M \notin Moves
    BY <1>1, <1>2, <1>4, <1>7, <2>2 DEF Moves
  <2> QED BY <2>1, <2>2, <2>3, <2>4
<1>8. /\ CurrentStage(core') \in Stages
      /\ stageOrder(CurrentStage(core)) <= stageOrder(CurrentStage(core'))
  <2>1. CASE \A k \in New : ~ApprovedMove(core'[k])
    BY <1>5, <1>6, <2>1, StageNumbers
  <2>2. CASE ~\A k \in New : ~ApprovedMove(core'[k])
    BY <1>5, <1>7, <2>2, StageNumbers
  <2> QED BY <2>1, <2>2
<1>9. /\ stageOrder(CurrentStage(core)) \in 1..9 /\ stageOrder(CurrentStage(core')) \in 1..9
      /\ \A k \in Moves : stageOrder(core[k].approval.to) \in 1..9
  BY <1>5, <1>8, StageNumbers DEF CoreInv, Staged
<1>10. Staged'
  <2>1. ASSUME NEW k \in Moves'
        PROVE  /\ core'[k].approval.to \in Stages
               /\ stageOrder(core'[k].approval.to) <= stageOrder(CurrentStage(core'))
    <3>1. CASE k \in Moves
      <4>1. core'[k] = core[k]
        BY <1>1, <1>4, <3>1
      <4>2. /\ core[k].approval.to \in Stages
            /\ stageOrder(core[k].approval.to) <= stageOrder(CurrentStage(core))
        BY <3>1 DEF CoreInv, Staged
      <4>3. stageOrder(core[k].approval.to) <= stageOrder(CurrentStage(core'))
        BY <1>8, <1>9, <3>1, <4>2
      <4> QED BY <4>1, <4>2, <4>3
    <3>2. CASE k \notin Moves
      <4>1. k \in New /\ ApprovedMove(core'[k])
        BY <1>1, <1>2, <2>1, <3>2 DEF Moves
      <4> QED BY <1>7, <1>9, <4>1
    <3> QED BY <3>1, <3>2
  <2>2. ASSUME Done' PROVE CurrentStage(core') = "INDEPENDENT_VALIDATION"
    <3>1. PICK k \in 1..M : core'[k].kind = "outcome"
      BY <1>1, <2>2 DEF Done, Terminal
    <3>2. CASE k \in 1..L
      <4>1. Done
        BY <1>1, <3>1, <3>2 DEF Done, Terminal
      <4>2. CurrentStage(core') = CurrentStage(core)
        BY <1>6, <1>7, <4>1
      <4> QED BY <4>1, <4>2 DEF CoreInv, Staged
    <3>3. CASE k \in New
      <4>1. only /\ CurrentStage(core) = "INDEPENDENT_VALIDATION"
        BY <1>3, <3>1, <3>3 DEF CoreFiles
      <4>2. \A j \in New : ~ApprovedMove(core'[j])
        BY <1>2, <3>1, <3>3, <4>1 DEF ApprovedMove
      <4> QED BY <1>6, <4>1, <4>2
    <3> QED BY <1>2, <3>2, <3>3
  <2> QED BY <2>1, <2>2 DEF Staged
<1>11. Pending'
  <2> SUFFICES ASSUME NEW k \in 1..M
               PROVE  /\ core'[k].kind = "criterion" /\ core'[k].stage = "ACCEPTANCE_CRITERIA" =>
                            core'[k].criteria # NoMap
                      /\ \A id \in DOMAIN core'[k].criteria : core'[k].criteria[id] # "WAIVED"
    BY <1>1 DEF Pending
  <2>1. CASE k \in 1..L
    BY <1>1, <2>1 DEF CoreInv, Pending
  <2>2. CASE k \in New
    BY <1>3, <2>2 DEF CoreFiles
  <2> QED BY <1>2, <2>1, <2>2
<1>12. CoreOnce'
  <2>1. ASSUME NEW to \in Stages, NEW i \in Moves', NEW j \in Moves',
               core'[i].approval.to = to, core'[j].approval.to = to
        PROVE  i = j
    <3>1. ASSUME NEW a \in Moves, NEW b \in Moves', core'[a].approval.to = to,
                 core'[b].approval.to = to
          PROVE  a = b
      <4>1. core'[a] = core[a] /\ stageOrder(to) <= stageOrder(CurrentStage(core))
        BY <1>1, <1>4, <3>1 DEF CoreInv, Staged
      <4>2. CASE b \in Moves
        <5>1. core'[b] = core[b]
          BY <1>1, <1>4, <4>2
        <5> QED BY <2>1, <3>1, <4>1, <4>2, <5>1 DEF CoreInv, CoreOnce, AtMostOne
      <4>3. CASE b \notin Moves
        <5>1. b \in New /\ ApprovedMove(core'[b])
          BY <1>1, <1>2, <3>1, <4>3 DEF Moves
        <5>2. stageOrder(CurrentStage(core)) < stageOrder(to)
          BY <1>7, <3>1, <5>1
        <5>3. stageOrder(to) \in 1..9
          BY StageNumbers
        <5> QED BY <1>9, <4>1, <5>2, <5>3
      <4> QED BY <4>2, <4>3
    <3>2. CASE i \notin Moves /\ j \notin Moves
      <4>1. i \in New /\ ApprovedMove(core'[i]) /\ j \in New /\ ApprovedMove(core'[j])
        BY <1>1, <1>2, <2>1, <3>2 DEF Moves
      <4> QED BY <1>7, <4>1
    <3> QED BY <2>1, <3>1, <3>2
  <2>2. ASSUME NEW i \in 1..M, NEW j \in 1..M,
               core'[i].kind = "criterion" /\ core'[i].stage = "ACCEPTANCE_CRITERIA",
               core'[j].kind = "criterion" /\ core'[j].stage = "ACCEPTANCE_CRITERIA"
        PROVE  i = j
    <3>1. ASSUME NEW a \in 1..L, NEW b \in New,
                 core'[a].kind = "criterion" /\ core'[a].stage = "ACCEPTANCE_CRITERIA",
                 core'[b].kind = "criterion" /\ core'[b].stage = "ACCEPTANCE_CRITERIA"
          PROVE  FALSE
      <4>1. core'[a] = core[a] /\ core[a].criteria # NoMap
        BY <1>1, <3>1 DEF CoreInv, Pending
      <4>2. Criteria(core) = NoMap
        BY <1>3, <3>1 DEF CoreFiles
      <4> QED BY <3>1, <4>1, <4>2, CriteriaFacts DEF L
    <3>2. CASE i \in 1..L /\ j \in 1..L
      BY <1>1, <2>2, <3>2 DEF CoreInv, CoreOnce, AtMostOne
    <3>3. CASE i \in New /\ j \in New
      <4>1. only
        BY <1>3, <2>2, <3>3 DEF CoreFiles
      <4> QED BY <1>2, <3>3, <4>1
    <3> QED BY <1>2, <2>2, <3>1, <3>2, <3>3
  <2>3. ASSUME NEW s, NEW i \in 1..M, NEW j \in 1..M,
               core'[i].snapshot /\ core'[i].source = s,
               core'[j].snapshot /\ core'[j].source = s
        PROVE  i = j
    <3>1. ASSUME NEW a \in 1..L, NEW b \in New, core'[a].snapshot /\ core'[a].source = s,
                 core'[b].snapshot /\ core'[b].source = s
          PROVE  FALSE
      <4>1. core'[a] = core[a] /\ a \in DOMAIN core
        BY <1>1, <3>1
      <4> QED BY <1>3, <3>1, <4>1 DEF CoreFiles
    <3>2. CASE i \in 1..L /\ j \in 1..L
      BY <1>1, <2>3, <3>2 DEF CoreInv, CoreOnce, AtMostOne
    <3>3. CASE i \in New /\ j \in New
      <4>1. only
        BY <1>3, <2>3, <3>3 DEF CoreFiles
      <4> QED BY <1>2, <3>3, <4>1
    <3> QED BY <1>2, <2>3, <3>1, <3>2, <3>3
  <2> QED BY <1>1, <2>1, <2>2, <2>3 DEF CoreOnce, AtMostOne
<1> QED BY <1>10, <1>11, <1>12 DEF CoreInv

-----------------------------------------------------------------------------
(* What a step leaves alone.                                               *)

LEMMA ChainsStay ==
    ASSUME DriverInv, UNCHANGED <<core, host>>
    PROVE  /\ Numbered(core') /\ Numbered(host') /\ HostInv' /\ CoreInv' /\ EndsReviewed'
           /\ Packets' = Packets
<1>1. Packets' = Packets
  BY DEF Packets
<1>2. findReviewDispatch' = findReviewDispatch
  BY <1>1 DEF findReviewDispatch
<1>3. HostInv'
  BY <1>1, <1>2 DEF DriverInv, HostInv, Filed, Worked, Answered, HostOnce, VerdictFinal
<1>4. Moves' = Moves /\ Done' = Done
  BY DEF Moves, Done
<1>5. CoreInv'
  BY <1>4 DEF DriverInv, CoreInv, Staged, Pending, CoreOnce
<1>6. EndsReviewed'
  BY <1>4 DEF DriverInv, EndsReviewed
<1> QED BY <1>1, <1>3, <1>5, <1>6 DEF DriverInv, Typed

LEMMA HostWaits ==
    ASSUME Typed, HostInv, Grows(core, core'), UNCHANGED host
    PROVE  HostInv' /\ Packets' = Packets /\ Numbered(host') /\ Numbered(core')
<1>1. Packets' = Packets
  BY DEF Packets
<1>2. findReviewDispatch' = findReviewDispatch
  BY <1>1 DEF findReviewDispatch
<1>3. Len(core) \in Nat /\ Len(core') \in Nat /\ Len(core) <= Len(core') /\ Numbered(core')
  BY GrowsFacts DEF Typed
<1>4. 1..Len(core) \subseteq 1..Len(core')
  BY <1>3
<1>5. Filed'
  BY <1>1, <1>4 DEF HostInv, Filed
<1>6. Worked' /\ Answered' /\ HostOnce' /\ VerdictFinal'
  BY <1>1, <1>2 DEF HostInv, Worked, Answered, HostOnce, VerdictFinal
<1> QED BY <1>1, <1>3, <1>5, <1>6 DEF HostInv, Typed

LEMMA StepTaken ==
    ASSUME at \in 0..Len(runSteps), Advance \/ Stop
    PROVE  at' \in 0..Len(runSteps)
<1>1. Len(runSteps) \in Nat
  BY DEF runSteps
<1>2. CASE Stop
  BY <1>1, <1>2 DEF Stop
<1>3. CASE Advance
  BY <1>1, <1>3 DEF Advance
<1> QED BY <1>2, <1>3

LEMMA RoomLeft ==
    ASSUME room \in 0..MaxFaults, NEW faulty, NEW kind, FaultIf(faulty, kind) \/ Fault(kind)
    PROVE  room' \in 0..MaxFaults
<1>1. MaxFaults \in Nat
  BY DriverAssumption
<1>2. room' = room \/ (room > 0 /\ room' = room - 1)
  BY DEF FaultIf, Fault
<1> QED BY <1>1, <1>2

\* The processes' part of the invariant, when no agent moved.
LEMMA ProcessesStay ==
    ASSUME Typed, Numbered(core'), Numbered(host'), Packets \subseteq Packets',
           UNCHANGED <<ledger, agents>>, room' \in 0..MaxFaults,
           Advance \/ Stop \/ UNCHANGED at
    PROVE  Typed'
<1>1. at' \in 0..Len(runSteps)
  BY StepTaken DEF Typed
<1>2. AgentsTyped'
  BY DEF Typed, AgentsTyped
<1>3. LedgerTyped'
  BY DEF Typed, LedgerTyped
<1> QED BY <1>1, <1>2, <1>3 DEF Typed

\* A step that leaves the chains and the agents alone.
LEMMA Waits ==
    ASSUME DriverInv, UNCHANGED <<core, host, ledger, agents>>, room' \in 0..MaxFaults,
           Advance \/ Stop \/ UNCHANGED at
    PROVE  DriverInv'
<1>1. /\ Numbered(core') /\ Numbered(host') /\ HostInv' /\ CoreInv' /\ EndsReviewed'
      /\ Packets' = Packets
  BY ChainsStay
<1>2. Typed'
  BY <1>1, ProcessesStay DEF DriverInv
<1> QED BY <1>1, <1>2 DEF DriverInv

\* A step that files a host record.
LEMMA Filing ==
    ASSUME DriverInv, ~Done, UNCHANGED <<core, ledger, agents>>, room' \in 0..MaxFaults,
           Advance \/ Stop, core # <<>>,
           NEW r, Files(r), r.core = Len(core), host' = Append(host, r)
    PROVE  DriverInv'
<1>1. Numbered(core) /\ Numbered(host) /\ Len(core) \in Nat
  BY ChainFacts DEF DriverInv, Typed
<1>2. Len(core) \in 1..Len(core)
  <2>1. core \in Seq({core[i] : i \in DOMAIN core})
    BY <1>1 DEF Numbered
  <2>2. Len(core) # 0
    BY <2>1, EmptySeq
  <2> QED BY <1>1, <2>2
<1>3. Numbered(host') /\ HostInv' /\ Packets \subseteq Packets'
  <2>1. Len(core') \in Nat /\ Len(core) <= Len(core') /\ r.core \in 1..Len(core')
    BY <1>1, <1>2
  <2> QED BY <1>1, <2>1, HostFiles DEF DriverInv
<1>4. Moves' = Moves /\ Done' = Done
  BY DEF Moves, Done
<1>5. CoreInv'
  BY <1>4 DEF DriverInv, CoreInv, Staged, Pending, CoreOnce
<1>6. EndsReviewed'
  BY <1>4 DEF EndsReviewed
<1>7. Typed'
  BY <1>1, <1>3, ProcessesStay DEF DriverInv
<1> QED BY <1>3, <1>5, <1>6, <1>7 DEF DriverInv

LEMMA Commands ==
    ASSUME DriverInv, NEW r, NEW admitted, Command(admitted, r), r.core = Len(core),
           admitted => Files(r)
    PROVE  DriverInv'
<1>1. UNCHANGED <<core, ledger, agents, room>> /\ room \in 0..MaxFaults
  BY DEF Command, world, DriverInv, Typed
<1>2. CASE admitted /\ core # <<>> /\ ~Done
  <2>1. Advance /\ host' = Append(host, r)
    BY <1>2 DEF Command
  <2> QED BY <1>1, <1>2, <2>1, Filing
<1>3. CASE ~(admitted /\ core # <<>> /\ ~Done)
  <2>1. Stop /\ UNCHANGED host
    BY <1>3 DEF Command
  <2> QED BY <1>1, <2>1, Waits
<1> QED BY <1>2, <1>3

LEMMA Passes == ASSUME DriverInv, PassOver \/ Refuse PROVE DriverInv'
<1>1. UNCHANGED <<core, host, ledger, agents, room>> /\ room \in 0..MaxFaults /\ (Advance \/ Stop)
  BY DEF PassOver, Refuse, chains, world, DriverInv, Typed
<1> QED BY <1>1, Waits

-----------------------------------------------------------------------------
(* The steps that file a host record.                                      *)

EnvelopeFields == {"kind", "unit", "core", "at"}
RouteFields == EnvelopeFields \cup {"seat", "approval"}

LEMMA PlainRecord ==
    ASSUME NEW k, NEW t
    PROVE  /\ (Envelope(k) ++ t).kind = k /\ (Envelope(k) ++ t).unit = Unit
           /\ (Envelope(k) ++ t).core = Len(core)
           /\ \A f \in DOMAIN t \ EnvelopeFields : (Envelope(k) ++ t)[f] = t[f]
<1> DEFINE e == Envelope(k)
<1>1. /\ DOMAIN e = EnvelopeFields /\ e.kind = k /\ e.unit = Unit /\ e.core = Len(core)
  BY DEF Envelope, EnvelopeFields
<1>2. "kind" \in DOMAIN e /\ "unit" \in DOMAIN e /\ "core" \in DOMAIN e
  BY <1>1 DEF EnvelopeFields
<1> HIDE DEF e
<1>3. /\ (e ++ t).kind = k /\ (e ++ t).unit = Unit /\ (e ++ t).core = Len(core)
      /\ \A f \in DOMAIN t \ EnvelopeFields : (e ++ t)[f] = t[f]
  BY <1>1, <1>2, Beside
<1> QED BY <1>3 DEF e

LEMMA RoutedRecord ==
    ASSUME NEW k, NEW seat, NEW t
    PROVE  LET r == Envelope(k) ++ Route(seat) ++ t
           IN  /\ r.kind = k /\ r.unit = Unit /\ r.core = Len(core)
               /\ \A f \in DOMAIN t \ RouteFields : r[f] = t[f]
<1> DEFINE e == Envelope(k) ++ Route(seat)
<1>1. DOMAIN Envelope(k) = EnvelopeFields /\ DOMAIN Route(seat) = {"seat", "approval"}
  BY DEF Envelope, EnvelopeFields, Route
<1>2. DOMAIN e = RouteFields
  BY <1>1, Beside DEF RouteFields
<1>3. e.kind = k /\ e.unit = Unit /\ e.core = Len(core)
  BY PlainRecord
<1>4. "kind" \in DOMAIN e /\ "unit" \in DOMAIN e /\ "core" \in DOMAIN e
  BY <1>2 DEF RouteFields, EnvelopeFields
<1> HIDE DEF e
<1>5. /\ (e ++ t).kind = k /\ (e ++ t).unit = Unit /\ (e ++ t).core = Len(core)
      /\ \A f \in DOMAIN t \ RouteFields : (e ++ t)[f] = t[f]
  BY <1>2, <1>3, <1>4, Beside
<1> QED BY <1>5 DEF e

\* The packet hmarun finds is one, and the one a review answers.
LEMMA FoundFacts ==
    ASSUME Typed
    PROVE  findReviewDispatch # 0 => findReviewDispatch \in Packets
<1> DEFINE S == {i \in Packets : host[i].implementation = RequireImplementation(host, Unit)}
<1>1. S \subseteq 1..Len(host) /\ Numbered(host)
  BY ChainFacts DEF Typed, Packets
<1>2. findReviewDispatch = Latest(S)
  BY DEF findReviewDispatch
<1>3. S # {} => Latest(S) \in S
  <2> HIDE DEF S
  <2> QED BY <1>1, LatestOf
<1>4. S = {} => Latest(S) = 0
  BY DEF Latest
<1> QED BY <1>2, <1>3, <1>4

LEMMA AnswerFound ==
    ASSUME DriverInv, Of(host, "review", Unit) # {}
    PROVE  findReviewDispatch # 0 /\ Imported(findReviewDispatch)
<1>1. PICK j \in Of(host, "review", Unit) : TRUE
  OBVIOUS
<1>2. host[j].dispatch = findReviewDispatch /\ host[j].dispatch \in Packets
  BY <1>1 DEF DriverInv, HostInv, Answered, Filed, Of
<1>3. Packets \subseteq 1..Len(host) /\ Len(host) \in Nat
  BY ChainFacts DEF DriverInv, Typed, Packets
<1> QED BY <1>1, <1>2, <1>3 DEF Imported

LEMMA DecisionStep == ASSUME DriverInv, stepDecision PROVE DriverInv'
<1> DEFINE t == [mode |-> "DELEGATE", supersedes |-> 0]
           d == Envelope("decision") ++ Route(Implementer) ++ t
<1>1. d.kind = "decision" /\ d.unit = Unit /\ d.core = Len(core) /\ d.mode = "DELEGATE"
  <2>1. "mode" \in DOMAIN t \ RouteFields /\ t.mode = "DELEGATE"
    BY DEF RouteFields, EnvelopeFields
  <2> HIDE DEF t
  <2> QED BY <2>1, RoutedRecord
<1>2. \/ PassOver
      \/ Of(host, "decision", Unit) = {} /\ Command(EvaluateDecision(host, d), d)
  BY DEF stepDecision
<1> HIDE DEF d
<1>3. ASSUME Of(host, "decision", Unit) = {}, Command(EvaluateDecision(host, d), d)
      PROVE  DriverInv'
  <2>1. Files(d)
    BY <1>1, <1>3 DEF Files, Kinds, Implements, HasPacket, Reviews
  <2> QED BY <1>1, <1>3, <2>1, Commands
<1> QED BY <1>2, <1>3, Passes

LEMMA BindRepositoryStep == ASSUME DriverInv, stepBindRepository PROVE DriverInv'
<1> DEFINE r == Envelope("repository")
           a == \E i \in DOMAIN core : ApprovedMove(core[i])
<1>1. r.kind = "repository" /\ r.unit = Unit /\ r.core = Len(core)
  BY DEF Envelope
<1>2. PassOver \/ (~RunRepository(host) /\ Command(a, r))
  BY DEF stepBindRepository
<1> HIDE DEF r, a
<1>3. ASSUME ~RunRepository(host), Command(a, r) PROVE DriverInv'
  <2>1. Files(r)
    BY <1>1, <1>3 DEF Files, Kinds, Implements, HasPacket, Reviews
  <2> QED BY <1>1, <1>3, <2>1, Commands
<1> QED BY <1>2, <1>3, Passes

LEMMA ImplDispatchStep == ASSUME DriverInv, stepImplDispatch PROVE DriverInv'
<1> DEFINE p == findLatestValidPreflight("implementation")
           d == [kind |-> "dispatch", unit |-> Unit, core |-> Len(core), at |-> clock,
                 seat |-> Implementer, approval |-> approvedCoreRoute(core, Unit),
                 role |-> "implementation", preflight |-> p]
<1>1. d.kind = "dispatch" /\ d.unit = Unit /\ d.core = Len(core) /\ d.role = "implementation"
  OBVIOUS
<1>2. \/ PassOver \/ Refuse
      \/ /\ implementationContributions(host, Unit) = {}
         /\ Command(EvaluateDispatch(host, d, clock), d)
  BY DEF stepImplDispatch
<1> HIDE DEF d
<1>3. ASSUME implementationContributions(host, Unit) = {},
             Command(EvaluateDispatch(host, d, clock), d)
      PROVE  DriverInv'
  <2>1. Files(d)
    BY <1>1, <1>3 DEF Files, Kinds, HasPacket, Reviews
  <2> QED BY <1>1, <1>3, <2>1, Commands
<1> QED BY <1>2, <1>3, Passes

LEMMA ReviewPacketStep == ASSUME DriverInv, stepReviewPacket PROVE DriverInv'
<1> DEFINE i == findReviewDispatch
           p == findLatestValidPreflight("review")
           packet == [run |-> DispatchRunID(i), reason |-> 3, until |-> clock + PacketTTL,
                      contract |-> BoundContractDigest(core), triggers |-> {}, family |-> FALSE]
           d == [kind |-> "dispatch", unit |-> Unit, core |-> Len(core), at |-> clock,
                 seat |-> Reviewer, approval |-> approvedCoreRoute(core, Unit),
                 role |-> "review", preflight |-> p, target |-> target,
                 implementation |-> RequireImplementation(host, Unit),
                 risk |-> High, disputed |-> FALSE, final |-> FALSE, packet |-> packet]
           admitted == /\ requireApprovedRepository(host, core, Unit, Base)
                       /\ EvaluateDispatch(host, d, clock)
<1>1. /\ d.kind = "dispatch" /\ d.unit = Unit /\ d.core = Len(core) /\ d.role = "review"
      /\ d.implementation = RequireImplementation(host, Unit)
  OBVIOUS
<1>2. \/ PassOver \/ Refuse
      \/ /\ ~(i # 0 /\ ~reviewDispatchNeedsReissue(i)) /\ d.implementation # 0
         /\ Command(admitted, d)
  BY DEF stepReviewPacket
<1> HIDE DEF d, admitted
<1>3. ASSUME ~(i # 0 /\ ~reviewDispatchNeedsReissue(i)), d.implementation # 0,
             Command(admitted, d)
      PROVE  DriverInv'
  <2>1. Of(host, "review", Unit) = {}
    BY <1>3, AnswerFound DEF reviewDispatchNeedsReissue
  <2>2. Files(d)
    BY <1>1, <1>3, <2>1 DEF Files, Kinds, Implements
  <2> QED BY <1>1, <1>3, <2>2, Commands
<1> QED BY <1>2, <1>3, Passes

LEMMA ReviewImportStep == ASSUME DriverInv, stepReviewImport PROVE DriverInv'
<1> DEFINE i == findReviewDispatch
<1>1. \/ PassOver \/ Refuse
      \/ i # 0 /\ ~Imported(i) /\ \E v \in {ReviewOf(i)} :
            Command(Importable(i) /\ EvaluateReview(host, v), v)
  BY DEF stepReviewImport
<1>2. ASSUME i # 0, ~Imported(i), NEW v, v = ReviewOf(i),
             Command(Importable(i) /\ EvaluateReview(host, v), v)
      PROVE  DriverInv'
  <2> DEFINE t == [dispatch |-> i, implementation |-> host[i].implementation,
                   target |-> host[i].target, verdict |-> MapReportVerdict(report),
                   receipt |-> host[i].packet.run, isolation |-> report.isolation]
  <2>1. v.kind = "review" /\ v.unit = Unit /\ v.core = Len(core) /\ v.dispatch = i
    <3>1. "dispatch" \in DOMAIN t \ EnvelopeFields /\ t.dispatch = i
      BY DEF EnvelopeFields
    <3>2. v = Envelope("review") ++ t
      BY <1>2 DEF ReviewOf
    <3> HIDE DEF t
    <3> QED BY <3>1, <3>2, PlainRecord
  <2>2. Of(host, "review", Unit) = {}
    BY <1>2, AnswerFound
  <2>3. i \in Packets
    BY <1>2, FoundFacts DEF DriverInv
  <2>4. Files(v)
    BY <2>1, <2>2, <2>3 DEF Files, Kinds, Implements, HasPacket, Reviews
  <2> QED BY <1>2, <2>1, <2>4, Commands
<1> QED BY <1>1, <1>2, Passes

LEMMA PreflightStep ==
    ASSUME DriverInv, NEW role, NEW seat, stepPreflight(role, seat)
    PROVE  DriverInv'
<1> DEFINE p(status) == [kind |-> "preflight", unit |-> Unit, core |-> Len(core), at |-> clock,
                         seat |-> seat, approval |-> approvedCoreRoute(core, Unit),
                         role |-> role, status |-> status, expires |-> clock + TTL]
           ok(status) == EvaluatePreflight(host, p(status), clock) /\ ~Done
<1>1. \A status : /\ p(status).kind = "preflight" /\ p(status).unit = Unit
                  /\ p(status).core = Len(core) /\ p(status).role = role
  OBVIOUS
<1>2. \/ PassOver
      \/ \E status \in {"AVAILABLE", "UNAVAILABLE"} :
            /\ FaultIf(status # "AVAILABLE", "preflight")
            /\ IF ok(status) THEN host' = Append(host, p(status)) ELSE UNCHANGED host
            /\ IF ok(status) /\ status = "AVAILABLE" THEN Advance ELSE Stop
            /\ UNCHANGED <<core, reconciled, commits, ledger, report, agents, clock>>
  BY DEF stepPreflight
<1> HIDE DEF p
<1>3. ASSUME NEW status, FaultIf(status # "AVAILABLE", "preflight"),
             IF ok(status) THEN host' = Append(host, p(status)) ELSE UNCHANGED host,
             IF ok(status) /\ status = "AVAILABLE" THEN Advance ELSE Stop,
             UNCHANGED <<core, reconciled, commits, ledger, report, agents, clock>>
      PROVE  DriverInv'
  <2>1. room' \in 0..MaxFaults /\ (Advance \/ Stop)
    BY <1>3, RoomLeft DEF DriverInv, Typed
  <2>2. CASE ~ok(status)
    BY <1>3, <2>1, <2>2, Waits
  <2>3. CASE ok(status)
    <3>1. Files(p(status))
      BY <1>1 DEF Files, Kinds, Implements, HasPacket, Reviews
    <3>2. latestDecision(host, Unit) # 0
      BY <1>1, <2>3 DEF EvaluatePreflight, RequireImplementation
    <3>3. \E i : i \in Of(host, "decision", Unit)
      BY <3>2 DEF latestDecision, Latest
    <3>4. core # <<>>
      <4>1. PICK i \in DOMAIN host : host[i].core \in 1..Len(core)
        BY <3>3 DEF Of, DriverInv, HostInv, Filed
      <4> QED BY <4>1
    <3> QED BY <1>1, <1>3, <2>1, <2>3, <3>1, <3>4, Filing
  <2> QED BY <2>2, <2>3
<1> QED BY <1>2, <1>3, Passes

-----------------------------------------------------------------------------
(* The steps that file core records.                                       *)

\* A step that only files core records, none of which ends the run.
LEMMA CoreStep ==
    ASSUME DriverInv, UNCHANGED <<host, ledger, agents>>, room' \in 0..MaxFaults,
           Advance \/ Stop \/ UNCHANGED at, Grows(core, core'),
           \A k \in Len(core) + 1..Len(core') :
              CoreFiles(core'[k], Len(core') = Len(core) + 1),
           EndsReviewed'
    PROVE  DriverInv'
<1>1. HostInv' /\ Packets' = Packets /\ Numbered(host') /\ Numbered(core')
  BY HostWaits DEF DriverInv
<1>2. CoreInv'
  BY CoreGrows DEF DriverInv, Typed
<1>3. Typed'
  BY <1>1, ProcessesStay DEF DriverInv
<1> QED BY <1>1, <1>2, <1>3 DEF DriverInv

LEMMA NoEnd ==
    ASSUME Numbered(core), Grows(core, core'), ~Done,
           \A k \in Len(core) + 1..Len(core') : core'[k].kind # "outcome"
    PROVE  EndsReviewed'
<1>1. /\ Len(core) \in Nat /\ Len(core') \in Nat /\ Len(core) <= Len(core')
      /\ DOMAIN core = 1..Len(core) /\ DOMAIN core' = 1..Len(core')
      /\ \A k \in 1..Len(core) : core'[k] = core[k]
  BY GrowsFacts
<1>2. \A k \in DOMAIN core' : core'[k].kind # "outcome"
  <2> SUFFICES ASSUME NEW k \in DOMAIN core' PROVE core'[k].kind # "outcome"
    OBVIOUS
  <2>1. k \in 1..Len(core) \/ k \in Len(core) + 1..Len(core')
    BY <1>1
  <2>2. CASE k \in 1..Len(core)
    BY <1>1, <2>2 DEF Done, Terminal
  <2> QED BY <2>1, <2>2
<1>3. ~Done'
  BY <1>2 DEF Done, Terminal
<1> QED BY <1>3 DEF EndsReviewed

\* A step that files one core record.
LEMMA OneRecord ==
    ASSUME DriverInv, UNCHANGED <<host, ledger, agents>>, room' \in 0..MaxFaults,
           Advance \/ Stop \/ UNCHANGED at,
           NEW r, core' = Append(core, r), CoreFiles(r, TRUE),
           (r.kind # "outcome" /\ ~Done) \/ EndsReviewed'
    PROVE  DriverInv'
<1>1. Numbered(core) /\ Len(core) \in Nat
  BY ChainFacts DEF DriverInv, Typed
<1>2. Grows(core, core') /\ Len(core') = Len(core) + 1 /\ core'[Len(core) + 1] = r
  BY <1>1, AppendGrows
<1>3. ASSUME NEW k \in Len(core) + 1..Len(core') PROVE core'[k] = r
  BY <1>1, <1>2
<1>4. EndsReviewed'
  BY <1>1, <1>2, <1>3, NoEnd
<1>5. \A k \in Len(core) + 1..Len(core') :
          CoreFiles(core'[k], Len(core') = Len(core) + 1)
  BY <1>2, <1>3 DEF CoreFiles
<1> QED BY <1>2, <1>4, <1>5, CoreStep

LEMMA NoWaivers ==
    ASSUME DriverInv
    PROVE  \A id \in DOMAIN Criteria(core) : Criteria(core)[id] # "WAIVED"
<1>1. Numbered(core) /\ DOMAIN core = 1..Len(core)
  BY ChainFacts DEF DriverInv, Typed
<1>2. CASE Criteria(core) = NoMap
  BY <1>2 DEF NoMap
<1>3. CASE \E k \in 1..Len(core) : Criteria(core) = core[k].criteria
  BY <1>1, <1>3 DEF DriverInv, CoreInv, Pending
<1> QED BY <1>1, <1>2, <1>3, CriteriaFacts

LEMMA CriteriaBaselineStep == ASSUME DriverInv, CriteriaBaseline PROVE DriverInv'
<1> DEFINE cs == [id \in CriteriaOf[Contract] |-> "PENDING"]
           r == [Blank EXCEPT !.kind = "criterion", !.stage = "ACCEPTANCE_CRITERIA",
                              !.criteria = cs]
<1>1. /\ CurrentStage(core) = "ACCEPTANCE_CRITERIA" /\ Criteria(core) = NoMap
      /\ core' = Append(core, r) /\ UNCHANGED <<host, ledger, agents, room, at>>
  BY DEF CriteriaBaseline, NeedsBaseline, world
<1>2. cs # NoMap
  <2>1. DOMAIN NoMap = {} /\ DOMAIN cs # {}
    BY DriverAssumption DEF NoMap
  <2> HIDE DEF cs
  <2> QED BY <2>1
<1>3. \A id \in DOMAIN cs : cs[id] # "WAIVED"
  OBVIOUS
<1> HIDE DEF cs
<1>4. /\ r.kind = "criterion" /\ r.stage = "ACCEPTANCE_CRITERIA" /\ r.criteria = cs
      /\ r.snapshot = FALSE
  BY DEF Blank
<1> HIDE DEF r
<1>5. ~Done
  BY <1>1 DEF DriverInv, CoreInv, Staged
<1>6. CoreFiles(r, TRUE)
  BY <1>1, <1>2, <1>3, <1>4 DEF CoreFiles, ApprovedMove
<1>7. room' \in 0..MaxFaults
  BY <1>1 DEF DriverInv, Typed
<1> QED BY <1>1, <1>4, <1>5, <1>6, <1>7, OneRecord

LEMMA SnapshotIs ==
    ASSUME NEW j, NEW facts
    PROVE  LET r == SnapshotOf(j, facts)
           IN  /\ r.kind = "finding" /\ r.criteria = NoMap /\ r.resolution = None
               /\ r.snapshot /\ r.source = j
               /\ r.findings = SnapshotFindings(Findings(core), Unit, facts ++ report.findings,
                                                host[j].verdict)
<1> DEFINE fs == SnapshotFindings(Findings(core), Unit, facts ++ report.findings, host[j].verdict)
           b == [Blank EXCEPT !.unit = Unit, !.snapshot = TRUE, !.findings = fs, !.sealed = fs]
           s == [source |-> j]
<1>1. SnapshotOf(j, facts) = b ++ s
  BY DEF SnapshotOf
<1> HIDE DEF fs
<1>2. /\ b.kind = "finding" /\ b.criteria = NoMap /\ b.resolution = None
      /\ b.snapshot = TRUE /\ b.findings = fs
      /\ {"kind", "criteria", "resolution", "snapshot", "findings"} \subseteq DOMAIN b
      /\ "source" \notin DOMAIN b
  BY DEF Blank
<1>3. DOMAIN s = {"source"} /\ s.source = j
  OBVIOUS
<1> HIDE DEF b, s
<1>4. \A f \in DOMAIN b : (b ++ s)[f] = b[f]
  BY Beside
<1>5. \A f \in DOMAIN s \ DOMAIN b : (b ++ s)[f] = s[f]
  BY Beside
<1> QED BY <1>1, <1>2, <1>3, <1>4, <1>5 DEF fs

LEMMA FindingsImportStep == ASSUME DriverInv, stepFindingsImport PROVE DriverInv'
<1> DEFINE j == latestImportedReview
<1>1. \/ PassOver \/ Refuse
      \/ /\ ~\E k \in DOMAIN core : core[k].snapshot /\ core[k].source = j
         /\ ~Done /\ Advance /\ UNCHANGED <<host, ledger, agents>>
         /\ \E facts \in Established :
               FaultIf(facts # NoMap, "facts") /\ core' = Append(core, SnapshotOf(j, facts))
  BY DEF stepFindingsImport
<1>2. ASSUME ~\E k \in DOMAIN core : core[k].snapshot /\ core[k].source = j,
             ~Done, Advance, UNCHANGED <<host, ledger, agents>>,
             NEW facts \in Established, FaultIf(facts # NoMap, "facts"),
             core' = Append(core, SnapshotOf(j, facts))
      PROVE  DriverInv'
  <2> DEFINE r == SnapshotOf(j, facts)
  <2>1. r.kind = "finding" /\ r.criteria = NoMap /\ r.source = j
    BY SnapshotIs
  <2> HIDE DEF r
  <2>2. CoreFiles(r, TRUE)
    BY <1>2, <2>1 DEF CoreFiles, ApprovedMove, NoMap
  <2>3. room' \in 0..MaxFaults
    BY <1>2, RoomLeft DEF DriverInv, Typed
  <2> QED BY <1>2, <2>1, <2>2, <2>3, OneRecord DEF r
<1> QED BY <1>1, <1>2, Passes

LEMMA ReconcileStep == ASSUME DriverInv, stepReconcile PROVE DriverInv'
<1> DEFINE prior == Findings(core)
           new == {UnauthorizedID(run) : run \in Unaccounted} \ DOMAIN prior
           fs == [id \in DOMAIN prior \cup new |->
                    IF id \in new THEN [disp |-> "BLOCK", unit |-> None] ELSE prior[id]]
           r == [Blank EXCEPT !.findings = fs, !.sealed = fs]
<1>1. \/ PassOver
      \/ /\ ~Done /\ core' = (IF new = {} THEN core ELSE Append(core, r))
         /\ Advance /\ UNCHANGED <<host, world>>
  BY DEF stepReconcile
<1>2. r.kind = "finding" /\ r.criteria = NoMap /\ r.snapshot = FALSE
  <2> HIDE DEF fs
  <2> QED BY DEF Blank
<1> HIDE DEF r, new
<1>3. ASSUME ~Done, core' = (IF new = {} THEN core ELSE Append(core, r)), Advance,
             UNCHANGED <<host, world>>
      PROVE  DriverInv'
  <2>1. UNCHANGED <<host, ledger, agents>> /\ room' \in 0..MaxFaults
    BY <1>3 DEF world, DriverInv, Typed
  <2>2. CASE new = {}
    BY <1>3, <2>1, <2>2, Waits
  <2>3. CASE new # {}
    <3>1. CoreFiles(r, TRUE)
      BY <1>2 DEF CoreFiles, ApprovedMove, NoMap
    <3> QED BY <1>2, <1>3, <2>1, <2>3, <3>1, OneRecord
  <2> QED BY <2>2, <2>3
<1> QED BY <1>1, <1>3, Passes

LEMMA EdgeFacts ==
    \A step \in DOMAIN Edges :
        LET from == Edges[step][1]
            to   == Edges[step][2]
        IN  \/ from = "INDEPENDENT_VALIDATION" /\ to = None
            \/ from \in Stages /\ to \in Stages /\ stageOrder(from) < stageOrder(to)
<1>1. DOMAIN Edges =
          {"accept-criteria", "planning", "route-selection", "route-approval",
           "implementation-review", "verification", "independent-validation", "partial"}
  BY DEF Edges
<1>2. /\ Edges["accept-criteria"] = <<"GROUNDING", "ACCEPTANCE_CRITERIA">>
      /\ Edges["planning"] = <<"ACCEPTANCE_CRITERIA", "PLANNING">>
      /\ Edges["route-selection"] = <<"PLANNING", "ROUTE_SELECTION">>
      /\ Edges["route-approval"] = <<"ROUTE_SELECTION", "IMPLEMENTATION_AUTHORIZATION">>
      /\ Edges["implementation-review"] =
            <<"IMPLEMENTATION_AUTHORIZATION", "IMPLEMENTATION_REVIEW">>
      /\ Edges["verification"] = <<"IMPLEMENTATION_REVIEW", "VERIFICATION">>
      /\ Edges["independent-validation"] = <<"VERIFICATION", "INDEPENDENT_VALIDATION">>
      /\ Edges["partial"] = <<"INDEPENDENT_VALIDATION", None>>
  BY DEF Edges
<1> QED BY <1>1, <1>2, StageOrders DEF Stages

\* A credit is of an answer that approved its own content.
LEMMA CreditedAnswer ==
    ASSUME DriverInv, NEW id, CreditStands(host, core, target, id)
    PROVE  \E j \in Of(host, "review", Unit) :
              /\ host[j].verdict = "APPROVE" /\ host[j].target = target
              /\ \E k \in Credits(host) : host[k].review = j
<1> DEFINE S == {i \in Credits(host) : id \in DOMAIN host[i].results}
           k == LatestCredit(host, id)
<1>1. k # 0 /\ k = Latest(S) /\ host[k].target = target
  BY DEF CreditStands, LatestCredit
<1>2. S \subseteq 1..Len(host) /\ Numbered(host) /\ DOMAIN host = 1..Len(host)
  BY ChainFacts DEF Credits, DriverInv, Typed
<1>3. k \in S
  <2> HIDE DEF S
  <2>1. S # {}
    BY <1>1 DEF Latest
  <2> QED BY <1>1, <1>2, <2>1, LatestOf
<1>4. k \in DOMAIN host /\ host[k].kind = "credit" /\ k \in Credits(host)
  BY <1>3 DEF Credits
<1>5. /\ host[k].review \in Of(host, "review", Unit)
      /\ host[host[k].review].verdict = "APPROVE"
      /\ host[host[k].review].target = host[k].target
  BY <1>4 DEF DriverInv, HostInv, Filed
<1> QED BY <1>1, <1>4, <1>5

\* The end: some criterion is passed, so a credit of the live content stands.
LEMMA EndStep ==
    ASSUME DriverInv, NEW a, a = Approve("INDEPENDENT_VALIDATION", None), Admits(a, None),
           core' = Append(core, AppliedRecord(core, a)), UNCHANGED <<host, commits>>
    PROVE  EndsReviewed'
<1>1. a.outcome = "PARTIAL" /\ a.class = FALSE /\ a.head = commits
  BY DEF Approve, ApprovalBindsHeadDiff
<1>2. requireIndependentCredit(host, core, target) /\ AdmitsTransition(core, a, Len(core) + 1, None)
  BY <1>1 DEF Admits, ClaimsSuccess
<1>3. PICK id \in DOMAIN Criteria(core) : Criteria(core)[id] \in Settled
  BY <1>1, <1>2 DEF AdmitsTransition, OutcomeSupported
<1>4. Criteria(core)[id] = "PASSED"
  BY <1>3, NoWaivers DEF Settled
<1>5. CreditStands(host, core, target, id)
  BY <1>2, <1>3, <1>4 DEF requireIndependentCredit
<1>6. PICK j \in Of(host, "review", Unit) :
              /\ host[j].verdict = "APPROVE" /\ host[j].target = target
              /\ \E k \in Credits(host) : host[k].review = j
  BY <1>5, CreditedAnswer
<1>7. Numbered(core) /\ Len(core) \in Nat
  BY ChainFacts DEF DriverInv, Typed
<1>8. Len(core') = Len(core) + 1 /\ core'[Len(core) + 1] = AppliedRecord(core, a)
  BY <1>7, AppendGrows
<1>9. AppliedRecord(core, a).approval = a
  BY DEF AppliedRecord, Blank
<1>10. core'[Len(core')].approval.head = commits
  BY <1>1, <1>8, <1>9
<1>11. host[j].target.head = commits
  BY <1>6 DEF target
<1> QED BY <1>6, <1>10, <1>11 DEF EndsReviewed

LEMMA TransitionStep == ASSUME DriverInv, doTransition PROVE DriverInv'
<1> DEFINE from == Edges[runSteps[at]][1]
           to == Edges[runSteps[at]][2]
           doc == IF to = "PLANNING" THEN Contract ELSE None
           a == Approve(from, to)
           r == AppliedRecord(core, a)
<1>1. /\ runSteps[at] \in DOMAIN Edges /\ UNCHANGED <<host, reconciled, world>>
      /\ \/ (Advance \/ Stop) /\ UNCHANGED core
         \/ /\ CurrentStage(core) = from /\ Admits(a, doc)
            /\ Advance /\ core' = Append(core, r)
  BY DEF doTransition
<1>2. UNCHANGED <<host, commits, ledger, agents>> /\ room' \in 0..MaxFaults
  BY <1>1 DEF world, DriverInv, Typed
<1>3. \/ from = "INDEPENDENT_VALIDATION" /\ to = None
      \/ from \in Stages /\ to \in Stages /\ stageOrder(from) < stageOrder(to)
  BY <1>1, EdgeFacts
<1>4. CASE (Advance \/ Stop) /\ UNCHANGED core
  BY <1>2, <1>4, Waits
<1>5. ASSUME CurrentStage(core) = from, Admits(a, doc), Advance, core' = Append(core, r)
      PROVE  DriverInv'
  <2>0. None \notin Stages /\ None # "PARTIAL" /\ None # "PLANNING"
    BY DriverAssumption DEF Stages, Outcomes, stoppingOutcomes
  <2>1. ~Done
    BY <1>5 DEF Admits, AdmitsTransition, Done
  <2>2. /\ a.class = FALSE /\ a.to = to
        /\ a.outcome = IF to = None THEN "PARTIAL" ELSE None
    BY DEF Approve
  <2> HIDE DEF a, from, to
  <2>3. /\ r.kind = (IF a.outcome # None THEN "outcome" ELSE "stage_transition")
        /\ r.approval = a /\ r.snapshot = FALSE
        /\ r.criteria = (IF a.outcome = None THEN NoMap ELSE Criteria(core))
    BY <2>2 DEF AppliedRecord, Blank
  <2> HIDE DEF r
  <2>4. \A id \in DOMAIN r.criteria : r.criteria[id] # "WAIVED"
    BY <2>3, NoWaivers DEF NoMap
  <2>5. CASE to = None
    <3>1. from = "INDEPENDENT_VALIDATION" /\ r.kind = "outcome"
      BY <1>3, <2>0, <2>2, <2>3, <2>5
    <3>2. CoreFiles(r, TRUE)
      BY <1>5, <2>3, <2>4, <3>1 DEF CoreFiles, ApprovedMove
    <3>3. EndsReviewed'
      <4>1. doc = None
        BY <2>0, <2>5
      <4>2. a = Approve("INDEPENDENT_VALIDATION", None)
        BY <2>5, <3>1 DEF a
      <4>3. core' = Append(core, AppliedRecord(core, a))
        BY <1>5 DEF r
      <4> QED BY <1>2, <1>5, <4>1, <4>2, <4>3, EndStep
    <3> QED BY <1>2, <1>5, <3>2, <3>3, OneRecord
  <2>6. CASE to # None
    <3>1. to \in Stages /\ stageOrder(from) < stageOrder(to) /\ r.kind = "stage_transition"
      BY <1>3, <2>2, <2>3, <2>6
    <3>2. CoreFiles(r, TRUE)
      BY <1>5, <2>1, <2>2, <2>3, <2>4, <3>1 DEF CoreFiles
    <3> QED BY <1>2, <1>5, <2>1, <3>1, <3>2, OneRecord
  <2> QED BY <2>5, <2>6
<1> QED BY <1>1, <1>4, <1>5

\* Nobody credits before the route is approved, so not while the criteria are
\* first set down.
LEMMA CreditIsLate ==
    ASSUME DriverInv, approvedCoreRoute(core, Unit) # 0
    PROVE  CurrentStage(core) # "ACCEPTANCE_CRITERIA"
<1> DEFINE approves(r) ==
               /\ ApprovedMove(r) /\ r.unit = Unit
               /\ Edge(r.approval, "ROUTE_SELECTION", "IMPLEMENTATION_AUTHORIZATION")
           I == {k \in 1..Len(core) : approves(core[k])}
           i == SelectLastInSeq(core, approves)
<1>1. i # 0
  BY DEF approvedCoreRoute
<1>2. i = IF I # {} THEN Max(I) ELSE 0
  BY DEF SelectLastInSeq
<1>3. I # {}
  BY <1>1, <1>2
<1>4. PICK k \in 1..Len(core) :
          ApprovedMove(core[k]) /\ core[k].approval.to = "IMPLEMENTATION_AUTHORIZATION"
  BY <1>3 DEF Edge
<1>5. k \in Moves
  BY <1>4, ChainFacts DEF Moves, DriverInv, Typed
<1>6. stageOrder("IMPLEMENTATION_AUTHORIZATION") <= stageOrder(CurrentStage(core))
  BY <1>4, <1>5 DEF DriverInv, CoreInv, Staged
<1> QED BY <1>6, StageOrders

\* What a credit files in the core chain.
LEMMA CreditWhole ==
    ASSUME NEW results, DOMAIN results = advanced
    PROVE  LET whole == CreditRecords(core, Unit, results)
           IN  /\ Numbered(whole) /\ Len(whole) \in Nat
               /\ \A k \in 1..Len(whole) :
                     whole[k] \in {EvidenceRecord(core, Unit), CriteriaRecord(core, Unit, results)}
<1> DEFINE m == Cardinality(DOMAIN results)
           e == EvidenceRecord(core, Unit)
           c == CriteriaRecord(core, Unit, results)
           es == [k \in 1..m |-> e]
           whole == CreditRecords(core, Unit, results)
<1>1. m \in Nat
  <2>1. IsFiniteSet(advanced)
    BY DriverAssumption DEF advanced
  <2> QED BY <2>1, FS_CardinalityType
<1>2. whole = Append(es, c)
  BY DEF CreditRecords
<1> HIDE DEF whole
<1>3. Numbered(es) /\ Len(es) = m
  <2> HIDE DEF m, e
  <2>1. es \in Seq({e}) /\ Len(es) = m
    BY <1>1
  <2> QED BY <2>1, ChainOver
<1> HIDE DEF m, e, c
<1>4. \A k \in 1..m : es[k] = e
  OBVIOUS
<1> HIDE DEF es
<1>5. /\ Numbered(whole) /\ DOMAIN whole = 1..(m + 1) /\ whole[m + 1] = c
      /\ \A k \in 1..m : whole[k] = es[k]
  BY <1>2, <1>3, Appended
<1>6. Len(whole) = m + 1
  BY <1>2, <1>3, AppendGrows
<1>7. \A k \in 1..(m + 1) : k \in 1..m \/ k = m + 1
  BY <1>1
<1>8. \A k \in 1..Len(whole) : whole[k] \in {e, c}
  BY <1>4, <1>5, <1>6, <1>7
<1> QED BY <1>1, <1>5, <1>6, <1>8 DEF whole, e, c

\* Of it, as much as a credit that is cut short leaves.
LEMMA CreditFiles ==
    ASSUME DriverInv, ~Done, approvedCoreRoute(core, Unit) # 0, NEW exit, NEW whole,
           whole = CreditRecords(core, Unit,
                       [id \in advanced |-> criterionDisposition(exit, report.status)]),
           NEW n \in 0..Len(whole), core' = core \o SubSeq(whole, 1, n)
    PROVE  /\ Grows(core, core') /\ Len(core') = Len(core) + n
           /\ \A k \in Len(core) + 1..Len(core') :
                /\ CoreFiles(core'[k], Len(core') = Len(core) + 1)
                /\ core'[k] \in {EvidenceRecord(core, Unit),
                                 CriteriaRecord(core, Unit,
                                     [id \in advanced |-> criterionDisposition(exit, report.status)])}
           /\ EndsReviewed'
<1> DEFINE results == [id \in advanced |-> criterionDisposition(exit, report.status)]
           e == EvidenceRecord(core, Unit)
           c == CriteriaRecord(core, Unit, results)
           part == SubSeq(whole, 1, n)
<1>1. DOMAIN results = advanced /\ whole = CreditRecords(core, Unit, results)
  OBVIOUS
<1> HIDE DEF e, c, results
<1>4. /\ Numbered(whole) /\ Len(whole) \in Nat
      /\ \A k \in 1..Len(whole) : whole[k] \in {e, c}
  BY <1>1, CreditWhole DEF e, c
<1>5. Numbered(part) /\ Len(part) = n /\ \A k \in 1..n : part[k] \in {e, c}
  <2>1. \A k \in 1..n : k \in 1..Len(whole)
    BY <1>4
  <2> QED BY <1>4, <2>1, PrefixFacts
<1> HIDE DEF part
<1>6. Numbered(core) /\ Len(core) \in Nat
  BY ChainFacts DEF DriverInv, Typed
<1>7. /\ Grows(core, core') /\ Len(core') = Len(core) + n
      /\ \A k \in 1..n : core'[Len(core) + k] = part[k]
  <2>1. core' = core \o part
    BY DEF part
  <2>2. Grows(core, core')
    BY <1>5, <2>1 DEF Grows
  <2>3. /\ DOMAIN core' = 1..(Len(core) + n)
        /\ \A k \in 1..n : core'[Len(core) + k] = part[k]
    <3>0. Numbered(core) /\ Numbered(part)
      BY <1>5, <1>6
    <3>1. /\ DOMAIN (core \o part) = 1..(Len(core) + Len(part))
          /\ \A k \in 1..Len(part) : (core \o part)[Len(core) + k] = part[k]
      BY ONLY <3>0, Continued
    <3> QED BY <1>5, <2>1, <3>1
  <2>4. Len(core') \in Nat /\ DOMAIN core' = 1..Len(core')
    BY <1>6, <2>2, GrowsFacts
  <2>5. n \in Nat
    BY <1>4
  <2>6. Len(core') = Len(core) + n
    BY <1>6, <2>3, <2>4, <2>5
  <2> QED BY <2>2, <2>3, <2>6
<1>8. ASSUME NEW k \in Len(core) + 1..Len(core') PROVE core'[k] \in {e, c}
  <2>1. k - Len(core) \in 1..n /\ Len(core) + (k - Len(core)) = k
    BY <1>4, <1>6, <1>7
  <2> QED BY <1>5, <1>7, <2>1
<1>9. /\ e.kind = "evidence" /\ e.criteria = NoMap /\ e.snapshot = FALSE
      /\ c.kind = "criterion" /\ c.stage = CurrentStage(core) /\ c.snapshot = FALSE
      /\ \A id \in DOMAIN c.criteria : c.criteria[id] # "WAIVED"
  <2>1. /\ e.kind = "evidence" /\ e.criteria = NoMap /\ e.snapshot = FALSE
    BY DEF e, EvidenceRecord, Blank
  <2> DEFINE cs == [id \in DOMAIN Criteria(core) |->
                      IF id \in DOMAIN results THEN results[id] ELSE Criteria(core)[id]]
  <2>2. \A id \in DOMAIN cs : cs[id] # "WAIVED"
    <3>1. \A id \in DOMAIN results : results[id] # "WAIVED"
      BY DEF criterionDisposition, results
    <3> HIDE DEF results
    <3> QED BY <3>1, NoWaivers
  <2>3. /\ c.kind = "criterion" /\ c.stage = CurrentStage(core) /\ c.snapshot = FALSE
        /\ c.criteria = cs
    <3> HIDE DEF results
    <3> QED BY DEF c, CriteriaRecord, Blank
  <2> QED BY <2>1, <2>2, <2>3
<1>10. CurrentStage(core) # "ACCEPTANCE_CRITERIA"
  BY CreditIsLate
<1>11. ASSUME NEW r \in {e, c}, NEW only PROVE CoreFiles(r, only) /\ r.kind # "outcome"
  BY <1>9, <1>10, <1>11 DEF CoreFiles, ApprovedMove, NoMap
<1>12. EndsReviewed'
  BY <1>6, <1>7, <1>8, <1>11, NoEnd
<1>13. \A k \in Len(core) + 1..Len(core') :
           core'[k] \in {EvidenceRecord(core, Unit), CriteriaRecord(core, Unit, results)}
  BY <1>8 DEF e, c
<1> QED BY <1>7, <1>8, <1>11, <1>12, <1>13 DEF results

LEMMA CreditStep == ASSUME DriverInv, stepCredit PROVE DriverInv'
<1> DEFINE j == latestImportedReview
           results(exit) == [id \in advanced |-> criterionDisposition(exit, report.status)]
           whole(exit) == CreditRecords(core, Unit, results(exit))
           t(exit) == [review |-> j, target |-> target, results |-> results(exit),
                       contract |-> BoundContractDigest(core),
                       issuer |-> currentIssuer(core, Unit),
                       record |-> Len(core) + Len(whole(exit))]
           e(exit) == [Envelope("credit") EXCEPT !.core = Len(core) + Len(whole(exit))]
           credit(exit) == e(exit) ++ t(exit)
<1>1. \/ PassOver \/ Refuse
      \/ /\ j # 0 /\ Stands(j) /\ Creditable(host, core, j, target, Base) /\ ~Done
         /\ \E exit \in {0, 1}, cut \in BOOLEAN :
               /\ FaultIf(cut \/ exit = 1, IF cut THEN "credit" ELSE "check")
               /\ IF cut
                  THEN /\ \E n \in 1..Len(whole(exit)) :
                             core' = core \o SubSeq(whole(exit), 1, n)
                       /\ Stop /\ UNCHANGED host
                  ELSE /\ core' = core \o whole(exit)
                       /\ Advance /\ host' = Append(host, credit(exit))
               /\ UNCHANGED <<reconciled, commits, ledger, report, agents, clock>>
  BY DEF stepCredit
<1>2. ASSUME j # 0, Creditable(host, core, j, target, Base), ~Done,
             NEW exit, NEW cut \in BOOLEAN,
             FaultIf(cut \/ exit = 1, IF cut THEN "credit" ELSE "check"),
             IF cut
             THEN /\ \E n \in 1..Len(whole(exit)) :
                        core' = core \o SubSeq(whole(exit), 1, n)
                  /\ Stop /\ UNCHANGED host
             ELSE /\ core' = core \o whole(exit)
                  /\ Advance /\ host' = Append(host, credit(exit)),
             UNCHANGED <<ledger, agents>>
      PROVE  DriverInv'
  <2> HIDE DEF whole, credit
  <2>1. room' \in 0..MaxFaults
    BY <1>2, RoomLeft DEF DriverInv, Typed
  <2>2. j \in Of(host, "review", Unit)
    <3>1. Of(host, "review", Unit) \subseteq 1..Len(host) /\ Numbered(host)
      BY OfAppend DEF DriverInv, Typed
    <3>2. Of(host, "review", Unit) # {}
      BY <1>2 DEF latestImportedReview, Latest
    <3> QED BY <3>1, <3>2, LatestOf DEF latestImportedReview
  <2>3. approvedCoreRoute(core, Unit) # 0 /\ host[j].verdict = "APPROVE" /\ host[j].target = target
    BY <1>2, <2>2 DEF Creditable, Of
  <2>4. whole(exit) = CreditRecords(core, Unit,
                          [id \in advanced |-> criterionDisposition(exit, report.status)])
    BY DEF whole
  <2>5. CASE cut
    <3>1. PICK n \in 1..Len(whole(exit)) : core' = core \o SubSeq(whole(exit), 1, n)
      BY <1>2, <2>5
    <3>2. n \in 0..Len(whole(exit))
      BY <3>1
    <3>3. /\ Grows(core, core') /\ EndsReviewed'
          /\ \A k \in Len(core) + 1..Len(core') :
                CoreFiles(core'[k], Len(core') = Len(core) + 1)
      BY <1>2, <2>3, <2>4, <3>1, <3>2, CreditFiles
    <3> QED BY <1>2, <2>1, <2>5, <3>3, CoreStep
  <2>6. CASE ~cut
    <3>1. core' = core \o whole(exit) /\ Advance /\ host' = Append(host, credit(exit))
      BY <1>2, <2>6
    <3>2. Numbered(whole(exit)) /\ Len(whole(exit)) \in 0..Len(whole(exit))
      <4>1. DOMAIN results(exit) = advanced
        OBVIOUS
      <4> HIDE DEF results
      <4>2. Numbered(whole(exit)) /\ Len(whole(exit)) \in Nat
        BY <4>1, CreditWhole DEF whole
      <4> QED BY <4>2
    <3>3. core' = core \o SubSeq(whole(exit), 1, Len(whole(exit)))
      BY <3>1, <3>2, WholeChain
    <3>4. /\ Grows(core, core') /\ EndsReviewed' /\ Len(core') = Len(core) + Len(whole(exit))
          /\ \A k \in Len(core) + 1..Len(core') :
                CoreFiles(core'[k], Len(core') = Len(core) + 1)
      BY <1>2, <2>3, <2>4, <3>2, <3>3, CreditFiles
    <3>5. /\ credit(exit).kind = "credit" /\ credit(exit).unit = Unit
          /\ credit(exit).core = Len(core')
          /\ credit(exit).review = j /\ credit(exit).target = target
      <4>1. /\ e(exit).kind = "credit" /\ e(exit).unit = Unit
            /\ e(exit).core = Len(core) + Len(whole(exit))
            /\ DOMAIN e(exit) = EnvelopeFields
        BY DEF Envelope, EnvelopeFields
      <4>2. /\ "review" \in DOMAIN t(exit) \ EnvelopeFields /\ t(exit).review = j
            /\ "target" \in DOMAIN t(exit) \ EnvelopeFields /\ t(exit).target = target
        BY DEF EnvelopeFields
      <4>3. "kind" \in EnvelopeFields /\ "unit" \in EnvelopeFields /\ "core" \in EnvelopeFields
        BY DEF EnvelopeFields
      <4>4. credit(exit) = e(exit) ++ t(exit)
        BY DEF credit
      <4> HIDE DEF e, t
      <4>5. /\ \A f \in DOMAIN e(exit) : (e(exit) ++ t(exit))[f] = e(exit)[f]
            /\ \A f \in DOMAIN t(exit) \ DOMAIN e(exit) : (e(exit) ++ t(exit))[f] = t(exit)[f]
        BY Beside
      <4> QED BY <3>4, <4>1, <4>2, <4>3, <4>4, <4>5
    <3>6. PICK r : r = credit(exit)
      OBVIOUS
    <3>7. Files(r)
      BY <2>2, <2>3, <3>5, <3>6 DEF Files, Kinds, Implements, HasPacket, Reviews
    <3>8. /\ Numbered(core) /\ Numbered(host) /\ Numbered(core')
          /\ Len(core) \in Nat /\ Len(core') \in Nat /\ Len(core) <= Len(core')
      BY <3>4, GrowsFacts DEF DriverInv, Typed
    <3>9. Len(core') \in 1..Len(core')
      <4>1. DOMAIN host = 1..Len(host) /\ j \in DOMAIN host
        BY <2>2, <3>8, ChainFacts DEF Of
      <4>2. host[j].core \in 1..Len(core)
        BY <4>1 DEF DriverInv, HostInv, Filed
      <4> QED BY <3>8, <4>2
    <3>10. HostInv' /\ Numbered(host') /\ Packets \subseteq Packets'
      <4>1. r.core \in 1..Len(core') /\ host' = Append(host, r)
        BY <3>1, <3>5, <3>6, <3>9
      <4> QED BY <3>7, <3>8, <4>1, HostFiles DEF DriverInv
    <3>11. CoreInv'
      BY <3>4, <3>8, CoreGrows DEF DriverInv
    <3>12. Typed'
      BY <1>2, <2>1, <3>1, <3>8, <3>10, ProcessesStay DEF DriverInv
    <3> QED BY <3>4, <3>10, <3>11, <3>12 DEF DriverInv
  <2> QED BY <2>5, <2>6
<1> QED BY <1>1, <1>2, Passes

-----------------------------------------------------------------------------
(* The agents' steps.                                                      *)

AgentOK(c) ==
    IsAgent(c) /\ (c # None /\ c.role = "reviewer" => c.run \in DOMAIN ledger)

LEMMA AgentsAre ==
    AgentsTyped <=> /\ agents = [child |-> agents.child, orphan |-> agents.orphan]
                    /\ AgentOK(agents.child) /\ AgentOK(agents.orphan)
BY DEF AgentsTyped, AgentOK

\* A step that leaves the chains alone.
LEMMA AgentsMove ==
    ASSUME DriverInv, UNCHANGED <<core, host>>, room' \in 0..MaxFaults,
           Advance \/ Stop \/ UNCHANGED at, AgentsTyped', LedgerTyped'
    PROVE  DriverInv'
<1>1. /\ Numbered(core') /\ Numbered(host') /\ HostInv' /\ CoreInv' /\ EndsReviewed'
  BY ChainsStay
<1>2. at' \in 0..Len(runSteps)
  BY StepTaken DEF DriverInv, Typed
<1> QED BY <1>1, <1>2 DEF DriverInv, Typed

\* A step that only moves agents.
LEMMA OnlyAgents ==
    ASSUME DriverInv, UNCHANGED <<core, host, ledger>>, room' \in 0..MaxFaults,
           Advance \/ Stop \/ UNCHANGED at,
           NEW x, NEW y, agents' = [child |-> x, orphan |-> y], AgentOK(x), AgentOK(y)
    PROVE  DriverInv'
<1>1. AgentsTyped'
  <2>1. agents'.child = x /\ agents'.orphan = y
    OBVIOUS
  <2>2. /\ IsAgent(x) /\ (x # None /\ x.role = "reviewer" => x.run \in DOMAIN ledger')
        /\ IsAgent(y) /\ (y # None /\ y.role = "reviewer" => y.run \in DOMAIN ledger')
    BY DEF AgentOK
  <2> QED BY <2>1, <2>2 DEF AgentsTyped
<1>2. LedgerTyped'
  <2>1. Packets' = Packets
    BY DEF Packets
  <2> QED BY <2>1 DEF DriverInv, Typed, LedgerTyped
<1> QED BY <1>1, <1>2, AgentsMove

LEMMA WaitingFor ==
    ASSUME AgentsTyped, NEW c
    PROVE  Waiting(c) = [child |-> c, orphan |-> agents.orphan]
BY DEF AgentsTyped, Waiting

LEMMA NobodyOK == AgentOK(None)
BY DEF AgentOK, IsAgent

LEMMA WorkerOK == ASSUME NEW n PROVE AgentOK(Worker(n))
BY DEF AgentOK, IsAgent, Worker

LEMMA LaunchWorkerStep == ASSUME DriverInv, LaunchWorker PROVE DriverInv'
<1>1. \/ PassOver
      \/ agents' = Waiting(Worker(1)) /\ UNCHANGED <<core, host, ledger, at, room>>
  BY DEF LaunchWorker, chains
<1>2. CASE agents' = Waiting(Worker(1)) /\ UNCHANGED <<core, host, ledger, at, room>>
  <2>1. AgentsTyped /\ room \in 0..MaxFaults
    BY DEF DriverInv, Typed
  <2> QED BY <1>2, <2>1, AgentsAre, WaitingFor, WorkerOK, OnlyAgents
<1> QED BY <1>1, <1>2, Passes

LEMMA CheckWorkerStep == ASSUME DriverInv, CheckWorker PROVE DriverInv'
<1>1. AgentsTyped /\ room \in 0..MaxFaults
  BY DEF DriverInv, Typed
<1>2. /\ UNCHANGED <<core, host, ledger, room>> /\ (Advance \/ Stop \/ UNCHANGED at)
      /\ \E c : AgentOK(c) /\ agents' = Waiting(c)
  BY NobodyOK, WorkerOK DEF CheckWorker, chains
<1>3. PICK c : AgentOK(c) /\ agents' = Waiting(c)
  BY <1>2
<1> QED BY <1>1, <1>2, <1>3, AgentsAre, WaitingFor, OnlyAgents

LEMMA CheckReviewerStep == ASSUME DriverInv, CheckReviewer PROVE DriverInv'
<1>1. AgentsTyped /\ room \in 0..MaxFaults
  BY DEF DriverInv, Typed
<1>2. /\ UNCHANGED <<core, host, ledger, room>> /\ (Advance \/ Stop)
      /\ agents' = Waiting(None)
  BY DEF CheckReviewer, chains
<1> QED BY <1>1, <1>2, AgentsAre, WaitingFor, NobodyOK, OnlyAgents

LEMMA LaunchReviewerStep == ASSUME DriverInv, LaunchReviewer PROVE DriverInv'
<1> DEFINE i == findReviewDispatch
           run == host[i].packet.run
<1>1. \/ PassOver \/ Refuse
      \/ /\ i # 0
         /\ ledger' = [r \in DOMAIN ledger \cup {run} |-> IF r = run THEN Launched(i) ELSE ledger[r]]
         /\ agents' = Waiting(ReviewerOf(run))
         /\ UNCHANGED <<core, host, at, room>>
  BY DEF LaunchReviewer, chains
<1>2. ASSUME i # 0,
             ledger' = [r \in DOMAIN ledger \cup {run} |-> IF r = run THEN Launched(i) ELSE ledger[r]],
             agents' = Waiting(ReviewerOf(run)), UNCHANGED <<core, host, at, room>>
      PROVE  DriverInv'
  <2>1. AgentsTyped /\ LedgerTyped /\ room \in 0..MaxFaults
    BY DEF DriverInv, Typed
  <2>2. i \in Packets /\ Packets' = Packets
    BY <1>2, FoundFacts DEF DriverInv, Packets
  <2>3. IsLaunch(Launched(i)) /\ Launched(i).packet = i
    BY DEF IsLaunch, Launched
  <2> HIDE DEF i, run
  <2>4. DOMAIN ledger' = DOMAIN ledger \cup {run}
    BY <1>2
  <2>5. LedgerTyped'
    <3> SUFFICES ASSUME NEW r \in DOMAIN ledger'
                 PROVE  IsLaunch(ledger'[r]) /\ ledger'[r].packet \in Packets'
      BY DEF LedgerTyped
    <3>1. CASE r = run
      BY <1>2, <2>2, <2>3, <2>4, <3>1
    <3>2. CASE r # run
      <4>1. r \in DOMAIN ledger /\ ledger'[r] = ledger[r]
        BY <1>2, <2>4, <3>2
      <4> QED BY <2>1, <2>2, <4>1 DEF LedgerTyped
    <3> QED BY <3>1, <3>2
  <2>6. AgentsTyped'
    <3>1. agents' = [child |-> ReviewerOf(run), orphan |-> agents.orphan]
      BY <1>2, <2>1, WaitingFor
    <3>2. agents'.child = ReviewerOf(run) /\ agents'.orphan = agents.orphan
      BY <3>1
    <3>3. /\ IsAgent(ReviewerOf(run)) /\ ReviewerOf(run).run = run
      BY DEF IsAgent, ReviewerOf
    <3>4. AgentOK(agents.orphan)
      BY <2>1, AgentsAre
    <3> QED BY <2>4, <3>1, <3>2, <3>3, <3>4 DEF AgentsTyped, AgentOK
  <2> QED BY <1>2, <2>1, <2>5, <2>6, AgentsMove
<1> QED BY <1>1, <1>2, Passes

LEMMA RunningFacts ==
    ASSUME AgentsTyped, NEW who \in {"child", "orphan"}, Running(who)
    PROVE  /\ agents[who] # None /\ AgentOK(agents[who])
           /\ DOMAIN agents[who] = {"role", "attempt", "run", "did", "exit"}
BY DEF AgentsTyped, AgentOK, Running, IsAgent

LEMMA DoneBy ==
    ASSUME NEW c, NEW v,
           c = [role |-> c.role, attempt |-> c.attempt, run |-> c.run, did |-> c.did, exit |-> c.exit]
    PROVE  [c EXCEPT !.did = v] =
               [role |-> c.role, attempt |-> c.attempt, run |-> c.run, did |-> v, exit |-> c.exit]
OBVIOUS

LEMMA OneOfTwo ==
    ASSUME NEW a, a = [child |-> a.child, orphan |-> a.orphan], NEW x
    PROVE  /\ [a EXCEPT !["child"] = x] = [child |-> x, orphan |-> a.orphan]
           /\ [a EXCEPT !["orphan"] = x] = [child |-> a.child, orphan |-> x]
<1>1. PICK c, o : a = [child |-> c, orphan |-> o] /\ c = a.child /\ o = a.orphan
  OBVIOUS
<1>2. [a EXCEPT !.child = x] = [child |-> x, orphan |-> o]
  BY <1>1
<1>3. [a EXCEPT !.orphan = x] = [child |-> c, orphan |-> x]
  BY <1>1
<1> QED BY <1>1, <1>2, <1>3

\* An agent that goes on, or is gone.
LEMMA Going ==
    ASSUME AgentsTyped, NEW who \in {"child", "orphan"}, Running(who)
    PROVE  /\ \E x, y : /\ AgentOK(x) /\ AgentOK(y)
                        /\ [agents EXCEPT ![who].did = TRUE] = [child |-> x, orphan |-> y]
           /\ \A code : \E x, y : /\ AgentOK(x) /\ AgentOK(y)
                                  /\ Gone(who, code) = [child |-> x, orphan |-> y]
<1>1. /\ agents = [child |-> agents.child, orphan |-> agents.orphan]
      /\ AgentOK(agents.child) /\ AgentOK(agents.orphan)
  BY AgentsAre
<1> DEFINE c == agents[who]
           did == [c EXCEPT !.did = TRUE]
           gone(code) == [c EXCEPT !.exit = code]
<1>2. c = [role |-> c.role, attempt |-> c.attempt, run |-> c.run, did |-> c.did, exit |-> c.exit]
  BY RunningFacts DEF AgentOK, IsAgent
<1>3. c # None /\ AgentOK(c)
  BY RunningFacts
<1>4. AgentOK(did)
  <2>1. did = [role |-> c.role, attempt |-> c.attempt, run |-> c.run, did |-> TRUE, exit |-> c.exit]
    <3> HIDE DEF c
    <3> QED BY <1>2, DoneBy
  <2>2. IsAgent(did) /\ did.role = c.role /\ did.run = c.run
    BY <2>1 DEF IsAgent
  <2> HIDE DEF did, c
  <2> QED BY <1>3, <2>2 DEF AgentOK
<1>5. ASSUME NEW code PROVE AgentOK(gone(code))
  <2>1. gone(code) = [role |-> c.role, attempt |-> c.attempt, run |-> c.run, did |-> c.did,
                      exit |-> code]
    BY <1>2
  <2>2. IsAgent(gone(code)) /\ gone(code).role = c.role /\ gone(code).run = c.run
    BY <2>1 DEF IsAgent
  <2> HIDE DEF gone, c
  <2> QED BY <1>3, <2>2 DEF AgentOK
<1>6. [agents EXCEPT ![who].did = TRUE] = [agents EXCEPT ![who] = did]
  OBVIOUS
<1>7. \A code : Gone(who, code) =
            IF who = "child" THEN [agents EXCEPT ![who] = gone(code)]
            ELSE [agents EXCEPT ![who] = None]
  BY DEF Gone
<1> HIDE DEF did, gone, c
<1>8. CASE who = "child"
  <2>1. [agents EXCEPT ![who].did = TRUE] = [child |-> did, orphan |-> agents.orphan]
    BY <1>1, <1>6, <1>8, OneOfTwo
  <2>2. \A code : Gone(who, code) = [child |-> gone(code), orphan |-> agents.orphan]
    BY <1>1, <1>7, <1>8, OneOfTwo
  <2> QED BY <1>1, <1>4, <1>5, <2>1, <2>2
<1>9. CASE who = "orphan"
  <2>1. [agents EXCEPT ![who].did = TRUE] = [child |-> agents.child, orphan |-> did]
    BY <1>1, <1>6, <1>9, OneOfTwo
  <2>2. \A code : Gone(who, code) = [child |-> agents.child, orphan |-> None]
    BY <1>1, <1>7, <1>9, OneOfTwo
  <2> QED BY <1>1, <1>4, <1>5, <2>1, <2>2, NobodyOK
<1> QED BY <1>8, <1>9

LEMMA AgentSteps ==
    ASSUME DriverInv, NEW who \in {"child", "orphan"},
           WorkerCommits(who) \/ WorkerExits(who) \/ ReviewerReports(who) \/ ReviewerExits(who)
    PROVE  DriverInv'
<1>1. AgentsTyped /\ LedgerTyped /\ room \in 0..MaxFaults /\ MaxFaults \in Nat
  BY DriverAssumption DEF DriverInv, Typed
<1>2. Running(who) /\ UNCHANGED <<core, host, at>>
  BY DEF WorkerCommits, WorkerExits, ReviewerReports, ReviewerExits, chains
<1>3. room' \in 0..MaxFaults
  BY <1>1, RoomLeft DEF WorkerCommits, WorkerExits, ReviewerReports, ReviewerExits
<1>4. /\ agents' = [agents EXCEPT ![who].did = TRUE] \/ \E code : agents' = Gone(who, code)
  BY DEF WorkerCommits, WorkerExits, ReviewerReports, ReviewerExits
<1>5. PICK x, y : AgentOK(x) /\ AgentOK(y) /\ agents' = [child |-> x, orphan |-> y]
  <2>1. CASE agents' = [agents EXCEPT ![who].did = TRUE]
    <3>1. PICK x, y : /\ AgentOK(x) /\ AgentOK(y)
                      /\ [agents EXCEPT ![who].did = TRUE] = [child |-> x, orphan |-> y]
      BY <1>1, <1>2, Going
    <3> QED BY <2>1, <3>1
  <2>2. CASE \E code : agents' = Gone(who, code)
    <3>1. PICK code : agents' = Gone(who, code)
      BY <2>2
    <3>2. PICK x, y : AgentOK(x) /\ AgentOK(y) /\ Gone(who, code) = [child |-> x, orphan |-> y]
      BY <1>1, <1>2, Going
    <3> QED BY <3>1, <3>2
  <2> QED BY <1>4, <2>1, <2>2
<1>6. CASE UNCHANGED ledger
  BY <1>2, <1>3, <1>5, <1>6, OnlyAgents
<1>7. CASE ~UNCHANGED ledger
  <2> DEFINE run == agents[who].run
  <2>1. PICK code, listed : ledger' = [ledger EXCEPT ![run].exit = code, ![run].listed = listed]
    BY <1>7 DEF WorkerCommits, WorkerExits, ReviewerReports, ReviewerExits
  <2>2. run \in DOMAIN ledger
    BY <1>1, <1>2, <1>7, RunningFacts DEF AgentOK, WorkerCommits, WorkerExits, ReviewerReports, ReviewerExits
  <2>3. /\ DOMAIN ledger' = DOMAIN ledger
        /\ \A r \in DOMAIN ledger : r # run => ledger'[r] = ledger[r]
        /\ ledger'[run] = [[ledger[run] EXCEPT !.exit = code] EXCEPT !.listed = listed]
    <3> HIDE DEF run
    <3> QED BY <2>1, <2>2
  <2>4. Packets' = Packets
    BY <1>2 DEF Packets
  <2>5. LedgerTyped'
    <3> SUFFICES ASSUME NEW r \in DOMAIN ledger'
                 PROVE  IsLaunch(ledger'[r]) /\ ledger'[r].packet \in Packets'
      BY DEF LedgerTyped
    <3> HIDE DEF run
    <3>1. CASE r # run
      BY <1>1, <2>3, <2>4, <3>1 DEF LedgerTyped
    <3>2. CASE r = run
      <4>1. PICK l : l = ledger[run]
        OBVIOUS
      <4>2. IsLaunch(l) /\ l.packet \in Packets
        BY <1>1, <2>2, <4>1 DEF LedgerTyped
      <4>3. ledger'[run] =
               [run |-> l.run, mode |-> l.mode, worker |-> l.worker, model |-> l.model,
                target |-> l.target, started |-> l.started, packet |-> l.packet,
                exit |-> code, listed |-> listed]
        BY <2>3, <4>1, <4>2 DEF IsLaunch
      <4> QED BY <2>4, <3>2, <4>2, <4>3 DEF IsLaunch
    <3> QED BY <3>1, <3>2
  <2>6. AgentsTyped'
    <3>1. agents'.child = x /\ agents'.orphan = y
      BY <1>5
    <3> QED BY <1>5, <2>3, <3>1 DEF AgentsTyped, AgentOK
  <2> QED BY <1>2, <1>3, <2>5, <2>6, AgentsMove
<1> QED BY <1>6, <1>7

LEMMA CrashStep == ASSUME DriverInv, Crash PROVE DriverInv'
<1>1. AgentsTyped /\ room \in 0..MaxFaults
  BY DEF DriverInv, Typed
<1>2. /\ Stop /\ UNCHANGED <<core, host, ledger>> /\ room' \in 0..MaxFaults
      /\ agents' = Waiting(None) \/ agents' = [child |-> None, orphan |-> agents.child]
  BY <1>1, RoomLeft DEF Crash, chains
<1> QED BY <1>1, <1>2, AgentsAre, WaitingFor, NobodyOK, OnlyAgents

-----------------------------------------------------------------------------
(* The theorems.                                                           *)

LEMMA InitDrives == ASSUME Init PROVE DriverInv
<1>1. Numbered(core) /\ Numbered(host) /\ DOMAIN core = {} /\ DOMAIN host = {}
  BY ShortChains DEF Init
<1>2. Packets = {} /\ Moves = {} /\ ~Done
  BY <1>1 DEF Packets, Moves, Done, Terminal
<1>3. \A kind : Of(host, kind, Unit) = {}
  BY <1>1 DEF Of
<1>4. implementationContributions(host, Unit) = {}
  BY <1>3 DEF implementationContributions
<1>5. HostInv
  BY <1>1, <1>2, <1>3, <1>4
     DEF HostInv, Filed, Worked, Answered, HostOnce, AtMostOne, VerdictFinal
<1>6. CoreInv
  BY <1>1, <1>2 DEF CoreInv, Staged, Pending, CoreOnce, AtMostOne
<1>7. at \in 0..Len(runSteps) /\ room \in 0..MaxFaults
  <2>1. Len(runSteps) \in Nat
    BY DEF runSteps
  <2> QED BY <2>1, DriverAssumption DEF Init
<1>8. AgentsTyped
  <2>1. agents = [child |-> None, orphan |-> None]
    BY DEF Init
  <2> QED BY <2>1, NobodyOK DEF AgentsTyped, AgentOK
<1>9. LedgerTyped
  BY DEF Init, LedgerTyped, NoMap
<1> QED BY <1>1, <1>2, <1>5, <1>6, <1>7, <1>8, <1>9 DEF DriverInv, Typed, EndsReviewed

LEMMA NextDrives == ASSUME DriverInv, Next PROVE DriverInv'
<1>1. room \in 0..MaxFaults
  BY DEF DriverInv, Typed
<1>2. ASSUME Invoke PROVE DriverInv'
  <2>1. UNCHANGED <<core, host, ledger, agents, room>> /\ Advance
    <3>1. Len(runSteps) = 20
      BY DEF runSteps
    <3> QED BY <1>2, <3>1 DEF Invoke, chains, world, Advance
  <2> QED BY <1>1, <2>1, Waits
<1>3. ASSUME TimePasses PROVE DriverInv'
  <2>1. UNCHANGED <<core, host, ledger, agents, at>> /\ room' \in 0..MaxFaults
    BY <1>1, <1>3, RoomLeft DEF TimePasses, chains
  <2> QED BY <2>1, Waits
<1>4. ASSUME Step PROVE DriverInv'
  BY <1>4, CriteriaBaselineStep, TransitionStep, DecisionStep, ImplDispatchStep,
     BindRepositoryStep, PreflightStep, LaunchWorkerStep, CheckWorkerStep, LaunchReviewerStep,
     CheckReviewerStep, ReviewPacketStep, ReviewImportStep, FindingsImportStep, ReconcileStep,
     CreditStep
     DEF Step
<1>5. ASSUME Agent PROVE DriverInv'
  BY <1>5, AgentSteps DEF Agent
<1> QED BY <1>2, <1>3, <1>4, <1>5, CrashStep DEF Next

LEMMA DriverInvAlways == Spec => []DriverInv
<1>1. DriverInv /\ [Next]_vars => DriverInv'
  <2>1. ASSUME DriverInv, UNCHANGED vars PROVE DriverInv'
    <3>1. UNCHANGED <<core, host, ledger, agents, room, at>> /\ room \in 0..MaxFaults
      BY <2>1 DEF vars, DriverInv, Typed
    <3> QED BY <2>1, <3>1, Waits
  <2> QED BY <2>1, NextDrives
<1> QED BY <1>1, InitDrives, PTL DEF Spec

\* The records of both chains, the launches and the agents name only what is
\* there, whatever dies or is left behind in between.
THEOREM TypesHold == Spec => []TypeOK
<1>1. DriverInv => TypeOK
  <2> SUFFICES ASSUME DriverInv PROVE TypeOK
    OBVIOUS
  <2>1. \A who \in DOMAIN agents :
            agents[who] # None /\ agents[who].role = "reviewer" => agents[who].run \in DOMAIN ledger
    BY DEF DriverInv, Typed, AgentsTyped
  <2>2. \A i \in DOMAIN host :
            /\ host[i].core \in 1..Len(core) /\ host[i].kind \in Kinds
            /\ host[i].kind = "review" => host[i].dispatch \in Packets /\ host[i].dispatch < i
    BY DEF DriverInv, HostInv, Filed
  <2>3. \A run \in DOMAIN ledger : ledger[run].packet \in Packets
    BY DEF DriverInv, Typed, LedgerTyped
  <2> QED BY <2>1, <2>2, <2>3 DEF TypeOK, Kinds, DriverInv, Typed
<1> QED BY <1>1, DriverInvAlways, PTL

\* However often hmarun dies and is run again, it decides, dispatches the work,
\* binds the repository, takes each stage and imports each review's findings at
\* most once, and asks for no review after one was imported.
THEOREM NothingIsRedone == Spec => []NothingRedone
<1>1. DriverInv => NothingRedone
  <2> SUFFICES ASSUME DriverInv PROVE NothingRedone
    OBVIOUS
  <2>1. NothingTwice
    BY DEF DriverInv, HostInv, HostOnce, CoreInv, CoreOnce, NothingTwice
  <2>2. VerdictFinal
    BY DEF DriverInv, HostInv
  <2> QED BY <2>1, <2>2 DEF NothingRedone
<1> QED BY <1>1, DriverInvAlways, PTL

\* A run that ended PARTIAL ended on the content its reviewer approved and HMA
\* credited, whatever an agent left behind committed meanwhile.
THEOREM EndsAreReviewed == Spec => []EndsReviewed
<1>1. DriverInv => EndsReviewed
  BY DEF DriverInv
<1> QED BY <1>1, DriverInvAlways, PTL

-----------------------------------------------------------------------------
(* Where it ends.  What hmarun finds when it is run again it finds in the  *)
(* chains, the ledger and the report; what makes a dead end final is what  *)
(* those can no longer become.  A launch is of one packet's run, and a run *)
(* is launched once, so nobody accounts for a launch later (LedgerApart).  *)
(* A report is written once for its packet, so one that a receipt does not *)
(* list never becomes the listed one again (ReportsApart).  Content only   *)
(* grows, so content that moved on never comes back (TargetsOld).  And the *)
(* gates let no run past verification that could still find an unaccounted *)
(* launch (Verified).                                                      *)

Reviewing(who) == Running(who) /\ agents[who].role = "reviewer"

\* A report on packet p was written.
Written(p) ==
    \/ report # None /\ report.packet = p
    \/ \E run \in DOMAIN ledger : ledger[run].listed # None /\ ledger[run].listed.packet = p

Older(t) == t = target \/ (Len(t.head) \in Nat /\ Len(t.head) < Len(commits))

PacketsApart == \A i, k \in Packets : host[i].packet.run = host[k].packet.run => i = k

TargetsOld ==
    /\ Numbered(commits)
    /\ \A i \in Packets \cup Of(host, "review", Unit) : Older(host[i].target)

\* A packet nothing was filed after in the core chain is of the repository.
PacketsApproved ==
    \A i \in Packets : host[i].core = Len(core) => requireApprovedRepository(host, core, Unit, Base)

LedgerApart ==
    \A run \in DOMAIN ledger : ledger[run].run = run /\ host[ledger[run].packet].packet.run = run

ReportsApart ==
    /\ \A p : Written(p) => p \in Packets /\ host[p].packet.run \in DOMAIN ledger
    /\ \A who \in {"child", "orphan"} :
          Reviewing(who) =>
              /\ ledger[agents[who].run].exit = None
              /\ ~agents[who].did => ~Written(ledger[agents[who].run].packet)
    /\ Reviewing("child") /\ Reviewing("orphan") => agents.child.run # agents.orphan.run

Receipts ==
    \A j \in Of(host, "review", Unit) :
        /\ host[j].receipt \in DOMAIN ledger
        /\ ledger[host[j].receipt].exit # None /\ ledger[host[j].receipt].listed # None

\* What the latest reconciliation found.
ReconciledThen ==
    reconciled # None =>
        \A run \in DOMAIN reconciled.ledger \ reconciled.refused :
            /\ reconciled.ledger[run].exit # None
            /\ \E i \in Packets : AccountsFor(core, host[i], reconciled.ledger[run])

Verified ==
    Reached("VERIFICATION") =>
        Unaccounted = {} /\ ~HasUnauthorizedDispatch /\ Of(host, "review", Unit) # {}

\* Criteria are passed by one credit, all the unit's at once.
PassedTogether ==
    \A id \in DOMAIN Criteria(core) : Criteria(core)[id] = "PASSED" => id \in advanced /\ Credited

CreditsRecorded == \A k \in Credits(host) : host[k].record \in 0..Len(core)

\* Findings are of reconciliation, or of a review; nothing is resolved.
CoreFindings ==
    /\ \A k \in DOMAIN core : core[k].resolution = None
    /\ \A id \in DOMAIN Findings(core) :
          /\ id.by = None => Findings(core)[id].unit # Unit
          /\ id.by # None => \E k \in DOMAIN core : core[k].snapshot

Sourced == \A k \in DOMAIN core : core[k].snapshot => core[k].source \in Of(host, "review", Unit)

ContractIssued ==
    \A k \in Moves : IssuesLease(core[k], Unit) => core[k].approval.contract = Contract

WorldInv == PacketsApart /\ TargetsOld /\ LedgerApart /\ ReportsApart /\ Receipts
ChainsInv ==
    /\ PacketsApproved /\ ReconciledThen /\ Verified
    /\ PassedTogether /\ CreditsRecorded /\ CoreFindings /\ Sourced /\ ContractIssued
EndInv == WorldInv /\ ChainsInv

-----------------------------------------------------------------------------
(* What a step may do to the chains and the world, given what hmarun reads. *)

\* A host record filed in this step, beyond Files.
Follows(r) ==
    /\ Reviews(r) => findReviewDispatch = 0 \/ reviewDispatchNeedsReissue(findReviewDispatch)
    /\ HasPacket(r) =>
          /\ UNCHANGED core
          /\ r.target = target /\ requireApprovedRepository(host, core, Unit, Base)
          /\ \A i \in Packets : host[i].packet.run # r.packet.run
    /\ r.kind = "review" =>
          /\ OutputUsable(r.dispatch) /\ Importable(r.dispatch) /\ UNCHANGED core
          /\ r.receipt = host[r.dispatch].packet.run /\ r.target = host[r.dispatch].target
    /\ r.kind = "credit" => ~Credited /\ r.record = Len(core')

HostMoved ==
    UNCHANGED host \/ \E r : host' = Append(host, r) /\ Files(r) /\ Follows(r) /\ ~Done

\* Findings, of a review or not, that keep what was found.
FindingsKeep(fs, snapshot) ==
    /\ \A id \in DOMAIN Findings(core) : id \in DOMAIN fs /\ fs[id] = Findings(core)[id]
    /\ \A id \in DOMAIN fs :
          /\ id.by = None =>
                fs[id].unit # Unit /\ (id \in DOMAIN Findings(core) \/ ~Reached("VERIFICATION"))
          /\ id.by # None => id \in DOMAIN Findings(core) \/ snapshot

CriteriaFollow(cs) ==
    \/ cs = Criteria(core)
    \/ Criteria(core) = NoMap /\ \A id \in DOMAIN cs : cs[id] # "PASSED"
    \/ /\ ~Credited
       /\ \A j \in Of(host, "review", Unit) : j = latestImportedReview => ~Unusable(j)
       /\ \A id \in DOMAIN cs :
             cs[id] = "PASSED" => id \in advanced /\ \A a \in advanced : a \in DOMAIN cs /\ cs[a] = "PASSED"

\* A core record filed in this step, alone or with others.
CoreFollows(r, only) ==
    /\ r.resolution = None
    /\ IssuesLease(r, Unit) => r.approval.contract = Contract
    /\ ApprovedMove(r) /\ stageOrder("VERIFICATION") <= stageOrder(r.approval.to) =>
          \/ Reached("VERIFICATION")
          \/ Unaccounted = {} /\ ~HasUnauthorizedDispatch /\ Of(host, "review", Unit) # {}
    /\ SetsFindings(r) => ~ApprovedMove(r) /\ only /\ FindingsKeep(r.findings, r.snapshot)
    /\ r.snapshot => r.source \in Of(host, "review", Unit)
    /\ r.criteria # NoMap => CriteriaFollow(r.criteria)
    /\ r.kind = "outcome" => ~DeadEnd

CoreMoved ==
    /\ Grows(core, core')
    /\ \A k \in Len(core) + 1..Len(core') :
          /\ CoreFollows(core'[k], Len(core') = Len(core) + 1)
          /\ ApprovedMove(core'[k]) => Len(core') = Len(core) + 1

ReconciledMoved ==
    \/ UNCHANGED reconciled
    \/ /\ reconciled' # None => reconciled'.ledger = ledger /\ reconciled'.refused = Unaccounted
       /\ UNCHANGED <<host, ledger>>

CommitsMoved == UNCHANGED commits \/ \E scope : commits' = Append(commits, scope)

WorldMoved ==
    /\ LedgerApart' /\ ReportsApart'
    /\ \A run \in DOMAIN ledger :
          /\ run \in DOMAIN ledger'
          /\ ledger'[run] = ledger[run] \/ (ledger[run].exit = None /\ RunningFor(run))
          /\ RunningFor(run)' => RunningFor(run)
    /\ DOMAIN ledger' # DOMAIN ledger => Of(host, "review", Unit) = {}
    /\ report' = report \/ (report' # None /\ ~Written(report'.packet))

Moved == HostMoved /\ CoreMoved /\ ReconciledMoved /\ CommitsMoved /\ WorldMoved

-----------------------------------------------------------------------------
(* What chains that grow project to.                                       *)

\* The greatest member of a set that grows beyond its bound.
LEMMA GreatestGrows ==
    ASSUME NEW L \in Nat, NEW M \in Nat, L <= M, NEW I, I \subseteq 1..L, NEW J, J \subseteq 1..M,
           \A k \in 1..L : k \in J <=> k \in I
    PROVE  LET a == IF I # {} THEN Max(I) ELSE 0
               b == IF J # {} THEN Max(J) ELSE 0
           IN  /\ a \in I \/ (a = 0 /\ I = {})
               /\ b = a \/ (b \in J /\ b \in L + 1..M)
<1>1. I \in SUBSET (0..L) /\ J \in SUBSET (0..M)
  OBVIOUS
<1>2. I # {} => Max(I) \in I /\ \A k \in I : k <= Max(I)
  BY <1>1, MaxOf
<1>3. J # {} => Max(J) \in J /\ \A k \in J : k <= Max(J)
  BY <1>1, MaxOf
<1>4. CASE J = {}
  BY <1>2, <1>4
<1>5. CASE J # {}
  <2> DEFINE b == Max(J)
  <2>1. b \in J /\ b \in 1..M /\ \A k \in J : k <= b
    BY <1>3, <1>5
  <2> HIDE DEF b
  <2>2. CASE b \in 1..L
    <3>1. b \in I /\ \A k \in I : k <= b
      BY <2>1, <2>2
    <3> DEFINE a == Max(I)
    <3>2. I # {} /\ a \in I
      BY <1>2, <3>1
    <3>3. b <= a
      BY <1>2, <3>1
    <3> HIDE DEF a
    <3>4. a <= b /\ a \in Nat /\ b \in Nat
      BY <3>1, <3>2
    <3>5. b = a
      BY <3>3, <3>4
    <3> QED BY <1>5, <3>2, <3>5 DEF a, b
  <2>3. CASE b \notin 1..L
    <3>1. b \in L + 1..M
      BY <2>1, <2>3
    <3> QED BY <1>2, <1>5, <2>1, <3>1 DEF b
  <2> QED BY <2>2, <2>3
<1> QED BY <1>4, <1>5

LEMMA CriteriaGrow ==
    ASSUME NEW c, NEW d, Numbered(c), Grows(c, d)
    PROVE  /\ \/ Criteria(d) = Criteria(c)
              \/ \E k \in Len(c) + 1..Len(d) : d[k].criteria # NoMap /\ Criteria(d) = d[k].criteria
           /\ CriteriaAt(d) = CriteriaAt(c) \/ CriteriaAt(d) \in Len(c) + 1..Len(d)
<1>1. /\ Len(c) \in Nat /\ Len(d) \in Nat /\ Len(c) <= Len(d)
      /\ \A k \in 1..Len(c) : d[k] = c[k]
  BY GrowsFacts
<1> DEFINE I(e) == {k \in 1..Len(e) : e[k].criteria # NoMap}
           top(e) == IF I(e) # {} THEN Max(I(e)) ELSE 0
           J(e) == {k \in 1..Len(e) : e[k].kind = "criterion" /\ e[k].criteria # NoMap}
<1>2. /\ I(c) \subseteq 1..Len(c) /\ I(d) \subseteq 1..Len(d)
      /\ J(c) \subseteq 1..Len(c) /\ J(d) \subseteq 1..Len(d)
      /\ \A k \in 1..Len(c) : (k \in I(d) <=> k \in I(c)) /\ (k \in J(d) <=> k \in J(c))
  BY <1>1
<1>3. /\ Criteria(c) = IF top(c) = 0 THEN NoMap ELSE c[top(c)].criteria
      /\ Criteria(d) = IF top(d) = 0 THEN NoMap ELSE d[top(d)].criteria
  BY DEF Criteria, SelectLastInSeq
<1>4. /\ CriteriaAt(c) = IF J(c) # {} THEN Max(J(c)) ELSE 0
      /\ CriteriaAt(d) = IF J(d) # {} THEN Max(J(d)) ELSE 0
  BY DEF CriteriaAt, SelectLastInSeq
<1>5. \A k \in I(d) : d[k].criteria # NoMap
  OBVIOUS
<1> HIDE DEF I, J
<1>6. /\ top(c) \in I(c) \/ top(c) = 0
      /\ top(d) = top(c) \/ (top(d) \in I(d) /\ top(d) \in Len(c) + 1..Len(d))
  BY <1>1, <1>2, GreatestGrows
<1>7. CriteriaAt(d) = CriteriaAt(c) \/ CriteriaAt(d) \in Len(c) + 1..Len(d)
  <2> DEFINE jtop(e) == IF J(e) # {} THEN Max(J(e)) ELSE 0
  <2>1. jtop(d) = jtop(c) \/ (jtop(d) \in J(d) /\ jtop(d) \in Len(c) + 1..Len(d))
    BY <1>1, <1>2, GreatestGrows
  <2>2. CriteriaAt(d) = jtop(d) /\ CriteriaAt(c) = jtop(c)
    BY <1>4
  <2> HIDE DEF jtop
  <2> QED BY <2>1, <2>2
<1> HIDE DEF top
<1>8. CASE top(d) = top(c)
  <2>1. top(c) = 0 \/ d[top(c)] = c[top(c)]
    BY <1>1, <1>2, <1>6
  <2> QED BY <1>3, <1>7, <1>8, <2>1
<1>9. CASE top(d) # top(c)
  <2>1. top(d) \in I(d) /\ top(d) \in Len(c) + 1..Len(d) /\ top(d) # 0
    BY <1>1, <1>6, <1>9
  <2> QED BY <1>3, <1>5, <1>7, <2>1
<1> QED BY <1>8, <1>9

\* Without overrides the findings are those last set.
LEMMA FindingsAre ==
    ASSUME NEW c, Numbered(c), \A k \in 1..Len(c) : c[k].resolution = None
    PROVE  LET I == {k \in 1..Len(c) : SetsFindings(c[k])}
           IN  Findings(c) = IF I = {} THEN NoMap ELSE [id \in DOMAIN c[Max(I)].findings |->
                                                          c[Max(I)].findings[id]]
<1> DEFINE I == {k \in 1..Len(c) : SetsFindings(c[k])}
           k == Max(I)
<1>1. SelectLastInSeq(c, SetsFindings) = IF I # {} THEN k ELSE 0
  BY DEF SelectLastInSeq
<1>2. ASSUME NEW id PROVE SelectLastInSeq(c, LAMBDA r : Overrides(r, id)) = 0
  <2>1. {j \in 1..Len(c) : Overrides(c[j], id)} = {}
    BY DEF Overrides
  <2> QED BY <2>1 DEF SelectLastInSeq
<1>3. CASE I = {}
  BY <1>1, <1>3 DEF Findings
<1>4. CASE I # {}
  <2>1. k \in I /\ k \in 1..Len(c) /\ k > 0
    <3>1. I \subseteq 1..Len(c) /\ Len(c) \in Nat
      BY ChainFacts
    <3> HIDE DEF I
    <3>2. k \in I
      BY <1>4, <3>1, LastOf
    <3> HIDE DEF k
    <3> QED BY <3>1, <3>2
  <2>2. SelectLastInSeq(c, SetsFindings) = k /\ k # 0
    BY <1>1, <1>4, <2>1
  <2> HIDE DEF k
  <2>3. FindingsSince(c, k) = [id \in DOMAIN c[k].findings |-> c[k].findings[id]]
    <3>1. ~(0 > k)
      BY <2>1, ChainFacts
    <3> DEFINE top(id) == SelectLastInSeq(c, LAMBDA r : Overrides(r, id))
    <3>2. \A id : top(id) = 0
      BY <1>2
    <3>3. FindingsSince(c, k) =
              [id \in DOMAIN c[k].findings |->
                  IF top(id) > k THEN [c[k].findings[id] EXCEPT !.disp = c[top(id)].resolution.disp]
                  ELSE c[k].findings[id]]
      BY DEF FindingsSince
    <3> HIDE DEF top
    <3> QED BY <3>1, <3>2, <3>3
  <2>4. Findings(c) = FindingsSince(c, k)
    BY <2>2 DEF Findings
  <2> QED BY <1>4, <2>3, <2>4 DEF k
<1> QED BY <1>3, <1>4

LEMMA FindingsGrow ==
    ASSUME NEW c, NEW d, Numbered(c), Grows(c, d), \A k \in 1..Len(d) : d[k].resolution = None
    PROVE  \/ Findings(d) = Findings(c)
           \/ \E k \in Len(c) + 1..Len(d) :
                 /\ SetsFindings(d[k]) /\ DOMAIN Findings(d) = DOMAIN d[k].findings
                 /\ \A id \in DOMAIN d[k].findings : Findings(d)[id] = d[k].findings[id]
<1>1. /\ Len(c) \in Nat /\ Len(d) \in Nat /\ Len(c) <= Len(d) /\ Numbered(d)
      /\ \A k \in 1..Len(c) : d[k] = c[k]
  BY GrowsFacts
<1> DEFINE I(e) == {k \in 1..Len(e) : SetsFindings(e[k])}
           F(e) == [id \in DOMAIN e[Max(I(e))].findings |-> e[Max(I(e))].findings[id]]
           top(e) == IF I(e) # {} THEN Max(I(e)) ELSE 0
<1>2. /\ I(c) \subseteq 1..Len(c) /\ I(d) \subseteq 1..Len(d)
      /\ \A k \in 1..Len(c) : k \in I(d) <=> k \in I(c)
  BY <1>1
<1>3. \A k \in 1..Len(c) : c[k].resolution = None
  <2>1. \A k \in 1..Len(c) : k \in 1..Len(d)
    BY <1>1
  <2> QED BY <1>1, <2>1
<1>4. /\ Findings(c) = IF I(c) = {} THEN NoMap ELSE F(c)
      /\ Findings(d) = IF I(d) = {} THEN NoMap ELSE F(d)
  BY <1>1, <1>3, FindingsAre
<1>5. \A k \in I(d) : SetsFindings(d[k])
  OBVIOUS
<1> HIDE DEF I
<1>6. /\ top(c) \in I(c) \/ (top(c) = 0 /\ I(c) = {})
      /\ top(d) = top(c) \/ (top(d) \in I(d) /\ top(d) \in Len(c) + 1..Len(d))
  BY <1>1, <1>2, GreatestGrows
<1>7. top(d) \in I(d) \/ (top(d) = 0 /\ I(d) = {})
  <2>1. I(d) # {} => Max(I(d)) \in I(d)
    BY <1>1, <1>2, LastOf
  <2> QED BY <2>1
<1>8. CASE top(d) # top(c)
  <2>1. I(d) # {} /\ Max(I(d)) \in I(d) /\ Max(I(d)) \in Len(c) + 1..Len(d)
    BY <1>1, <1>6, <1>7, <1>8
  <2>2. Findings(d) = F(d)
    BY <1>4, <2>1
  <2> QED BY <1>5, <2>1, <2>2
<1>9. CASE top(d) = top(c) /\ top(c) = 0
  <2>1. I(c) = {}
    BY <1>1, <1>2, <1>6, <1>9
  <2>2. I(d) = {}
    BY <1>1, <1>2, <1>7, <1>9
  <2> QED BY <1>4, <2>1, <2>2
<1>10. CASE top(d) = top(c) /\ top(c) # 0
  <2>1. I(c) # {} /\ I(d) # {} /\ Max(I(d)) = Max(I(c)) /\ Max(I(c)) \in I(c)
    BY <1>6, <1>7, <1>10
  <2>2. d[Max(I(c))] = c[Max(I(c))]
    BY <1>1, <1>2, <2>1
  <2> QED BY <1>4, <2>1, <2>2
<1> QED BY <1>8, <1>9, <1>10

-----------------------------------------------------------------------------
(* What such a step keeps.                                                 *)

LEMMA HostAppends ==
    ASSUME DriverInv, NEW r, host' = Append(host, r), Files(r)
    PROVE  LET n == Len(host) + 1 IN
           /\ Len(host) \in Nat /\ n \notin DOMAIN host /\ host'[n] = r
           /\ DOMAIN host' = DOMAIN host \cup {n}
           /\ \A i \in DOMAIN host : host'[i] = host[i]
           /\ Packets \subseteq DOMAIN host
           /\ Packets' = Packets \cup (IF HasPacket(r) THEN {n} ELSE {})
           /\ \A kind : /\ Of(host, kind, Unit) \subseteq DOMAIN host
                        /\ Of(host', kind, Unit) =
                              Of(host, kind, Unit) \cup (IF r.kind = kind THEN {n} ELSE {})
           /\ Credits(host') = Credits(host) \cup (IF r.kind = "credit" THEN {n} ELSE {})
<1> DEFINE n == Len(host) + 1
<1>1. Numbered(host)
  BY DEF DriverInv, Typed
<1>2. /\ Len(host) \in Nat /\ DOMAIN host = 1..Len(host) /\ DOMAIN host' = 1..n
      /\ \A i \in 1..Len(host) : host'[i] = host[i]
      /\ host'[n] = r
  BY <1>1, Appended, ChainFacts
<1>3. n \notin DOMAIN host /\ DOMAIN host' = DOMAIN host \cup {n}
  BY <1>2
<1> HIDE DEF n
<1>4. Packets \subseteq DOMAIN host /\ Packets' = Packets \cup (IF HasPacket(r) THEN {n} ELSE {})
  BY <1>2, <1>3 DEF Packets
<1>5. \A kind : /\ Of(host, kind, Unit) \subseteq DOMAIN host
                /\ Of(host', kind, Unit) =
                      Of(host, kind, Unit) \cup (IF r.kind = kind THEN {n} ELSE {})
  BY <1>2, <1>3 DEF Of, Files
<1>6. Credits(host') = Credits(host) \cup (IF r.kind = "credit" THEN {n} ELSE {})
  BY <1>2, <1>3 DEF Credits
<1> QED BY <1>2, <1>3, <1>4, <1>5, <1>6 DEF n

LEMMA HostMoves ==
    ASSUME DriverInv, HostMoved
    PROVE  /\ Packets \subseteq DOMAIN host /\ Packets \subseteq Packets'
           /\ \A i \in DOMAIN host : i \in DOMAIN host' /\ host'[i] = host[i]
           /\ \A kind : /\ Of(host, kind, Unit) \subseteq DOMAIN host
                        /\ Of(host, kind, Unit) \subseteq Of(host', kind, Unit)
<1>1. CASE UNCHANGED host
  BY <1>1 DEF Packets, Of
<1>2. CASE \E r : host' = Append(host, r) /\ Files(r)
  <2>1. PICK r : host' = Append(host, r) /\ Files(r)
    BY <1>2
  <2> QED BY <2>1, HostAppends
<1> QED BY <1>1, <1>2 DEF HostMoved

LEMMA OlderKept ==
    ASSUME Numbered(commits), CommitsMoved
    PROVE  /\ Numbered(commits') /\ (\A t : Older(t) => Older(t)')
           /\ \A t : Older(t) /\ t # target => t # target'
<1>1. Len(commits) \in Nat /\ Numbered(commits')
      /\ (commits' = commits \/ Len(commits') = Len(commits) + 1)
  <2>1. CASE UNCHANGED commits
    BY <2>1, ChainFacts
  <2>2. CASE \E scope : commits' = Append(commits, scope)
    BY <2>2, Appended, AppendGrows
  <2> QED BY <2>1, <2>2 DEF CommitsMoved
<1>2. ASSUME NEW t, Older(t) PROVE Older(t)'
  <2>1. t = target => t.head = commits
    BY DEF target
  <2> QED BY <1>1, <1>2, <2>1 DEF Older, target
<1>3. ASSUME NEW t, Older(t), t # target PROVE t # target'
  <2>1. t = target' => t.head = commits'
    BY DEF target
  <2> QED BY <1>1, <1>3, <2>1 DEF Older
<1> QED BY <1>1, <1>2, <1>3

LEMMA PacketsApartKept == ASSUME DriverInv, PacketsApart, HostMoved PROVE PacketsApart'
<1>1. CASE UNCHANGED host
  BY <1>1 DEF PacketsApart, Packets
<1>2. CASE \E r : host' = Append(host, r) /\ Files(r) /\ Follows(r)
  <2>1. PICK r : host' = Append(host, r) /\ Files(r) /\ Follows(r)
    BY <1>2
  <2> DEFINE n == Len(host) + 1
  <2>2. /\ host'[n] = r /\ (\A i \in Packets : host'[i] = host[i])
        /\ Packets' = Packets \cup (IF HasPacket(r) THEN {n} ELSE {})
    BY <2>1, HostAppends
  <2>3. HasPacket(r) => \A i \in Packets : host[i].packet.run # r.packet.run
    BY <2>1 DEF Follows
  <2> HIDE DEF n
  <2> QED BY <2>2, <2>3 DEF PacketsApart
<1> QED BY <1>1, <1>2 DEF HostMoved

LEMMA TargetsOldKept ==
    ASSUME DriverInv, TargetsOld, HostMoved, CommitsMoved
    PROVE  TargetsOld'
<1>1. Numbered(commits') /\ \A t : Older(t) => Older(t)'
  BY OlderKept DEF TargetsOld
<1>2. \A i \in Packets' \cup Of(host', "review", Unit) :
          \/ host'[i].target = target
          \/ \E k \in Packets \cup Of(host, "review", Unit) : host'[i].target = host[k].target
  <2>1. CASE UNCHANGED host
    BY <2>1 DEF Packets, Of
  <2>2. CASE \E r : host' = Append(host, r) /\ Files(r) /\ Follows(r)
    <3>1. PICK r : host' = Append(host, r) /\ Files(r) /\ Follows(r)
      BY <2>2
    <3>2. r.kind = "review" => r.dispatch \in Packets /\ r.target = host[r.dispatch].target
      BY <3>1 DEF Files, Follows
    <3>3. HasPacket(r) => r.target = target
      BY <3>1 DEF Follows
    <3> QED BY <3>1, <3>2, <3>3, HostAppends
  <2> QED BY <2>1, <2>2 DEF HostMoved
<1>3. \A i \in Packets' \cup Of(host', "review", Unit) :
          \E t : t = host'[i].target /\ Older(t)
  BY <1>2 DEF TargetsOld, Older
<1>4. ASSUME NEW i \in Packets' \cup Of(host', "review", Unit)
      PROVE  Older(host[i].target)'
  <2>1. PICK t : t = host'[i].target /\ Older(t)
    BY <1>3
  <2>2. Older(t)'
    BY <1>1, <2>1
  <2> QED BY <2>1, <2>2 DEF Older
<1> QED BY <1>1, <1>4 DEF TargetsOld

LEMMA CoreMoves ==
    ASSUME DriverInv, CoreMoved
    PROVE  /\ Numbered(core) /\ Numbered(core')
           /\ Len(core) \in Nat /\ Len(core') \in Nat /\ Len(core) <= Len(core')
           /\ DOMAIN core = 1..Len(core) /\ DOMAIN core' = 1..Len(core')
           /\ \A k \in 1..Len(core) : core'[k] = core[k]
           /\ Len(core') = Len(core) => UNCHANGED core
           /\ \A k \in 1..Len(core') : k \in 1..Len(core) \/ k \in Len(core) + 1..Len(core')
<1>1. Numbered(core) /\ Grows(core, core')
  BY DEF DriverInv, Typed, CoreMoved
<1>2. /\ Numbered(core) /\ Numbered(core')
      /\ Len(core) \in Nat /\ Len(core') \in Nat /\ Len(core) <= Len(core')
      /\ DOMAIN core = 1..Len(core) /\ DOMAIN core' = 1..Len(core')
      /\ \A k \in 1..Len(core) : core'[k] = core[k]
      /\ \A n \in 0..Len(core) : SubSeq(core', 1, n) = SubSeq(core, 1, n)
  BY <1>1, GrowsFacts
<1>3. ASSUME Len(core') = Len(core) PROVE UNCHANGED core
  <2>1. SubSeq(core', 1, Len(core)) = SubSeq(core, 1, Len(core))
    BY <1>2
  <2>2. SubSeq(core, 1, Len(core)) = core /\ SubSeq(core', 1, Len(core')) = core'
    BY <1>2, WholeChain
  <2> QED BY <1>3, <2>1, <2>2
<1>4. \A k \in 1..Len(core') : k \in 1..Len(core) \/ k \in Len(core) + 1..Len(core')
  BY <1>2
<1> QED BY <1>2, <1>3, <1>4, Zenon

LEMMA PacketsApprovedKept ==
    ASSUME DriverInv, PacketsApproved, HostMoved, CoreMoved
    PROVE  PacketsApproved'
<1>1. RunRepository(host) => RunRepository(host')
  BY HostMoves DEF RunRepository
<1>2. \A i \in Packets : host'[i] = host[i] /\ (host[i].core = Len(core') => UNCHANGED core)
  <2>1. \A i \in Packets : i \in DOMAIN host /\ host[i].core \in 1..Len(core)
    BY HostMoves DEF DriverInv, HostInv, Filed
  <2>2. ASSUME NEW i \in Packets, host[i].core = Len(core') PROVE Len(core') = Len(core)
    <3>1. Len(core') \in 1..Len(core) /\ Len(core) \in Nat /\ Len(core) <= Len(core')
      BY <2>1, <2>2, CoreMoves
    <3> QED BY <3>1
  <2> QED BY <2>1, <2>2, HostMoves, CoreMoves
<1>3. ASSUME NEW i \in Packets', host'[i].core = Len(core')
      PROVE  UNCHANGED core /\ requireApprovedRepository(host, core, Unit, Base)
  <2>1. CASE i \in Packets
    BY <1>2, <1>3, <2>1 DEF PacketsApproved
  <2>2. CASE i \notin Packets
    <3>1. PICK r : host' = Append(host, r) /\ Files(r) /\ Follows(r)
      BY <2>2 DEF HostMoved, Packets
    <3>2. HasPacket(r)
      BY <1>3, <2>2, <3>1, HostAppends
    <3> QED BY <3>1, <3>2 DEF Follows
  <2> QED BY <2>1, <2>2
<1> QED BY <1>1, <1>3 DEF PacketsApproved, requireApprovedRepository

LEMMA ReceiptsKept ==
    ASSUME DriverInv, Receipts, HostMoved, WorldMoved
    PROVE  Receipts'
<1>1. \A run \in DOMAIN ledger :
          ledger[run].exit # None => run \in DOMAIN ledger' /\ ledger'[run] = ledger[run]
  BY DEF WorldMoved
<1>2. ASSUME NEW j \in Of(host', "review", Unit)
      PROVE  /\ host'[j].receipt \in DOMAIN ledger /\ ledger[host'[j].receipt].exit # None
             /\ ledger[host'[j].receipt].listed # None
  <2>1. CASE j \in Of(host, "review", Unit)
    BY <2>1, HostMoves DEF Receipts
  <2>2. CASE j \notin Of(host, "review", Unit)
    <3>1. PICK r : host' = Append(host, r) /\ Files(r) /\ Follows(r)
      BY <1>2, <2>2 DEF HostMoved
    <3>2. r.kind = "review" /\ host'[j] = r
      BY <1>2, <2>2, <3>1, HostAppends
    <3>3. /\ OutputUsable(r.dispatch) /\ Importable(r.dispatch)
          /\ r.receipt = host[r.dispatch].packet.run
      BY <3>1, <3>2 DEF Follows
    <3> QED BY <3>2, <3>3 DEF OutputUsable, Importable
  <2> QED BY <2>1, <2>2
<1> QED BY <1>1, <1>2 DEF Receipts

\* What a packet accounts for is settled by the chain up to it.
LEMMA AccountsKept ==
    ASSUME DriverInv, HostMoved, CoreMoved, NEW i \in Packets
    PROVE  /\ i \in Packets' /\ host'[i] = host[i]
           /\ \A l : AccountsFor(core', host'[i], l) <=> AccountsFor(core, host[i], l)
<1> DEFINE d == host[i]
           b == SubSeq(core, 1, d.core)
           g == currentIssuer(b, d.unit)
<1>1. i \in Packets' /\ host'[i] = d
  BY HostMoves
<1>2. i \in DOMAIN host /\ d.core \in 1..Len(core)
  BY DEF Packets, DriverInv, HostInv, Filed
<1>3. Numbered(core) /\ Grows(core, core')
  BY DEF DriverInv, Typed, CoreMoved
<1>4. /\ Len(core) \in Nat /\ d.core \in 0..Len(core)
      /\ \A n \in 0..Len(core) : SubSeq(core', 1, n) = SubSeq(core, 1, n)
      /\ \A k \in 1..Len(core) : core'[k] = core[k]
  BY <1>2, <1>3, GrowsFacts
<1>5. SubSeq(core', 1, d.core) = b
  BY <1>4
<1>6. Numbered(b) /\ DOMAIN b = 1..d.core
  BY <1>3, <1>4, PrefixFacts
<1>7. g # 0 => core'[g] = core[g]
  <2> SUFFICES ASSUME g # 0 PROVE core'[g] = core[g]
    OBVIOUS
  <2> HIDE DEF b
  <2>1. g \in 1..d.core
    BY <1>6, IssuerInChain
  <2> HIDE DEF g
  <2>2. g \in 1..Len(core)
    BY <1>4, <2>1
  <2> QED BY <1>4, <2>2
<1>8. \A l : /\ AccountsFor(core', d, l) <=>
                   /\ ReviewLaunchMatches(d, l)
                   /\ g # 0 /\ l.started < core'[g].approval.at
                                            + PlanUnit[core'[g].approval.contract].wall
             /\ AccountsFor(core, d, l) <=>
                   /\ ReviewLaunchMatches(d, l)
                   /\ g # 0 /\ l.started < core[g].approval.at
                                            + PlanUnit[core[g].approval.contract].wall
  BY <1>5 DEF AccountsFor
<1> HIDE DEF g, d
<1>9. \A l : AccountsFor(core', d, l) <=> AccountsFor(core, d, l)
  BY <1>7, <1>8
<1> QED BY <1>1, <1>9 DEF d

LEMMA ReconciledThenKept ==
    ASSUME DriverInv, ReconciledThen, HostMoved, CoreMoved, ReconciledMoved
    PROVE  ReconciledThen'
<1>1. ASSUME reconciled' # None, NEW run \in DOMAIN reconciled'.ledger \ reconciled'.refused
      PROVE  /\ reconciled'.ledger[run].exit # None
             /\ \E i \in Packets : AccountsFor(core, host[i], reconciled'.ledger[run])
  <2>1. CASE UNCHANGED reconciled
    BY <1>1, <2>1 DEF ReconciledThen
  <2>2. CASE ~UNCHANGED reconciled
    <3>1. reconciled'.ledger = ledger /\ reconciled'.refused = Unaccounted
      BY <1>1, <2>2 DEF ReconciledMoved
    <3> QED BY <1>1, <3>1 DEF Unaccounted
  <2> QED BY <2>1, <2>2
<1>2. ASSUME reconciled' # None, NEW run \in DOMAIN reconciled'.ledger \ reconciled'.refused
      PROVE  /\ reconciled'.ledger[run].exit # None
             /\ \E i \in Packets' : AccountsFor(core', host'[i], reconciled'.ledger[run])
  BY <1>1, <1>2, AccountsKept
<1> QED BY <1>2 DEF ReconciledThen

LEMMA UnaccountedKept ==
    ASSUME DriverInv, HostMoved, CoreMoved, WorldMoved, Unaccounted = {},
           DOMAIN ledger' = DOMAIN ledger
    PROVE  Unaccounted' = {}
<1>1. ASSUME NEW run \in DOMAIN ledger
      PROVE  /\ ledger[run].exit # None /\ ledger'[run] = ledger[run]
             /\ \E i \in Packets : AccountsFor(core, host[i], ledger[run])
  BY DEF Unaccounted, WorldMoved
<1>2. ASSUME NEW run \in DOMAIN ledger'
      PROVE  /\ ledger'[run].exit # None
             /\ \E i \in Packets' : AccountsFor(core', host'[i], ledger'[run])
  BY <1>1, <1>2, AccountsKept
<1> QED BY <1>2 DEF Unaccounted

LEMMA CreditsRecordedKept ==
    ASSUME DriverInv, CreditsRecorded, HostMoved, CoreMoved
    PROVE  CreditsRecorded'
<1>1. ASSUME NEW k \in Credits(host') PROVE host'[k].record \in 0..Len(core')
  <2>1. CASE k \in Credits(host)
    <3>1. host'[k] = host[k] /\ k \in DOMAIN host
      BY <2>1, HostMoves DEF Credits
    <3>2. host[k].record \in 0..Len(core)
      BY <2>1 DEF CreditsRecorded
    <3>3. Len(core) \in Nat /\ Len(core') \in Nat /\ Len(core) <= Len(core')
      BY CoreMoves
    <3> QED BY <3>1, <3>2, <3>3
  <2>2. CASE k \notin Credits(host)
    <3>1. PICK r : host' = Append(host, r) /\ Files(r) /\ Follows(r)
      BY <1>1, <2>2 DEF HostMoved
    <3>2. r.kind = "credit" /\ host'[k] = r
      BY <1>1, <2>2, <3>1, HostAppends
    <3>3. host'[k].record = Len(core') /\ Len(core') \in Nat
      BY <3>1, <3>2, CoreMoves DEF Follows
    <3> QED BY <3>3
  <2> QED BY <2>1, <2>2
<1> QED BY <1>1 DEF CreditsRecorded

LEMMA CoreFindingsKept ==
    ASSUME DriverInv, CoreFindings, CoreMoved
    PROVE  /\ CoreFindings'
           /\ \A id \in DOMAIN Findings(core) :
                 id \in DOMAIN Findings(core') /\ Findings(core')[id] = Findings(core)[id]
           /\ Reached("VERIFICATION") \/ (\E k \in Len(core) + 1..Len(core') : ApprovedMove(core'[k])) =>
                 \A id \in DOMAIN Findings(core') : id.by = None => id \in DOMAIN Findings(core)
<1> DEFINE New == Len(core) + 1..Len(core')
<1>1. /\ DOMAIN core = 1..Len(core) /\ DOMAIN core' = 1..Len(core')
      /\ \A k \in 1..Len(core) : core'[k] = core[k]
      /\ \A k \in 1..Len(core') : k \in 1..Len(core) \/ k \in New
      /\ Numbered(core) /\ Grows(core, core') /\ Len(core) \in Nat /\ Len(core') \in Nat
  BY CoreMoves DEF CoreMoved
<1>2. \A k \in New : CoreFollows(core'[k], Len(core') = Len(core) + 1)
  BY DEF CoreMoved
<1>3. Len(core') = Len(core) + 1 => \A k \in New : k = Len(core')
  BY <1>1
<1> HIDE DEF New
<1>4. \A k \in 1..Len(core') : core'[k].resolution = None
  BY <1>1, <1>2 DEF CoreFindings, CoreFollows
<1>5. \/ Findings(core') = Findings(core)
      \/ \E k \in New :
            /\ SetsFindings(core'[k]) /\ DOMAIN Findings(core') = DOMAIN core'[k].findings
            /\ \A id \in DOMAIN core'[k].findings : Findings(core')[id] = core'[k].findings[id]
  BY <1>1, <1>4, FindingsGrow DEF New
<1>6. (\E k \in DOMAIN core : core[k].snapshot) => \E k \in DOMAIN core' : core'[k].snapshot
  <2>1. \A k \in DOMAIN core : k \in DOMAIN core' /\ core'[k].snapshot = core[k].snapshot
    <3>1. Len(core) \in Nat /\ Len(core') \in Nat /\ Len(core) <= Len(core')
      BY CoreMoves
    <3>2. \A k \in 1..Len(core) : k \in 1..Len(core')
      BY <3>1
    <3> QED BY <1>1, <3>2
  <2> QED BY <2>1
<1>7. CASE Findings(core') = Findings(core)
  <2>1. CoreFindings'
    BY <1>1, <1>4, <1>6, <1>7 DEF CoreFindings
  <2> QED BY <1>7, <2>1
<1>8. ASSUME NEW k \in New, SetsFindings(core'[k]), DOMAIN Findings(core') = DOMAIN core'[k].findings,
             \A id \in DOMAIN core'[k].findings : Findings(core')[id] = core'[k].findings[id]
      PROVE  /\ CoreFindings'
             /\ \A id \in DOMAIN Findings(core) :
                   id \in DOMAIN Findings(core') /\ Findings(core')[id] = Findings(core)[id]
             /\ Reached("VERIFICATION") \/ (\E j \in New : ApprovedMove(core'[j])) =>
                   \A id \in DOMAIN Findings(core') : id.by = None => id \in DOMAIN Findings(core)
  <2>1. /\ FindingsKeep(core'[k].findings, core'[k].snapshot)
        /\ Len(core') = Len(core) + 1 /\ ~ApprovedMove(core'[k])
    BY <1>2, <1>8 DEF CoreFollows
  <2>2. ~\E j \in New : ApprovedMove(core'[j])
    BY <1>3, <1>8, <2>1
  <2>3. k \in DOMAIN core'
    BY <1>1, <1>8 DEF New
  <2>4. ASSUME NEW id \in DOMAIN Findings(core')
        PROVE  /\ id.by = None => Findings(core')[id].unit # Unit
               /\ id.by # None => \E i \in DOMAIN core' : core'[i].snapshot
    BY <1>6, <1>8, <2>1, <2>3, <2>4 DEF CoreFindings, FindingsKeep
  <2>5. CoreFindings'
    BY <1>1, <1>4, <2>4 DEF CoreFindings
  <2> QED BY <1>8, <2>1, <2>2, <2>5 DEF FindingsKeep
<1> QED BY <1>5, <1>7, <1>8 DEF New

LEMMA SourcedKept ==
    ASSUME DriverInv, Sourced, HostMoved, CoreMoved
    PROVE  Sourced'
<1>1. ASSUME NEW k \in 1..Len(core'), core'[k].snapshot
      PROVE  core'[k].source \in Of(host, "review", Unit)
  <2>1. CASE k \in 1..Len(core)
    BY <1>1, <2>1, CoreMoves DEF Sourced
  <2>2. CASE k \in Len(core) + 1..Len(core')
    BY <1>1, <2>2 DEF CoreMoved, CoreFollows
  <2> QED BY <2>1, <2>2, CoreMoves
<1>2. Of(host, "review", Unit) \subseteq Of(host', "review", Unit)
  BY HostMoves
<1> QED BY <1>1, <1>2, CoreMoves DEF Sourced

LEMMA CriteriaMove ==
    ASSUME DriverInv, CoreMoved
    PROVE  /\ Criteria(core') = Criteria(core) \/ CriteriaFollow(Criteria(core'))
           /\ CriteriaAt(core') = CriteriaAt(core) \/ CriteriaAt(core') \in Len(core) + 1..Len(core')
<1>1. Numbered(core) /\ Grows(core, core')
  BY DEF DriverInv, Typed, CoreMoved
<1>2. \A k \in Len(core) + 1..Len(core') : core'[k].criteria # NoMap => CriteriaFollow(core'[k].criteria)
  BY DEF CoreMoved, CoreFollows
<1> QED BY <1>1, <1>2, CriteriaGrow

LEMMA PassedTogetherKept ==
    ASSUME DriverInv, PassedTogether, CoreMoved
    PROVE  PassedTogether'
<1> DEFINE cs == Criteria(core')
<1>1. Criteria(core') = Criteria(core) \/ CriteriaFollow(cs)
  BY CriteriaMove
<1>2. Credited' <=> \A id \in advanced : id \in DOMAIN cs /\ cs[id] = "PASSED"
  BY DEF Credited, advanced
<1>3. PassedTogether' <=> \A id \in DOMAIN cs : cs[id] = "PASSED" => id \in advanced /\ Credited'
  BY DEF PassedTogether, advanced
<1>4. CASE Criteria(core') = Criteria(core)
  BY <1>2, <1>3, <1>4 DEF PassedTogether, Credited
<1>5. CASE CriteriaFollow(cs) /\ Criteria(core') # Criteria(core)
  <2> HIDE DEF cs
  <2>1. \A id \in DOMAIN cs :
            cs[id] = "PASSED" => id \in advanced /\ \A a \in advanced : a \in DOMAIN cs /\ cs[a] = "PASSED"
    BY <1>5 DEF CriteriaFollow, cs
  <2> QED BY <1>2, <1>3, <2>1
<1> QED BY <1>1, <1>4, <1>5

LEMMA StageMoved ==
    ASSUME DriverInv, CoreMoved, Reached("VERIFICATION")'
    PROVE  \/ Reached("VERIFICATION")
           \/ /\ \E k \in Len(core) + 1..Len(core') : ApprovedMove(core'[k])
              /\ Unaccounted = {} /\ ~HasUnauthorizedDispatch /\ Of(host, "review", Unit) # {}
<1>1. Numbered(core) /\ Grows(core, core')
  BY DEF DriverInv, Typed, CoreMoved
<1>2. CASE \A k \in Len(core) + 1..Len(core') : ~ApprovedMove(core'[k])
  <2>1. CurrentStage(core') = CurrentStage(core)
    BY <1>1, <1>2, StageStays
  <2> QED BY <2>1 DEF Reached
<1>3. ASSUME NEW k \in Len(core) + 1..Len(core'), ApprovedMove(core'[k])
      PROVE  Reached("VERIFICATION") \/
             (Unaccounted = {} /\ ~HasUnauthorizedDispatch /\ Of(host, "review", Unit) # {})
  <2>1. Len(core') = Len(core) + 1 /\ CoreFollows(core'[k], Len(core') = Len(core) + 1)
    BY <1>3 DEF CoreMoved
  <2>2. k = Len(core')
    <3>1. Len(core) \in Nat
      BY CoreMoves
    <3>2. k \in Len(core) + 1..Len(core) + 1
      BY <1>3, <2>1
    <3> QED BY <2>1, <3>1, <3>2
  <2>3. CurrentStage(core') = core'[k].approval.to
    BY <1>1, <1>3, <2>1, <2>2, StageMoves
  <2>4. stageOrder("VERIFICATION") <= stageOrder(core'[k].approval.to)
    <3>1. stageOrder(CurrentStage(core')) >= stageOrder("VERIFICATION")
      BY DEF Reached
    <3> QED BY <2>3, <3>1
  <2> QED BY <1>3, <2>1, <2>4 DEF CoreFollows
<1> QED BY <1>2, <1>3

LEMMA VerifiedKept ==
    ASSUME DriverInv, CoreFindings, Verified, HostMoved, CoreMoved, WorldMoved
    PROVE  Verified'
<1> SUFFICES ASSUME Reached("VERIFICATION")'
             PROVE  Unaccounted' = {} /\ ~HasUnauthorizedDispatch' /\ Of(host', "review", Unit) # {}
  BY DEF Verified
<1>1. /\ Unaccounted = {} /\ ~HasUnauthorizedDispatch /\ Of(host, "review", Unit) # {}
      /\ Reached("VERIFICATION") \/ \E k \in Len(core) + 1..Len(core') : ApprovedMove(core'[k])
  BY StageMoved DEF Verified
<1>2. DOMAIN ledger' = DOMAIN ledger
  BY <1>1 DEF WorldMoved
<1>3. Unaccounted' = {}
  BY <1>1, <1>2, UnaccountedKept
<1>4. Of(host', "review", Unit) # {}
  BY <1>1, HostMoves
<1>5. \A id \in DOMAIN Findings(core') :
          id.by = None => id \in DOMAIN Findings(core) /\ Findings(core')[id] = Findings(core)[id]
  BY <1>1, CoreFindingsKept
<1>6. ~HasUnauthorizedDispatch'
  BY <1>1, <1>5 DEF HasUnauthorizedDispatch
<1> QED BY <1>3, <1>4, <1>6

LEMMA ContractIssuedKept ==
    ASSUME DriverInv, ContractIssued, CoreMoved
    PROVE  ContractIssued'
<1>1. ASSUME NEW k \in 1..Len(core'), IssuesLease(core'[k], Unit)
      PROVE  core'[k].approval.contract = Contract
  <2>1. CASE k \in 1..Len(core)
    <3>1. core'[k] = core[k] /\ k \in DOMAIN core
      BY <2>1, CoreMoves
    <3> QED BY <1>1, <3>1 DEF ContractIssued, Moves, IssuesLease
  <2>2. CASE k \in Len(core) + 1..Len(core')
    BY <1>1, <2>2 DEF CoreMoved, CoreFollows
  <2> QED BY <2>1, <2>2, CoreMoves
<1> QED BY <1>1, CoreMoves DEF ContractIssued, Moves

LEMMA EndKept == ASSUME DriverInv, EndInv, Moved PROVE EndInv'
<1>1. HostMoved /\ CoreMoved /\ ReconciledMoved /\ CommitsMoved /\ WorldMoved
  BY DEF Moved
<1>2. WorldInv'
  BY <1>1, PacketsApartKept, TargetsOldKept, ReceiptsKept DEF EndInv, WorldInv, WorldMoved
<1>3. PacketsApproved' /\ ReconciledThen' /\ CreditsRecorded' /\ Sourced'
  BY <1>1, PacketsApprovedKept, ReconciledThenKept, CreditsRecordedKept, SourcedKept
     DEF EndInv, ChainsInv
<1>4. CoreFindings' /\ PassedTogether' /\ ContractIssued'
  BY <1>1, CoreFindingsKept, PassedTogetherKept, ContractIssuedKept DEF EndInv, ChainsInv
<1>5. Verified'
  BY <1>1, VerifiedKept DEF EndInv, ChainsInv
<1> QED BY <1>2, <1>3, <1>4, <1>5 DEF EndInv, ChainsInv

-----------------------------------------------------------------------------
(* A dead end stays one.                                                   *)

LEMMA NotEnded ==
    ASSUME DriverInv, CoreMoved, DeadEnd
    PROVE  ~Done'
<1>1. /\ DOMAIN core = 1..Len(core) /\ DOMAIN core' = 1..Len(core')
      /\ \A k \in 1..Len(core) : core'[k] = core[k]
      /\ \A k \in 1..Len(core') : k \in 1..Len(core) \/ k \in Len(core) + 1..Len(core')
  BY CoreMoves
<1>2. \A k \in 1..Len(core) : core[k].kind # "outcome"
  BY <1>1 DEF DeadEnd, Done, Terminal
<1>3. \A k \in Len(core) + 1..Len(core') : core'[k].kind # "outcome"
  BY DEF CoreMoved, CoreFollows
<1> QED BY <1>1, <1>2, <1>3 DEF Done, Terminal

LEMMA UnaccountableKept ==
    ASSUME DriverInv, EndInv, HostMoved, CoreMoved, WorldMoved, NEW run \in Unaccountable
    PROVE  run \in Unaccountable'
<1>1. /\ run \in DOMAIN ledger /\ run \in DOMAIN ledger'
      /\ ledger'[run] = ledger[run] \/ (ledger[run].exit = None /\ RunningFor(run))
      /\ RunningFor(run)' => RunningFor(run)
  BY DEF WorldMoved, Unaccountable, Unaccounted
<1>2. CASE ledger[run].exit = None
  <2>1. ~RunningFor(run)
    BY <1>2 DEF Unaccountable
  <2> QED BY <1>1, <1>2, <2>1 DEF Unaccountable, Unaccounted
<1>3. CASE ledger[run].exit # None
  <2>1. ledger'[run] = ledger[run]
    BY <1>1, <1>3
  <2>2. \A i \in Packets : ~AccountsFor(core, host[i], ledger[run])
    BY <1>3 DEF Unaccountable, Unaccounted
  <2>3. /\ ledger[run].run = run /\ host[ledger[run].packet].packet.run = run
        /\ ledger[run].packet \in Packets
    BY <1>1 DEF EndInv, WorldInv, LedgerApart, DriverInv, Typed, LedgerTyped
  <2>4. ASSUME NEW i \in Packets' PROVE ~AccountsFor(core', host'[i], ledger[run])
    <3>1. CASE i \in Packets
      BY <2>2, <3>1, AccountsKept
    <3>2. CASE i \notin Packets
      <4>1. PICK r : host' = Append(host, r) /\ Files(r) /\ Follows(r)
        BY <3>2 DEF HostMoved, Packets
      <4>2. HasPacket(r) /\ host'[i] = r
        BY <3>2, <4>1, HostAppends
      <4>3. r.packet.run # run
        BY <2>3, <4>1, <4>2 DEF Follows
      <4> QED BY <2>3, <4>2, <4>3 DEF AccountsFor, ReviewLaunchMatches
    <3> QED BY <3>1, <3>2
  <2> QED BY <1>1, <1>3, <2>1, <2>4 DEF Unaccountable, Unaccounted
<1> QED BY <1>2, <1>3

\* Nothing is waived, so a finding in the way stays in the way.
LEMMA NothingWaived ==
    ASSUME NEW c, \A k \in DOMAIN c : c[k].resolution = None
    PROVE  ActiveWaivers(c) = {}
<1>1. {i \in DOMAIN c : c[i].resolution # None} = {}
  OBVIOUS
<1> QED BY <1>1 DEF ActiveWaivers

LEMMA UnresolvedKept ==
    ASSUME DriverInv, EndInv, CoreMoved, ~FindingsResolved(core, Unit)
    PROVE  ~FindingsResolved(core', Unit)
<1>1. CoreFindings /\ CoreFindings'
  BY CoreFindingsKept DEF EndInv, ChainsInv
<1>2. ActiveWaivers(core) = {} /\ ActiveWaivers(core') = {}
  BY <1>1, NothingWaived DEF CoreFindings
<1>3. PICK id \in DOMAIN Findings(core) :
          /\ None \notin {Unit, Findings(core)[id].unit} => Findings(core)[id].unit = Unit
          /\ Findings(core)[id].disp # "ADVISORY"
  BY DEF FindingsResolved
<1>4. id \in DOMAIN Findings(core') /\ Findings(core')[id] = Findings(core)[id]
  BY <1>1, CoreFindingsKept
<1> QED BY <1>2, <1>3, <1>4 DEF FindingsResolved

\* Content that moved on stays gone, and so does a report that was replaced.
LEMMA GoneStays ==
    ASSUME DriverInv, EndInv, CommitsMoved, WorldMoved,
           NEW i \in Packets \cup Of(host, "review", Unit), NEW run \in DOMAIN ledger,
           ledger[run].exit # None
    PROVE  /\ run \in DOMAIN ledger' /\ ledger'[run] = ledger[run]
           /\ host[i].target # target => host[i].target # target'
           /\ report # ledger[run].listed => report' # ledger[run].listed
<1>1. run \in DOMAIN ledger' /\ ledger'[run] = ledger[run]
  BY DEF WorldMoved
<1>2. host[i].target # target => host[i].target # target'
  BY OlderKept DEF EndInv, WorldInv, TargetsOld
<1>3. ASSUME report # ledger[run].listed, report' = ledger[run].listed
      PROVE  FALSE
  <2>1. report' # None /\ ~Written(report'.packet)
    BY <1>3 DEF WorldMoved
  <2> QED BY <1>3, <2>1 DEF Written
<1> QED BY <1>1, <1>2, <1>3

\* hmarun finds the packet it found, when none is issued.
LEMMA FoundStays ==
    ASSUME DriverInv, HostMoved, Packets # {}, Packets' = Packets
    PROVE  /\ findReviewDispatch' = findReviewDispatch
           /\ RequireImplementation(host', Unit) = RequireImplementation(host, Unit)
<1>1. CASE UNCHANGED host
  BY <1>1 DEF findReviewDispatch, Packets
<1>2. CASE \E r : host' = Append(host, r) /\ Files(r) /\ Follows(r)
  <2>1. PICK r : host' = Append(host, r) /\ Files(r) /\ Follows(r)
    BY <1>2
  <2>2. Numbered(host) /\ Filed /\ Worked
    BY DEF DriverInv, Typed, HostInv
  <2>3. r.kind # "decision" /\ ~Implements(r)
    BY <2>1, <2>2, WorkThere DEF Files, Worked
  <2>4. RequireImplementation(host', Unit) = RequireImplementation(host, Unit)
    BY <2>1, <2>2, <2>3, SameWork
  <2>5. \A i \in Packets : host'[i] = host[i]
    BY HostMoves
  <2>6. {i \in Packets' : host'[i].implementation = RequireImplementation(host', Unit)} =
        {i \in Packets : host[i].implementation = RequireImplementation(host, Unit)}
    BY <2>4, <2>5
  <2> QED BY <2>4, <2>6 DEF findReviewDispatch
<1> QED BY <1>1, <1>2 DEF HostMoved

\* Output that import refuses it refuses ever after.
LEMMA UnanswerableKept ==
    ASSUME DriverInv, EndInv, Moved, NEW i \in Packets, i = findReviewDispatch, Unanswerable(i)
    PROVE  i \in Packets' /\ i = findReviewDispatch' /\ Unanswerable(i)'
<1> DEFINE run == host[i].packet.run
<1>1. HostMoved /\ CoreMoved /\ CommitsMoved /\ WorldMoved
  BY DEF Moved
<1>2. ~Imported(i) /\ OutputUsable(i) /\ ~Importable(i) /\ run \in DOMAIN ledger /\ ledger[run].exit # None
  BY DEF Unanswerable, OutputUsable
<1>3. i # 0 /\ i \in DOMAIN host /\ host[i].core \in 1..Len(core) /\ host[i].unit = Unit
  <2>1. i \in DOMAIN host
    BY DEF Packets
  <2>2. DOMAIN host = 1..Len(host)
    BY ChainFacts DEF DriverInv, Typed
  <2> QED BY <2>1, <2>2 DEF DriverInv, HostInv, Filed
<1>4. Of(host, "review", Unit) = {}
  BY <1>2, AnswerFound
<1>5. \A r : Files(r) /\ Follows(r) => ~Reviews(r) /\ r.kind # "review" /\ r.kind # "credit"
  <2> SUFFICES ASSUME NEW r, Files(r), Follows(r)
               PROVE  ~Reviews(r) /\ r.kind # "review" /\ r.kind # "credit"
    OBVIOUS
  <2>1. ~Reviews(r)
    BY <1>2, <1>3 DEF Follows, reviewDispatchNeedsReissue
  <2>2. r.kind # "review"
    BY <1>2 DEF Files, Follows
  <2>3. r.kind # "credit"
    BY <1>4 DEF Files
  <2> QED BY <2>1, <2>2, <2>3
<1>6. /\ Packets' = Packets /\ Of(host', "review", Unit) = {} /\ host'[i] = host[i]
      /\ {k \in Of(host', "dispatch", Unit) : Reviews(host'[k])} =
         {k \in Of(host, "dispatch", Unit) : Reviews(host[k])}
  <2>1. CASE UNCHANGED host
    BY <1>4, <2>1 DEF Packets
  <2>2. CASE \E r : host' = Append(host, r) /\ Files(r) /\ Follows(r)
    <3>1. PICK r : host' = Append(host, r) /\ Files(r) /\ Follows(r)
      BY <2>2
    <3> DEFINE n == Len(host) + 1
    <3>2. /\ n \notin DOMAIN host /\ host'[n] = r
          /\ \A k \in DOMAIN host : host'[k] = host[k]
          /\ Packets' = Packets \cup (IF HasPacket(r) THEN {n} ELSE {})
          /\ \A kind : /\ Of(host, kind, Unit) \subseteq DOMAIN host
                       /\ Of(host', kind, Unit) =
                             Of(host, kind, Unit) \cup (IF r.kind = kind THEN {n} ELSE {})
      BY <3>1, HostAppends
    <3>3. ~Reviews(r) /\ ~HasPacket(r) /\ r.kind # "review"
      BY <1>5, <3>1 DEF HasPacket
    <3> HIDE DEF n
    <3>4. {k \in Of(host', "dispatch", Unit) : Reviews(host'[k])} =
          {k \in Of(host, "dispatch", Unit) : Reviews(host[k])}
      BY <3>2, <3>3
    <3> QED BY <1>3, <1>4, <3>2, <3>3, <3>4
  <2> QED BY <1>1, <2>1, <2>2 DEF HostMoved
<1>7. findReviewDispatch' = i /\ RequireImplementation(host', Unit) = RequireImplementation(host, Unit)
  BY <1>1, <1>6, FoundStays
<1>8. ~Imported(i)'
  BY <1>6 DEF Imported
<1>9. /\ run \in DOMAIN ledger' /\ ledger'[run] = ledger[run]
      /\ host[i].target # target => host[i].target # target'
      /\ report # ledger[run].listed => report' # ledger[run].listed
  BY <1>1, <1>2, GoneStays
<1>10. OutputUsable(i)'
  BY <1>1, <1>2, <1>6, <1>9 DEF OutputUsable, WorldMoved
<1>11. ~Importable(i)'
  <2> SUFFICES ASSUME Importable(i)' PROVE Importable(i)
    BY <1>2
  <2>1. /\ host[i].core = Len(core') /\ host[i].target = target'
        /\ ledger[run].exit = 0 /\ ledger[run].listed = report'
        /\ EvaluateReviewImport(host', i, ledger[run], report')
    BY <1>6, <1>9 DEF Importable
  <2>2. host[i].core = Len(core) /\ requireApprovedRepository(host, core, Unit, Base)
    <3>1. Len(core') \in 1..Len(core) /\ Len(core) \in Nat /\ Len(core) <= Len(core')
      BY <1>1, <1>3, <2>1, CoreMoves
    <3>2. host[i].core = Len(core)
      BY <2>1, <3>1
    <3> QED BY <3>2 DEF EndInv, ChainsInv, PacketsApproved
  <2>3. report' = report /\ ledger[run].listed = report /\ host[i].target = target
    BY <1>9, <2>1
  <2>4. Answerable(host, i)
    <3>1. Answerable(host', i)
      BY <2>1 DEF EvaluateReviewImport
    <3>2. i = latestReviewDispatch(host, Unit)
      BY <1>3, <1>6, <3>1 DEF Answerable, latestReviewDispatch
    <3>3. host[i].implementation = RequireImplementation(host, Unit)
      BY DEF DriverInv, HostInv, Worked
    <3>4. \A j \in DOMAIN host : host[j].kind = "review" => host[j].dispatch # i
      BY <1>4 DEF Of, DriverInv, HostInv, Filed
    <3> QED BY <1>3, <3>2, <3>3, <3>4 DEF Answerable
  <2>5. EvaluateReviewImport(host, i, ledger[run], report)
    BY <1>6, <2>1, <2>3, <2>4 DEF EvaluateReviewImport
  <2> QED BY <2>1, <2>2, <2>3, <2>5 DEF Importable
<1> QED BY <1>6, <1>7, <1>8, <1>10, <1>11 DEF Unanswerable

LEMMA UnusableKept ==
    ASSUME DriverInv, EndInv, Moved, NEW j \in Of(host, "review", Unit),
           j = latestImportedReview, Unusable(j)
    PROVE  j \in Of(host', "review", Unit) /\ j = latestImportedReview' /\ Unusable(j)'
<1> DEFINE run == host[j].receipt
<1>1. HostMoved /\ CoreMoved /\ CommitsMoved /\ WorldMoved
  BY DEF Moved
<1>2. Of(host', "review", Unit) = Of(host, "review", Unit) /\ host'[j] = host[j]
  <2>1. CASE UNCHANGED host
    BY <2>1
  <2>2. CASE \E r : host' = Append(host, r) /\ Files(r)
    <3>1. PICK r : host' = Append(host, r) /\ Files(r)
      BY <2>2
    <3>2. r.kind # "review"
      BY <3>1 DEF Files
    <3>3. /\ j \in DOMAIN host
          /\ Of(host', "review", Unit) =
                Of(host, "review", Unit) \cup (IF r.kind = "review" THEN {Len(host) + 1} ELSE {})
          /\ \A k \in DOMAIN host : host'[k] = host[k]
      BY <3>1, HostAppends
    <3> QED BY <3>2, <3>3
  <2> QED BY <1>1, <2>1, <2>2 DEF HostMoved
<1>3. latestImportedReview' = latestImportedReview
  BY <1>2 DEF latestImportedReview
<1>4. run \in DOMAIN ledger /\ ledger[run].exit # None
  BY DEF EndInv, WorldInv, Receipts
<1>5. /\ ledger'[run] = ledger[run]
      /\ host[j].target # target => host[j].target # target'
      /\ report # ledger[run].listed => report' # ledger[run].listed
  BY <1>1, <1>4, GoneStays
<1>6. ~Credited => ~Credited'
  <2> DEFINE cs == Criteria(core')
  <2>1. cs = Criteria(core) \/ CriteriaFollow(cs)
    BY <1>1, CriteriaMove
  <2>2. ASSUME ~Credited PROVE \E a \in advanced : ~(a \in DOMAIN cs /\ cs[a] = "PASSED")
    <3>1. PICK a \in advanced : ~(a \in DOMAIN Criteria(core) /\ Criteria(core)[a] = "PASSED")
      BY <2>2 DEF Credited
    <3> HIDE DEF cs
    <3> QED BY <2>1, <3>1 DEF CriteriaFollow
  <2> QED BY <2>2 DEF Credited, advanced
<1>7. Unusable(j)'
  BY <1>2, <1>5, <1>6 DEF Unusable
<1> QED BY <1>2, <1>3, <1>7

LEMMA UncreditedKept ==
    ASSUME DriverInv, EndInv, HostMoved, CoreMoved, Uncredited
    PROVE  Uncredited'
<1>1. Credited /\ \A k \in Credits(host) : host[k].record # CriteriaAt(core)
  BY DEF Uncredited
<1>2. Credited'
  <2> DEFINE cs == Criteria(core')
  <2>1. cs = Criteria(core) \/ CriteriaFollow(cs)
    BY CriteriaMove
  <2>2. ASSUME NEW a \in advanced PROVE a \in DOMAIN cs /\ cs[a] = "PASSED"
    <3>1. a \in DOMAIN Criteria(core) /\ Criteria(core)[a] = "PASSED"
      BY <1>1 DEF Credited
    <3>2. Criteria(core) # NoMap
      BY <3>1 DEF NoMap
    <3> HIDE DEF cs
    <3> QED BY <1>1, <2>1, <3>1, <3>2 DEF CriteriaFollow
  <2> QED BY <2>2 DEF Credited, advanced
<1>3. Credits(host') = Credits(host) /\ \A k \in Credits(host) : host'[k] = host[k]
  <2>1. CASE UNCHANGED host
    BY <2>1
  <2>2. CASE \E r : host' = Append(host, r) /\ Files(r) /\ Follows(r)
    <3>1. PICK r : host' = Append(host, r) /\ Files(r) /\ Follows(r)
      BY <2>2
    <3>2. r.kind # "credit"
      BY <1>1, <3>1 DEF Follows
    <3>3. /\ Credits(host') = Credits(host) \cup (IF r.kind = "credit" THEN {Len(host) + 1} ELSE {})
          /\ \A k \in DOMAIN host : host'[k] = host[k]
      BY <3>1, HostAppends
    <3> QED BY <3>2, <3>3 DEF Credits
  <2> QED BY <2>1, <2>2 DEF HostMoved
<1>4. CriteriaAt(core') = CriteriaAt(core) \/ CriteriaAt(core') \in Len(core) + 1..Len(core')
  BY CriteriaMove
<1>5. ASSUME NEW k \in Credits(host) PROVE host[k].record # CriteriaAt(core')
  <2>1. host[k].record \in 0..Len(core) /\ Len(core) \in Nat
    BY CoreMoves DEF EndInv, ChainsInv, CreditsRecorded
  <2>2. host[k].record \notin Len(core) + 1..Len(core')
    BY <2>1
  <2> QED BY <1>1, <1>4, <2>2
<1> QED BY <1>2, <1>3, <1>5 DEF Uncredited

LEMMA DeadEndKept == ASSUME DriverInv, EndInv, Moved, DeadEnd PROVE DeadEnd'
<1>1. HostMoved /\ CoreMoved /\ CommitsMoved /\ WorldMoved
  BY DEF Moved
<1>2. ~Done'
  BY <1>1, NotEnded
<1>3. Unaccountable # {} => Unaccountable' # {}
  BY <1>1, UnaccountableKept
<1>4. ~FindingsResolved(core, Unit) => ~FindingsResolved(core', Unit)
  BY <1>1, UnresolvedKept
<1>5. (\E i \in Packets : i = findReviewDispatch /\ Unanswerable(i)) =>
          \E i \in Packets' : i = findReviewDispatch' /\ Unanswerable(i)'
  BY UnanswerableKept
<1>6. (\E j \in Of(host, "review", Unit) : j = latestImportedReview /\ Unusable(j)) =>
          \E j \in Of(host', "review", Unit) : j = latestImportedReview' /\ Unusable(j)'
  BY UnusableKept
<1>7. Uncredited => Uncredited'
  BY <1>1, UncreditedKept
<1> QED BY <1>2, <1>3, <1>4, <1>5, <1>6, <1>7 DEF DeadEnd

-----------------------------------------------------------------------------
(* Each step moves so.                                                     *)

\* No reviewer starts, stops at its report, or takes another's run.
Calm ==
    /\ \A who \in {"child", "orphan"} :
          Reviewing(who)' =>
             \E w \in {"child", "orphan"} :
                /\ Reviewing(w)
                /\ agents'[who].run = agents[w].run /\ agents'[who].did = agents[w].did
    /\ Reviewing("child")' /\ Reviewing("orphan")' => agents'.child.run # agents'.orphan.run

LEMMA ReviewersAre ==
    /\ AgentsTyped =>
          \A run : RunningFor(run) <=>
             \E who \in {"child", "orphan"} : Reviewing(who) /\ agents[who].run = run
    /\ AgentsTyped' =>
          \A run : RunningFor(run)' <=>
             \E who \in {"child", "orphan"} : Reviewing(who)' /\ agents'[who].run = run
<1>1. AgentsTyped => DOMAIN agents = {"child", "orphan"}
  BY DEF AgentsTyped
<1>2. AgentsTyped' => DOMAIN agents' = {"child", "orphan"}
  BY DEF AgentsTyped
<1> QED BY <1>1, <1>2 DEF RunningFor, Reviewing

LEMMA LaunchesFollow ==
    ASSUME DriverInv, EndInv, HostMoved, NEW run \in DOMAIN ledger
    PROVE  /\ ledger[run].run = run /\ host'[ledger[run].packet].packet.run = run
           /\ ledger[run].packet \in Packets /\ Packets \subseteq Packets'
           /\ \A i \in Packets : host'[i] = host[i]
<1>1. ledger[run].packet \in Packets
  BY DEF DriverInv, Typed, LedgerTyped
<1> QED BY <1>1, HostMoves DEF EndInv, WorldInv, LedgerApart

\* A step that leaves ledger and report alone.
LEMMA WorldStays ==
    ASSUME DriverInv, DriverInv', EndInv, HostMoved, UNCHANGED <<ledger, report>>, Calm
    PROVE  WorldMoved
<1>1. AgentsTyped /\ AgentsTyped'
  BY DEF DriverInv, Typed
<1>2. LedgerApart'
  BY LaunchesFollow DEF LedgerApart
<1>3. \A p : Written(p)' <=> Written(p)
  BY DEF Written
<1>4. ReportsApart
  BY DEF EndInv, WorldInv
<1>5. \A p : Written(p)' => p \in Packets' /\ host'[p].packet.run \in DOMAIN ledger'
  BY <1>3, <1>4, HostMoves DEF ReportsApart
<1>6. ASSUME NEW who \in {"child", "orphan"}, Reviewing(who)'
      PROVE  /\ ledger'[agents'[who].run].exit = None
             /\ ~agents'[who].did => ~Written(ledger[agents[who].run].packet)'
  <2>1. PICK w \in {"child", "orphan"} :
            /\ Reviewing(w)
            /\ agents'[who].run = agents[w].run /\ agents'[who].did = agents[w].did
    BY <1>6 DEF Calm
  <2>2. /\ ledger[agents[w].run].exit = None
        /\ ~agents[w].did => ~Written(ledger[agents[w].run].packet)
    BY <1>4, <2>1 DEF ReportsApart
  <2> QED BY <2>1, <2>2 DEF Written
<1>7. ReportsApart'
  BY <1>5, <1>6 DEF ReportsApart, Calm
<1>8. \A run : RunningFor(run)' => RunningFor(run)
  BY <1>1, ReviewersAre DEF Calm
<1> QED BY <1>2, <1>7, <1>8 DEF WorldMoved

LEMMA CalmAgents ==
    ASSUME EndInv, UNCHANGED agents
    PROVE  Calm
<1>1. \A who : Reviewing(who)' <=> Reviewing(who)
  BY DEF Reviewing, Running
<1> QED BY <1>1 DEF Calm, EndInv, WorldInv, ReportsApart

\* An agent that is no reviewer, or none, takes the child's place, or the
\* child the orphan's.
LEMMA CalmChild ==
    ASSUME DriverInv, EndInv, NEW c, c = None \/ c.role = "worker" \/ c.exit # None,
           agents' = Waiting(c) \/ agents' = [child |-> None, orphan |-> agents.child]
    PROVE  Calm
<1>1. AgentsTyped
  BY DEF DriverInv, Typed
<1>2. CASE agents' = Waiting(c)
  <2>1. agents' = [child |-> c, orphan |-> agents.orphan]
    BY <1>1, <1>2, WaitingFor
  <2>2. agents'.child = c /\ agents'.orphan = agents.orphan
    BY <2>1
  <2>3. ~Reviewing("child")'
    BY <2>2 DEF Reviewing, Running
  <2>4. Reviewing("orphan")' <=> Reviewing("orphan")
    BY <2>2 DEF Reviewing, Running
  <2> QED BY <2>2, <2>3, <2>4 DEF Calm
<1>3. CASE agents' = [child |-> None, orphan |-> agents.child]
  <2>1. agents'.child = None /\ agents'.orphan = agents.child
    BY <1>3
  <2>2. ~Reviewing("child")'
    BY <2>1 DEF Reviewing, Running
  <2>3. Reviewing("orphan")' <=> Reviewing("child")
    BY <2>1 DEF Reviewing, Running
  <2> QED BY <2>1, <2>2, <2>3 DEF Calm
<1> QED BY <1>2, <1>3

LEMMA CoreStays ==
    ASSUME DriverInv, UNCHANGED core
    PROVE  CoreMoved
<1>1. Numbered(core) /\ Len(core) \in Nat
  BY ChainFacts DEF DriverInv, Typed
<1>2. Grows(core, core')
  BY <1>1, GrowsByNothing
<1>3. \A k : k \notin Len(core) + 1..Len(core')
  BY <1>1
<1> QED BY <1>2, <1>3 DEF CoreMoved

\* A step that only moves agents and content.
LEMMA ChainsWait ==
    ASSUME DriverInv, DriverInv', EndInv, UNCHANGED <<chains, ledger, report>>, CommitsMoved, Calm
    PROVE  Moved
<1>1. HostMoved /\ ReconciledMoved
  BY DEF chains, HostMoved, ReconciledMoved
<1>2. CoreMoved
  BY CoreStays DEF chains
<1>3. WorldMoved
  BY <1>1, WorldStays
<1> QED BY <1>1, <1>2, <1>3 DEF Moved

LEMMA StepsPass ==
    ASSUME DriverInv, DriverInv', EndInv, UNCHANGED <<chains, commits, ledger, report, agents>>
    PROVE  Moved
BY ChainsWait, CalmAgents DEF CommitsMoved

LEMMA PassedOver ==
    ASSUME DriverInv, DriverInv', EndInv, PassOver \/ Refuse
    PROVE  Moved
BY StepsPass DEF PassOver, Refuse, world

\* A step that files a host record.
LEMMA HostFollows ==
    ASSUME DriverInv, DriverInv', EndInv, UNCHANGED <<core, reconciled, commits, ledger, report, agents>>,
           ~Done, NEW r, Files(r), Follows(r), host' = Append(host, r)
    PROVE  Moved
<1>1. HostMoved /\ ReconciledMoved /\ CommitsMoved
  BY DEF HostMoved, ReconciledMoved, CommitsMoved
<1>2. CoreMoved
  BY CoreStays
<1>3. WorldMoved
  BY <1>1, WorldStays, CalmAgents
<1> QED BY <1>1, <1>2, <1>3 DEF Moved

LEMMA CommandFollows ==
    ASSUME DriverInv, DriverInv', EndInv, NEW r, NEW admitted, Command(admitted, r),
           admitted /\ UNCHANGED core => Files(r) /\ Follows(r)
    PROVE  Moved
<1>1. UNCHANGED <<core, reconciled, commits, ledger, report, agents>>
  BY DEF Command, world
<1>2. CASE admitted /\ core # <<>> /\ ~Done
  <2>1. host' = Append(host, r)
    BY <1>2 DEF Command
  <2> QED BY <1>1, <1>2, <2>1, HostFollows
<1>3. CASE ~(admitted /\ core # <<>> /\ ~Done)
  <2>1. UNCHANGED host
    BY <1>3 DEF Command
  <2> QED BY <1>1, <2>1, StepsPass DEF chains
<1> QED BY <1>2, <1>3

\* A step that files one core record.
LEMMA CoreOne ==
    ASSUME DriverInv, NEW r, core' = Append(core, r), CoreFollows(r, TRUE)
    PROVE  CoreMoved
<1>1. Numbered(core) /\ Len(core) \in Nat
  BY ChainFacts DEF DriverInv, Typed
<1>2. Grows(core, core') /\ Len(core') = Len(core) + 1 /\ core'[Len(core) + 1] = r
  BY <1>1, AppendGrows
<1>3. ASSUME NEW k \in Len(core) + 1..Len(core') PROVE core'[k] = r
  BY <1>1, <1>2
<1> QED BY <1>2, <1>3 DEF CoreMoved, CoreFollows

LEMMA RecordFollows ==
    ASSUME DriverInv, DriverInv', EndInv, UNCHANGED <<host, commits, ledger, report, agents>>,
           ReconciledMoved, NEW r, core' = Append(core, r), CoreFollows(r, TRUE)
    PROVE  Moved
<1>1. HostMoved /\ CommitsMoved
  BY DEF HostMoved, CommitsMoved
<1>2. CoreMoved
  BY CoreOne
<1>3. WorldMoved
  BY <1>1, WorldStays, CalmAgents
<1> QED BY <1>1, <1>2, <1>3 DEF Moved

-----------------------------------------------------------------------------
(* The steps of agents, but for a reviewer's.                              *)

LEMMA LaunchWorkerMoves ==
    ASSUME DriverInv, DriverInv', EndInv, LaunchWorker
    PROVE  Moved
<1>1. CASE PassOver
  BY <1>1, PassedOver
<1>2. CASE agents' = Waiting(Worker(1)) /\ UNCHANGED <<chains, commits, ledger, report>>
  <2>1. Worker(1).role = "worker"
    BY DEF Worker
  <2>2. Calm
    BY <1>2, <2>1, CalmChild
  <2> QED BY <1>2, <2>2, ChainsWait DEF CommitsMoved
<1> QED BY <1>1, <1>2 DEF LaunchWorker

LEMMA CheckWorkerMoves ==
    ASSUME DriverInv, DriverInv', EndInv, CheckWorker
    PROVE  Moved
<1>1. /\ UNCHANGED <<chains, commits, ledger, report>>
      /\ \E c : (c = None \/ c.role = "worker") /\ agents' = Waiting(c)
  <2>1. \A n : Worker(n).role = "worker"
    BY DEF Worker
  <2> QED BY <2>1 DEF CheckWorker
<1>2. PICK c : (c = None \/ c.role = "worker") /\ agents' = Waiting(c)
  BY <1>1
<1>3. Calm
  BY <1>2, CalmChild
<1> QED BY <1>1, <1>3, ChainsWait DEF CommitsMoved

LEMMA CheckReviewerMoves ==
    ASSUME DriverInv, DriverInv', EndInv, CheckReviewer
    PROVE  Moved
<1>1. UNCHANGED <<chains, commits, ledger, report>> /\ agents' = Waiting(None)
  BY DEF CheckReviewer
<1>2. Calm
  BY <1>1, CalmChild
<1> QED BY <1>1, <1>2, ChainsWait DEF CommitsMoved

LEMMA CrashMoves ==
    ASSUME DriverInv, DriverInv', EndInv, Crash
    PROVE  Moved
<1>1. /\ UNCHANGED <<chains, commits, ledger, report>>
      /\ agents' = Waiting(None) \/ agents' = [child |-> None, orphan |-> agents.child]
  BY DEF Crash
<1>2. Calm
  BY <1>1, CalmChild
<1> QED BY <1>1, <1>2, ChainsWait DEF CommitsMoved

\* An agent goes on, or is gone; the other one does not move.
LEMMA OneMoves ==
    ASSUME AgentsTyped, NEW who \in {"child", "orphan"}, Running(who)
    PROVE  LET c == agents[who] IN
           /\ c = [role |-> c.role, attempt |-> c.attempt, run |-> c.run, did |-> c.did, exit |-> None]
           /\ agents' = [agents EXCEPT ![who].did = TRUE] =>
                 /\ agents'[who] = [role |-> c.role, attempt |-> c.attempt, run |-> c.run,
                                    did |-> TRUE, exit |-> None]
                 /\ \A w \in {"child", "orphan"} \ {who} : agents'[w] = agents[w]
           /\ \A code : agents' = Gone(who, code) =>
                 /\ \/ agents'[who] = None
                    \/ agents'[who] = [role |-> c.role, attempt |-> c.attempt, run |-> c.run,
                                       did |-> c.did, exit |-> code]
                 /\ \A w \in {"child", "orphan"} \ {who} : agents'[w] = agents[w]
<1> DEFINE c == agents[who]
<1>1. c = [role |-> c.role, attempt |-> c.attempt, run |-> c.run, did |-> c.did, exit |-> None]
  BY DEF AgentsTyped, IsAgent, Running
<1>2. DOMAIN agents = {"child", "orphan"}
  BY DEF AgentsTyped
<1>3. /\ [c EXCEPT !.did = TRUE] = [role |-> c.role, attempt |-> c.attempt, run |-> c.run,
                                    did |-> TRUE, exit |-> None]
      /\ \A code : [c EXCEPT !.exit = code] = [role |-> c.role, attempt |-> c.attempt,
                                               run |-> c.run, did |-> c.did, exit |-> code]
  <2> HIDE DEF c
  <2>1. c.exit = None
    BY <1>1
  <2>2. c = [role |-> c.role, attempt |-> c.attempt, run |-> c.run, did |-> c.did, exit |-> c.exit]
    BY <1>1, <2>1
  <2>3. [c EXCEPT !.did = TRUE] = [role |-> c.role, attempt |-> c.attempt, run |-> c.run,
                                   did |-> TRUE, exit |-> c.exit]
    BY <2>2, DoneBy
  <2>4. ASSUME NEW code
        PROVE  [c EXCEPT !.exit = code] = [role |-> c.role, attempt |-> c.attempt,
                                           run |-> c.run, did |-> c.did, exit |-> code]
    BY <2>2
  <2> QED BY <2>1, <2>3, <2>4
<1>4. ASSUME agents' = [agents EXCEPT ![who].did = TRUE]
      PROVE  /\ agents'[who] = [c EXCEPT !.did = TRUE]
             /\ \A w \in {"child", "orphan"} \ {who} : agents'[w] = agents[w]
  BY <1>2, <1>4
<1>5. ASSUME NEW code, agents' = Gone(who, code)
      PROVE  /\ agents'[who] = None \/ agents'[who] = [c EXCEPT !.exit = code]
             /\ \A w \in {"child", "orphan"} \ {who} : agents'[w] = agents[w]
  BY <1>2, <1>5 DEF Gone
<1> QED BY <1>1, <1>3, <1>4, <1>5

LEMMA WorkerMoves ==
    ASSUME DriverInv, DriverInv', EndInv, NEW who \in {"child", "orphan"},
           WorkerCommits(who) \/ WorkerExits(who)
    PROVE  Moved
<1>1. /\ UNCHANGED <<chains, ledger, report>> /\ CommitsMoved
      /\ Running(who) /\ agents[who].role = "worker"
      /\ agents' = [agents EXCEPT ![who].did = TRUE] \/ \E code : agents' = Gone(who, code)
  BY DEF WorkerCommits, WorkerExits, CommitsMoved
<1>2. /\ agents'[who] = None \/ agents'[who].role = "worker"
      /\ \A w \in {"child", "orphan"} \ {who} : agents'[w] = agents[w]
  <2>1. AgentsTyped
    BY DEF DriverInv, Typed
  <2>2. CASE agents' = [agents EXCEPT ![who].did = TRUE]
    BY <1>1, <2>1, <2>2, OneMoves
  <2>3. CASE \E code : agents' = Gone(who, code)
    <3>1. PICK code : agents' = Gone(who, code)
      BY <2>3
    <3>2. /\ \/ agents'[who] = None
             \/ agents'[who] = [role |-> agents[who].role, attempt |-> agents[who].attempt,
                                run |-> agents[who].run, did |-> agents[who].did, exit |-> code]
          /\ \A w \in {"child", "orphan"} \ {who} : agents'[w] = agents[w]
      BY <1>1, <2>1, <3>1, OneMoves
    <3> QED BY <1>1, <3>2
  <2> QED BY <1>1, <2>2, <2>3
<1>3. \A w \in {"child", "orphan"} :
          Reviewing(w)' => Reviewing(w) /\ agents'[w] = agents[w]
  BY <1>1, <1>2 DEF Reviewing, Running
<1>4. Calm
  BY <1>3 DEF Calm, EndInv, WorldInv, ReportsApart
<1> QED BY <1>1, <1>4, ChainsWait

-----------------------------------------------------------------------------
(* The steps of a reviewer.                                                *)

\* A reviewer steps on the ledger and its report only.
LEMMA ReviewerSteps ==
    ASSUME DriverInv, UNCHANGED <<chains, commits>>, WorldMoved
    PROVE  Moved
<1>1. HostMoved /\ ReconciledMoved /\ CommitsMoved
  BY DEF chains, HostMoved, ReconciledMoved, CommitsMoved
<1>2. CoreMoved
  BY CoreStays DEF chains
<1> QED BY <1>1, <1>2 DEF Moved

LEMMA LaunchReviewerMoves ==
    ASSUME DriverInv, DriverInv', EndInv, LaunchReviewer
    PROVE  Moved
<1> DEFINE i == findReviewDispatch
           run == host[i].packet.run
<1>1. NoChild
  BY DEF LaunchReviewer
<1>2. \/ PassOver \/ Refuse
      \/ /\ i # 0 /\ ~Imported(i) /\ run \notin DOMAIN ledger
         /\ ledger' = [r \in DOMAIN ledger \cup {run} |-> IF r = run THEN Launched(i) ELSE ledger[r]]
         /\ agents' = Waiting(ReviewerOf(run))
         /\ UNCHANGED <<chains, commits, report>>
  BY DEF LaunchReviewer
<1>3. ASSUME i # 0, ~Imported(i), run \notin DOMAIN ledger,
             ledger' = [r \in DOMAIN ledger \cup {run} |-> IF r = run THEN Launched(i) ELSE ledger[r]],
             agents' = Waiting(ReviewerOf(run)), UNCHANGED <<chains, commits, report>>
      PROVE  Moved
  <2>1. AgentsTyped /\ AgentsTyped' /\ LedgerTyped
    BY DEF DriverInv, Typed
  <2>2. i \in Packets /\ Packets' = Packets /\ host' = host
    BY <1>3, FoundFacts DEF DriverInv, Packets, chains
  <2>3. Of(host, "review", Unit) = {}
    BY <1>3, AnswerFound
  <2>4. /\ Launched(i).run = run /\ Launched(i).packet = i
        /\ Launched(i).exit = None /\ Launched(i).listed = None
    BY DEF Launched
  <2>5. agents'.child = ReviewerOf(run) /\ agents'.orphan = agents.orphan
    <3>1. agents' = [child |-> ReviewerOf(run), orphan |-> agents.orphan]
      BY <1>3, <2>1, WaitingFor
    <3> QED BY <3>1
  <2>6. /\ ReviewerOf(run).run = run /\ ReviewerOf(run).did = FALSE
    BY DEF ReviewerOf
  <2>7. /\ DOMAIN ledger' = DOMAIN ledger \cup {run} /\ ledger'[run] = Launched(i)
        /\ \A r \in DOMAIN ledger : ledger'[r] = ledger[r]
    <3> HIDE DEF run, i
    <3> QED BY <1>3
  <2>8. LedgerApart /\ ReportsApart
    BY DEF EndInv, WorldInv
  <2> DEFINE l == Launched(i)
  <2>9. \A p : Written(p)' => Written(p)
    <3> HIDE DEF run, i
    <3> QED BY <1>3, <2>4, <2>7 DEF Written
  <2>10. ~Written(i)
    BY <1>3, <2>8 DEF ReportsApart
  <2>11. Reviewing("orphan")' <=> Reviewing("orphan")
    BY <2>5 DEF Reviewing, Running
  <2>12. Reviewing("orphan") => agents.orphan.run \in DOMAIN ledger
    BY <2>1 DEF AgentsTyped, Reviewing, Running
  <2>13. ~Reviewing("child")
    BY <1>1 DEF NoChild, Reviewing, Running
  <2>14. LedgerApart'
    <3> HIDE DEF l
    <3>1. ASSUME NEW r \in DOMAIN ledger'
          PROVE  ledger'[r].run = r /\ host'[ledger'[r].packet].packet.run = r
      <4>1. CASE r \in DOMAIN ledger
        BY <2>2, <2>7, <2>8, <4>1 DEF LedgerApart
      <4>2. CASE r = run
        BY <2>2, <2>4, <2>7, <4>2
      <4> QED BY <2>7, <4>1, <4>2
    <3> QED BY <3>1 DEF LedgerApart
  <2>15. ReportsApart'
    <3>1. \A p : Written(p)' => p \in Packets' /\ host'[p].packet.run \in DOMAIN ledger'
      BY <2>2, <2>7, <2>8, <2>9 DEF ReportsApart
    <3>2. /\ ledger'[agents'.child.run].exit = None
          /\ ~Written(ledger[agents.child.run].packet)'
      <4>1. agents'.child.run = run /\ ledger'[run].exit = None /\ ledger'[run].packet = i
        BY <2>4, <2>5, <2>6, <2>7
      <4>2. PICK p : p = i
        OBVIOUS
      <4>3. ~Written(p)'
        BY <2>9, <2>10, <4>2
      <4>4. ledger'[agents'.child.run].packet = p /\ ledger'[agents'.child.run].exit = None
        BY <4>1, <4>2
      <4> HIDE DEF i, run
      <4> QED BY <4>3, <4>4 DEF Written
    <3>3. Reviewing("orphan")' =>
              /\ ledger'[agents'.orphan.run].exit = None
              /\ ~agents'.orphan.did => ~Written(ledger[agents.orphan.run].packet)'
      <4>1. ASSUME Reviewing("orphan")
            PROVE  /\ ledger[agents.orphan.run].exit = None
                   /\ ~agents.orphan.did => ~Written(ledger[agents.orphan.run].packet)
                   /\ ledger'[agents.orphan.run] = ledger[agents.orphan.run]
        BY <2>7, <2>8, <2>12, <4>1 DEF ReportsApart
      <4>2. ~Written(ledger[agents.orphan.run].packet) /\ Reviewing("orphan") =>
                ~Written(ledger[agents.orphan.run].packet)'
        <5>1. PICK p : p = ledger[agents.orphan.run].packet
          OBVIOUS
        <5>2. ~Written(p) => ~Written(p)'
          BY <2>9
        <5> QED BY <2>5, <4>1, <5>1, <5>2 DEF Written
      <4> QED BY <2>5, <2>11, <4>1, <4>2
    <3>4. Reviewing("child")' /\ Reviewing("orphan")' => agents'.child.run # agents'.orphan.run
      BY <1>3, <2>5, <2>6, <2>11, <2>12
    <3> QED BY <3>1, <3>2, <3>3, <3>4 DEF ReportsApart
  <2>16. ASSUME NEW r \in DOMAIN ledger, RunningFor(r)' PROVE RunningFor(r)
    <3>1. PICK w \in {"child", "orphan"} : Reviewing(w)' /\ agents'[w].run = r
      BY <2>1, <2>16, ReviewersAre
    <3>2. w = "orphan"
      BY <1>3, <2>5, <2>6, <2>16, <3>1
    <3> QED BY <2>1, <2>5, <2>11, <3>1, <3>2, ReviewersAre
  <2>17. WorldMoved
    BY <1>3, <2>3, <2>7, <2>14, <2>15, <2>16 DEF WorldMoved
  <2> QED BY <1>3, <2>17, ReviewerSteps
<1> QED BY <1>2, <1>3, PassedOver

LEMMA ReviewerReportsMoves ==
    ASSUME DriverInv, DriverInv', EndInv, NEW who \in {"child", "orphan"}, ReviewerReports(who)
    PROVE  Moved
<1> DEFINE run == agents[who].run
           p == ledger[run].packet
<1>1. /\ Running(who) /\ agents[who].role = "reviewer" /\ ~agents[who].did
      /\ agents' = [agents EXCEPT ![who].did = TRUE]
      /\ UNCHANGED <<chains, commits, ledger>>
  BY DEF ReviewerReports
<1>2. Reviewing(who) /\ AgentsTyped /\ AgentsTyped' /\ LedgerTyped
  BY <1>1 DEF Reviewing, DriverInv, Typed
<1>3. LedgerApart /\ ReportsApart
  BY DEF EndInv, WorldInv
<1>4. run \in DOMAIN ledger /\ p \in Packets /\ host[p].packet.run = run
  <2>1. run \in DOMAIN ledger
    BY <1>1, <1>2 DEF AgentsTyped, Running
  <2> QED BY <1>2, <1>3, <2>1 DEF LedgerTyped, LedgerApart
<1>5. ~Written(p)
  BY <1>1, <1>2, <1>3 DEF ReportsApart
<1>6. report' # None /\ report'.packet = p
  <2>1. PICK verdict \in {"pass", "fix-required"} :
            report' = [packet |-> p, verdict |-> verdict, isolation |-> "isolated",
                       valid |-> TRUE, status |-> "pass",
                       findings |-> IF verdict = "pass" THEN NoMap ELSE [f |-> "ADVISORY"]]
    BY DEF ReviewerReports
  <2>2. p \in Nat
    <3>1. Packets \subseteq DOMAIN host /\ DOMAIN host = 1..Len(host)
      BY ChainFacts DEF Packets, DriverInv, Typed
    <3> HIDE DEF p
    <3> QED BY <1>4, <3>1
  <2> HIDE DEF p
  <2>3. report' \in Reports
    BY <2>1, <2>2 DEF Reports
  <2>4. None \notin Reports
    BY DriverAssumption
  <2> QED BY <2>1, <2>3, <2>4
<1>7. /\ agents'[who].run = run /\ agents'[who].did
      /\ \A w \in {"child", "orphan"} \ {who} : agents'[w] = agents[w]
  <2>1. agents'[who] = [role |-> agents[who].role, attempt |-> agents[who].attempt,
                        run |-> agents[who].run, did |-> TRUE, exit |-> None]
    BY <1>1, <1>2, OneMoves
  <2>2. \A w \in {"child", "orphan"} \ {who} : agents'[w] = agents[w]
    BY <1>1, <1>2, OneMoves
  <2> QED BY <2>1, <2>2
<1>8. \A w \in {"child", "orphan"} : Reviewing(w)' => Reviewing(w) /\ agents'[w].run = agents[w].run
  BY <1>2, <1>7 DEF Reviewing, Running
<1>9. UNCHANGED host /\ Packets' = Packets /\ HostMoved
  BY <1>1 DEF chains, Packets, HostMoved
<1>10. PICK q : q = p
  OBVIOUS
<1>11. \A k : Written(k)' => Written(k) \/ k = q
  BY <1>1, <1>6, <1>10 DEF Written
<1>12. LedgerApart'
  BY <1>1, <1>3, <1>9 DEF LedgerApart
<1>13. ReportsApart'
  <2>1. \A k : Written(k)' => k \in Packets' /\ host'[k].packet.run \in DOMAIN ledger'
    BY <1>1, <1>3, <1>4, <1>9, <1>10, <1>11 DEF ReportsApart
  <2>2. ASSUME NEW w \in {"child", "orphan"}, Reviewing(w)'
        PROVE  /\ ledger'[agents'[w].run].exit = None
               /\ ~agents'[w].did => ~Written(ledger[agents[w].run].packet)'
    <3>1. Reviewing(w) /\ agents'[w].run = agents[w].run /\ ledger[agents[w].run].exit = None
      BY <1>3, <1>8, <2>2 DEF ReportsApart
    <3>2. ASSUME ~agents'[w].did PROVE ~Written(ledger[agents[w].run].packet)'
      <4>1. w # who /\ ~agents[w].did
        BY <1>7, <3>2
      <4>2. agents[w].run # run
        BY <1>2, <1>3, <3>1, <4>1 DEF ReportsApart
      <4>3. PICK k : k = ledger[agents[w].run].packet
        OBVIOUS
      <4>4. agents[w].run \in DOMAIN ledger
        BY <1>2, <3>1 DEF AgentsTyped, Reviewing, Running
      <4>5. k # q
        BY <1>3, <1>4, <1>10, <4>2, <4>3, <4>4 DEF LedgerApart
      <4>6. ~Written(k)
        BY <1>3, <3>1, <4>1, <4>3 DEF ReportsApart
      <4>7. ~Written(k)'
        BY <1>11, <4>5, <4>6
      <4>8. k = ledger'[agents'[w].run].packet
        BY <1>1, <3>1, <4>3
      <4> HIDE DEF run, p
      <4> QED BY <4>7, <4>8 DEF Written
    <3> QED BY <1>1, <3>1, <3>2
  <2>3. Reviewing("child")' /\ Reviewing("orphan")' => agents'.child.run # agents'.orphan.run
    BY <1>3, <1>8 DEF ReportsApart
  <2> QED BY <2>1, <2>2, <2>3 DEF ReportsApart
<1>14. \A r : RunningFor(r)' => RunningFor(r)
  BY <1>2, <1>8, ReviewersAre
<1>15. WorldMoved
  <2>1. report' # None /\ ~Written(report'.packet)
    BY <1>5, <1>6
  <2> HIDE DEF p, run
  <2> QED BY <1>1, <1>12, <1>13, <1>14, <2>1 DEF WorldMoved
<1> QED BY <1>1, <1>15, ReviewerSteps

LEMMA ReviewerExitsMoves ==
    ASSUME DriverInv, DriverInv', EndInv, NEW who \in {"child", "orphan"}, ReviewerExits(who)
    PROVE  Moved
<1> DEFINE run == agents[who].run
<1>1. /\ Running(who) /\ agents[who].role = "reviewer"
      /\ UNCHANGED <<chains, commits, report>>
  BY DEF ReviewerExits
<1>2. PICK code, listed :
          /\ agents' = Gone(who, code)
          /\ listed = IF agents[who].did THEN report ELSE None
          /\ \/ ledger' = [ledger EXCEPT ![run].exit = code, ![run].listed = listed]
             \/ UNCHANGED ledger
  BY DEF ReviewerExits
<1>3. Reviewing(who) /\ AgentsTyped /\ AgentsTyped' /\ LedgerTyped
  BY <1>1 DEF Reviewing, DriverInv, Typed
<1>4. LedgerApart /\ ReportsApart
  BY DEF EndInv, WorldInv
<1>5. run \in DOMAIN ledger /\ ledger[run].exit = None /\ RunningFor(run)
  <2>1. run \in DOMAIN ledger
    BY <1>1, <1>3 DEF AgentsTyped, Running
  <2> QED BY <1>3, <1>4, <2>1, ReviewersAre DEF ReportsApart
<1>6. /\ DOMAIN ledger' = DOMAIN ledger
      /\ \A r \in DOMAIN ledger \ {run} : ledger'[r] = ledger[r]
      /\ \/ ledger'[run] = ledger[run]
         \/ /\ ledger'[run].run = ledger[run].run /\ ledger'[run].packet = ledger[run].packet
            /\ ledger'[run].exit = code /\ ledger'[run].listed = listed
  <2>0. PICK l : l = ledger[run]
    OBVIOUS
  <2>1. CASE UNCHANGED ledger
    BY <2>1
  <2>2. CASE ledger' = [ledger EXCEPT ![run].exit = code, ![run].listed = listed]
    <3>1. l = [run |-> l.run, mode |-> l.mode, worker |-> l.worker, model |-> l.model,
               target |-> l.target, started |-> l.started, packet |-> l.packet,
               exit |-> l.exit, listed |-> l.listed]
      BY <1>3, <1>5, <2>0 DEF LedgerTyped, IsLaunch
    <3>2. /\ DOMAIN ledger' = DOMAIN ledger
          /\ \A r \in DOMAIN ledger \ {run} : ledger'[r] = ledger[r]
          /\ ledger'[run] = [[l EXCEPT !.exit = code] EXCEPT !.listed = listed]
      <4> HIDE DEF run
      <4> QED BY <1>5, <2>0, <2>2
    <3>3. PICK m : m = [l EXCEPT !.exit = code]
      OBVIOUS
    <3>4. m = [run |-> l.run, mode |-> l.mode, worker |-> l.worker, model |-> l.model,
               target |-> l.target, started |-> l.started, packet |-> l.packet,
               exit |-> code, listed |-> l.listed]
      BY <3>1, <3>3
    <3>5. [m EXCEPT !.listed = listed] =
              [run |-> l.run, mode |-> l.mode, worker |-> l.worker, model |-> l.model,
               target |-> l.target, started |-> l.started, packet |-> l.packet,
               exit |-> code, listed |-> listed]
      BY <3>4
    <3>6. /\ ledger'[run].run = l.run /\ ledger'[run].packet = l.packet
          /\ ledger'[run].exit = code /\ ledger'[run].listed = listed
      BY <3>2, <3>3, <3>5
    <3> QED BY <2>0, <3>2, <3>6
  <2> QED BY <1>2, <2>1, <2>2
<1>7. /\ Reviewing(who)' =>
            /\ agents'[who].run = run /\ agents'[who].did = agents[who].did
            /\ code = None
      /\ \A w \in {"child", "orphan"} \ {who} : agents'[w] = agents[w]
  <2>1. /\ \/ agents'[who] = None
           \/ agents'[who] = [role |-> agents[who].role, attempt |-> agents[who].attempt,
                              run |-> run, did |-> agents[who].did, exit |-> code]
        /\ \A w \in {"child", "orphan"} \ {who} : agents'[w] = agents[w]
    BY <1>1, <1>2, <1>3, OneMoves
  <2>2. CASE agents'[who] = None
    <3>1. ~Reviewing(who)'
      BY <2>2 DEF Reviewing, Running
    <3> QED BY <2>1, <3>1
  <2>3. CASE agents'[who] = [role |-> agents[who].role, attempt |-> agents[who].attempt,
                             run |-> run, did |-> agents[who].did, exit |-> code]
    <3>1. agents'[who].run = run /\ agents'[who].did = agents[who].did /\ agents'[who].exit = code
      BY <2>3
    <3>2. Reviewing(who)' => agents'[who].exit = None
      BY DEF Reviewing, Running
    <3> QED BY <2>1, <3>1, <3>2
  <2> QED BY <2>1, <2>2, <2>3
<1>8. \A w \in {"child", "orphan"} :
          Reviewing(w)' =>
             /\ Reviewing(w) /\ agents'[w].run = agents[w].run /\ agents'[w].did = agents[w].did
             /\ w = who => code = None
  BY <1>3, <1>7 DEF Reviewing, Running
<1>9. UNCHANGED host /\ Packets' = Packets
  BY <1>1 DEF chains, Packets
<1>10. \A k : Written(k)' => Written(k)
  <2> SUFFICES ASSUME NEW k, Written(k)' PROVE Written(k)
    OBVIOUS
  <2>1. \/ report # None /\ report.packet = k
        \/ \E r \in DOMAIN ledger : ledger'[r].listed # None /\ ledger'[r].listed.packet = k
    BY <1>1, <1>6 DEF Written
  <2>2. CASE \E r \in DOMAIN ledger : ledger'[r].listed # None /\ ledger'[r].listed.packet = k
    <3>1. PICK r \in DOMAIN ledger : ledger'[r].listed # None /\ ledger'[r].listed.packet = k
      BY <2>2
    <3>2. ledger'[r].listed = ledger[r].listed \/ ledger'[r].listed = report
      BY <1>2, <1>6, <3>1
    <3> QED BY <3>1, <3>2 DEF Written
  <2> QED BY <2>1, <2>2 DEF Written
<1>11. LedgerApart'
  <2>1. \A r \in DOMAIN ledger : ledger'[r].run = ledger[r].run /\ ledger'[r].packet = ledger[r].packet
    BY <1>6
  <2> QED BY <1>4, <1>6, <1>9, <2>1 DEF LedgerApart
<1>12. ReportsApart'
  <2>1. \A k : Written(k)' => k \in Packets' /\ host'[k].packet.run \in DOMAIN ledger'
    BY <1>4, <1>6, <1>9, <1>10 DEF ReportsApart
  <2>2. ASSUME NEW w \in {"child", "orphan"}, Reviewing(w)'
        PROVE  /\ ledger'[agents'[w].run].exit = None
               /\ ~agents'[w].did => ~Written(ledger[agents[w].run].packet)'
    <3>1. /\ Reviewing(w) /\ agents'[w].run = agents[w].run /\ agents'[w].did = agents[w].did
          /\ w = who => code = None
      BY <1>8, <2>2
    <3>2. /\ ledger[agents[w].run].exit = None
          /\ ~agents[w].did => ~Written(ledger[agents[w].run].packet)
          /\ w # who => agents[w].run # run
      BY <1>3, <1>4, <3>1 DEF ReportsApart
    <3>3. agents[w].run \in DOMAIN ledger
      BY <1>3, <3>1 DEF AgentsTyped, Reviewing, Running
    <3>4. ledger'[agents[w].run].exit = None /\ ledger'[agents[w].run].packet = ledger[agents[w].run].packet
      <4>1. CASE w = who
        BY <1>5, <1>6, <3>1, <4>1
      <4>2. CASE w # who
        BY <1>6, <3>2, <3>3, <4>2
      <4> QED BY <4>1, <4>2
    <3>5. PICK k : k = ledger[agents[w].run].packet
      OBVIOUS
    <3>6. ~agents'[w].did => ~Written(k)'
      BY <1>10, <3>1, <3>2, <3>5
    <3>7. k = ledger'[agents'[w].run].packet /\ ledger'[agents'[w].run].exit = None
      BY <3>1, <3>4, <3>5
    <3> HIDE DEF run
    <3> QED BY <3>6, <3>7 DEF Written
  <2>3. Reviewing("child")' /\ Reviewing("orphan")' => agents'.child.run # agents'.orphan.run
    BY <1>4, <1>8 DEF ReportsApart
  <2> QED BY <2>1, <2>2, <2>3 DEF ReportsApart
<1>13. \A r : RunningFor(r)' => RunningFor(r)
  BY <1>3, <1>8, ReviewersAre
<1>14. ASSUME NEW r \in DOMAIN ledger
       PROVE  /\ r \in DOMAIN ledger'
              /\ ledger'[r] = ledger[r] \/ (ledger[r].exit = None /\ RunningFor(r))
  <2>1. CASE r = run
    BY <1>5, <1>6, <2>1
  <2>2. CASE r # run
    BY <1>6, <2>2
  <2> QED BY <2>1, <2>2
<1>15. WorldMoved
  BY <1>1, <1>6, <1>11, <1>12, <1>13, <1>14 DEF WorldMoved
<1> QED BY <1>1, <1>15, ReviewerSteps

-----------------------------------------------------------------------------
(* The steps that file a host record, and where they lead.                 *)

\* A record that asks for no review, is none and credits none.
LEMMA PlainFollows ==
    ASSUME NEW r, ~Reviews(r), r.kind \notin {"review", "credit"}
    PROVE  Follows(r)
BY DEF Follows, HasPacket

LEMMA DecisionMoves ==
    ASSUME DriverInv, DriverInv', EndInv, stepDecision
    PROVE  Moved
<1> DEFINE t == [mode |-> "DELEGATE", supersedes |-> 0]
           d == Envelope("decision") ++ Route(Implementer) ++ t
<1>1. d.kind = "decision" /\ d.unit = Unit /\ d.core = Len(core) /\ d.mode = "DELEGATE"
  <2>1. "mode" \in DOMAIN t \ RouteFields /\ t.mode = "DELEGATE"
    BY DEF RouteFields, EnvelopeFields
  <2> HIDE DEF t
  <2> QED BY <2>1, RoutedRecord
<1>2. \/ PassOver
      \/ Of(host, "decision", Unit) = {} /\ Command(EvaluateDecision(host, d), d)
  BY DEF stepDecision
<1> HIDE DEF d
<1>3. Follows(d)
  BY <1>1, PlainFollows DEF Reviews
<1>4. ASSUME Of(host, "decision", Unit) = {}, Command(EvaluateDecision(host, d), d)
      PROVE  Moved
  <2>1. Files(d)
    BY <1>1, <1>4 DEF Files, Kinds, Implements, HasPacket, Reviews
  <2> QED BY <1>3, <1>4, <2>1, CommandFollows
<1> QED BY <1>2, <1>4, PassedOver

LEMMA BindRepositoryMoves ==
    ASSUME DriverInv, DriverInv', EndInv, stepBindRepository
    PROVE  Moved
<1> DEFINE r == Envelope("repository")
           a == \E i \in DOMAIN core : ApprovedMove(core[i])
<1>1. r.kind = "repository" /\ r.unit = Unit /\ r.core = Len(core)
  BY DEF Envelope
<1>2. PassOver \/ (~RunRepository(host) /\ Command(a, r))
  BY DEF stepBindRepository
<1> HIDE DEF r, a
<1>3. Follows(r)
  BY <1>1, PlainFollows DEF Reviews
<1>4. ASSUME ~RunRepository(host), Command(a, r) PROVE Moved
  <2>1. Files(r)
    BY <1>1, <1>4 DEF Files, Kinds, Implements, HasPacket, Reviews
  <2> QED BY <1>3, <1>4, <2>1, CommandFollows
<1> QED BY <1>2, <1>4, PassedOver

LEMMA ImplDispatchMoves ==
    ASSUME DriverInv, DriverInv', EndInv, stepImplDispatch
    PROVE  Moved
<1> DEFINE p == findLatestValidPreflight("implementation")
           d == [kind |-> "dispatch", unit |-> Unit, core |-> Len(core), at |-> clock,
                 seat |-> Implementer, approval |-> approvedCoreRoute(core, Unit),
                 role |-> "implementation", preflight |-> p]
<1>1. d.kind = "dispatch" /\ d.unit = Unit /\ d.core = Len(core) /\ d.role = "implementation"
  OBVIOUS
<1>2. \/ PassOver \/ Refuse
      \/ /\ implementationContributions(host, Unit) = {}
         /\ Command(EvaluateDispatch(host, d, clock), d)
  BY DEF stepImplDispatch
<1> HIDE DEF d
<1>3. Follows(d)
  BY <1>1, PlainFollows DEF Reviews
<1>4. ASSUME implementationContributions(host, Unit) = {},
             Command(EvaluateDispatch(host, d, clock), d)
      PROVE  Moved
  <2>1. Files(d)
    BY <1>1, <1>4 DEF Files, Kinds, HasPacket, Reviews
  <2> QED BY <1>3, <1>4, <2>1, CommandFollows
<1> QED BY <1>2, <1>4, PassedOver

LEMMA PreflightMoves ==
    ASSUME DriverInv, DriverInv', EndInv, NEW role, NEW seat, stepPreflight(role, seat)
    PROVE  Moved
<1> DEFINE p(status) == [kind |-> "preflight", unit |-> Unit, core |-> Len(core), at |-> clock,
                         seat |-> seat, approval |-> approvedCoreRoute(core, Unit),
                         role |-> role, status |-> status, expires |-> clock + TTL]
           ok(status) == EvaluatePreflight(host, p(status), clock) /\ ~Done
<1>1. \A status : p(status).kind = "preflight" /\ p(status).unit = Unit
  OBVIOUS
<1>2. \/ PassOver
      \/ \E status \in {"AVAILABLE", "UNAVAILABLE"} :
            /\ IF ok(status) THEN host' = Append(host, p(status)) ELSE UNCHANGED host
            /\ UNCHANGED <<core, reconciled, commits, ledger, report, agents>>
  BY DEF stepPreflight
<1> HIDE DEF p
<1>3. ASSUME NEW status,
             IF ok(status) THEN host' = Append(host, p(status)) ELSE UNCHANGED host,
             UNCHANGED <<core, reconciled, commits, ledger, report, agents>>
      PROVE  Moved
  <2>1. CASE ~ok(status)
    BY <1>3, <2>1, StepsPass DEF chains
  <2>2. CASE ok(status)
    <3>1. Files(p(status)) /\ Follows(p(status))
      BY <1>1, PlainFollows DEF Files, Kinds, Implements, HasPacket, Reviews
    <3> QED BY <1>3, <2>2, <3>1, HostFollows
  <2> QED BY <2>1, <2>2
<1> QED BY <1>2, <1>3, PassedOver

LEMMA ReviewPacketMoves ==
    ASSUME DriverInv, DriverInv', EndInv, stepReviewPacket
    PROVE  Moved
<1> DEFINE i == findReviewDispatch
           p == findLatestValidPreflight("review")
           packet == [run |-> DispatchRunID(i), reason |-> 3, until |-> clock + PacketTTL,
                      contract |-> BoundContractDigest(core), triggers |-> {}, family |-> FALSE]
           d == [kind |-> "dispatch", unit |-> Unit, core |-> Len(core), at |-> clock,
                 seat |-> Reviewer, approval |-> approvedCoreRoute(core, Unit),
                 role |-> "review", preflight |-> p, target |-> target,
                 implementation |-> RequireImplementation(host, Unit),
                 risk |-> High, disputed |-> FALSE, final |-> FALSE, packet |-> packet]
           admitted == /\ requireApprovedRepository(host, core, Unit, Base)
                       /\ EvaluateDispatch(host, d, clock)
<1>1. /\ d.kind = "dispatch" /\ d.unit = Unit /\ d.core = Len(core) /\ d.role = "review"
      /\ d.implementation = RequireImplementation(host, Unit) /\ d.target = target
  OBVIOUS
<1>2. \/ PassOver \/ Refuse
      \/ /\ ~(i # 0 /\ ~reviewDispatchNeedsReissue(i)) /\ d.implementation # 0
         /\ Command(admitted, d)
  BY DEF stepReviewPacket
<1> HIDE DEF d
<1>3. ASSUME ~(i # 0 /\ ~reviewDispatchNeedsReissue(i)), d.implementation # 0,
             Command(admitted, d)
      PROVE  Moved
  <2>1. Of(host, "review", Unit) = {}
    BY <1>3, AnswerFound DEF reviewDispatchNeedsReissue
  <2>2. Files(d)
    BY <1>1, <1>3, <2>1 DEF Files, Kinds, Implements
  <2>3. ASSUME admitted, HasPacket(d)
        PROVE  \A k \in Packets : host[k].packet.run # d.packet.run
    <3>1. FreshPacket(host, d)
      BY <1>1, <2>3 DEF EvaluateDispatch, HasPacket
    <3> QED BY <3>1 DEF FreshPacket, Packets
  <2>4. ASSUME admitted, UNCHANGED core PROVE Follows(d)
    BY <1>1, <1>3, <2>3, <2>4 DEF Follows
  <2> HIDE DEF admitted
  <2> QED BY <1>3, <2>2, <2>4, CommandFollows
<1> QED BY <1>2, <1>3, PassedOver

LEMMA ReviewImportMoves ==
    ASSUME DriverInv, DriverInv', EndInv, stepReviewImport
    PROVE  Moved
<1> DEFINE i == findReviewDispatch
<1>1. \/ PassOver \/ Refuse
      \/ /\ i # 0 /\ ~Imported(i) /\ OutputUsable(i)
         /\ \E v \in {ReviewOf(i)} :
               Command(Importable(i) /\ EvaluateReview(host, v), v)
  BY DEF stepReviewImport
<1>2. ASSUME i # 0, ~Imported(i), OutputUsable(i), NEW v, v = ReviewOf(i),
             Command(Importable(i) /\ EvaluateReview(host, v), v)
      PROVE  Moved
  <2> DEFINE t == [dispatch |-> i, implementation |-> host[i].implementation,
                   target |-> host[i].target, verdict |-> MapReportVerdict(report),
                   receipt |-> host[i].packet.run, isolation |-> report.isolation]
             admitted == Importable(i) /\ EvaluateReview(host, v)
  <2>1. /\ v.kind = "review" /\ v.unit = Unit /\ v.core = Len(core) /\ v.dispatch = i
        /\ v.receipt = host[i].packet.run /\ v.target = host[i].target
    <3>1. /\ "dispatch" \in DOMAIN t \ EnvelopeFields /\ t.dispatch = i
          /\ "receipt" \in DOMAIN t \ EnvelopeFields /\ t.receipt = host[i].packet.run
          /\ "target" \in DOMAIN t \ EnvelopeFields /\ t.target = host[i].target
      BY DEF EnvelopeFields
    <3>2. v = Envelope("review") ++ t
      BY <1>2 DEF ReviewOf
    <3> HIDE DEF t
    <3> QED BY <3>1, <3>2, PlainRecord
  <2>2. Of(host, "review", Unit) = {}
    BY <1>2, AnswerFound
  <2>3. i \in Packets
    BY <1>2, FoundFacts DEF DriverInv
  <2>4. Files(v)
    BY <2>1, <2>2, <2>3 DEF Files, Kinds, Implements, HasPacket, Reviews
  <2>5. ASSUME admitted, UNCHANGED core PROVE Follows(v)
    <3>1. Importable(i)
      BY <2>5
    <3> HIDE DEF i
    <3> QED BY <1>2, <2>1, <2>5, <3>1 DEF Follows, HasPacket, Reviews
  <2>6. Command(admitted, v)
    BY <1>2
  <2> HIDE DEF admitted
  <2> QED BY <2>4, <2>5, <2>6, CommandFollows
<1> QED BY <1>1, <1>2, PassedOver

-----------------------------------------------------------------------------
(* The steps that file core records, and where they lead.                  *)

\* A record that moves nothing and ends nothing.
LEMMA QuietFollows ==
    ASSUME NEW r, NEW only, r.resolution = None, r.kind \notin {"stage_transition", "outcome"},
           SetsFindings(r) => only /\ FindingsKeep(r.findings, r.snapshot),
           r.snapshot => r.source \in Of(host, "review", Unit),
           r.criteria # NoMap => CriteriaFollow(r.criteria)
    PROVE  CoreFollows(r, only)
BY DEF CoreFollows, IssuesLease, ApprovedMove

LEMMA CriteriaBaselineMoves ==
    ASSUME DriverInv, DriverInv', EndInv, CriteriaBaseline
    PROVE  Moved
<1> DEFINE cs == [id \in CriteriaOf[Contract] |-> "PENDING"]
           r == [Blank EXCEPT !.kind = "criterion", !.stage = "ACCEPTANCE_CRITERIA",
                              !.criteria = cs]
<1>1. /\ Criteria(core) = NoMap /\ core' = Append(core, r)
      /\ UNCHANGED <<host, reconciled, commits, ledger, report, agents>>
  BY DEF CriteriaBaseline, NeedsBaseline, world
<1>2. \A id \in DOMAIN cs : cs[id] # "PASSED"
  OBVIOUS
<1> HIDE DEF cs
<1>3. /\ r.kind = "criterion" /\ r.resolution = None /\ r.criteria = cs
      /\ r.snapshot = FALSE /\ r.findings = NoMap
  BY DEF Blank
<1> HIDE DEF r
<1>4. CriteriaFollow(r.criteria)
  BY <1>1, <1>2, <1>3 DEF CriteriaFollow
<1>5. CoreFollows(r, TRUE)
  BY <1>3, <1>4, QuietFollows DEF SetsFindings
<1>6. ReconciledMoved
  BY <1>1 DEF ReconciledMoved
<1> QED BY <1>1, <1>5, <1>6, RecordFollows

\* Before a review was imported all findings are of reconciliation, and its
\* import leaves those alone.
LEMMA ImportKeeps ==
    ASSUME CoreFindings, ~\E k \in DOMAIN core : core[k].snapshot, NEW imported, NEW verdict
    PROVE  FindingsKeep(SnapshotFindings(Findings(core), Unit, imported, verdict), TRUE)
<1> DEFINE prior == Findings(core)
           theirs == {id \in DOMAIN prior : prior[id].unit # Unit}
           ours   == DOMAIN prior \ theirs
           new    == {FindingID(Unit, n) : n \in DOMAIN imported}
           kept   == {id \in ours \ new : strength(prior[id].disp) > 0}
           fs     == SnapshotFindings(prior, Unit, imported, verdict)
<1>1. /\ DOMAIN fs = theirs \cup new \cup (IF verdict = "APPROVE" THEN {} ELSE kept)
      /\ \A id \in DOMAIN fs : id \notin new => fs[id] = prior[id]
  BY DEF SnapshotFindings
<1>2. \A id \in new : id.by # None
  BY DriverAssumption DEF FindingID
<1>3. \A id \in DOMAIN prior : id.by = None /\ id \in theirs
  BY DEF CoreFindings
<1>4. kept \subseteq ours
  OBVIOUS
<1> HIDE DEF fs, new, kept
<1>5. \A id \in DOMAIN prior : id \in DOMAIN fs /\ fs[id] = prior[id]
  BY <1>1, <1>2, <1>3
<1>6. \A id \in DOMAIN fs : id.by = None => id \in DOMAIN prior /\ fs[id].unit # Unit
  BY <1>1, <1>2, <1>3, <1>4
<1>7. FindingsKeep(fs, TRUE)
  BY <1>5, <1>6 DEF FindingsKeep
<1> QED BY <1>7 DEF fs

LEMMA FindingsImportMoves ==
    ASSUME DriverInv, DriverInv', EndInv, stepFindingsImport
    PROVE  Moved
<1> DEFINE j == latestImportedReview
           R == Of(host, "review", Unit)
<1>1. \/ PassOver \/ Refuse
      \/ /\ ~\E k \in DOMAIN core : core[k].snapshot /\ core[k].source = j
         /\ j # 0 /\ UNCHANGED <<host, reconciled, commits, ledger, report, agents>>
         /\ \E facts : core' = Append(core, SnapshotOf(j, facts))
  BY DEF stepFindingsImport
<1>2. ASSUME ~\E k \in DOMAIN core : core[k].snapshot /\ core[k].source = j, j # 0,
             UNCHANGED <<host, reconciled, commits, ledger, report, agents>>,
             NEW facts, core' = Append(core, SnapshotOf(j, facts))
      PROVE  Moved
  <2> DEFINE r == SnapshotOf(j, facts)
             fs == SnapshotFindings(Findings(core), Unit, facts ++ report.findings, host[j].verdict)
  <2>1. R \subseteq 1..Len(host) /\ Len(host) \in Nat
    BY OfAppend DEF DriverInv, Typed
  <2>2. j \in R
    <3>1. j = Latest(R) /\ Numbered(host)
      BY DEF latestImportedReview, DriverInv, Typed
    <3> HIDE DEF R, j
    <3>2. R # {}
      BY <1>2, <3>1 DEF Latest
    <3> QED BY <2>1, <3>1, <3>2, LatestOf
  <2>3. ~\E k \in DOMAIN core : core[k].snapshot
    <3> SUFFICES ASSUME NEW k \in DOMAIN core, core[k].snapshot PROVE FALSE
      OBVIOUS
    <3>1. core[k].source \in R
      BY DEF EndInv, ChainsInv, Sourced
    <3>2. core[k].source <= j /\ j <= core[k].source
      BY <2>2, <3>1 DEF DriverInv, HostInv, VerdictFinal
    <3> DEFINE q == core[k].source
    <3>3. q \in R /\ q <= j /\ j <= q
      BY <3>1, <3>2
    <3> HIDE DEF j, R, q
    <3>4. q \in Nat /\ j \in Nat
      BY <2>1, <2>2, <3>3
    <3>5. q = j
      BY <3>3, <3>4
    <3> QED BY <1>2, <3>5 DEF q
  <2>4. FindingsKeep(fs, TRUE)
    BY <2>3, ImportKeeps DEF EndInv, ChainsInv
  <2>5. /\ r.kind = "finding" /\ r.criteria = NoMap /\ r.resolution = None
        /\ r.snapshot /\ r.source = j /\ r.findings = fs
    BY SnapshotIs
  <2> HIDE DEF r, fs
  <2>6. FindingsKeep(r.findings, r.snapshot)
    BY <2>4, <2>5 DEF FindingsKeep
  <2>7. CoreFollows(r, TRUE)
    BY <2>2, <2>5, <2>6, QuietFollows
  <2>8. ReconciledMoved
    BY <1>2 DEF ReconciledMoved
  <2> QED BY <1>2, <2>7, <2>8, RecordFollows DEF r
<1> QED BY <1>1, <1>2, PassedOver

LEMMA ReconcileMoves ==
    ASSUME DriverInv, DriverInv', EndInv, stepReconcile
    PROVE  Moved
<1> DEFINE prior == Findings(core)
           new == {UnauthorizedID(run) : run \in Unaccounted} \ DOMAIN prior
           fs == [id \in DOMAIN prior \cup new |->
                    IF id \in new THEN [disp |-> "BLOCK", unit |-> None] ELSE prior[id]]
           r == [Blank EXCEPT !.findings = fs, !.sealed = fs]
<1>1. \/ PassOver
      \/ /\ ~Reached("VERIFICATION")
         /\ core' = (IF new = {} THEN core ELSE Append(core, r))
         /\ reconciled' = [core |-> Len(core'), host |-> Len(host),
                           ledger |-> ledger, refused |-> Unaccounted]
         /\ UNCHANGED <<host, commits, ledger, report, agents>>
  BY DEF stepReconcile, world
<1>2. /\ r.kind = "finding" /\ r.criteria = NoMap /\ r.resolution = None
      /\ r.snapshot = FALSE /\ r.findings = fs
  <2> HIDE DEF fs
  <2> QED BY DEF Blank
<1>3. /\ DOMAIN fs = DOMAIN prior \cup new
      /\ \A id \in DOMAIN fs : \/ id \in DOMAIN prior /\ id \notin new /\ fs[id] = prior[id]
                               \/ id \in new /\ fs[id].unit = None
  OBVIOUS
<1>4. \A id \in new : id \notin DOMAIN prior
  OBVIOUS
<1> HIDE DEF fs, r, new
<1>5. ASSUME ~Reached("VERIFICATION"),
             core' = (IF new = {} THEN core ELSE Append(core, r)),
             reconciled' = [core |-> Len(core'), host |-> Len(host),
                            ledger |-> ledger, refused |-> Unaccounted],
             UNCHANGED <<host, commits, ledger, report, agents>>
      PROVE  Moved
  <2>1. FindingsKeep(fs, FALSE)
    <3>0. \A id \in new : id.by = None
      BY DEF new, UnauthorizedID
    <3>1. \A id \in DOMAIN prior : id \in DOMAIN fs /\ fs[id] = prior[id]
      BY <1>3, <1>4
    <3>2. \A id \in DOMAIN prior : id.by = None => prior[id].unit # Unit
      BY DEF EndInv, ChainsInv, CoreFindings
    <3>3. None # Unit
      BY DriverAssumption
    <3>4. \A id \in DOMAIN fs : id.by = None => fs[id].unit # Unit
      BY <1>3, <3>2, <3>3
    <3>5. \A id \in DOMAIN fs : id.by # None => id \in DOMAIN prior
      BY <1>3, <3>0
    <3> QED BY <1>5, <3>1, <3>4, <3>5 DEF FindingsKeep
  <2>2. ReconciledMoved
    <3>1. reconciled'.ledger = ledger /\ reconciled'.refused = Unaccounted
      BY <1>5
    <3> QED BY <1>5, <3>1 DEF ReconciledMoved
  <2>3. CoreFollows(r, TRUE)
    BY <1>2, <2>1, QuietFollows
  <2>4. CASE new # {}
    BY <1>5, <2>2, <2>3, <2>4, RecordFollows
  <2>5. CASE new = {}
    <3>1. HostMoved /\ CommitsMoved /\ CoreMoved
      BY <1>5, <2>5, CoreStays DEF HostMoved, CommitsMoved
    <3>2. WorldMoved
      BY <1>5, <3>1, WorldStays, CalmAgents
    <3> QED BY <2>2, <3>1, <3>2 DEF Moved
  <2> QED BY <2>4, <2>5
<1> QED BY <1>1, <1>5, PassedOver

\* What a human is asked to end the run on is no dead end.
LEMMA EndIsLive ==
    ASSUME DriverInv, EndInv, CurrentStage(core) = "INDEPENDENT_VALIDATION",
           NEW a, a = Approve("INDEPENDENT_VALIDATION", None), Admits(a, None)
    PROVE  ~DeadEnd
<1>1. a.outcome = "PARTIAL" /\ a.class = FALSE
  BY DEF Approve
<1>2. requireIndependentCredit(host, core, target) /\ AdmitsTransition(core, a, Len(core) + 1, None)
  BY <1>1 DEF Admits, ClaimsSuccess
<1>3. PICK id \in DOMAIN Criteria(core) : Criteria(core)[id] \in Settled
  BY <1>1, <1>2 DEF AdmitsTransition, OutcomeSupported
<1>4. Criteria(core)[id] = "PASSED"
  BY <1>3, NoWaivers DEF Settled
<1>5. CreditStands(host, core, target, id) /\ Credited
  BY <1>2, <1>3, <1>4 DEF requireIndependentCredit, EndInv, ChainsInv, PassedTogether
<1>6. PICK i \in Of(host, "review", Unit) : host[i].verdict = "APPROVE" /\ host[i].target = target
  BY <1>5, CreditedAnswer
<1>7. Reached("VERIFICATION")
  BY StageOrders DEF Reached
<1>8. Unaccountable = {} /\ FindingsResolved(core, Unit)
  <2>1. Unaccountable = {}
    BY <1>7 DEF EndInv, ChainsInv, Verified, Unaccountable
  <2>2. FindingsResolved(core, None)
    BY <1>1 DEF Admits, HostAdmits, ClaimsSuccess
  <2>3. FindingsResolved(core, Unit)
    BY <2>2 DEF FindingsResolved
  <2> QED BY <2>1, <2>3
<1>9. \A k \in Packets : k = findReviewDispatch => ~Unanswerable(k)
  BY <1>6, AnswerFound DEF Unanswerable
<1>10. ASSUME NEW j \in Of(host, "review", Unit), j = latestImportedReview
       PROVE  ~Unusable(j)
  <2>1. Of(host, "review", Unit) \subseteq 1..Len(host) /\ Len(host) \in Nat
    BY OfAppend DEF DriverInv, Typed
  <2>2. i <= j /\ j <= i
    BY <1>6 DEF DriverInv, HostInv, VerdictFinal
  <2>3. i = j
    BY <1>6, <2>1, <2>2
  <2> QED BY <1>5, <1>6, <2>3 DEF Unusable
<1>11. ~Uncredited
  BY <1>5 DEF Uncredited, CreditStands
<1> QED BY <1>8, <1>9, <1>10, <1>11 DEF DeadEnd

\* Into verification: the review gate asks for a review and reconciled launches.
LEMMA ReviewedIntoVerification ==
    ASSUME DriverInv, EndInv, LaunchesReconciled, NEW a, a.unit = Unit,
           ReviewGate(host, core, a, target)
    PROVE  Unaccounted = {} /\ ~HasUnauthorizedDispatch /\ Of(host, "review", Unit) # {}
<1> DEFINE m == RequireImplementation(host, Unit)
           S == {j \in Of(host, "review", Unit) : host[j].implementation = m}
<1>1. ApprovedReview(host, Unit) # 0
  BY DEF ReviewGate
<1>2. Latest(S) # 0
  BY <1>1 DEF ApprovedReview
<1>3. S # {}
  <2> HIDE DEF S
  <2> QED BY <1>2 DEF Latest
<1>4. PICK j \in Of(host, "review", Unit) : TRUE
  BY <1>3
<1>5. host[j].dispatch \in Packets
  BY <1>4 DEF DriverInv, HostInv, Filed, Of
<1>6. /\ ~HasUnauthorizedDispatch /\ reconciled # None
      /\ reconciled.refused = {} /\ reconciled.ledger = ledger
  BY <1>5 DEF LaunchesReconciled
<1>7. \A run \in DOMAIN ledger :
          ledger[run].exit # None /\ \E i \in Packets : AccountsFor(core, host[i], ledger[run])
  BY <1>6 DEF EndInv, ChainsInv, ReconciledThen
<1>8. Unaccounted = {}
  BY <1>7 DEF Unaccounted
<1> QED BY <1>4, <1>6, <1>8

LEMMA StepStages ==
    \A step \in DOMAIN Edges :
        LET from == Edges[step][1]
            to   == Edges[step][2]
        IN  /\ to = "IMPLEMENTATION_AUTHORIZATION" => from = "ROUTE_SELECTION"
            /\ to # None /\ stageOrder("VERIFICATION") <= stageOrder(to) =>
                  \/ from = "VERIFICATION" /\ to = "INDEPENDENT_VALIDATION"
                  \/ from = "IMPLEMENTATION_REVIEW" /\ to = "VERIFICATION"
<1>1. DOMAIN Edges =
          {"accept-criteria", "planning", "route-selection", "route-approval",
           "implementation-review", "verification", "independent-validation", "partial"}
  BY DEF Edges
<1>2. /\ Edges["accept-criteria"] = <<"GROUNDING", "ACCEPTANCE_CRITERIA">>
      /\ Edges["planning"] = <<"ACCEPTANCE_CRITERIA", "PLANNING">>
      /\ Edges["route-selection"] = <<"PLANNING", "ROUTE_SELECTION">>
      /\ Edges["route-approval"] = <<"ROUTE_SELECTION", "IMPLEMENTATION_AUTHORIZATION">>
      /\ Edges["implementation-review"] =
            <<"IMPLEMENTATION_AUTHORIZATION", "IMPLEMENTATION_REVIEW">>
      /\ Edges["verification"] = <<"IMPLEMENTATION_REVIEW", "VERIFICATION">>
      /\ Edges["independent-validation"] = <<"VERIFICATION", "INDEPENDENT_VALIDATION">>
      /\ Edges["partial"] = <<"INDEPENDENT_VALIDATION", None>>
  BY DEF Edges
<1>3. None \notin Stages
  BY DriverAssumption
<1> QED BY <1>1, <1>2, <1>3, StageOrders DEF Stages

LEMMA TransitionMoves ==
    ASSUME DriverInv, DriverInv', EndInv, doTransition
    PROVE  Moved
<1> DEFINE from == Edges[runSteps[at]][1]
           to == Edges[runSteps[at]][2]
           doc == IF to = "PLANNING" THEN Contract ELSE None
           a == Approve(from, to)
           r == AppliedRecord(core, a)
<1>1. /\ runSteps[at] \in DOMAIN Edges /\ UNCHANGED <<host, reconciled, world>>
      /\ \/ UNCHANGED core
         \/ CurrentStage(core) = from /\ Admits(a, doc) /\ core' = Append(core, r)
  BY DEF doTransition
<1>2. UNCHANGED <<host, reconciled, commits, ledger, report, agents>>
  BY <1>1 DEF world
<1>3. /\ (from = "INDEPENDENT_VALIDATION" /\ to = None) \/ to \in Stages
      /\ to = "IMPLEMENTATION_AUTHORIZATION" => from = "ROUTE_SELECTION"
      /\ to # None /\ stageOrder("VERIFICATION") <= stageOrder(to) =>
            \/ from = "VERIFICATION" /\ to = "INDEPENDENT_VALIDATION"
            \/ from = "IMPLEMENTATION_REVIEW" /\ to = "VERIFICATION"
  BY <1>1, EdgeFacts, StepStages
<1>4. CASE UNCHANGED core
  BY <1>2, <1>4, StepsPass DEF chains
<1>5. ASSUME CurrentStage(core) = from, Admits(a, doc), core' = Append(core, r)
      PROVE  Moved
  <2>0. None \notin Stages /\ None # "PARTIAL" /\ None # "PLANNING" /\ None \notin Outcomes
    BY DriverAssumption DEF Stages, Outcomes, stoppingOutcomes
  <2>1. /\ a.class = FALSE /\ a.to = to /\ a.from = from
        /\ a.outcome = (IF to = None THEN "PARTIAL" ELSE None)
        /\ a.contract = (IF from = "GROUNDING" THEN None ELSE Contract)
        /\ a.unit = (IF stageOrder(from) >= stageOrder("ROUTE_SELECTION") THEN Unit ELSE None)
    BY DEF Approve
  <2> HIDE DEF a, from, to
  <2>2. /\ r.kind = (IF a.outcome # None THEN "outcome" ELSE "stage_transition")
        /\ r.approval = a /\ r.snapshot = FALSE /\ r.findings = NoMap /\ r.resolution = None
        /\ r.criteria = (IF a.outcome = None THEN NoMap ELSE Criteria(core))
    BY <2>1 DEF AppliedRecord, Blank
  <2> HIDE DEF r
  <2>3. IssuesLease(r, Unit) => r.approval.contract = Contract
    BY <1>3, <2>1, <2>2 DEF IssuesLease
  <2>4. ASSUME ApprovedMove(r), stageOrder("VERIFICATION") <= stageOrder(r.approval.to)
        PROVE  \/ Reached("VERIFICATION")
               \/ Unaccounted = {} /\ ~HasUnauthorizedDispatch /\ Of(host, "review", Unit) # {}
    <3>1. to # None /\ stageOrder("VERIFICATION") <= stageOrder(to)
      BY <2>1, <2>2, <2>4 DEF ApprovedMove
    <3>2. CASE from = "VERIFICATION"
      BY <1>5, <3>2, StageOrders DEF Reached
    <3>3. CASE from = "IMPLEMENTATION_REVIEW" /\ to = "VERIFICATION"
      <4>1. ReviewEdge(a)
        BY <2>1, <3>3 DEF ReviewEdge, Edge
      <4>2. LaunchesReconciled /\ ReviewGate(host, core, a, target)
        BY <1>5, <4>1 DEF Admits
      <4>3. a.unit = Unit
        BY <2>1, <3>3, StageOrders
      <4> QED BY <4>2, <4>3, ReviewedIntoVerification
    <3> QED BY <1>3, <3>1, <3>2, <3>3
  <2>5. ~SetsFindings(r)
    BY <2>2 DEF SetsFindings
  <2>6. r.criteria # NoMap => CriteriaFollow(r.criteria)
    BY <2>2 DEF CriteriaFollow
  <2>7. r.kind = "outcome" => ~DeadEnd
    <3> SUFFICES ASSUME r.kind = "outcome" PROVE ~DeadEnd
      OBVIOUS
    <3>1. to = None /\ from = "INDEPENDENT_VALIDATION"
      BY <1>3, <2>0, <2>1, <2>2
    <3>2. doc = None
      BY <2>0, <3>1
    <3>3. a = Approve("INDEPENDENT_VALIDATION", None)
      BY <3>1 DEF a
    <3> QED BY <1>5, <3>1, <3>2, <3>3, EndIsLive
  <2>8. CoreFollows(r, TRUE)
    BY <2>2, <2>3, <2>4, <2>5, <2>6, <2>7 DEF CoreFollows
  <2>9. ReconciledMoved
    BY <1>2 DEF ReconciledMoved
  <2> QED BY <1>2, <1>5, <2>8, <2>9, RecordFollows
<1> QED BY <1>1, <1>4, <1>5

\* What a review that can be credited says of the unit's criteria.
LEMMA CreditableFacts ==
    ASSUME DriverInv, EndInv, NEW j \in Of(host, "review", Unit), Stands(j),
           Creditable(host, core, j, target, Base)
    PROVE  /\ approvedCoreRoute(core, Unit) # 0
           /\ host[j].verdict = "APPROVE" /\ host[j].target = target
           /\ ~Unusable(j)
           /\ advanced \subseteq DOMAIN Criteria(core)
<1> DEFINE i == currentIssuer(core, Unit)
<1>1. host[j].unit = Unit
  BY DEF Of
<1>2. /\ approvedCoreRoute(core, Unit) # 0
      /\ host[j].verdict = "APPROVE" /\ host[j].target = target
      /\ reviewBinding(host, core, host[j])
      /\ PlanUnit[core[i].approval.contract].criteria \subseteq DOMAIN Criteria(core)
  BY <1>1 DEF Creditable, currentPlanUnit
<1>3. i # 0
  BY <1>1, <1>2 DEF reviewBinding, currentBinding
<1>4. i \in DOMAIN core /\ IssuesLease(core[i], Unit)
  BY <1>3, IssuerInChain, ChainFacts DEF DriverInv, Typed
<1>5. core[i].approval.contract = Contract
  BY <1>4 DEF EndInv, ChainsInv, ContractIssued, Moves, IssuesLease
<1>6. advanced \subseteq DOMAIN Criteria(core)
  BY <1>2, <1>5 DEF advanced
<1>7. ~Unusable(j)
  BY <1>2 DEF Unusable, Stands
<1> QED BY <1>2, <1>6, <1>7

\* What crediting files in the core chain, whole or not.
LEMMA CreditFollows ==
    ASSUME DriverInv, EndInv, ~Credited, NEW d, NEW only, advanced \subseteq DOMAIN Criteria(core),
           \A j \in Of(host, "review", Unit) : j = latestImportedReview => ~Unusable(j),
           NEW r \in {EvidenceRecord(core, Unit), CriteriaRecord(core, Unit, [id \in advanced |-> d])}
    PROVE  CoreFollows(r, only) /\ ~ApprovedMove(r)
<1> DEFINE results == [id \in advanced |-> d]
           e == EvidenceRecord(core, Unit)
           c == CriteriaRecord(core, Unit, results)
           cs == [id \in DOMAIN Criteria(core) |->
                     IF id \in DOMAIN results THEN results[id] ELSE Criteria(core)[id]]
<1>1. CASE r = e
  <2>1. /\ r.kind = "evidence" /\ r.resolution = None /\ r.criteria = NoMap
        /\ r.snapshot = FALSE /\ r.findings = NoMap
    BY <1>1 DEF EvidenceRecord, Blank
  <2> HIDE DEF e
  <2> QED BY <2>1, QuietFollows DEF SetsFindings, ApprovedMove
<1>2. CASE r = c
  <2>1. /\ r.kind = "criterion" /\ r.resolution = None /\ r.criteria = cs
        /\ r.snapshot = FALSE /\ r.findings = NoMap
    <3> HIDE DEF results
    <3> QED BY <1>2 DEF CriteriaRecord, Blank
  <2>2. DOMAIN cs = DOMAIN Criteria(core)
    OBVIOUS
  <2>3. \A id \in DOMAIN cs : cs[id] = IF id \in advanced THEN d ELSE Criteria(core)[id]
    OBVIOUS
  <2> HIDE DEF cs, c
  <2>4. ASSUME NEW id \in DOMAIN cs, cs[id] = "PASSED"
        PROVE  id \in advanced /\ \A a \in advanced : a \in DOMAIN cs /\ cs[a] = "PASSED"
    <3>1. id \in advanced
      BY <2>2, <2>3, <2>4 DEF EndInv, ChainsInv, PassedTogether
    <3>2. d = "PASSED"
      BY <2>3, <2>4, <3>1
    <3> QED BY <2>2, <2>3, <3>1, <3>2
  <2>5. CriteriaFollow(cs)
    BY <2>4 DEF CriteriaFollow
  <2> QED BY <2>1, <2>5, QuietFollows DEF SetsFindings, ApprovedMove
<1> QED BY <1>1, <1>2

LEMMA CreditMoves ==
    ASSUME DriverInv, DriverInv', EndInv, stepCredit
    PROVE  Moved
<1> DEFINE j == latestImportedReview
           results(exit) == [id \in advanced |-> criterionDisposition(exit, report.status)]
           whole(exit) == CreditRecords(core, Unit, results(exit))
           t(exit) == [review |-> j, target |-> target, results |-> results(exit),
                       contract |-> BoundContractDigest(core),
                       issuer |-> currentIssuer(core, Unit),
                       record |-> Len(core) + Len(whole(exit))]
           e(exit) == [Envelope("credit") EXCEPT !.core = Len(core) + Len(whole(exit))]
           credit(exit) == e(exit) ++ t(exit)
<1>1. \/ PassOver \/ Refuse
      \/ /\ ~Credited /\ j # 0 /\ Stands(j) /\ Creditable(host, core, j, target, Base) /\ ~Done
         /\ \E exit \in {0, 1}, cut \in BOOLEAN :
               /\ IF cut
                  THEN /\ \E n \in 1..Len(whole(exit)) :
                             core' = core \o SubSeq(whole(exit), 1, n)
                       /\ UNCHANGED host
                  ELSE core' = core \o whole(exit) /\ host' = Append(host, credit(exit))
               /\ UNCHANGED <<reconciled, commits, ledger, report, agents>>
  BY DEF stepCredit
<1>2. ASSUME ~Credited, j # 0, Stands(j), Creditable(host, core, j, target, Base), ~Done,
             NEW exit, NEW cut \in BOOLEAN,
             IF cut
             THEN /\ \E n \in 1..Len(whole(exit)) :
                        core' = core \o SubSeq(whole(exit), 1, n)
                  /\ UNCHANGED host
             ELSE core' = core \o whole(exit) /\ host' = Append(host, credit(exit)),
             UNCHANGED <<reconciled, commits, ledger, report, agents>>
      PROVE  Moved
  <2> HIDE DEF whole, credit
  <2>1. j \in Of(host, "review", Unit)
    <3>1. Of(host, "review", Unit) \subseteq 1..Len(host) /\ Numbered(host)
      BY OfAppend DEF DriverInv, Typed
    <3>2. Of(host, "review", Unit) # {}
      BY <1>2 DEF latestImportedReview, Latest
    <3> QED BY <3>1, <3>2, LatestOf DEF latestImportedReview
  <2>2. /\ approvedCoreRoute(core, Unit) # 0 /\ host[j].verdict = "APPROVE"
        /\ host[j].target = target /\ ~Unusable(j) /\ advanced \subseteq DOMAIN Criteria(core)
    BY <1>2, <2>1, CreditableFacts
  <2>3. PICK w, d : w = whole(exit) /\ d = criterionDisposition(exit, report.status)
    OBVIOUS
  <2>4. w = CreditRecords(core, Unit, [id \in advanced |-> criterionDisposition(exit, report.status)])
    BY <2>3 DEF whole
  <2>5. Numbered(w) /\ Len(w) \in Nat
    <3>1. DOMAIN results(exit) = advanced
      OBVIOUS
    <3> HIDE DEF results
    <3> QED BY <2>3, <3>1, CreditWhole DEF whole
  <2>6. ASSUME NEW n \in 0..Len(w), core' = core \o SubSeq(w, 1, n)
        PROVE  CoreMoved /\ Len(core') = Len(core) + n
    <3>1. /\ Grows(core, core') /\ Len(core') = Len(core) + n
          /\ \A k \in Len(core) + 1..Len(core') :
                core'[k] \in {EvidenceRecord(core, Unit),
                              CriteriaRecord(core, Unit,
                                  [id \in advanced |-> criterionDisposition(exit, report.status)])}
      BY <1>2, <2>2, <2>4, <2>6, CreditFiles
    <3>2. ASSUME NEW k \in Len(core) + 1..Len(core'), NEW only
          PROVE  CoreFollows(core'[k], only) /\ ~ApprovedMove(core'[k])
      <4>1. core'[k] \in {EvidenceRecord(core, Unit),
                          CriteriaRecord(core, Unit, [id \in advanced |-> d])}
        BY <2>3, <3>1
      <4>2. \A i \in Of(host, "review", Unit) : i = latestImportedReview => ~Unusable(i)
        BY <2>2
      <4> QED BY <1>2, <2>2, <4>1, <4>2, CreditFollows
    <3> QED BY <3>1, <3>2 DEF CoreMoved
  <2>7. ReconciledMoved /\ CommitsMoved
    BY <1>2 DEF ReconciledMoved, CommitsMoved
  <2>8. CASE cut
    <3>1. PICK n \in 1..Len(w) : core' = core \o SubSeq(w, 1, n)
      BY <1>2, <2>3, <2>8
    <3>2. n \in 0..Len(w)
      BY <3>1
    <3>3. CoreMoved
      BY <2>6, <3>1, <3>2
    <3>4. HostMoved
      BY <1>2, <2>8 DEF HostMoved
    <3>5. WorldMoved
      BY <1>2, <3>4, WorldStays, CalmAgents
    <3> QED BY <2>7, <3>3, <3>4, <3>5 DEF Moved
  <2>9. CASE ~cut
    <3>1. core' = core \o w /\ host' = Append(host, credit(exit))
      BY <1>2, <2>3, <2>9
    <3>2. core' = core \o SubSeq(w, 1, Len(w)) /\ Len(w) \in 0..Len(w)
      BY <2>5, <3>1, WholeChain
    <3>3. CoreMoved /\ Len(core') = Len(core) + Len(w)
      BY <2>6, <3>2
    <3>4. /\ credit(exit).kind = "credit" /\ credit(exit).unit = Unit
          /\ credit(exit).review = j /\ credit(exit).target = target
          /\ credit(exit).record = Len(core')
      <4>1. /\ e(exit).kind = "credit" /\ e(exit).unit = Unit
            /\ DOMAIN e(exit) = EnvelopeFields
        BY DEF Envelope, EnvelopeFields
      <4>2. /\ "review" \in DOMAIN t(exit) \ EnvelopeFields /\ t(exit).review = j
            /\ "target" \in DOMAIN t(exit) \ EnvelopeFields /\ t(exit).target = target
            /\ "record" \in DOMAIN t(exit) \ EnvelopeFields
            /\ t(exit).record = Len(core) + Len(whole(exit))
        BY DEF EnvelopeFields
      <4>3. "kind" \in EnvelopeFields /\ "unit" \in EnvelopeFields
        BY DEF EnvelopeFields
      <4>4. credit(exit) = e(exit) ++ t(exit)
        BY DEF credit
      <4> HIDE DEF e, t
      <4>5. /\ \A f \in DOMAIN e(exit) : (e(exit) ++ t(exit))[f] = e(exit)[f]
            /\ \A f \in DOMAIN t(exit) \ DOMAIN e(exit) : (e(exit) ++ t(exit))[f] = t(exit)[f]
        BY Beside
      <4> QED BY <2>3, <3>3, <4>1, <4>2, <4>3, <4>4, <4>5
    <3>5. PICK r : r = credit(exit)
      OBVIOUS
    <3>6. Files(r)
      BY <2>1, <2>2, <3>4, <3>5 DEF Files, Kinds, Implements, HasPacket, Reviews
    <3>7. Follows(r)
      BY <1>2, <3>4, <3>5 DEF Follows, HasPacket, Reviews
    <3>8. HostMoved
      BY <1>2, <3>1, <3>5, <3>6, <3>7 DEF HostMoved
    <3>9. WorldMoved
      BY <1>2, <3>8, WorldStays, CalmAgents
    <3> QED BY <2>7, <3>3, <3>8, <3>9 DEF Moved
  <2> QED BY <2>8, <2>9
<1> QED BY <1>1, <1>2, PassedOver

-----------------------------------------------------------------------------
(* Every step moves so, from the start.                                    *)

LEMMA InitEnds == ASSUME Init, DriverInv PROVE EndInv
<1>1. Numbered(core) /\ DOMAIN core = {} /\ DOMAIN host = {} /\ DOMAIN ledger = {}
  BY ShortChains DEF Init, NoMap
<1>2. /\ commits = <<>> /\ Numbered(commits) /\ report = None /\ reconciled = None
      /\ agents.child = None /\ agents.orphan = None
  BY ShortChains DEF Init
<1>3. Packets = {} /\ Moves = {} /\ Credits(host) = {} /\ Of(host, "review", Unit) = {}
  BY <1>1 DEF Packets, Moves, Credits, Of
<1>4. \A p : ~Written(p)
  BY <1>1, <1>2 DEF Written
<1>5. ~Reviewing("child") /\ ~Reviewing("orphan")
  BY <1>2 DEF Reviewing, Running
<1>6. WorldInv
  BY <1>1, <1>2, <1>3, <1>4, <1>5
     DEF WorldInv, PacketsApart, TargetsOld, LedgerApart, ReportsApart, Receipts
<1>7. ~Reached("VERIFICATION")
  <2>1. CurrentStage(core) = "GROUNDING"
    BY <1>1, StageFacts, ChainFacts
  <2> QED BY <2>1, StageOrders DEF Reached
<1>8. DOMAIN Criteria(core) = {} /\ DOMAIN Findings(core) = {}
  <2>1. Criteria(core) = NoMap
    BY <1>1, CriteriaFacts, ChainFacts
  <2>2. SelectLastInSeq(core, SetsFindings) = 0
    <3>1. 1..Len(core) = {}
      BY <1>1, ChainFacts
    <3> QED BY <3>1 DEF SelectLastInSeq
  <2>3. Findings(core) = NoMap
    BY <2>2 DEF Findings
  <2> QED BY <2>1, <2>3 DEF NoMap
<1>9. ChainsInv
  BY <1>1, <1>2, <1>3, <1>7, <1>8
     DEF ChainsInv, PacketsApproved, ReconciledThen, Verified, PassedTogether, CreditsRecorded,
         CoreFindings, Sourced, ContractIssued
<1> QED BY <1>6, <1>9 DEF EndInv

LEMMA NextMoves == ASSUME DriverInv, DriverInv', EndInv, Next PROVE Moved
<1>1. ASSUME Invoke \/ TimePasses PROVE Moved
  BY <1>1, StepsPass DEF Invoke, TimePasses, world, chains
<1>2. ASSUME Step PROVE Moved
  <2>1. ASSUME \/ CriteriaBaseline \/ doTransition
               \/ stepDecision \/ stepImplDispatch \/ stepBindRepository
               \/ stepPreflight("implementation", Implementer)
               \/ stepPreflight("review", Reviewer)
        PROVE  Moved
    BY <2>1, CriteriaBaselineMoves, TransitionMoves, DecisionMoves, ImplDispatchMoves,
       BindRepositoryMoves, PreflightMoves
  <2>2. ASSUME LaunchWorker \/ CheckWorker \/ LaunchReviewer \/ CheckReviewer PROVE Moved
    BY <2>2, LaunchWorkerMoves, CheckWorkerMoves, LaunchReviewerMoves, CheckReviewerMoves
  <2>3. ASSUME \/ stepReviewPacket \/ stepReviewImport \/ stepFindingsImport
               \/ stepReconcile \/ stepCredit
        PROVE  Moved
    BY <2>3, ReviewPacketMoves, ReviewImportMoves, FindingsImportMoves, ReconcileMoves,
       CreditMoves
  <2> QED BY <1>2, <2>1, <2>2, <2>3 DEF Step
<1>3. ASSUME Agent PROVE Moved
  <2>1. PICK who \in {"child", "orphan"} :
            WorkerCommits(who) \/ WorkerExits(who) \/ ReviewerReports(who) \/ ReviewerExits(who)
    BY <1>3 DEF Agent
  <2> QED BY <2>1, WorkerMoves, ReviewerReportsMoves, ReviewerExitsMoves
<1> QED BY <1>1, <1>2, <1>3, CrashMoves DEF Next

LEMMA EndStays == ASSUME DriverInv, DriverInv', EndInv, [Next]_vars PROVE Moved
<1>1. CASE UNCHANGED vars
  BY <1>1, StepsPass DEF vars, chains
<1> QED BY <1>1, NextMoves

\* Once hmarun cannot get a run out of where it stands, because agent-dispatch
\* accounts for a launch no more, the latest review is against the work or
\* cannot be used, or a credit was cut short, nothing that hmarun, its agents or
\* another invocation of it does gets the run out: it never ends.
THEOREM DeadEndsAreFinal == Spec => DeadEndsStay
<1>1. Init => DriverInv /\ EndInv
  BY InitDrives, InitEnds
<1>2. DriverInv /\ DriverInv' /\ EndInv /\ [Next]_vars => EndInv'
  BY EndStays, EndKept
<1>3. DriverInv /\ DriverInv' /\ EndInv /\ [Next]_vars => (DeadEnd => DeadEnd')
  BY EndStays, DeadEndKept
<1> QED BY <1>1, <1>2, <1>3, DriverInvAlways, PTL DEF Spec, DeadEndsStay
===============================================================================
