--------------------------- MODULE HostReviewProofs ---------------------------
(***************************************************************************)
(* Proofs about HostReview, for any contracts, seats, reviewers, launches  *)
(* and repository contents, and all the states a run is picked up at that  *)
(* are in order themselves.                                                *)
(*                                                                         *)
(* The chains only grow.  So what a gate saw is still what the chains say  *)
(* of the moment of the gate (GatesPassed), and what made a record         *)
(* admissible when it was written is still so of the records before it     *)
(* (HostInOrder).  That a unit leaves a stage only on what the properties  *)
(* say follows from the two, without looking at steps any more.            *)
(***************************************************************************)
EXTENDS HostReview, ChainLemmas, FiniteSetTheorems

-----------------------------------------------------------------------------
(* Records in order.                                                       *)

\* What follows a record says nothing of it.
LEMMA OrderIsBehind ==
    ASSUME NEW h, NEW g, NEW i \in Nat, i >= 1, \A k \in 1..i : g[k] = h[k],
           NEW K, NEW L, K \subseteq L, RecordInOrder(h, i, K)
    PROVE  RecordInOrder(g, i, L)
<1>1. g[i] = h[i] /\ \A k \in 1..(i - 1) : g[k] = h[k]
  OBVIOUS
<1>2. FollowsDecision(g, i)
  <2> SUFFICES ASSUME Implements(h[i]) PROVE FollowsDecision(g, i)
    BY <1>1 DEF FollowsDecision
  <2>1. PICK d \in 1..(i - 1) :
            /\ h[d].kind = "decision" /\ h[d].mode = "DELEGATE" /\ sameRoute(h[d], h[i])
            /\ \A k \in (d + 1)..(i - 1) : h[k].kind # "decision"
    BY DEF RecordInOrder, FollowsDecision
  <2>2. g[d] = h[d] /\ \A k \in (d + 1)..(i - 1) : g[k] = h[k]
    BY <1>1
  <2> QED BY <1>1, <2>1, <2>2 DEF FollowsDecision
<1>3. ReviewerChosen(g, i)
  BY <1>1 DEF RecordInOrder, ReviewerChosen
<1>4. AnswersDispatch(g, i)
  BY <1>1 DEF RecordInOrder, AnswersDispatch
<1>5. AnswersLaunch(g, i, L)
  <2> SUFFICES ASSUME h[i].kind = "review", h[i].receipt # None PROVE AnswersLaunch(g, i, L)
    BY <1>1 DEF AnswersLaunch
  <2>1. h[i].dispatch \in 1..(i - 1)
    BY DEF RecordInOrder, AnswersDispatch
  <2> QED BY <1>1, <2>1 DEF RecordInOrder, AnswersLaunch
<1> QED BY <1>1, <1>2, <1>3, <1>4, <1>5 DEF RecordInOrder

\* So the beginning of a chain in order is in order.
LEMMA PrefixInOrder ==
    ASSUME NEW h, Numbered(h), NEW L, HostInOrder(h, L), NEW n \in 0..Len(h)
    PROVE  HostInOrder(SubSeq(h, 1, n), L)
<1> DEFINE g == SubSeq(h, 1, n)
<1>1. DOMAIN g = 1..n /\ n \in Nat /\ \A k \in 1..n : g[k] = h[k] /\ k \in DOMAIN h
  BY PrefixFacts, ChainFacts
<1> HIDE DEF g
<1>2. ASSUME NEW i \in DOMAIN g PROVE RecordInOrder(g, i, L)
  <2>1. i \in Nat /\ i >= 1 /\ RecordInOrder(h, i, L) /\ \A k \in 1..i : g[k] = h[k]
    BY <1>1 DEF HostInOrder
  <2> QED BY <2>1, OrderIsBehind
<1>3. HostInOrder(g, L)
  BY <1>2 DEF HostInOrder
<1> QED BY <1>3 DEF g

-----------------------------------------------------------------------------
(* What the latest records of a kind say.                                  *)

LEMMA LatestIn ==
    ASSUME NEW h, Numbered(h), NEW S, S \subseteq DOMAIN h
    PROVE  IF S = {} THEN Latest(S) = 0
           ELSE /\ Latest(S) \in S /\ Latest(S) \in DOMAIN h /\ Latest(S) # 0
                /\ \A j \in S : j <= Latest(S)
<1>1. DOMAIN h = 1..Len(h) /\ Len(h) \in Nat
  BY ChainFacts
<1>2. S # {} => Latest(S) = Max(S)
  BY DEF Latest
<1>3. S # {} => Max(S) \in S /\ \A j \in S : j <= Max(S)
  BY <1>1, LastOf
<1>4. S = {} => Latest(S) = 0
  BY DEF Latest
<1> QED BY <1>1, <1>2, <1>3, <1>4

LEMMA DecisionFacts ==
    ASSUME NEW h, Numbered(h), NEW unit, latestDecision(h, unit) # 0
    PROVE  LET d == latestDecision(h, unit) IN
           /\ d \in Of(h, "decision", unit) /\ d \in DOMAIN h
           /\ \A k \in Of(h, "decision", unit) : k <= d
<1>1. Of(h, "decision", unit) \subseteq DOMAIN h
  BY DEF Of
<1> QED BY <1>1, LatestIn DEF latestDecision

\* The record that stands for the implementation is in the chain, a direct
\* decision or a delegated implementation; nothing was decided or implemented
\* after it.
LEMMA ImplementationFacts ==
    ASSUME NEW h, Numbered(h), NEW L, HostInOrder(h, L),
           RequireImplementation(h, Unit) # 0
    PROVE  LET m == RequireImplementation(h, Unit) IN
           /\ m \in DOMAIN h
           /\ \A j \in DOMAIN h : j > m => ~Implements(h[j]) /\ h[j].kind # "decision"
<1> DEFINE d == latestDecision(h, Unit)
           I == {i \in Of(h, "dispatch", Unit) :
                    i > d /\ Implements(h[i]) /\ sameRoute(h[i], h[d])}
           m == RequireImplementation(h, Unit)
<1>1. d # 0 /\ m = IF h[d].mode = "DIRECT" THEN d ELSE Latest(I)
  BY DEF RequireImplementation
<1>2. /\ DOMAIN h = 1..Len(h) /\ Len(h) \in Nat
      /\ \A j \in DOMAIN h : RecordInOrder(h, j, L) /\ h[j].unit = Unit
  BY ChainFacts DEF HostInOrder, RecordInOrder
<1>3. /\ d \in DOMAIN h /\ h[d].kind = "decision"
      /\ \A k \in DOMAIN h : k > d => h[k].kind # "decision"
  <2>1. d \in Of(h, "decision", Unit) /\ \A k \in Of(h, "decision", Unit) : k <= d
    BY <1>1, DecisionFacts
  <2>2. \A k \in DOMAIN h : h[k].kind = "decision" => k \in Of(h, "decision", Unit)
    BY <1>2 DEF Of
  <2>3. \A k \in Of(h, "decision", Unit) : k \in DOMAIN h /\ h[k].kind = "decision"
    BY DEF Of
  <2> HIDE DEF d
  <2> QED BY <1>2, <2>1, <2>2, <2>3
<1>4. ASSUME NEW j \in DOMAIN h, j > d, Implements(h[j])
      PROVE  h[d].mode = "DELEGATE" /\ j \in I
  <2>1. PICK e \in 1..(j - 1) :
            /\ h[e].kind = "decision" /\ h[e].mode = "DELEGATE" /\ sameRoute(h[e], h[j])
            /\ \A k \in (e + 1)..(j - 1) : h[k].kind # "decision"
    BY <1>2, <1>4 DEF RecordInOrder, FollowsDecision
  <2> HIDE DEF d
  <2>2. e = d
    BY <1>2, <1>3, <1>4, <2>1
  <2>3. sameRoute(h[j], h[d])
    BY <2>1, <2>2 DEF sameRoute
  <2>4. j \in Of(h, "dispatch", Unit)
    BY <1>2, <1>4 DEF Of, Implements
  <2> QED BY <1>4, <2>1, <2>2, <2>3, <2>4
<1>5. I \subseteq DOMAIN h /\ \A i \in I : i > d
  BY DEF Of
<1>6. CASE h[d].mode = "DIRECT"
  <2>1. m = d
    BY <1>1, <1>6
  <2> HIDE DEF d, m, I
  <2> QED BY <2>1, <1>3, <1>4, <1>6 DEF m
<1>7. CASE h[d].mode # "DIRECT"
  <2>1. m = Latest(I)
    BY <1>1, <1>7
  <2> HIDE DEF d, m, I
  <2>2. m # 0
    BY DEF m
  <2>3. m \in I /\ m \in DOMAIN h /\ \A j \in I : j <= m
    BY <2>1, <2>2, <1>5, LatestIn
  <2>4. m > d
    BY <2>3, <1>5
  <2>5. ASSUME NEW j \in DOMAIN h, j > m
        PROVE  ~Implements(h[j]) /\ h[j].kind # "decision"
    <3>1. j > d /\ j \in Nat /\ m \in Nat
      BY <2>3, <2>4, <2>5, <1>2, <1>3
    <3> QED BY <3>1, <2>3, <2>5, <1>3, <1>4
  <2> QED BY <2>3, <2>5 DEF m
<1> QED BY <1>6, <1>7

\* A review that stands is of a reviewer chosen apart from everyone who
\* implemented, before or after.
LEMMA ReviewedApart ==
    ASSUME NEW h, Numbered(h), NEW L, HostInOrder(h, L),
           NEW i \in Of(h, "review", Unit),
           RequireImplementation(h, Unit) # 0,
           h[i].implementation = RequireImplementation(h, Unit)
    PROVE  LET d == h[i].dispatch IN
           /\ d \in DOMAIN h /\ d < i /\ Reviews(h[d])
           /\ \A j \in DOMAIN h : j > d => ~Implements(h[j]) /\ h[j].kind # "decision"
           /\ \A j \in DOMAIN h :
                 Contributes(h[j]) => Independent(h[d].seat, h[j].seat, Strong(h[d]))
<1> DEFINE d == h[i].dispatch
           m == RequireImplementation(h, Unit)
<1>1. /\ DOMAIN h = 1..Len(h) /\ Len(h) \in Nat
      /\ \A j \in DOMAIN h : RecordInOrder(h, j, L)
  BY ChainFacts DEF HostInOrder
<1>2. i \in DOMAIN h /\ h[i].kind = "review"
  BY DEF Of
<1>3. d \in 1..(i - 1) /\ Reviews(h[d]) /\ h[d].implementation = m
  BY <1>1, <1>2 DEF RecordInOrder, AnswersDispatch
<1>4. d \in DOMAIN h /\ d < i
  BY <1>1, <1>2, <1>3
<1>5. /\ m \in DOMAIN h
      /\ \A j \in DOMAIN h : j > m => ~Implements(h[j]) /\ h[j].kind # "decision"
  BY ImplementationFacts
<1>6. /\ m \in 1..(d - 1)
      /\ \A j \in 1..(d - 1) :
            Contributes(h[j]) => Independent(h[d].seat, h[j].seat, Strong(h[d]))
  <2>1. ReviewerChosen(h, d)
    BY <1>1, <1>4 DEF RecordInOrder
  <2> QED BY <2>1, <1>3 DEF ReviewerChosen
<1>7. \A j \in DOMAIN h : j > d => ~Implements(h[j]) /\ h[j].kind # "decision"
  <2> HIDE DEF d, m
  <2> QED BY <1>1, <1>4, <1>5, <1>6
<1>8. ASSUME NEW j \in DOMAIN h, Contributes(h[j])
      PROVE  Independent(h[d].seat, h[j].seat, Strong(h[d]))
  <2>1. j # d
    BY <1>3, <1>8 DEF Contributes, Reviews, Implements
  <2>2. ~ (j > d)
    BY <1>7, <1>8 DEF Contributes
  <2> HIDE DEF d, m
  <2>3. j \in 1..(d - 1)
    BY <1>1, <1>4, <2>1, <2>2
  <2> QED BY <2>3, <1>6, <1>8
<1> QED BY <1>3, <1>4, <1>7, <1>8

-----------------------------------------------------------------------------
(* What a gate lets through.                                               *)

\* What is known of a gated decision a on chains h and c and content t.
PassedGate(h, c, a, t) ==
    /\ a.from = CurrentStage(c)
    /\ ApprovalBindsHeadDiff(a.from) => a.head = t.head
    /\ ReviewEdge(a) => FindingsResolved(c, a.unit) /\ ReviewGate(h, c, a, t)
    /\ CheckpointEdge(a) /\ BoundContractDigest(c) # None => CheckpointGate(h, c, a, t)
    /\ ClaimsSuccess(a) => requireIndependentCredit(h, c, t)

\* A decision that binds the head is on the reviewed content.
LEMMA ReviewedIsTarget ==
    ASSUME NEW a, NEW t \in Targets, NEW v, ApprovalBindsHeadDiff(a.from),
           ApprovalBindsHeadDiff(a.from) => a.head = t.head, ReviewedTarget(v, a, t)
    PROVE  v.target = t
BY ReviewAssumption DEF ReviewedTarget

\* The review a unit leaves implementation review on.
LEMMA ReviewBehindExit ==
    ASSUME NEW h, Numbered(h), NEW L, HostInOrder(h, L), NEW c, NEW a,
           NEW t \in Targets, PassedGate(h, c, a, t), ReviewEdge(a)
    PROVE  \E i \in Approving(h) :
              /\ a.unit = Unit
              /\ RequireImplementation(h, Unit) # 0
              /\ h[i].implementation = RequireImplementation(h, Unit)
              /\ AnswersLatestReviewDispatch(h, h[i])
              /\ SnapshotApplied(c, h[i], i)
              /\ h[i].target = t
<1> DEFINE u == a.unit
           m == RequireImplementation(h, u)
           S == {j \in Of(h, "review", u) : h[j].implementation = m}
           i == Latest(S)
<1>1. ReviewGate(h, c, a, t)
  BY DEF PassedGate
<1>2. ApprovedReview(h, u) # 0
  BY <1>1 DEF ReviewGate
<1>3. /\ m # 0 /\ i # 0 /\ ApprovedReview(h, u) = i
      /\ AnswersLatestReviewDispatch(h, h[i]) /\ h[i].verdict = "APPROVE"
  BY <1>2 DEF ApprovedReview
<1>4. SnapshotApplied(c, h[i], i) /\ ReviewedTarget(h[i], a, t)
  BY <1>1, <1>3 DEF ReviewGate
<1>5. i \in S
  <2>1. S \subseteq DOMAIN h
    BY DEF Of
  <2> HIDE DEF S
  <2> QED BY <2>1, <1>3, LatestIn
<1>6. i \in DOMAIN h /\ h[i].kind = "review" /\ h[i].unit = u /\ h[i].implementation = m
  <2> HIDE DEF i, m
  <2> QED BY <1>5 DEF Of
<1>7. u = Unit
  <2> HIDE DEF i, m, u
  <2> QED BY <1>6 DEF HostInOrder, RecordInOrder
<1>8. i \in Approving(h)
  <2> HIDE DEF i, m, u, S
  <2> QED BY <1>3, <1>6, <1>7 DEF Approving, Of
<1>9. h[i].target = t
  <2>1. ApprovalBindsHeadDiff(a.from)
    BY DEF ReviewEdge, Edge, ApprovalBindsHeadDiff
  <2>2. a.head = t.head
    BY <2>1 DEF PassedGate
  <2> HIDE DEF i
  <2> QED BY <1>4, <2>1, <2>2, ReviewedIsTarget
<1> QED BY <1>3, <1>4, <1>6, <1>7, <1>8, <1>9

\* Its reviewer shares nothing with anyone who implemented.
LEMMA ExitIndependent ==
    ASSUME NEW h, Numbered(h), NEW L, HostInOrder(h, L), NEW c, NEW a,
           NEW t \in Targets, PassedGate(h, c, a, t), ReviewEdge(a)
    PROVE  \E i \in Approving(h) :
              LET s == h[h[i].dispatch].seat IN
              \A j \in DOMAIN h : Contributes(h[j]) =>
                  /\ h[j].seat.worker # s.worker
                  /\ h[j].seat.model # s.model
                  /\ h[j].seat.context # s.context
                  /\ h[h[i].dispatch].risk >= High => h[j].seat.family # s.family
<1>1. PICK i \in Approving(h) :
          /\ RequireImplementation(h, Unit) # 0
          /\ h[i].implementation = RequireImplementation(h, Unit)
  BY ReviewBehindExit
<1>2. i \in Of(h, "review", Unit)
  BY DEF Approving
<1>3. \A j \in DOMAIN h : Contributes(h[j]) =>
          Independent(h[h[i].dispatch].seat, h[j].seat, Strong(h[h[i].dispatch]))
  BY <1>1, <1>2, ReviewedApart
<1> DEFINE d == h[h[i].dispatch]
<1>4. d.risk >= High => Strong(d)
  BY DEF Strong
<1>5. ASSUME NEW j \in DOMAIN h, Contributes(h[j])
      PROVE  /\ h[j].seat.worker # d.seat.worker
             /\ h[j].seat.model # d.seat.model
             /\ h[j].seat.context # d.seat.context
             /\ d.risk >= High => h[j].seat.family # d.seat.family
  <2>1. Independent(d.seat, h[j].seat, Strong(d))
    BY <1>3, <1>5
  <2> HIDE DEF d
  <2> QED BY <1>4, <2>1 DEF Independent
<1> QED BY <1>5

\* An approval of t behind which nothing was implemented, asked for or recorded.
FreshExit(h, L, c, t) ==
    \E i \in Approving(h) :
       LET d == h[i].dispatch IN
       /\ h[i].target = t
       /\ \A j \in (d + 1)..Len(h) : ~Implements(h[j]) /\ h[j].kind # "decision"
       /\ HasPacket(h[d]) => \A j \in (d + 1)..Len(h) : ~Reviews(h[j])
       /\ \A j \in (h[i].core + 1)..Len(c) : c[j].snapshot /\ c[j].source = i
       /\ HasPacket(h[d]) =>
             /\ h[d].core = h[i].core /\ h[i].core < Len(c)
             /\ \E l \in L :
                   /\ l.run = h[i].receipt /\ l.target = t
                   /\ h[d].at <= l.started /\ l.started < h[d].packet.until

\* It is of what the repository holds, nothing of account came since, and its
\* launch was for it.
LEMMA ExitFresh ==
    ASSUME NEW h, Numbered(h), NEW L, HostInOrder(h, L), NEW c, Numbered(c), NEW a,
           NEW t \in Targets, PassedGate(h, c, a, t), ReviewEdge(a)
    PROVE  FreshExit(h, L, c, t)
<1> SUFFICES \E i \in Approving(h) :
                LET d == h[i].dispatch IN
                /\ h[i].target = t
                /\ \A j \in (d + 1)..Len(h) : ~Implements(h[j]) /\ h[j].kind # "decision"
                /\ HasPacket(h[d]) => \A j \in (d + 1)..Len(h) : ~Reviews(h[j])
                /\ \A j \in (h[i].core + 1)..Len(c) : c[j].snapshot /\ c[j].source = i
                /\ HasPacket(h[d]) =>
                      /\ h[d].core = h[i].core /\ h[i].core < Len(c)
                      /\ \E l \in L :
                            /\ l.run = h[i].receipt /\ l.target = t
                            /\ h[d].at <= l.started /\ l.started < h[d].packet.until
  BY DEF FreshExit
<1>1. PICK i \in Approving(h) :
          /\ RequireImplementation(h, Unit) # 0
          /\ h[i].implementation = RequireImplementation(h, Unit)
          /\ AnswersLatestReviewDispatch(h, h[i])
          /\ SnapshotApplied(c, h[i], i)
          /\ h[i].target = t
  BY ReviewBehindExit
<1> DEFINE d == h[i].dispatch
<1>2. i \in Of(h, "review", Unit) /\ i \in DOMAIN h /\ h[i].kind = "review"
  BY DEF Approving, Of
<1>3. /\ DOMAIN h = 1..Len(h) /\ Len(h) \in Nat
      /\ \A j \in DOMAIN h : RecordInOrder(h, j, L)
  BY ChainFacts DEF HostInOrder
<1>4. /\ d \in DOMAIN h /\ d < i /\ Reviews(h[d])
      /\ \A j \in DOMAIN h : j > d => ~Implements(h[j]) /\ h[j].kind # "decision"
  BY <1>1, <1>2, ReviewedApart
<1>5. \A j \in (d + 1)..Len(h) : ~Implements(h[j]) /\ h[j].kind # "decision"
  <2> HIDE DEF d
  <2> QED BY <1>3, <1>4
<1>6. ASSUME HasPacket(h[d]) PROVE \A j \in (d + 1)..Len(h) : ~Reviews(h[j])
  <2> DEFINE S == {j \in Of(h, "dispatch", Unit) : Reviews(h[j])}
  <2>1. h[i].unit = Unit /\ packetMode(h)
    BY <1>2, <1>3, <1>4, <1>6 DEF RecordInOrder, packetMode
  <2>2. Latest(S) = d
    BY <1>1, <2>1 DEF AnswersLatestReviewDispatch, latestReviewDispatch
  <2>3. \A j \in DOMAIN h : Reviews(h[j]) => j \in S
    BY <1>3 DEF RecordInOrder, Of, Reviews
  <2>4. S \subseteq DOMAIN h
    BY DEF Of
  <2> HIDE DEF S, d
  <2>5. \A j \in S : j <= d
    BY <2>2, <2>4, LatestIn
  <2> QED BY <1>3, <1>4, <2>3, <2>5
<1>7. \A j \in (h[i].core + 1)..Len(c) : c[j].snapshot /\ c[j].source = i
  BY <1>1 DEF SnapshotApplied, requireOnlyOwnSnapshotsSince, ImportedFrom
<1>8. ASSUME HasPacket(h[d])
      PROVE  /\ h[d].core = h[i].core /\ h[i].core < Len(c)
             /\ \E l \in L :
                   /\ l.run = h[i].receipt /\ l.target = t
                   /\ h[d].at <= l.started /\ l.started < h[d].packet.until
  <2>1. RecordInOrder(h, i, L)
    BY <1>2, <1>3
  <2>2. h[i].receipt # None
    BY <2>1, <1>2, <1>8 DEF RecordInOrder, AnswersDispatch, HasPacket
  <2>3. h[i].core < Len(c)
    BY <2>2, <1>1 DEF SnapshotApplied
  <2> QED BY <2>1, <2>2, <2>3, <1>1, <1>2 DEF RecordInOrder, AnswersLaunch
<1> QED BY <1>1, <1>5, <1>6, <1>7, <1>8

\* What HMA measured on it, the run's findings hold, and it does not block.
LEMMA ExitMeasured ==
    ASSUME NEW h, Numbered(h), NEW L, HostInOrder(h, L), NEW c, Numbered(c),
           NEW H, \A k \in DOMAIN h : H[k] = h[k] /\ h[k].core \in Nat,
           CoreInOrder(c, H), NEW a,
           NEW t \in Targets, PassedGate(h, c, a, t), ReviewEdge(a), packetMode(h)
    PROVE  \A n \in DOMAIN Established[t] : Established[t][n] # "BLOCK"
<1>1. PICK i \in Approving(h) :
          /\ a.unit = Unit
          /\ AnswersLatestReviewDispatch(h, h[i])
          /\ SnapshotApplied(c, h[i], i)
          /\ h[i].target = t
  BY ReviewBehindExit
<1> DEFINE d == h[i].dispatch
           S == {j \in Of(h, "dispatch", Unit) : Reviews(h[j])}
           last == c[Len(c)]
           I == {k \in 1..Len(c) : SetsFindings(c[k])}
<1>2. i \in DOMAIN h /\ h[i].kind = "review" /\ h[i].unit = Unit /\ h[i].verdict = "APPROVE"
  BY DEF Approving, Of
<1>3. /\ DOMAIN h = 1..Len(h) /\ Len(h) \in Nat
      /\ \A j \in DOMAIN h : RecordInOrder(h, j, L)
      /\ DOMAIN c = 1..Len(c) /\ Len(c) \in Nat
  BY ChainFacts DEF HostInOrder
<1>4. d \in 1..(i - 1) /\ d \in DOMAIN h /\ Reviews(h[d])
  BY <1>2, <1>3 DEF RecordInOrder, AnswersDispatch
<1>5. \A j \in DOMAIN h : Reviews(h[j]) => j <= d
  <2>1. Latest(S) = d
    BY <1>1, <1>2 DEF AnswersLatestReviewDispatch, latestReviewDispatch
  <2>2. \A j \in DOMAIN h : Reviews(h[j]) => j \in S
    BY <1>3 DEF RecordInOrder, Of, Reviews
  <2>3. S \subseteq DOMAIN h
    BY DEF Of
  <2> HIDE DEF S, d
  <2>4. \A j \in S : j <= d
    BY <2>1, <2>3, LatestIn
  <2> QED BY <2>2, <2>4
<1>6. h[d].packet # None
  <2>1. PICK p \in DOMAIN h : HasPacket(h[p])
    BY DEF packetMode
  <2>2. p <= d
    BY <2>1, <1>5 DEF HasPacket
  <2>3. ReviewerChosen(h, d)
    BY <1>3, <1>4 DEF RecordInOrder
  <2>4. p = d \/ p \in 1..(d - 1)
    <3> HIDE DEF d
    <3> QED BY <1>3, <1>4, <2>2
  <2>5. CASE p = d
    BY <2>1, <2>5 DEF HasPacket
  <2>6. CASE p \in 1..(d - 1)
    BY <1>4, <2>1, <2>3, <2>6 DEF ReviewerChosen
  <2> QED BY <2>4, <2>5, <2>6
<1>7. Len(c) >= 1 /\ last.snapshot /\ last.source = i
  <2>1. h[i].receipt # None
    BY <1>2, <1>3, <1>6 DEF RecordInOrder, AnswersDispatch
  <2>2. h[i].core < Len(c) /\ \A j \in (h[i].core + 1)..Len(c) : ImportedFrom(c[j], i)
    BY <2>1, <1>1 DEF SnapshotApplied, requireOnlyOwnSnapshotsSince
  <2>3. h[i].core \in Nat
    BY <1>2
  <2>4. Len(c) \in (h[i].core + 1)..Len(c) /\ Len(c) >= 1
    BY <2>2, <2>3, <1>3
  <2> QED BY <2>2, <2>4 DEF ImportedFrom
<1>8. Findings(c) = [id \in DOMAIN last.findings |-> last.findings[id]]
  <2>1. Len(c) \in I
    BY <1>3, <1>7 DEF SetsFindings
  <2>2. \A k \in I : k \in Nat /\ k <= Len(c)
    BY <1>3
  <2>3. Max(I) = Len(c)
    <3>1. I # {} /\ I \subseteq 1..Len(c)
      BY <2>1
    <3> HIDE DEF I
    <3>2. Max(I) \in I /\ \A j \in I : j <= Max(I)
      BY <3>1, LastOf
    <3> QED BY <3>2, <2>1, <2>2, <1>3
  <2>4. SelectLastInSeq(c, SetsFindings) = Len(c)
    BY <2>1, <2>3 DEF SelectLastInSeq
  <2>5. Findings(c) = FindingsSince(c, Len(c))
    BY <2>4, <1>7, <1>3 DEF Findings
  <2>6. ASSUME NEW id
        PROVE  ~ (SelectLastInSeq(c, LAMBDA r : Overrides(r, id)) > Len(c))
    <3> DEFINE J == {k \in 1..Len(c) : Overrides(c[k], id)}
    <3>1. SelectLastInSeq(c, LAMBDA r : Overrides(r, id)) = IF J # {} THEN Max(J) ELSE 0
      BY DEF SelectLastInSeq
    <3>2. J # {} => Max(J) \in J
      <4>1. J \subseteq 1..Len(c)
        OBVIOUS
      <4> HIDE DEF J
      <4> QED BY <4>1, LastOf
    <3>3. \A k \in J : k \in 1..Len(c)
      OBVIOUS
    <3> HIDE DEF J
    <3> QED BY <3>1, <3>2, <3>3, <1>3
  <2> DEFINE latest(id) == SelectLastInSeq(c, LAMBDA r : Overrides(r, id))
  <2>7. FindingsSince(c, Len(c)) =
            [id \in DOMAIN last.findings |->
                IF latest(id) > Len(c)
                THEN [last.findings[id] EXCEPT !.disp = c[latest(id)].resolution.disp]
                ELSE last.findings[id]]
    BY DEF FindingsSince
  <2>8. \A id : ~ (latest(id) > Len(c))
    BY <2>6
  <2> HIDE DEF latest, last
  <2>9. FindingsSince(c, Len(c)) = [id \in DOMAIN last.findings |-> last.findings[id]]
    BY <2>7, <2>8
  <2> QED BY <2>5, <2>9
<1>9. ASSUME NEW n \in DOMAIN Established[t]
      PROVE  Established[t][n] # "BLOCK"
  <2> DEFINE id == FindingID(Unit, n)
  <2>1. HoldsEstablished(last, H) /\ H[i] = h[i]
    BY <1>2, <1>3, <1>7 DEF CoreInOrder, CoreRecordInOrder
  <2>2. /\ id \in DOMAIN last.findings
        /\ last.findings[id] = [disp |-> Established[t][n], unit |-> Unit]
    BY <2>1, <1>1, <1>2, <1>7, <1>9 DEF HoldsEstablished
  <2>3. FindingsResolved(c, Unit)
    BY <1>1 DEF PassedGate
  <2> HIDE DEF id, last
  <2>4. /\ id \in DOMAIN Findings(c)
        /\ Findings(c)[id] = [disp |-> Established[t][n], unit |-> Unit]
    BY <2>2, <1>8
  <2>5. Findings(c)[id].unit = Unit /\ Findings(c)[id].disp = Established[t][n]
    BY <2>4
  <2>6. Findings(c)[id].disp \in {"ADVISORY", "WAIVABLE"}
    BY <2>3, <2>4, <2>5 DEF FindingsResolved
  <2> QED BY <2>5, <2>6
<1> QED BY <1>9

-----------------------------------------------------------------------------
(* What the classifier says.                                               *)

LEMMA TriggersFired ==
    ASSUME NEW in
    PROVE  /\ "CONTRACT_OR_PERMISSION" \in Triggers(in) <=> in.current # in.baseline
           /\ "INTERFACE" \in Triggers(in) <=> Touches(in, InterfaceClasses)
           /\ "EXTERNAL_EFFECT" \in Triggers(in) <=>
                 Touches(in, EffectClasses) \/ "no_external_effect" \notin in.current.perms
           /\ "CONTROL_LOGIC" \in Triggers(in) <=> Touches(in, ControlClasses)
           /\ "MILESTONE" \in Triggers(in) <=>
                 in.milestone /\ in.stage = "INDEPENDENT_VALIDATION"
           /\ "FINAL_CLOSURE" \in Triggers(in) <=> FinalClosure(in)
           /\ "UNCLASSIFIED" \in Triggers(in) <=> {} \in in.manifest
           /\ "HIGH_RISK" \in Triggers(in) <=> CombinedRisk(in) >= High
           /\ Triggers(in) \subseteq
                 {"CONTRACT_OR_PERMISSION", "INTERFACE", "EXTERNAL_EFFECT", "CONTROL_LOGIC",
                  "MILESTONE", "FINAL_CLOSURE", "UNCLASSIFIED", "HIGH_RISK"}
<1>1. "CONTRACT_OR_PERMISSION" \in Triggers(in) <=> in.current # in.baseline
  BY DEF Triggers
<1>2. "INTERFACE" \in Triggers(in) <=> Touches(in, InterfaceClasses)
  BY DEF Triggers
<1>3. "EXTERNAL_EFFECT" \in Triggers(in) <=>
          Touches(in, EffectClasses) \/ "no_external_effect" \notin in.current.perms
  BY DEF Triggers
<1>4. "CONTROL_LOGIC" \in Triggers(in) <=> Touches(in, ControlClasses)
  BY DEF Triggers
<1>5. "MILESTONE" \in Triggers(in) <=>
          in.milestone /\ in.stage = "INDEPENDENT_VALIDATION"
  BY DEF Triggers
<1>6. "FINAL_CLOSURE" \in Triggers(in) <=> FinalClosure(in)
  BY DEF Triggers
<1>7. "UNCLASSIFIED" \in Triggers(in) <=> {} \in in.manifest
  BY DEF Triggers
<1>8. "HIGH_RISK" \in Triggers(in) <=> CombinedRisk(in) >= High
  BY DEF Triggers
<1>9. Triggers(in) \subseteq
          {"CONTRACT_OR_PERMISSION", "INTERFACE", "EXTERNAL_EFFECT", "CONTROL_LOGIC",
           "MILESTONE", "FINAL_CLOSURE", "UNCLASSIFIED", "HIGH_RISK"}
  BY DEF Triggers
<1> QED BY <1>1, <1>2, <1>3, <1>4, <1>5, <1>6, <1>7, <1>8, <1>9

\* The greater of two risks.
LEMMA GreaterRisk ==
    ASSUME NEW m \in Nat, NEW n \in Nat
    PROVE  maxRouteRisk({m, n}) \in Nat /\ maxRouteRisk({m, n}) >= m /\ maxRouteRisk({m, n}) >= n
<1>1. \E x \in {m, n} : \A y \in {m, n} : x >= y
  <2>1. CASE m >= n
    BY <2>1
  <2>2. CASE ~ (m >= n)
    BY <2>2
  <2> QED BY <2>1, <2>2
<1>2. Max({m, n}) \in {m, n} /\ \A y \in {m, n} : Max({m, n}) >= y
  BY <1>1 DEF Max
<1> QED BY <1>2 DEF maxRouteRisk

LEMMA FloorIsRisk ==
    ASSUME NEW in
    PROVE  /\ RiskFloor(in) \in Nat
           /\ Touches(in, InterfaceClasses \cup EffectClasses \cup ControlClasses)
                 => RiskFloor(in) = High
BY DEF RiskFloor, High

\* A change to an interface, an effect or a control, or one without a class,
\* fires a trigger; the first raises the risk.
LEMMA TouchedFires ==
    ASSUME NEW in, in.manifest \subseteq SUBSET PolicyClasses,
           (UNION in.manifest) \ {"ordinary"} # {} \/ {} \in in.manifest
    PROVE  /\ Triggers(in) # {}
           /\ (UNION in.manifest) \ {"ordinary"} # {} => RiskFloor(in) = High
<1>1. {} \in in.manifest => Triggers(in) # {}
  BY TriggersFired
<1>2. ASSUME (UNION in.manifest) \ {"ordinary"} # {}
      PROVE  Triggers(in) # {} /\ RiskFloor(in) = High
  <2>0. PICK p \in in.manifest : \E x \in p : x # "ordinary"
    BY <1>2
  <2>1. PICK x \in p : x # "ordinary"
    BY <2>0
  <2>2. x \in InterfaceClasses \/ x \in EffectClasses \/ x \in ControlClasses
    BY <2>1 DEF PolicyClasses
  <2>3. Touches(in, InterfaceClasses) \/ Touches(in, EffectClasses) \/ Touches(in, ControlClasses)
    BY <2>1, <2>2 DEF Touches
  <2>4. Touches(in, InterfaceClasses \cup EffectClasses \cup ControlClasses)
    BY <2>1, <2>2 DEF Touches
  <2> QED BY <2>3, <2>4, TriggersFired, FloorIsRisk
<1> QED BY <1>1, <1>2

\* The contract a chain in order is bound to is one there is.
LEMMA BoundContract ==
    ASSUME NEW c, Numbered(c), NEW H, CoreInOrder(c, H), BoundContractDigest(c) # None
    PROVE  BoundContractDigest(c) \in Contracts
<1> DEFINE I == {k \in 1..Len(c) : AcceptsContract(c[k])}
<1>1. SelectLastInSeq(c, AcceptsContract) = IF I # {} THEN Max(I) ELSE 0
  BY DEF SelectLastInSeq
<1>2. Len(c) \in Nat /\ DOMAIN c = 1..Len(c)
  BY ChainFacts
<1>3. I # {} => Max(I) \in I
  <2>1. I \subseteq 1..Len(c)
    OBVIOUS
  <2> HIDE DEF I
  <2> QED BY <2>1, LastOf
<1>4. \A k \in I : /\ k # 0
                   /\ c[k].approval.contract \in Contracts \cup {None}
  BY <1>2 DEF CoreInOrder, CoreRecordInOrder
<1> HIDE DEF I
<1> QED BY <1>1, <1>3, <1>4 DEF BoundContractDigest

\* What does not move the run leaves it in its stage.
LEMMA StageKept ==
    ASSUME NEW c, Numbered(c), NEW n \in 0..Len(c),
           \A j \in (n + 1)..Len(c) : ~ApprovedMove(c[j])
    PROVE  CurrentStage(SubSeq(c, 1, n)) = CurrentStage(c)
<1> DEFINE b == SubSeq(c, 1, n)
           I == {k \in 1..Len(c) : ApprovedMove(c[k])}
           J == {k \in 1..Len(b) : ApprovedMove(b[k])}
<1>1. /\ Len(c) \in Nat /\ n \in Nat /\ n <= Len(c)
      /\ Len(b) = n /\ \A k \in 1..n : b[k] = c[k]
  BY ChainFacts, PrefixFacts
<1>2. I = J
  <2>1. \A k \in I : k \in 1..n
    BY <1>1
  <2> HIDE DEF b
  <2> QED BY <1>1, <2>1
<1>3. /\ SelectLastInSeq(c, ApprovedMove) = IF I # {} THEN Max(I) ELSE 0
      /\ SelectLastInSeq(b, ApprovedMove) = IF J # {} THEN Max(J) ELSE 0
  BY DEF SelectLastInSeq
<1>4. SelectLastInSeq(c, ApprovedMove) = SelectLastInSeq(b, ApprovedMove)
  <2> HIDE DEF b, I, J
  <2> QED BY <1>2, <1>3
<1>5. J # {} => Max(J) \in 1..n
  <2>1. J \subseteq 1..Len(b) /\ Numbered(b)
    BY PrefixFacts
  <2> HIDE DEF J, b
  <2> QED BY <1>1, <2>1, LastOf
<1> HIDE DEF b, I, J
<1> QED BY <1>1, <1>3, <1>4, <1>5 DEF CurrentStage, b

\* An isolated approval of t, asked for at the level its classes call for.
Checkpointed(h, c, t) ==
    \E i \in Approving(h) :
       LET d == h[h[i].dispatch] IN
       /\ h[i].isolation = "isolated" /\ h[i].target = t
       /\ d.packet # None /\ d.packet.contract = BoundContractDigest(c)
       /\ d.risk >= RiskOf[BoundContractDigest(c)]
       /\ (UNION ClassesAt[t]) \ {"ordinary"} # {} => d.risk >= High
       /\ CurrentStage(SubSeq(c, 1, d.core)) = "INDEPENDENT_VALIDATION"
       /\ \A j \in (d.core + 1)..Len(c) : ~ApprovedMove(c[j])

\* A checkpoint a unit of a contracted run passes with a change that matters
\* was reviewed as such.
LEMMA CheckpointReviewed ==
    ASSUME NEW h, Numbered(h), NEW L, HostInOrder(h, L), NEW c, Numbered(c),
           NEW H, \A k \in DOMAIN h : H[k] = h[k] /\ h[k].core \in 1..Len(c),
           CoreInOrder(c, H), NEW a, NEW t \in Targets, PassedGate(h, c, a, t),
           CheckpointEdge(a), BoundContractDigest(c) # None,
           (UNION ClassesAt[t]) \ {"ordinary"} # {} \/ {} \in ClassesAt[t]
    PROVE  Checkpointed(h, c, t)
<1> SUFFICES \E i \in Approving(h) :
                LET d == h[h[i].dispatch] IN
                /\ h[i].isolation = "isolated" /\ h[i].target = t
                /\ d.packet # None /\ d.packet.contract = BoundContractDigest(c)
                /\ d.risk >= RiskOf[BoundContractDigest(c)]
                /\ (UNION ClassesAt[t]) \ {"ordinary"} # {} => d.risk >= High
                /\ CurrentStage(SubSeq(c, 1, d.core)) = "INDEPENDENT_VALIDATION"
                /\ \A j \in (d.core + 1)..Len(c) : ~ApprovedMove(c[j])
  BY DEF Checkpointed
<1> DEFINE u == a.unit
           in == CheckpointInput(h, c, u, t, "INDEPENDENT_VALIDATION", 0, FALSE)
           i == Latest(Of(h, "review", u))
           d == h[h[i].dispatch]
           k == BoundContractDigest(c)
<1>1. CheckpointGate(h, c, a, t)
  BY DEF PassedGate
<1>2. in.manifest = ClassesAt[t] /\ in.risk = RiskOf[k]
  BY DEF CheckpointInput
<1>3. in.manifest \subseteq SUBSET PolicyClasses /\ in.risk \in Nat
  <2>1. k \in Contracts
    BY BoundContract
  <2> HIDE DEF in, k
  <2> QED BY <1>2, <2>1, ReviewAssumption
<1>4. /\ Triggers(in) # {}
      /\ (UNION ClassesAt[t]) \ {"ordinary"} # {} => RiskFloor(in) = High
  <2> HIDE DEF in
  <2> QED BY <1>2, <1>3, TouchedFires
<1>5. /\ ClassifyCheckpoint(in).triggers = Triggers(in)
      /\ ClassifyCheckpoint(in).required = maxRouteRisk({in.risk, RiskFloor(in)})
  <2> HIDE DEF in
  <2> QED BY DEF ClassifyCheckpoint
<1>6. /\ i # 0
      /\ CheckpointGrade(h, c, u, i)
      /\ SnapshotApplied(c, h[i], i)
      /\ d.packet.contract = k
      /\ d.risk >= maxRouteRisk({in.risk, RiskFloor(in)})
      /\ ReviewedTarget(h[i], a, t)
  <2>1. ClassifyCheckpoint(in).triggers # {}
    BY <1>4, <1>5
  <2> QED BY <1>1, <1>5, <2>1 DEF CheckpointGate
<1>7. i \in DOMAIN h /\ h[i].kind = "review" /\ h[i].unit = u
  <2>1. Of(h, "review", u) \subseteq DOMAIN h
    BY DEF Of
  <2>2. i \in Of(h, "review", u)
    BY <1>6, <2>1, LatestIn
  <2> HIDE DEF i
  <2> QED BY <2>2 DEF Of
<1>8. /\ DOMAIN h = 1..Len(h) /\ Len(h) \in Nat
      /\ \A j \in DOMAIN h : RecordInOrder(h, j, L)
      /\ DOMAIN c = 1..Len(c) /\ Len(c) \in Nat
  BY ChainFacts DEF HostInOrder
<1>9. h[i].isolation = "isolated" /\ h[i].verdict = "APPROVE" /\ d.packet # None
  BY <1>6 DEF CheckpointGrade
<1>10. i \in Approving(h)
  <2> HIDE DEF i, u
  <2> QED BY <1>7, <1>8, <1>9 DEF Approving, Of, RecordInOrder
<1>11. h[i].target = t
  <2>1. ApprovalBindsHeadDiff(a.from) /\ a.head = t.head
    BY DEF CheckpointEdge, Edge, ApprovalBindsHeadDiff, PassedGate
  <2> HIDE DEF i
  <2> QED BY <1>6, <2>1, ReviewedIsTarget
<1>12. /\ h[i].dispatch \in 1..(i - 1) /\ Reviews(d)
       /\ d.core = h[i].core /\ d.risk \in Nat /\ d.core \in 1..Len(c)
  <2>1. RecordInOrder(h, i, L) /\ h[i].dispatch \in 1..(i - 1)
    BY <1>7, <1>8 DEF RecordInOrder, AnswersDispatch
  <2>2. h[i].dispatch \in DOMAIN h
    <3> HIDE DEF i
    <3> QED BY <1>7, <1>8, <2>1
  <2>3. Reviews(d) /\ h[i].receipt # None
    BY <1>7, <1>9, <2>1 DEF RecordInOrder, AnswersDispatch
  <2>4. d.core = h[i].core
    BY <1>7, <2>1, <2>3 DEF RecordInOrder, AnswersLaunch
  <2>5. d.risk \in Nat /\ d.core \in 1..Len(c)
    BY <1>8, <2>2, <2>3 DEF RecordInOrder
  <2> QED BY <2>1, <2>3, <2>4, <2>5
<1>13. /\ d.risk >= RiskOf[k]
       /\ (UNION ClassesAt[t]) \ {"ordinary"} # {} => d.risk >= High
  <2>1. RiskFloor(in) \in Nat
    BY FloorIsRisk
  <2>2. /\ maxRouteRisk({in.risk, RiskFloor(in)}) \in Nat
        /\ maxRouteRisk({in.risk, RiskFloor(in)}) >= in.risk
        /\ maxRouteRisk({in.risk, RiskFloor(in)}) >= RiskFloor(in)
    <3> HIDE DEF in
    <3> QED BY <1>3, <2>1, GreaterRisk
  <2> DEFINE m == maxRouteRisk({in.risk, RiskFloor(in)})
             r == d.risk
             s == RiskOf[k]
             f == RiskFloor(in)
  <2>3. m \in Nat /\ r \in Nat /\ s \in Nat /\ f \in Nat /\ r >= m /\ m >= s /\ m >= f
    BY <1>2, <1>3, <1>6, <1>12, <2>1, <2>2
  <2>4. (UNION ClassesAt[t]) \ {"ordinary"} # {} => f = High
    BY <1>4
  <2> HIDE DEF m, r, s, f, in, d, k
  <2>5. r >= s /\ ((UNION ClassesAt[t]) \ {"ordinary"} # {} => r >= High)
    BY <2>3, <2>4 DEF High
  <2> QED BY <2>5 DEF r, s
<1>14. \A j \in (d.core + 1)..Len(c) : ~ApprovedMove(c[j])
  <2>1. \A j \in (d.core + 1)..Len(c) : c[j].snapshot
    BY <1>6, <1>12 DEF SnapshotApplied, requireOnlyOwnSnapshotsSince, ImportedFrom
  <2>2. \A j \in DOMAIN c : c[j].snapshot => c[j].kind = "finding"
    BY DEF CoreInOrder, CoreRecordInOrder, HoldsEstablished
  <2>3. \A j \in (d.core + 1)..Len(c) : j \in DOMAIN c
    <3> HIDE DEF d
    <3> QED BY <1>8, <1>12
  <2> HIDE DEF d
  <2> QED BY <2>1, <2>2, <2>3 DEF ApprovedMove
<1>15. CurrentStage(SubSeq(c, 1, d.core)) = "INDEPENDENT_VALIDATION"
  <2>1. CurrentStage(c) = "INDEPENDENT_VALIDATION"
    BY DEF PassedGate, CheckpointEdge, Edge
  <2>2. d.core \in 0..Len(c)
    <3> HIDE DEF d
    <3> QED BY <1>8, <1>12
  <2> HIDE DEF d
  <2> QED BY <1>14, <2>1, <2>2, StageKept
<1> HIDE DEF i
<1> QED BY <1>6, <1>9, <1>10, <1>11, <1>13, <1>14, <1>15

\* Once what a unit is bound to is what its last checkpoint covered, less is
\* called for than before.
LEMMA CoveredCallsForLess ==
    ASSUME NEW in, NEW out, in.current = out.current, out.baseline = out.current,
           in.risk = out.risk, in.manifest = out.manifest, in.milestone = out.milestone,
           in.stage = out.stage, in.outcome = out.outcome, in.hostRisk = out.hostRisk,
           in.disputed = out.disputed
    PROVE  /\ ClassifyCheckpoint(out).triggers \subseteq ClassifyCheckpoint(in).triggers
           /\ ClassifyCheckpoint(out).level <= ClassifyCheckpoint(in).level
           /\ ClassifyCheckpoint(out).level \in Nat /\ ClassifyCheckpoint(in).level \in Nat
           /\ ClassifyCheckpoint(out).required = ClassifyCheckpoint(in).required
           /\ ClassifyCheckpoint(out).family = ClassifyCheckpoint(in).family
<1>1. /\ \A S : Touches(out, S) <=> Touches(in, S)
      /\ FinalClosure(out) <=> FinalClosure(in)
  BY DEF Touches, FinalClosure
<1>2. RiskFloor(out) = RiskFloor(in)
  BY <1>1 DEF RiskFloor
<1>3. CombinedRisk(out) = CombinedRisk(in)
  BY <1>2 DEF CombinedRisk
<1>4. Triggers(out) \subseteq Triggers(in)
  <2> SUFFICES ASSUME NEW x \in Triggers(out) PROVE x \in Triggers(in)
    OBVIOUS
  <2>1. /\ "CONTRACT_OR_PERMISSION" \notin Triggers(out)
        /\ "INTERFACE" \in Triggers(out) => "INTERFACE" \in Triggers(in)
        /\ "CONTROL_LOGIC" \in Triggers(out) => "CONTROL_LOGIC" \in Triggers(in)
        /\ "MILESTONE" \in Triggers(out) => "MILESTONE" \in Triggers(in)
    BY <1>1, TriggersFired
  <2>2. /\ "EXTERNAL_EFFECT" \in Triggers(out) => "EXTERNAL_EFFECT" \in Triggers(in)
        /\ "FINAL_CLOSURE" \in Triggers(out) => "FINAL_CLOSURE" \in Triggers(in)
    BY <1>1, TriggersFired
  <2>3. /\ "UNCLASSIFIED" \in Triggers(out) => "UNCLASSIFIED" \in Triggers(in)
        /\ "HIGH_RISK" \in Triggers(out) => "HIGH_RISK" \in Triggers(in)
    BY <1>3, TriggersFired
  <2>4. x \in {"CONTRACT_OR_PERMISSION", "INTERFACE", "EXTERNAL_EFFECT", "CONTROL_LOGIC",
               "MILESTONE", "FINAL_CLOSURE", "UNCLASSIFIED", "HIGH_RISK"}
    BY TriggersFired
  <2> QED BY <2>1, <2>2, <2>3, <2>4
<1>5. /\ IssuingLevel(out) <= IssuingLevel(in)
      /\ IssuingLevel(out) \in Nat /\ IssuingLevel(in) \in Nat
  BY <1>1, <1>4 DEF IssuingLevel
<1>6. /\ ClassifyCheckpoint(in).triggers = Triggers(in)
      /\ ClassifyCheckpoint(out).triggers = Triggers(out)
      /\ ClassifyCheckpoint(in).level = IssuingLevel(in)
      /\ ClassifyCheckpoint(out).level = IssuingLevel(out)
  BY DEF ClassifyCheckpoint
<1>7. /\ ClassifyCheckpoint(in).required = maxRouteRisk({in.risk, RiskFloor(in)})
      /\ ClassifyCheckpoint(out).required = maxRouteRisk({out.risk, RiskFloor(out)})
  BY DEF ClassifyCheckpoint
<1>8. ClassifyCheckpoint(out).family = ClassifyCheckpoint(in).family
  BY <1>1, <1>3 DEF ClassifyCheckpoint
<1> QED BY <1>2, <1>4, <1>5, <1>6, <1>7, <1>8

\* The reviews a checkpoint's baseline is taken from.
Grades(h) ==
    {j \in Of(h, "review", Unit) :
        /\ h[j].verdict = "APPROVE"
        /\ HasPacket(h[h[j].dispatch])
        /\ h[h[j].dispatch].packet.contract # None
        /\ h[h[j].dispatch].packet.reason >= 2}

\* One more host record leaves the baseline as it is, or makes it what the
\* unit is bound to now.
LEMMA BaselineMoves ==
    ASSUME NEW h, Numbered(h), NEW L, HostInOrder(h, L), NEW c, Numbered(c),
           PacketsSuffice(h, c), NEW r,
           NEW g, g = h \o <<r>>, RecordInOrder(g, Len(h) + 1, L),
           r.kind = "review" /\ r.receipt # None => r.core = Len(c)
    PROVE  \/ checkpointReviewBaseline(g, c, Unit) = checkpointReviewBaseline(h, c, Unit)
           \/ checkpointReviewBaseline(g, c, Unit) = CurrentCovers(c, Unit)
<1> DEFINE n == Len(h) + 1
<1>1. /\ DOMAIN h = 1..Len(h) /\ Len(h) \in Nat /\ DOMAIN g = 1..n
      /\ g[n] = r /\ \A k \in 1..Len(h) : g[k] = h[k]
  BY GrowsByOne, GrowsFacts
<1>2. /\ checkpointReviewBaseline(h, c, Unit) =
            IF Latest(Grades(h)) # 0 THEN h[h[Latest(Grades(h))].dispatch].packet.covers
            ELSE [contract |-> firstContractAcceptance(c),
                  perms |-> firstLeasePermissionClasses(c, Unit)]
      /\ checkpointReviewBaseline(g, c, Unit) =
            IF Latest(Grades(g)) # 0 THEN g[g[Latest(Grades(g))].dispatch].packet.covers
            ELSE [contract |-> firstContractAcceptance(c),
                  perms |-> firstLeasePermissionClasses(c, Unit)]
  BY DEF checkpointReviewBaseline, Grades
<1>3. \A j \in 1..Len(h) : j \in Of(h, "review", Unit) =>
          /\ h[j].dispatch \in 1..Len(h)
          /\ g[g[j].dispatch] = h[h[j].dispatch]
  BY <1>1 DEF HostInOrder, RecordInOrder, AnswersDispatch, Of
<1>4. \A j \in 1..Len(h) : j \in Grades(g) <=> j \in Grades(h)
  BY <1>1, <1>3 DEF Grades, Of
<1>5. Grades(h) \subseteq 1..Len(h) /\ Grades(g) \subseteq 1..n
  BY <1>1 DEF Grades, Of
<1>6. CASE n \notin Grades(g)
  <2>1. Grades(g) = Grades(h)
    <3>1. \A j \in Grades(g) : j \in 1..Len(h)
      BY <1>1, <1>5, <1>6
    <3>2. \A j : j \in Grades(g) <=> j \in Grades(h)
      BY <1>4, <1>5, <3>1
    <3> QED BY <3>2
  <2>2. Latest(Grades(h)) # 0 => Latest(Grades(h)) \in Grades(h)
    BY <1>1, <1>5, LatestIn
  <2>3. Latest(Grades(h)) # 0 =>
            g[g[Latest(Grades(g))].dispatch] = h[h[Latest(Grades(h))].dispatch]
    <3> DEFINE m == Latest(Grades(h))
    <3>1. m # 0 => m \in 1..Len(h) /\ m \in Of(h, "review", Unit)
      BY <2>2, <1>5 DEF Grades
    <3>2. Latest(Grades(g)) = m
      BY <2>1
    <3> HIDE DEF m
    <3>3. m # 0 => g[m] = h[m] /\ g[g[m].dispatch] = h[h[m].dispatch]
      BY <3>1, <1>1, <1>3
    <3> QED BY <3>2, <3>3 DEF m
  <2> QED BY <1>2, <2>1, <2>3
<1>7. CASE n \in Grades(g)
  <2> DEFINE e == r.dispatch
  <2>1. Numbered(g)
    BY GrowsByOne, GrowsFacts
  <2>2. Latest(Grades(g)) \in Grades(g) /\ Latest(Grades(g)) # 0 /\ Latest(Grades(g)) >= n
    BY <1>1, <1>5, <1>7, <2>1, LatestIn
  <2>3. Latest(Grades(g)) = n
    BY <1>1, <1>5, <2>2
  <2>4. r.kind = "review" /\ HasPacket(g[e]) /\ g[e].packet.contract # None
    BY <1>1, <1>7 DEF Grades, Of
  <2>5. e \in 1..Len(h) /\ r.receipt # None
    BY <1>1, <2>4 DEF RecordInOrder, AnswersDispatch, HasPacket
  <2>6. g[e] = h[e] /\ g[e].core = Len(c)
    BY <1>1, <2>4, <2>5 DEF RecordInOrder, AnswersLaunch
  <2>7. Suffices(h[e], SubSeq(h, 1, e - 1), SubSeq(c, 1, Len(c)))
    BY <1>1, <2>4, <2>5, <2>6 DEF PacketsSuffice
  <2>8. h[e].packet.covers = CurrentCovers(c, Unit)
    BY <2>7, WholeChain DEF Suffices
  <2> QED BY <1>1, <1>2, <2>2, <2>3, <2>6, <2>8
<1> QED BY <1>6, <1>7

\* So what sufficed still does.
LEMMA StillSuffices ==
    ASSUME NEW h, Numbered(h), NEW L, HostInOrder(h, L), NEW c, Numbered(c),
           PacketsSuffice(h, c), NEW r,
           NEW g, g = h \o <<r>>, RecordInOrder(g, Len(h) + 1, L),
           r.kind = "review" /\ r.receipt # None => r.core = Len(c),
           NEW d, d.packet.reason \in Nat, Suffices(d, h, c)
    PROVE  Suffices(d, g, c)
<1> DEFINE in  == CheckpointInput(h, c, Unit, d.target, CurrentStage(c), d.risk, d.disputed)
           out == CheckpointInput(g, c, Unit, d.target, CurrentStage(c), d.risk, d.disputed)
           p == d.packet
<1>1. CASE checkpointReviewBaseline(g, c, Unit) = checkpointReviewBaseline(h, c, Unit)
  <2>1. out = in
    BY <1>1 DEF CheckpointInput
  <2> HIDE DEF in, out
  <2> QED BY <2>1 DEF Suffices, in, out
<1>2. CASE checkpointReviewBaseline(g, c, Unit) = CurrentCovers(c, Unit)
  <2>1. /\ in.current = out.current /\ out.baseline = out.current
        /\ in.risk = out.risk /\ in.manifest = out.manifest /\ in.milestone = out.milestone
        /\ in.stage = out.stage /\ in.outcome = out.outcome /\ in.hostRisk = out.hostRisk
        /\ in.disputed = out.disputed
    BY <1>2 DEF CheckpointInput
  <2>2. /\ p.contract = BoundContractDigest(c)
        /\ p.covers = CurrentCovers(c, Unit)
        /\ ClassifyCheckpoint(in).triggers \subseteq p.triggers
        /\ ClassifyCheckpoint(in).level <= p.reason
        /\ ClassifyCheckpoint(in).required <= d.risk
        /\ ClassifyCheckpoint(in).family => p.family
    BY DEF Suffices
  <2> HIDE DEF in, out
  <2>3. /\ ClassifyCheckpoint(out).triggers \subseteq ClassifyCheckpoint(in).triggers
        /\ ClassifyCheckpoint(out).level <= ClassifyCheckpoint(in).level
        /\ ClassifyCheckpoint(out).level \in Nat /\ ClassifyCheckpoint(in).level \in Nat
        /\ ClassifyCheckpoint(out).required = ClassifyCheckpoint(in).required
        /\ ClassifyCheckpoint(out).family = ClassifyCheckpoint(in).family
    BY <2>1, CoveredCallsForLess
  <2>4. /\ ClassifyCheckpoint(out).triggers \subseteq p.triggers
        /\ ClassifyCheckpoint(out).level <= p.reason
        /\ ClassifyCheckpoint(out).required <= d.risk
    BY <2>2, <2>3
  <2>5. ClassifyCheckpoint(out).family => p.family
    BY <2>2, <2>3
  <2> QED BY <2>2, <2>4, <2>5 DEF Suffices, out
<1> QED BY <1>1, <1>2, BaselineMoves

-----------------------------------------------------------------------------
(* Criteria and credits.                                                   *)

\* What was said of a unit's lease at a position still is: none was issued
\* since if the lease is the same.
LEMMA SameIssuer ==
    ASSUME NEW c, Numbered(c), NEW m \in 0..Len(c), NEW i, i # 0,
           i = currentIssuer(c, Unit), i = currentIssuer(SubSeq(c, 1, m), Unit)
    PROVE  /\ i \in 1..m /\ \A k \in (m + 1)..Len(c) : ~IssuesLease(c[k], Unit)
           /\ \A n \in m..Len(c) : i = currentIssuer(SubSeq(c, 1, n), Unit)
<1> DEFINE I == {k \in 1..Len(c) : IssuesLease(c[k], Unit)}
<1>1. Len(c) \in Nat /\ DOMAIN c = 1..Len(c)
  BY ChainFacts
<1>2. i \in I /\ \A k \in I : k <= i
  <2>1. i = IF I # {} THEN Max(I) ELSE 0
    BY DEF currentIssuer, SelectLastInSeq
  <2>2. I \subseteq 1..Len(c) /\ I # {}
    BY <2>1
  <2> HIDE DEF I
  <2> QED BY <2>1, <2>2, LastOf
<1>3. i \in 1..m
  <2> DEFINE b == SubSeq(c, 1, m)
  <2>1. Numbered(b) /\ DOMAIN b = 1..m /\ i = currentIssuer(b, Unit)
    BY PrefixFacts
  <2> HIDE DEF b
  <2> QED BY <2>1, IssuerInChain
<1>4. ASSUME NEW n \in m..Len(c) PROVE i = currentIssuer(SubSeq(c, 1, n), Unit)
  <2> DEFINE b == SubSeq(c, 1, n)
             J == {k \in 1..Len(b) : IssuesLease(b[k], Unit)}
  <2>1. n \in 0..Len(c)
    BY <1>1
  <2>2. Numbered(b) /\ Len(b) = n /\ \A k \in 1..n : b[k] = c[k]
    BY <2>1, PrefixFacts
  <2>3. currentIssuer(b, Unit) = IF J # {} THEN Max(J) ELSE 0
    BY DEF currentIssuer, SelectLastInSeq
  <2> HIDE DEF b
  <2>4. i \in J /\ J \subseteq I
    BY <1>1, <1>2, <1>3, <2>1, <2>2
  <2>5. Max(J) \in J /\ \A k \in J : k <= Max(J)
    <3>1. J \subseteq 1..Len(b) /\ J # {}
      BY <2>4
    <3> HIDE DEF J
    <3> QED BY <2>2, <3>1, LastOf
  <2>6. Max(J) = i
    <3>1. Max(J) <= i /\ i <= Max(J)
      BY <1>2, <2>4, <2>5
    <3>2. Max(J) \in 1..n /\ i \in 1..n
      BY <2>2, <2>4, <2>5
    <3> HIDE DEF I, J
    <3> QED BY <3>1, <3>2
  <2> QED BY <2>3, <2>4, <2>6 DEF b
<1>5. \A k \in (m + 1)..Len(c) : ~IssuesLease(c[k], Unit)
  <2> SUFFICES ASSUME NEW k \in (m + 1)..Len(c), IssuesLease(c[k], Unit) PROVE FALSE
    OBVIOUS
  <2>1. k \in I /\ k > m
    BY <1>1
  <2> HIDE DEF I
  <2> QED BY <1>1, <1>2, <1>3, <2>1
<1> QED BY <1>3, <1>4, <1>5

\* Records that issue no lease leave the one there is.
LEMMA IssuerKept ==
    ASSUME NEW c, NEW d, Numbered(c), Grows(c, d),
           \A k \in (Len(c) + 1)..Len(d) : ~IssuesLease(d[k], Unit)
    PROVE  currentIssuer(d, Unit) = currentIssuer(c, Unit)
<1> DEFINE I == {k \in 1..Len(c) : IssuesLease(c[k], Unit)}
           J == {k \in 1..Len(d) : IssuesLease(d[k], Unit)}
<1>1. /\ Len(c) \in Nat /\ Len(d) \in Nat /\ Len(c) <= Len(d)
      /\ \A k \in 1..Len(c) : d[k] = c[k]
  BY GrowsFacts
<1>2. J = I
  <2>1. \A k \in 1..Len(d) : k \in 1..Len(c) \/ k \in (Len(c) + 1)..Len(d)
    BY <1>1
  <2>2. \A k \in 1..Len(c) : k \in 1..Len(d)
    BY <1>1
  <2> QED BY <1>1, <2>1, <2>2
<1> HIDE DEF I, J
<1> QED BY <1>2 DEF currentIssuer, SelectLastInSeq, I, J

\* Criteria with nothing in them are none.
LEMMA NoCriteria ==
    /\ DOMAIN NoMap = {}
    /\ \A f : f = [x \in DOMAIN f |-> f[x]] /\ DOMAIN f = {} => f = NoMap
BY DEF NoMap

\* The latest criteria come from the latest criterion snapshot.
LEMMA CriteriaAtLast ==
    ASSUME NEW c, Numbered(c), \A k \in DOMAIN c : KeepsCriteria(c, k), Criteria(c) # NoMap
    PROVE  LET j == CriteriaAt(c) IN
           /\ j \in DOMAIN c /\ c[j].kind = "criterion" /\ c[j].criteria = Criteria(c)
           /\ \A k \in (j + 1)..Len(c) : c[k].kind # "criterion"
<1> DEFINE I == {k \in 1..Len(c) : c[k].criteria # NoMap}
           J == {k \in 1..Len(c) : c[k].kind = "criterion" /\ c[k].criteria # NoMap}
           s == SelectLastInSeq(c, LAMBDA r : r.criteria # NoMap)
<1>1. Len(c) \in Nat /\ DOMAIN c = 1..Len(c)
  BY ChainFacts
<1>2. /\ s = IF I # {} THEN Max(I) ELSE 0
      /\ CriteriaAt(c) = IF J # {} THEN Max(J) ELSE 0
      /\ Criteria(c) = IF s = 0 THEN NoMap ELSE c[s].criteria
  BY DEF Criteria, CriteriaAt, SelectLastInSeq
<1> HIDE DEF s
<1>3. s \in I /\ \A k \in I : k <= s
  <2>1. I # {} /\ s = Max(I) /\ I \subseteq 1..Len(c)
    BY <1>2
  <2> HIDE DEF I
  <2> QED BY <2>1, LastOf
<1>4. s \in 1..Len(c) /\ c[s].criteria = Criteria(c)
  BY <1>1, <1>2, <1>3
<1>5. ASSUME NEW k \in (s + 1)..Len(c) PROVE c[k].kind # "criterion"
  <2>1. k \in 1..Len(c) /\ s \in 1..(k - 1) /\ ~ (k <= s)
    BY <1>1, <1>4
  <2>2. c[k].criteria = NoMap
    BY <1>3, <2>1
  <2> QED BY <1>1, <1>3, <2>1, <2>2 DEF KeepsCriteria
<1>6. PICK j \in 1..Len(c) : /\ j <= s /\ c[j].kind = "criterion"
                             /\ c[j].criteria = Criteria(c)
                             /\ \A m \in (j + 1)..s : c[m].kind # "criterion"
  <2>1. CASE c[s].kind = "criterion"
    <3>1. \A m \in (s + 1)..s : FALSE
      BY <1>1, <1>4
    <3> QED BY <1>1, <1>4, <2>1, <3>1
  <2>2. CASE c[s].kind # "criterion"
    <3>1. PICK j \in 1..(s - 1) :
              /\ c[j].kind = "criterion" /\ c[j].criteria = c[s].criteria
              /\ \A m \in (j + 1)..(s - 1) : c[m].kind # "criterion"
      BY <1>1, <1>3, <2>2 DEF KeepsCriteria
    <3>2. \A m \in (j + 1)..s : m \in (j + 1)..(s - 1) \/ m = s
      BY <1>4
    <3>3. j \in 1..Len(c) /\ j <= s
      BY <1>1, <1>4
    <3> QED BY <1>4, <2>2, <3>1, <3>2, <3>3
  <2> QED BY <2>1, <2>2
<1>7. \A k \in (j + 1)..Len(c) : c[k].kind # "criterion"
  <2>1. \A k \in (j + 1)..Len(c) : k \in (j + 1)..s \/ k \in (s + 1)..Len(c)
    BY <1>1, <1>4
  <2> QED BY <1>5, <1>6, <2>1
<1>8. j \in J
  BY <1>6
<1>9. Max(J) \in J /\ \A k \in J : k <= Max(J)
  <2>1. J # {} /\ J \subseteq 1..Len(c)
    BY <1>8
  <2> HIDE DEF J
  <2> QED BY <2>1, LastOf
<1>10. Max(J) = j
  <2>1. Max(J) \in 1..Len(c) /\ c[Max(J)].kind = "criterion" /\ j <= Max(J)
    BY <1>8, <1>9
  <2> HIDE DEF J
  <2>2. Max(J) \notin (j + 1)..Len(c)
    BY <1>7, <2>1
  <2> QED BY <1>1, <2>1, <2>2
<1>11. CriteriaAt(c) = j
  BY <1>2, <1>8, <1>10
<1> QED BY <1>1, <1>6, <1>7, <1>11

\* What criteria a record keeps is about the records before it.
LEMMA KeepsIsBehind ==
    ASSUME NEW c, NEW d, NEW k \in Nat, k >= 1, \A j \in 1..k : d[j] = c[j],
           KeepsCriteria(c, k)
    PROVE  KeepsCriteria(d, k)
<1>1. d[k] = c[k] /\ \A j \in 1..(k - 1) : d[j] = c[j]
  OBVIOUS
<1>2. \A j \in 1..(k - 1) : \A m \in (j + 1)..(k - 1) : d[m] = c[m]
  BY <1>1
<1> QED BY <1>1, <1>2 DEF KeepsCriteria

\* So is what a credit follows.
LEMMA CreditIsBehind ==
    ASSUME NEW h, NEW g, NEW i \in Nat, i >= 1, \A k \in 1..i : g[k] = h[k],
           NEW c, NEW d, NEW n \in Nat, n <= Len(d), Len(d) \in Nat,
           \A k \in 1..n : d[k] = c[k],
           \A k \in 0..n : SubSeq(d, 1, k) = SubSeq(c, 1, k),
           \A k \in 1..i : h[k].core \in 1..n /\ AnswersDispatch(h, k),
           CreditFollows(h, i, c)
    PROVE  CreditFollows(g, i, d)
<1> SUFFICES ASSUME h[i].kind = "credit" PROVE CreditFollows(g, i, d)
  BY DEF CreditFollows
<1> DEFINE r == h[i].review
           v == h[r]
           then == SubSeq(c, 1, h[i].record)
<1>1. /\ r \in 1..(i - 1) /\ v.kind = "review"
      /\ v.verdict = "APPROVE" /\ v.isolation = "isolated"
      /\ h[i].record = h[i].core
      /\ c[h[i].record].kind = "criterion"
      /\ h[i].issuer # 0 /\ h[i].issuer = currentIssuer(then, Unit)
      /\ h[i].issuer = currentIssuer(SubSeq(c, 1, h[v.dispatch].core), Unit)
      /\ DOMAIN h[i].results = currentPlanUnit(then, Unit).criteria
      /\ \A j \in 1..(i - 1) : h[j].kind = "credit" => h[j].record < h[i].record
  BY DEF CreditFollows
<1>2. v.dispatch \in 1..(r - 1)
  <2>1. r \in 1..i
    BY <1>1
  <2> HIDE DEF r
  <2> QED BY <1>1, <2>1 DEF AnswersDispatch
<1>3. g[i] = h[i] /\ g[r] = v /\ g[v.dispatch] = h[v.dispatch]
  <2>1. i \in 1..i /\ r \in 1..i /\ v.dispatch \in 1..i
    BY <1>1, <1>2
  <2> HIDE DEF r
  <2> QED BY <2>1
<1>4. h[i].core \in 1..n /\ h[v.dispatch].core \in 1..n
  <2>1. i \in 1..i /\ v.dispatch \in 1..i
    BY <1>1, <1>2
  <2> HIDE DEF r, v
  <2> QED BY <2>1
<1>5. /\ SubSeq(d, 1, h[i].record) = then
      /\ SubSeq(d, 1, h[v.dispatch].core) = SubSeq(c, 1, h[v.dispatch].core)
      /\ d[h[i].record] = c[h[i].record] /\ h[i].record \in 1..Len(d)
  <2>1. h[i].record \in 1..n /\ h[i].record \in 0..n /\ h[v.dispatch].core \in 0..n
    BY <1>1, <1>4
  <2>2. SubSeq(d, 1, h[i].record) = then
    BY <2>1
  <2>3. SubSeq(d, 1, h[v.dispatch].core) = SubSeq(c, 1, h[v.dispatch].core)
    BY <2>1
  <2>4. d[h[i].record] = c[h[i].record] /\ h[i].record \in 1..Len(d)
    BY <2>1
  <2> QED BY <2>2, <2>3, <2>4
<1>6. \A j \in 1..(i - 1) : g[j] = h[j]
  OBVIOUS
<1>7. g[i].review = r /\ g[g[i].review] = v
  BY <1>3
<1> HIDE DEF v, then, r
<1>8. /\ g[i].review \in 1..(i - 1) /\ v.kind = "review"
      /\ v.verdict = "APPROVE" /\ v.isolation = "isolated"
      /\ g[i].record = g[i].core /\ g[i].record \in 1..Len(d)
      /\ d[g[i].record].kind = "criterion" /\ g[i].issuer # 0
      /\ g[i].issuer = currentIssuer(SubSeq(d, 1, g[i].record), Unit)
      /\ g[i].issuer = currentIssuer(SubSeq(d, 1, g[v.dispatch].core), Unit)
      /\ DOMAIN g[i].results = currentPlanUnit(SubSeq(d, 1, g[i].record), Unit).criteria
      /\ \A j \in 1..(i - 1) : g[j].kind = "credit" => g[j].record < g[i].record
  BY <1>1, <1>3, <1>5, <1>6, <1>7
<1> QED BY <1>7, <1>8 DEF CreditFollows

\* What a claim of success rests on, where the chains are h and c: each passed
\* criterion has its credit, of the criteria as they stand.
Credited(h, c, t) ==
    \A id \in {x \in DOMAIN Criteria(c) : Criteria(c)[x] = "PASSED"} :
        \E i \in Credits(h) :
            LET v == h[h[i].review]
                d == h[v.dispatch]
            IN  /\ h[i].results[id] = "PASSED" /\ h[i].target = t
                /\ c[h[i].record].criteria = Criteria(c)
                /\ v.verdict = "APPROVE" /\ v.isolation = "isolated"
                /\ d.packet.reason = 3 /\ d.packet.contract = BoundContractDigest(c)
                /\ \A j \in (d.core + 1)..Len(c) : ~IssuesLease(c[j], Unit)
                /\ \A j \in (h[i].record + 1)..Len(c) : c[j].kind # "criterion"

\* The latest credit of a criterion stands, and it is the latest credit: one
\* after it would be of the same lease, so of the same plan's criteria, and an
\* earlier one cannot have given the criteria there are now.
LEMMA CreditedAtGate ==
    ASSUME NEW h, Numbered(h), NEW L, HostInOrder(h, L), NEW c, Numbered(c),
           CreditsInOrder(h, c), \A k \in DOMAIN h : h[k].core \in 1..Len(c),
           NEW t, requireIndependentCredit(h, c, t)
    PROVE  Credited(h, c, t)
<1> SUFFICES ASSUME NEW id \in DOMAIN Criteria(c), Criteria(c)[id] = "PASSED"
             PROVE  \E i \in Credits(h) :
                       LET v == h[h[i].review]
                           d == h[v.dispatch]
                       IN  /\ h[i].results[id] = "PASSED" /\ h[i].target = t
                           /\ c[h[i].record].criteria = Criteria(c)
                           /\ v.verdict = "APPROVE" /\ v.isolation = "isolated"
                           /\ d.packet.reason = 3
                           /\ d.packet.contract = BoundContractDigest(c)
                           /\ \A j \in (d.core + 1)..Len(c) : ~IssuesLease(c[j], Unit)
                           /\ \A j \in (h[i].record + 1)..Len(c) : c[j].kind # "criterion"
  BY DEF Credited
<1> DEFINE S == {k \in Credits(h) : id \in DOMAIN h[k].results}
           i == LatestCredit(h, id)
           d == h[h[i].review].dispatch
<1>1. /\ DOMAIN h = 1..Len(h) /\ Len(h) \in Nat
      /\ DOMAIN c = 1..Len(c) /\ Len(c) \in Nat
      /\ \A k \in DOMAIN h : h[k].unit = Unit /\ AnswersDispatch(h, k) /\ CreditFollows(h, k, c)
      /\ \A k \in DOMAIN c : KeepsCriteria(c, k)
  BY ChainFacts DEF HostInOrder, RecordInOrder, CreditsInOrder
<1>2. CreditStands(h, c, t, id)
  BY DEF requireIndependentCredit
<1>3. PICK j \in Credits(h) : h[j].record = CriteriaAt(c)
  BY <1>2 DEF CreditStands
<1>4. /\ i # 0 /\ h[i].results[id] = "PASSED" /\ h[i].target = t
      /\ h[i].issuer = currentIssuer(c, h[i].unit)
      /\ h[d].packet.reason = 3 /\ h[d].packet.contract = BoundContractDigest(c)
  BY <1>2 DEF CreditStands, currentBinding
<1>5. i \in S /\ \A k \in S : k <= i
  <2>1. S \subseteq DOMAIN h /\ i = Latest(S)
    BY DEF Credits, LatestCredit
  <2> HIDE DEF S, i
  <2> QED BY <1>4, <2>1, LatestIn
<1> HIDE DEF i
<1>6. i \in DOMAIN h /\ h[i].kind = "credit" /\ id \in DOMAIN h[i].results /\ i \in Credits(h)
  BY <1>5 DEF Credits
<1>7. j \in DOMAIN h /\ h[j].kind = "credit"
  BY DEF Credits
<1>8. ASSUME NEW k \in DOMAIN h, h[k].kind = "credit"
      PROVE  /\ h[k].review \in 1..(k - 1) /\ h[h[k].review].kind = "review"
             /\ h[h[k].review].verdict = "APPROVE" /\ h[h[k].review].isolation = "isolated"
             /\ h[k].record \in 1..Len(c) /\ h[k].issuer # 0
             /\ c[h[k].record].kind = "criterion"
             /\ h[k].issuer = currentIssuer(SubSeq(c, 1, h[k].record), Unit)
             /\ h[k].issuer = currentIssuer(SubSeq(c, 1, h[h[h[k].review].dispatch].core), Unit)
             /\ DOMAIN h[k].results
                    = currentPlanUnit(SubSeq(c, 1, h[k].record), Unit).criteria
             /\ \A l \in 1..(k - 1) : h[l].kind = "credit" => h[l].record < h[k].record
  BY <1>1, <1>8 DEF CreditFollows
<1>9. h[i].issuer = currentIssuer(c, Unit) /\ h[i].issuer # 0
  BY <1>1, <1>4, <1>6, <1>8
<1>10. /\ CriteriaAt(c) \in DOMAIN c /\ c[CriteriaAt(c)].criteria = Criteria(c)
       /\ \A k \in (CriteriaAt(c) + 1)..Len(c) : c[k].kind # "criterion"
  <2>1. Criteria(c) # NoMap
    BY NoCriteria
  <2> QED BY <1>1, <2>1, CriteriaAtLast
<1>11. ~ (j < i)
  <2> SUFFICES ASSUME j < i PROVE FALSE
    OBVIOUS
  <2>1. j \in 1..(i - 1)
    BY <1>1, <1>6, <1>7
  <2>2. h[j].record < h[i].record /\ h[i].record \in 1..Len(c)
        /\ c[h[i].record].kind = "criterion"
    BY <1>6, <1>7, <1>8, <2>1
  <2>3. h[i].record \in (CriteriaAt(c) + 1)..Len(c)
    BY <1>1, <1>3, <1>10, <2>2
  <2> QED BY <1>10, <2>2, <2>3
<1>12. ~ (i < j)
  <2> SUFFICES ASSUME i < j PROVE FALSE
    OBVIOUS
  <2> DEFINE m == h[i].record
             n == h[j].record
             x == h[i].issuer
             b == SubSeq(c, 1, m)
             e == SubSeq(c, 1, n)
  <2>1. m \in 1..Len(c) /\ n \in 1..Len(c) /\ m < n
    <3>1. i \in 1..(j - 1)
      BY <1>1, <1>6, <1>7
    <3> QED BY <1>6, <1>7, <1>8, <3>1
  <2>2. x = currentIssuer(b, Unit) /\ DOMAIN h[i].results = currentPlanUnit(b, Unit).criteria
    BY <1>6, <1>8
  <2>3. DOMAIN h[j].results = currentPlanUnit(e, Unit).criteria
    BY <1>7, <1>8
  <2>4. m \in 0..Len(c) /\ n \in m..Len(c) /\ n \in 0..Len(c)
    BY <1>1, <2>1
  <2>5. x \in 1..m /\ x = currentIssuer(e, Unit)
    <3> HIDE DEF m, n, x
    <3> QED BY <1>9, <2>2, <2>4, SameIssuer DEF x, b, e
  <2>6. b[x] = c[x] /\ e[x] = c[x]
    <3>1. x \in 1..n
      BY <1>1, <2>1, <2>5
    <3> HIDE DEF m, n, x
    <3> QED BY <2>4, <2>5, <3>1, PrefixFacts
  <2>7. currentPlanUnit(b, Unit) = currentPlanUnit(e, Unit)
    <3> HIDE DEF b, e, x
    <3> QED BY <2>2, <2>5, <2>6 DEF currentPlanUnit
  <2>8. j \in S
    BY <1>6, <2>2, <2>3, <2>7
  <2> QED BY <1>1, <1>5, <1>6, <1>7, <2>8
<1>13. i = j
  BY <1>1, <1>6, <1>7, <1>11, <1>12
<1>14. \A k \in (h[d].core + 1)..Len(c) : ~IssuesLease(c[k], Unit)
  <2>1. h[i].review \in DOMAIN h /\ h[h[i].review].kind = "review"
    BY <1>1, <1>6, <1>8
  <2>2. d \in DOMAIN h
    <3>1. d \in 1..(h[i].review - 1)
      BY <1>1, <2>1 DEF AnswersDispatch
    <3> HIDE DEF d
    <3> QED BY <1>1, <2>1, <3>1
  <2>3. h[d].core \in 0..Len(c)
    <3> HIDE DEF d
    <3> QED BY <1>1, <2>2
  <2>4. h[i].issuer = currentIssuer(SubSeq(c, 1, h[d].core), Unit)
    BY <1>6, <1>8
  <2> HIDE DEF d
  <2> QED BY <1>9, <2>3, <2>4, SameIssuer
<1>15. /\ h[i].results[id] = "PASSED" /\ h[i].target = t
       /\ c[h[i].record].criteria = Criteria(c)
       /\ h[h[i].review].verdict = "APPROVE" /\ h[h[i].review].isolation = "isolated"
       /\ h[d].packet.reason = 3 /\ h[d].packet.contract = BoundContractDigest(c)
       /\ \A k \in (h[d].core + 1)..Len(c) : ~IssuesLease(c[k], Unit)
       /\ \A k \in (h[i].record + 1)..Len(c) : c[k].kind # "criterion"
  BY <1>3, <1>4, <1>6, <1>8, <1>10, <1>13, <1>14
<1> QED BY <1>6, <1>15

-----------------------------------------------------------------------------
(* The inductive invariant.                                                *)

\* The dispatch about to be recorded suffices while the core chain stands.
DraftOK ==
    draft # None =>
        /\ draft = [f \in DOMAIN draft |-> draft[f]]
        /\ Reviews(draft) /\ draft.unit = Unit /\ draft.risk \in Nat
        /\ draft.core \in 0..Len(core)
        /\ draft.packet.reason \in Nat
        /\ Len(core) = draft.core /\ draft.packet.contract # None /\ draft.risk >= draft.required
              => Suffices(draft, host, core)

GatePassed(g) ==
    /\ g.at \in DOMAIN core /\ g.host \in 0..Len(host) /\ g.target \in Targets
    /\ \A i \in 1..g.host : host[i].core \in 1..(g.at - 1)
    /\ PassedGate(HostAt(g), CoreAt(g), Decided(g), g.target)

GatesPassed == \A g \in gates : GatePassed(g)

CoresNamed == \A i \in DOMAIN host : host[i].core \in 1..Len(core)

HInv ==
    /\ Numbered(core) /\ Numbered(host) /\ target \in Targets
    /\ HostInOrder(host, ledger) /\ OneLaunchPerRun(ledger)
    /\ CoreInOrder(core, host) /\ CoresNamed
    /\ PacketsSuffice(host, core)
    /\ CreditsInOrder(host, core)
    /\ DraftOK
    /\ GatesPassed

-----------------------------------------------------------------------------
(* What a step does, as far as the invariant goes.                         *)

NewHostRecord(r) ==
    /\ host' = host \o <<r>>
    /\ RecordInOrder(host', Len(host) + 1, ledger)
    /\ r.core \in 1..Len(core')
    /\ r.kind = "review" /\ r.receipt # None => r.core = Len(core)
    /\ HasPacket(r) /\ r.packet.contract # None => Suffices(r, host, SubSeq(core', 1, r.core))
    /\ CreditFollows(host', Len(host) + 1, core')

HostStep == host' = host \/ \E r : NewHostRecord(r)

\* What is appended to the core chain keeps the criteria.
Keeps(rs) == \A k \in (Len(core) + 1)..Len(core \o rs) : KeepsCriteria(core \o rs, k)

CoreStep ==
    \E rs : /\ Numbered(rs) /\ core' = core \o rs
            /\ \A i \in 1..Len(rs) : CoreRecordInOrder(rs[i], host)
            /\ Keeps(rs)

LedgerStep == ledger \subseteq ledger' /\ OneLaunchPerRun(ledger')

DraftStep == draft' = None \/ draft' = draft \/ DraftOK'

GateStep == gates' = gates \/ \E g : gates' = gates \cup {g} /\ GatePassed(g)'

Step == HostStep /\ CoreStep /\ LedgerStep /\ DraftStep /\ GateStep /\ target' \in Targets

\* Both chains grow.
LEMMA StepGrows ==
    ASSUME HInv, HostStep, CoreStep
    PROVE  Grows(host, host') /\ Grows(core, core')
<1>1. Grows(core, core')
  BY DEF CoreStep, Grows
<1>2. Grows(host, host')
  BY GrowsByNothing, GrowsByOne DEF HInv, HostStep, NewHostRecord
<1> QED BY <1>1, <1>2

LEMMA HostStaysInOrder ==
    ASSUME HInv, HostStep, CoreStep, LedgerStep
    PROVE  HostInOrder(host', ledger') /\ CoresNamed'
<1>1. /\ DOMAIN host = 1..Len(host) /\ DOMAIN host' = 1..Len(host')
      /\ Len(host) \in Nat /\ Len(host') \in Nat
      /\ \A k \in 1..Len(host) : host'[k] = host[k]
  BY StepGrows, GrowsFacts DEF HInv
<1>2. Len(core) \in Nat /\ Len(core') \in Nat /\ Len(core) <= Len(core')
  BY StepGrows, GrowsFacts DEF HInv
<1>3. ASSUME NEW i \in 1..Len(host)
      PROVE  RecordInOrder(host', i, ledger') /\ host'[i].core \in 1..Len(core')
  <2>1. RecordInOrder(host, i, ledger) /\ host[i].core \in 1..Len(core)
    BY <1>1 DEF HInv, HostInOrder, CoresNamed
  <2>2. i \in Nat /\ i >= 1 /\ \A k \in 1..i : host'[k] = host[k]
    BY <1>1
  <2>3. RecordInOrder(host', i, ledger')
    BY <2>1, <2>2, OrderIsBehind DEF LedgerStep
  <2> QED BY <1>1, <1>2, <2>1, <2>3
<1>4. CASE host' = host
  BY <1>1, <1>3, <1>4 DEF HostInOrder, CoresNamed
<1>5. ASSUME NEW r, NewHostRecord(r)
      PROVE  HostInOrder(host', ledger') /\ CoresNamed'
  <2> DEFINE n == Len(host) + 1
  <2>1. Len(host') = n /\ host'[n] = r
    BY <1>5, GrowsByOne DEF NewHostRecord, HInv
  <2>2. n \in Nat /\ n >= 1 /\ \A k \in 1..n : host'[k] = host'[k]
    BY <1>1
  <2>3. RecordInOrder(host', n, ledger)
    BY <1>5 DEF NewHostRecord
  <2>4. RecordInOrder(host', n, ledger')
    <3> HIDE DEF n
    <3> QED BY <2>2, <2>3, OrderIsBehind DEF LedgerStep
  <2>5. \A i \in 1..Len(host') : i \in 1..Len(host) \/ i = n
    BY <1>1, <2>1
  <2>6. host'[n].core \in 1..Len(core')
    BY <1>5, <2>1 DEF NewHostRecord
  <2> HIDE DEF n
  <2> QED BY <1>1, <1>3, <2>4, <2>5, <2>6 DEF HostInOrder, CoresNamed
<1> QED BY <1>4, <1>5 DEF HostStep

LEMMA CoreStaysInOrder ==
    ASSUME HInv, HostStep, CoreStep
    PROVE  CoreInOrder(core', host')
<1>1. PICK rs : /\ Numbered(rs) /\ core' = core \o rs
                /\ \A i \in 1..Len(rs) : CoreRecordInOrder(rs[i], host)
  BY DEF CoreStep
<1>2. /\ DOMAIN host = 1..Len(host) /\ DOMAIN host' = 1..Len(host')
      /\ Len(host) \in Nat /\ Len(host') \in Nat /\ Len(host) <= Len(host')
      /\ \A k \in 1..Len(host) : host'[k] = host[k]
  BY StepGrows, GrowsFacts DEF HInv
<1>3. ASSUME NEW r, CoreRecordInOrder(r, host) PROVE CoreRecordInOrder(r, host')
  <2>1. r.snapshot => r.source \in DOMAIN host' /\ host'[r.source] = host[r.source]
    BY <1>2, <1>3 DEF CoreRecordInOrder, HoldsEstablished
  <2> QED BY <1>3, <2>1 DEF CoreRecordInOrder, HoldsEstablished
<1>4. /\ DOMAIN core' = 1..(Len(core) + Len(rs)) /\ DOMAIN core = 1..Len(core)
      /\ Len(core) \in Nat /\ Len(rs) \in Nat
      /\ \A i \in 1..Len(core) : core'[i] = core[i]
      /\ \A i \in 1..Len(rs) : core'[Len(core) + i] = rs[i]
  BY <1>1, Continued, ChainFacts DEF HInv
<1>5. ASSUME NEW k \in DOMAIN core' PROVE CoreRecordInOrder(core'[k], host')
  <2>1. CASE k \in 1..Len(core)
    BY <1>3, <1>4, <2>1 DEF HInv, CoreInOrder
  <2>2. CASE k \notin 1..Len(core)
    <3>1. k - Len(core) \in 1..Len(rs) /\ k = Len(core) + (k - Len(core))
      BY <1>4, <1>5, <2>2
    <3>2. core'[k] = rs[k - Len(core)]
      BY <1>4, <3>1
    <3> QED BY <1>1, <1>3, <3>1, <3>2
  <2> QED BY <2>1, <2>2
<1> QED BY <1>5 DEF CoreInOrder

LEMMA PacketsStillSuffice ==
    ASSUME HInv, HostStep, CoreStep
    PROVE  PacketsSuffice(host', core')
<1>1. /\ DOMAIN host = 1..Len(host) /\ DOMAIN host' = 1..Len(host')
      /\ Len(host) \in Nat /\ Len(host') \in Nat
      /\ \A k \in 1..Len(host) : host'[k] = host[k]
      /\ \A n \in 0..Len(host) : SubSeq(host', 1, n) = SubSeq(host, 1, n)
  BY StepGrows, GrowsFacts DEF HInv
<1>2. Len(core) \in Nat /\ \A n \in 0..Len(core) : SubSeq(core', 1, n) = SubSeq(core, 1, n)
  BY StepGrows, GrowsFacts DEF HInv
<1>3. ASSUME NEW i \in 1..Len(host), HasPacket(host'[i]), host'[i].packet.contract # None
      PROVE  Suffices(host'[i], SubSeq(host', 1, i - 1), SubSeq(core', 1, host'[i].core))
  <2>1. host'[i] = host[i] /\ i - 1 \in 0..Len(host) /\ host[i].core \in 0..Len(core)
    BY <1>1, <1>2 DEF HInv, CoresNamed
  <2>2. Suffices(host[i], SubSeq(host, 1, i - 1), SubSeq(core, 1, host[i].core))
    BY <1>1, <1>3, <2>1 DEF HInv, PacketsSuffice
  <2>3. /\ SubSeq(host', 1, i - 1) = SubSeq(host, 1, i - 1)
        /\ SubSeq(core', 1, host[i].core) = SubSeq(core, 1, host[i].core)
    BY <1>1, <1>2, <2>1
  <2> QED BY <2>1, <2>2, <2>3
<1>4. CASE host' = host
  BY <1>1, <1>3, <1>4 DEF PacketsSuffice
<1>5. ASSUME NEW r, NewHostRecord(r)
      PROVE  PacketsSuffice(host', core')
  <2> DEFINE n == Len(host) + 1
  <2>1. Len(host') = n /\ host'[n] = r
    BY <1>5, GrowsByOne DEF NewHostRecord, HInv
  <2>2. n - 1 = Len(host) /\ \A i \in 1..Len(host') : i \in 1..Len(host) \/ i = n
    BY <1>1, <2>1
  <2>3. SubSeq(host', 1, n - 1) = host
    BY <1>1, <2>2, WholeChain DEF HInv
  <2>4. HasPacket(r) /\ r.packet.contract # None =>
            Suffices(r, SubSeq(host', 1, n - 1), SubSeq(core', 1, r.core))
    BY <1>5, <2>3 DEF NewHostRecord
  <2> HIDE DEF n
  <2> QED BY <1>1, <1>3, <2>1, <2>2, <2>4 DEF PacketsSuffice
<1> QED BY <1>4, <1>5 DEF HostStep

LEMMA CreditsStayInOrder ==
    ASSUME HInv, HostStep, CoreStep
    PROVE  CreditsInOrder(host', core')
<1>1. /\ DOMAIN host = 1..Len(host) /\ DOMAIN host' = 1..Len(host')
      /\ Len(host) \in Nat /\ Len(host') \in Nat
      /\ \A k \in 1..Len(host) : host'[k] = host[k]
  BY StepGrows, GrowsFacts DEF HInv
<1>2. /\ DOMAIN core = 1..Len(core) /\ DOMAIN core' = 1..Len(core')
      /\ Len(core) \in Nat /\ Len(core') \in Nat /\ Len(core) <= Len(core')
      /\ \A k \in 1..Len(core) : core'[k] = core[k]
      /\ \A n \in 0..Len(core) : SubSeq(core', 1, n) = SubSeq(core, 1, n)
  BY StepGrows, GrowsFacts DEF HInv
<1>3. ASSUME NEW k \in DOMAIN core' PROVE KeepsCriteria(core', k)
  <2>1. CASE k \in 1..Len(core)
    <3>1. KeepsCriteria(core, k) /\ k \in Nat /\ k >= 1 /\ \A j \in 1..k : core'[j] = core[j]
      BY <1>2, <2>1 DEF HInv, CreditsInOrder
    <3> QED BY <3>1, KeepsIsBehind
  <2>2. CASE k \in (Len(core) + 1)..Len(core')
    BY <2>2 DEF CoreStep, Keeps
  <2> QED BY <1>2, <2>1, <2>2
<1>4. ASSUME NEW i \in 1..Len(host) PROVE CreditFollows(host', i, core')
  <2>1. /\ i \in Nat /\ i >= 1 /\ \A k \in 1..i : host'[k] = host[k]
        /\ CreditFollows(host, i, core)
    BY <1>1 DEF HInv, CreditsInOrder
  <2>2. \A k \in 1..i : host[k].core \in 1..Len(core) /\ AnswersDispatch(host, k)
    BY <1>1 DEF HInv, CoresNamed, HostInOrder, RecordInOrder
  <2> QED BY <1>2, <2>1, <2>2, CreditIsBehind
<1>5. \A i \in DOMAIN host' : CreditFollows(host', i, core')
  <2>1. CASE host' = host
    BY <1>1, <1>4, <2>1
  <2>2. ASSUME NEW r, NewHostRecord(r), NEW i \in DOMAIN host'
        PROVE  CreditFollows(host', i, core')
    <3>1. Len(host') = Len(host) + 1
      BY <2>2, GrowsByOne DEF NewHostRecord, HInv
    <3>2. i \in 1..Len(host) \/ i = Len(host) + 1
      BY <1>1, <3>1
    <3>3. CreditFollows(host', Len(host) + 1, core')
      BY <2>2 DEF NewHostRecord
    <3> QED BY <1>4, <3>2, <3>3
  <2> QED BY <2>1, <2>2 DEF HostStep
<1> QED BY <1>3, <1>5 DEF CreditsInOrder

LEMMA DraftStaysOK ==
    ASSUME HInv, HostStep, CoreStep, DraftStep
    PROVE  DraftOK'
<1>1. CASE draft' = None
  BY <1>1 DEF DraftOK
<1>2. CASE draft' = draft
  <2> SUFFICES ASSUME draft # None PROVE DraftOK'
    BY <1>2 DEF DraftOK
  <2>1. /\ draft = [f \in DOMAIN draft |-> draft[f]]
        /\ Reviews(draft) /\ draft.unit = Unit /\ draft.risk \in Nat
        /\ draft.core \in 0..Len(core)
        /\ draft.packet.reason \in Nat
    BY DEF HInv, DraftOK
  <2>2. Len(core) \in Nat /\ Len(core') \in Nat /\ Len(core) <= Len(core')
    BY StepGrows, GrowsFacts DEF HInv
  <2>3. draft.core \in 0..Len(core')
    BY <2>1, <2>2
  <2>4. ASSUME Len(core') = draft.core, draft.packet.contract # None,
               draft.risk >= draft.required
        PROVE  Suffices(draft, host', core')
    <3>1. Len(core) = draft.core /\ Len(core') = Len(core)
      BY <2>1, <2>2, <2>4
    <3>2. Suffices(draft, host, core)
      BY <2>4, <3>1 DEF HInv, DraftOK
    <3>3. core' = core
      <4>1. SubSeq(core', 1, Len(core)) = SubSeq(core, 1, Len(core)) /\ Numbered(core')
        BY <2>2, StepGrows, GrowsFacts DEF HInv
      <4> QED BY <3>1, <4>1, WholeChain DEF HInv
    <3>4. CASE host' = host
      BY <3>2, <3>3, <3>4
    <3>5. ASSUME NEW r, NewHostRecord(r)
          PROVE  Suffices(draft, host', core)
      BY <2>1, <3>2, <3>5, StillSuffices DEF HInv, NewHostRecord
    <3> QED BY <3>3, <3>4, <3>5 DEF HostStep
  <2> QED BY <1>2, <2>1, <2>3, <2>4 DEF DraftOK
<1>3. CASE DraftOK'
  BY <1>3
<1> QED BY <1>1, <1>2, <1>3 DEF DraftStep

LEMMA GatesStayPassed ==
    ASSUME HInv, HostStep, CoreStep, GateStep
    PROVE  GatesPassed'
<1>1. /\ DOMAIN host = 1..Len(host) /\ Len(host) \in Nat /\ Len(host') \in Nat
      /\ Len(host) <= Len(host')
      /\ \A k \in 1..Len(host) : host'[k] = host[k]
      /\ \A n \in 0..Len(host) : SubSeq(host', 1, n) = SubSeq(host, 1, n)
  BY StepGrows, GrowsFacts DEF HInv
<1>2. /\ DOMAIN core = 1..Len(core) /\ DOMAIN core' = 1..Len(core')
      /\ Len(core) \in Nat /\ Len(core') \in Nat /\ Len(core) <= Len(core')
      /\ \A k \in 1..Len(core) : core'[k] = core[k]
      /\ \A n \in 0..Len(core) : SubSeq(core', 1, n) = SubSeq(core, 1, n)
  BY StepGrows, GrowsFacts DEF HInv
<1>3. ASSUME NEW g, GatePassed(g) PROVE GatePassed(g)'
  <2>1. /\ g.at \in 1..Len(core) /\ g.at - 1 \in 0..Len(core) /\ g.host \in 0..Len(host)
        /\ g.target \in Targets
    BY <1>2, <1>3 DEF GatePassed
  <2>2. g.at \in DOMAIN core' /\ g.host \in 0..Len(host') /\ core'[g.at] = core[g.at]
    BY <1>1, <1>2, <2>1
  <2>3. /\ SubSeq(host', 1, g.host) = SubSeq(host, 1, g.host)
        /\ SubSeq(core', 1, g.at - 1) = SubSeq(core, 1, g.at - 1)
    BY <1>1, <1>2, <2>1
  <2>4. \A i \in 1..g.host : host'[i].core \in 1..(g.at - 1)
    BY <1>1, <1>3, <2>1 DEF GatePassed
  <2>5. PassedGate(SubSeq(host, 1, g.host), SubSeq(core, 1, g.at - 1),
                   core[g.at].approval, g.target)
    BY <1>3 DEF GatePassed, HostAt, CoreAt, Before, Decided
  <2> QED BY <2>1, <2>2, <2>3, <2>4, <2>5 DEF GatePassed, HostAt, CoreAt, Before, Decided
<1>4. \A g \in gates : GatePassed(g)'
  BY <1>3 DEF HInv, GatesPassed
<1> QED BY <1>4 DEF GateStep, GatesPassed

LEMMA StepKeeps == ASSUME HInv, Step PROVE HInv'
<1> USE DEF Step
<1>1. Numbered(core') /\ Numbered(host')
  BY StepGrows, GrowsFacts DEF HInv
<1>2. HostInOrder(host', ledger') /\ CoresNamed'
  BY HostStaysInOrder
<1>3. /\ CoreInOrder(core', host') /\ PacketsSuffice(host', core')
      /\ CreditsInOrder(host', core')
  BY CoreStaysInOrder, PacketsStillSuffice, CreditsStayInOrder
<1>4. DraftOK' /\ GatesPassed'
  BY DraftStaysOK, GatesStayPassed
<1>5. OneLaunchPerRun(ledger') /\ target' \in Targets
  BY DEF LedgerStep
<1> QED BY <1>1, <1>2, <1>3, <1>4, <1>5 DEF HInv

-----------------------------------------------------------------------------
(* The steps that write the host chain.                                    *)

\* A core chain is left alone.
LEMMA CoreAlone == ASSUME HInv, core' = core PROVE CoreStep
<1>1. core = core \o <<>> /\ Numbered(<<>>) /\ Len(<<>>) = 0
  BY GrowsByNothing, ShortChains DEF HInv
<1>2. \A i \in 1..Len(<<>>) : FALSE
  BY <1>1
<1>3. Keeps(<<>>)
  BY <1>1, ChainFacts DEF Keeps, HInv
<1> QED BY <1>1, <1>2, <1>3 DEF CoreStep

\* A record of the core head that follows those before it; credits follow more.
LEMMA AppendHostSteps ==
    ASSUME HInv, NEW r, AppendHost(r), DraftStep, r.core = Len(core), r.kind # "credit",
           RecordInOrder(host \o <<r>>, Len(host) + 1, ledger),
           HasPacket(r) /\ r.packet.contract # None => Suffices(r, host, core)
    PROVE  Step
<1>1. /\ core' = core \o <<>> /\ host' = host \o <<r>> /\ core # <<>>
      /\ ledger' = ledger /\ target' = target /\ gates' = gates
  BY DEF AppendHost, Write
<1>2. core' = core /\ SubSeq(core, 1, Len(core)) = core
  BY <1>1, GrowsByNothing, WholeChain DEF HInv
<1>3. r.core \in 1..Len(core)
  <2>1. Len(core) \in Nat /\ core \in Seq({core[i] : i \in DOMAIN core})
    BY ChainFacts DEF HInv, Numbered
  <2>2. Len(core) # 0
    BY <1>1, <2>1
  <2> QED BY <2>1, <2>2
<1>4. NewHostRecord(r)
  <2>1. host'[Len(host) + 1] = r
    BY <1>1, GrowsByOne DEF HInv
  <2>2. CreditFollows(host', Len(host) + 1, core')
    BY <2>1 DEF CreditFollows
  <2> QED BY <1>1, <1>2, <1>3, <2>2 DEF NewHostRecord
<1>5. HostStep /\ CoreStep
  BY <1>2, <1>4, CoreAlone DEF HostStep
<1>6. LedgerStep /\ GateStep /\ target' \in Targets
  BY <1>1 DEF LedgerStep, GateStep, HInv
<1> QED BY <1>5, <1>6 DEF Step

\* Where the new record is.
LEMMA NewIsLast ==
    ASSUME HInv, NEW r
    PROVE  /\ (host \o <<r>>)[Len(host) + 1] = r
           /\ DOMAIN host = 1..Len(host) /\ Len(host) \in Nat
           /\ \A k \in 1..Len(host) : (host \o <<r>>)[k] = host[k]
           /\ \A k \in 1..((Len(host) + 1) - 1) : k \in DOMAIN host
           /\ \A k \in DOMAIN host : RecordInOrder(host, k, ledger)
<1>1. Len(host) \in Nat /\ DOMAIN host = 1..Len(host)
  BY ChainFacts DEF HInv
<1>2. /\ (host \o <<r>>)[Len(host) + 1] = r
      /\ \A k \in 1..Len(host) : (host \o <<r>>)[k] = host[k]
  BY GrowsByOne, GrowsFacts DEF HInv
<1> QED BY <1>1, <1>2 DEF HInv, HostInOrder

\* Records that are neither dispatches nor reviews follow any.
LEMMA OtherRecords ==
    ASSUME HInv, NEW r, r.unit = Unit, r.kind \notin {"dispatch", "review"}
    PROVE  RecordInOrder(host \o <<r>>, Len(host) + 1, ledger) /\ ~HasPacket(r)
<1>1. (host \o <<r>>)[Len(host) + 1] = r
  BY NewIsLast
<1> QED BY <1>1 DEF RecordInOrder, Reviews, Implements, FollowsDecision, ReviewerChosen,
                     AnswersDispatch, AnswersLaunch, HasPacket

\* An implementation is dispatched on the decision in force.
LEMMA ImplementationFollows ==
    ASSUME HInv, NEW d, NEW at, d.unit = Unit, d.kind = "dispatch",
           d.role = "implementation", EvaluateDispatch(host, d, at)
    PROVE  RecordInOrder(host \o <<d>>, Len(host) + 1, ledger) /\ ~HasPacket(d)
<1> DEFINE g == host \o <<d>>
           n == Len(host) + 1
           j == latestDecision(host, Unit)
<1>1. /\ g[n] = d /\ DOMAIN host = 1..Len(host) /\ Len(host) \in Nat
      /\ \A k \in 1..Len(host) : g[k] = host[k]
      /\ \A k \in DOMAIN host : RecordInOrder(host, k, ledger)
  BY NewIsLast
<1>2. j # 0 /\ host[j].mode = "DELEGATE" /\ sameRoute(host[j], d)
  BY DEF EvaluateDispatch
<1>3. /\ j \in Of(host, "decision", Unit) /\ j \in DOMAIN host
      /\ \A k \in Of(host, "decision", Unit) : k <= j
  BY <1>2, DecisionFacts DEF HInv
<1>4. host[j].kind = "decision"
  <2> HIDE DEF j
  <2> QED BY <1>3 DEF Of
<1>5. \A k \in DOMAIN host : host[k].kind = "decision" => k <= j
  <2>1. \A k \in DOMAIN host : host[k].kind = "decision" => k \in Of(host, "decision", Unit)
    BY <1>1 DEF Of, RecordInOrder
  <2> HIDE DEF j
  <2> QED BY <1>3, <2>1
<1>6. FollowsDecision(g, n)
  <2> HIDE DEF j, g
  <2>1. j \in 1..(n - 1) /\ g[j] = host[j]
    BY <1>1, <1>3
  <2>2. \A k \in (j + 1)..(n - 1) : g[k].kind # "decision"
    BY <1>1, <1>3, <1>5
  <2> QED BY <1>1, <1>2, <1>4, <2>1, <2>2 DEF FollowsDecision
<1>7. ReviewerChosen(g, n) /\ AnswersDispatch(g, n) /\ AnswersLaunch(g, n, ledger)
      /\ (Reviews(g[n]) => g[n].risk \in Nat)
  <2> HIDE DEF g
  <2> QED BY <1>1 DEF Reviews, ReviewerChosen, AnswersDispatch, AnswersLaunch
<1>8. ~HasPacket(d)
  BY DEF HasPacket, Reviews
<1> QED BY <1>1, <1>6, <1>7, <1>8 DEF RecordInOrder

\* A reviewer is chosen apart from everyone who implemented.
LEMMA ReviewFollows ==
    ASSUME HInv, NEW d, NEW at, d.unit = Unit, Reviews(d), d.risk \in Nat,
           EvaluateDispatch(host, d, at)
    PROVE  RecordInOrder(host \o <<d>>, Len(host) + 1, ledger)
<1> DEFINE g == host \o <<d>>
           n == Len(host) + 1
           m == RequireImplementation(host, Unit)
<1>1. /\ g[n] = d /\ DOMAIN host = 1..Len(host) /\ Len(host) \in Nat
      /\ \A k \in 1..Len(host) : g[k] = host[k]
      /\ \A k \in DOMAIN host : RecordInOrder(host, k, ledger)
  BY NewIsLast
<1>2. d.kind = "dispatch" /\ d.role = "review" /\ d.role # "implementation"
  BY DEF Reviews
<1>3. /\ m # 0 /\ d.implementation = m
      /\ d.packet = None => ~packetMode(host)
      /\ IndependentOfAll(host, d)
  BY <1>2 DEF EvaluateDispatch
<1>4. m \in DOMAIN host
  BY <1>3, ImplementationFacts DEF HInv
<1>5. \A j \in DOMAIN host :
          Contributes(host[j]) => Independent(d.seat, host[j].seat, Strong(d))
  <2>1. \A j \in DOMAIN host : Contributes(host[j]) =>
            j \in implementationContributions(host, d.unit)
    BY <1>1 DEF Contributes, Implements, implementationContributions, Of, RecordInOrder
  <2> QED BY <1>3, <2>1 DEF IndependentOfAll
<1>6. ReviewerChosen(g, n)
  <2> HIDE DEF g, m
  <2>1. d.implementation \in 1..(n - 1)
    BY <1>1, <1>3, <1>4
  <2>2. \A j \in 1..(n - 1) :
            Contributes(g[j]) => Independent(d.seat, g[j].seat, Strong(d))
    BY <1>1, <1>5
  <2>3. d.packet = None => \A j \in 1..(n - 1) : ~HasPacket(g[j])
    BY <1>1, <1>3 DEF packetMode
  <2> QED BY <1>1, <2>1, <2>2, <2>3 DEF ReviewerChosen
<1>7. /\ FollowsDecision(g, n) /\ AnswersDispatch(g, n) /\ AnswersLaunch(g, n, ledger)
      /\ g[n].risk \in Nat
  <2> HIDE DEF g
  <2> QED BY <1>1, <1>2 DEF Implements, FollowsDecision, AnswersDispatch, AnswersLaunch
<1> QED BY <1>1, <1>6, <1>7 DEF RecordInOrder

\* What a review says.
LEMMA ReviewFields ==
    ASSUME NEW i, NEW verdict, NEW receipt, NEW isolation
    PROVE  LET v == ReviewOf(i, verdict, receipt, isolation) IN
           /\ v.kind = "review" /\ v.unit = Unit /\ v.core = Len(core)
           /\ v.dispatch = i /\ v.implementation = host[i].implementation
           /\ v.target = host[i].target /\ v.receipt = receipt
<1> DEFINE e == Envelope("review")
           b == [dispatch |-> i, implementation |-> host[i].implementation,
                 target |-> host[i].target, verdict |-> verdict,
                 receipt |-> receipt, isolation |-> isolation]
           v == e ++ b
<1>1. /\ DOMAIN e = {"kind", "unit", "core", "at"}
      /\ e["kind"] = "review" /\ e["unit"] = Unit /\ e["core"] = Len(core)
  BY DEF Envelope
<1>2. /\ DOMAIN b = {"dispatch", "implementation", "target", "verdict", "receipt", "isolation"}
      /\ b["dispatch"] = i /\ b["implementation"] = host[i].implementation
      /\ b["target"] = host[i].target /\ b["receipt"] = receipt
  OBVIOUS
<1>3. v = ReviewOf(i, verdict, receipt, isolation)
  BY DEF ReviewOf
<1> HIDE DEF e, b
<1>4. \A f \in DOMAIN e : v[f] = e[f]
  BY Beside
<1>5. \A f \in DOMAIN b \ DOMAIN e : v[f] = b[f]
  BY Beside
<1> HIDE DEF v
<1>6. /\ v["kind"] = "review" /\ v["unit"] = Unit /\ v["core"] = Len(core)
      /\ v["dispatch"] = i /\ v["implementation"] = host[i].implementation
      /\ v["target"] = host[i].target /\ v["receipt"] = receipt
  BY <1>1, <1>2, <1>4, <1>5
<1> QED BY <1>3, <1>6

\* A review of what its dispatch was for; an imported one is the first of its
\* dispatch, at the core head the packet was made for, of a launch for it.
LEMMA ReviewAnswers ==
    ASSUME HInv, NEW i \in Of(host, "dispatch", Unit), NEW verdict, NEW receipt,
           NEW isolation, EvaluateReview(host, ReviewOf(i, verdict, receipt, isolation)),
           receipt # None =>
              /\ host[i].core = Len(core)
              /\ \A j \in DOMAIN host : host[j].kind = "review" => host[j].dispatch # i
              /\ \E l \in ledger :
                    /\ l.run = receipt /\ l.report.packet = i /\ l.target = host[i].target
                    /\ host[i].at <= l.started /\ l.started < host[i].packet.until
    PROVE  LET v == ReviewOf(i, verdict, receipt, isolation) IN
           /\ RecordInOrder(host \o <<v>>, Len(host) + 1, ledger)
           /\ ~HasPacket(v) /\ v.core = Len(core) /\ v.kind # "credit"
<1> DEFINE v == ReviewOf(i, verdict, receipt, isolation)
           g == host \o <<v>>
           n == Len(host) + 1
<1>1. /\ g[n] = v /\ DOMAIN host = 1..Len(host) /\ Len(host) \in Nat
      /\ \A k \in 1..Len(host) : g[k] = host[k]
      /\ \A k \in DOMAIN host : RecordInOrder(host, k, ledger)
  BY NewIsLast
<1>2. /\ v.kind = "review" /\ v.unit = Unit /\ v.core = Len(core)
      /\ v.dispatch = i /\ v.implementation = host[i].implementation
      /\ v.target = host[i].target /\ v.receipt = receipt
  BY ReviewFields
<1>3. EvaluateReview(host, v)
  OBVIOUS
<1> HIDE DEF v
<1>4. /\ Reviews(host[i])
      /\ v.receipt # None <=> host[i].packet # None
  BY <1>2, <1>3 DEF EvaluateReview
<1>5. i \in 1..(n - 1) /\ i \in DOMAIN host
  BY <1>1 DEF Of
<1> HIDE DEF g, n
<1>6. g[i] = host[i] /\ \A j \in 1..(n - 1) : g[j] = host[j] /\ j \in DOMAIN host
  BY <1>1, <1>5 DEF n
<1>7. AnswersDispatch(g, n)
  BY <1>1, <1>2, <1>4, <1>5, <1>6 DEF AnswersDispatch
<1>8. AnswersLaunch(g, n, ledger)
  BY <1>1, <1>2, <1>6 DEF AnswersLaunch
<1>9. ~Reviews(v) /\ ~Implements(v) /\ ~HasPacket(v)
  BY <1>2 DEF Reviews, Implements, HasPacket
<1>10. RecordInOrder(g, n, ledger)
  BY <1>1, <1>2, <1>7, <1>8, <1>9 DEF RecordInOrder, FollowsDecision, ReviewerChosen
<1> QED BY <1>2, <1>9, <1>10 DEF g, n, v

LEMMA RecordReviewSteps == ASSUME HInv, RecordReview PROVE Step
<1>1. PICK i \in Of(host, "dispatch", Unit), verdict \in {"APPROVE", "BLOCK"} :
          /\ EvaluateReview(host, ReviewOf(i, verdict, None, None))
          /\ AppendHost(ReviewOf(i, verdict, None, None))
  BY DEF RecordReview
<1> DEFINE v == ReviewOf(i, verdict, None, None)
<1>2. /\ RecordInOrder(host \o <<v>>, Len(host) + 1, ledger)
      /\ ~HasPacket(v) /\ v.core = Len(core) /\ v.kind # "credit"
  BY <1>1, ReviewAnswers
<1>3. DraftStep
  BY DEF RecordReview, DraftStep
<1> HIDE DEF v
<1>4. AppendHost(v)
  BY <1>1 DEF v
<1> QED BY <1>2, <1>3, <1>4, AppendHostSteps

LEMMA ReviewImportSteps == ASSUME HInv, ReviewImport PROVE Step
<1>1. PICK i \in Of(host, "dispatch", Unit), l \in ledger :
          /\ HasPacket(host[i])
          /\ host[i].core = Len(core)
          /\ EvaluateReviewImport(host, i, l, l.report)
          /\ LET v == ReviewOf(i, MapReportVerdict(l.report), l.run, l.report.isolation)
             IN  EvaluateReview(host, v) /\ AppendHost(v)
  BY DEF ReviewImport
<1> DEFINE v == ReviewOf(i, MapReportVerdict(l.report), l.run, l.report.isolation)
<1>2. /\ \A j \in DOMAIN host : host[j].kind = "review" => host[j].dispatch # i
      /\ l.report.packet = i /\ l.target = host[i].target
      /\ host[i].at <= l.started /\ l.started < host[i].packet.until
  BY <1>1 DEF EvaluateReviewImport, Answerable, ReviewLaunchMatches
<1>3. /\ RecordInOrder(host \o <<v>>, Len(host) + 1, ledger)
      /\ ~HasPacket(v) /\ v.core = Len(core) /\ v.kind # "credit"
  BY <1>1, <1>2, ReviewAnswers
<1>4. DraftStep
  BY DEF ReviewImport, DraftStep
<1> HIDE DEF v
<1>5. AppendHost(v)
  BY <1>1 DEF v
<1> QED BY <1>3, <1>4, <1>5, AppendHostSteps

\* A record with an envelope.
Enveloped(v, kind) ==
    /\ {"kind", "unit", "core", "at"} \subseteq DOMAIN v
    /\ v.kind = kind /\ v.unit = Unit /\ v.core = Len(core) /\ v.at = clock

LEMMA EnvelopeStays ==
    ASSUME NEW kind
    PROVE  /\ Enveloped(Envelope(kind), kind)
           /\ \A e, r : Enveloped(e, kind) => Enveloped(e ++ r, kind)
<1>1. Enveloped(Envelope(kind), kind)
  BY DEF Enveloped, Envelope
<1>2. ASSUME NEW e, NEW r, Enveloped(e, kind) PROVE Enveloped(e ++ r, kind)
  <2>1. DOMAIN e \subseteq DOMAIN (e ++ r) /\ \A f \in DOMAIN e : (e ++ r)[f] = e[f]
    BY Beside
  <2> DEFINE v == e ++ r
  <2> HIDE DEF v
  <2>2. DOMAIN e \subseteq DOMAIN v /\ \A f \in DOMAIN e : v[f] = e[f]
    BY <2>1 DEF v
  <2>3. Enveloped(v, kind)
    BY <1>2, <2>2 DEF Enveloped
  <2> QED BY <2>3 DEF v
<1> QED BY <1>1, <1>2

LEMMA BindRepositorySteps == ASSUME HInv, BindRepository PROVE Step
<1> DEFINE r == Envelope("repository")
<1>1. r.unit = Unit /\ r.kind = "repository" /\ r.core = Len(core)
  BY DEF Envelope
<1>2. AppendHost(r) /\ DraftStep
  BY DEF BindRepository, DraftStep
<1> HIDE DEF r
<1>3. RecordInOrder(host \o <<r>>, Len(host) + 1, ledger) /\ ~HasPacket(r)
  BY <1>1, OtherRecords
<1> QED BY <1>1, <1>2, <1>3, AppendHostSteps

LEMMA DecideSteps == ASSUME HInv, Decide PROVE Step
<1>1. PICK o \in Decisions, s \in {0, latestDecision(host, Unit)} :
          LET d == Envelope("decision") ++ Route(o.seat) ++ [mode |-> o.mode, supersedes |-> s]
          IN  EvaluateDecision(host, d) /\ AppendHost(d)
  BY DEF Decide
<1> DEFINE d == Envelope("decision") ++ Route(o.seat) ++ [mode |-> o.mode, supersedes |-> s]
<1>2. Enveloped(d, "decision")
  BY EnvelopeStays
<1>3. AppendHost(d) /\ DraftStep
  BY <1>1 DEF Decide, DraftStep
<1> HIDE DEF d
<1>4. d.unit = Unit /\ d.kind = "decision" /\ d.core = Len(core)
  BY <1>2 DEF Enveloped
<1>5. RecordInOrder(host \o <<d>>, Len(host) + 1, ledger) /\ ~HasPacket(d)
  BY <1>4, OtherRecords
<1> QED BY <1>3, <1>4, <1>5, AppendHostSteps

LEMMA PreflightSteps == ASSUME HInv, Preflight PROVE Step
<1>1. PICK seat \in Seats, role \in {"implementation", "review"},
           status \in {"AVAILABLE", "UNAVAILABLE"} :
          LET p == Envelope("preflight") ++ Route(seat)
                   ++ [role |-> role, status |-> status, expires |-> clock + TTL]
          IN  EvaluatePreflight(host, p, clock) /\ AppendHost(p)
  BY DEF Preflight
<1> DEFINE p == Envelope("preflight") ++ Route(seat)
                ++ [role |-> role, status |-> status, expires |-> clock + TTL]
<1>2. Enveloped(p, "preflight")
  BY EnvelopeStays
<1>3. AppendHost(p) /\ DraftStep
  BY <1>1 DEF Preflight, DraftStep
<1> HIDE DEF p
<1>4. p.unit = Unit /\ p.kind = "preflight" /\ p.core = Len(core)
  BY <1>2 DEF Enveloped
<1>5. RecordInOrder(host \o <<p>>, Len(host) + 1, ledger) /\ ~HasPacket(p)
  BY <1>4, OtherRecords
<1> QED BY <1>3, <1>4, <1>5, AppendHostSteps

LEMMA DispatchImplementationSteps == ASSUME HInv, DispatchImplementation PROVE Step
<1>1. PICK i \in Of(host, "preflight", Unit) :
          LET d == Envelope("dispatch") ++ Route(host[i].seat)
                   ++ [role |-> "implementation", preflight |-> i]
          IN  EvaluateDispatch(host, d, clock) /\ AppendHost(d)
  BY DEF DispatchImplementation
<1> DEFINE e == Envelope("dispatch") ++ Route(host[i].seat)
           b == [role |-> "implementation", preflight |-> i]
           d == e ++ b
<1>2. Enveloped(d, "dispatch")
  BY EnvelopeStays
<1>3. EvaluateDispatch(host, d, clock) /\ AppendHost(d) /\ DraftStep
  BY <1>1 DEF DispatchImplementation, DraftStep
<1>4. d.role = "implementation"
  <2>1. DOMAIN e = DOMAIN Envelope("dispatch") \cup DOMAIN Route(host[i].seat)
    BY Beside
  <2>2. "role" \notin DOMAIN e
    BY <2>1 DEF Envelope, Route
  <2>3. "role" \in DOMAIN b /\ b["role"] = "implementation"
    OBVIOUS
  <2> HIDE DEF e, b
  <2>4. \A f \in DOMAIN b \ DOMAIN e : d[f] = b[f]
    BY Beside
  <2>5. d["role"] = b["role"]
    BY <2>2, <2>3, <2>4
  <2> QED BY <2>3, <2>5
<1> HIDE DEF d
<1>5. d.unit = Unit /\ d.kind = "dispatch" /\ d.core = Len(core)
  BY <1>2 DEF Enveloped
<1>6. RecordInOrder(host \o <<d>>, Len(host) + 1, ledger) /\ ~HasPacket(d)
  BY <1>3, <1>4, <1>5, ImplementationFollows
<1> QED BY <1>3, <1>5, <1>6, AppendHostSteps

\* What a review dispatch says.
ReviewBody(i, o, t) ==
    [role |-> "review", preflight |-> i, target |-> t,
     implementation |-> RequireImplementation(host, Unit),
     risk |-> o.risk, disputed |-> o.disputed, final |-> o.final, packet |-> None]

LEMMA DispatchFields ==
    ASSUME NEW i, NEW o \in Offers, NEW t
    PROVE  LET d == ReviewDispatch(i, o, t) IN
           /\ d = [f \in DOMAIN d |-> d[f]]
           /\ {"kind", "unit", "core", "role", "target", "risk", "disputed", "packet"}
                 \subseteq DOMAIN d
           /\ "required" \notin DOMAIN d
           /\ Reviews(d) /\ d.unit = Unit /\ d.core = Len(core)
           /\ d.target = t /\ d.risk = o.risk /\ d.disputed = o.disputed /\ d.packet = None
           /\ d.risk \in Nat /\ Enveloped(d, "dispatch")
<1> DEFINE e == Envelope("dispatch") ++ Route(o.seat)
           b == ReviewBody(i, o, t)
           d == e ++ b
<1>1. /\ Enveloped(d, "dispatch") /\ d = ReviewDispatch(i, o, t)
      /\ DOMAIN e = {"kind", "unit", "core", "at"} \cup {"seat", "approval"}
  <2>1. DOMAIN e = DOMAIN Envelope("dispatch") \cup DOMAIN Route(o.seat)
    BY Beside
  <2> QED BY <2>1, EnvelopeStays DEF ReviewDispatch, ReviewBody, Envelope, Route
<1>2. /\ DOMAIN b = {"role", "preflight", "target", "implementation", "risk", "disputed",
                     "final", "packet"}
      /\ b["role"] = "review" /\ b["target"] = t /\ b["risk"] = o.risk
      /\ b["disputed"] = o.disputed /\ b["packet"] = None
  BY DEF ReviewBody
<1>3. d = [f \in DOMAIN d |-> d[f]]
  BY DEF ++
<1> HIDE DEF e, b
<1>4. DOMAIN d = DOMAIN e \cup DOMAIN b /\ \A f \in DOMAIN b \ DOMAIN e : d[f] = b[f]
  BY Beside
<1> HIDE DEF d
<1>5. /\ d["role"] = "review" /\ d["target"] = t /\ d["risk"] = o.risk
      /\ d["disputed"] = o.disputed /\ d["packet"] = None
  BY <1>1, <1>2, <1>4
<1>6. /\ {"kind", "unit", "core", "role", "target", "risk", "disputed", "packet"}
            \subseteq DOMAIN d
      /\ "required" \notin DOMAIN d
  BY <1>1, <1>2, <1>4
<1>7. o.risk \in Nat
  BY ReviewAssumption
<1>8. Reviews(d) /\ d.unit = Unit /\ d.core = Len(core)
  BY <1>1, <1>5 DEF Enveloped, Reviews
<1> QED BY <1>1, <1>3, <1>5, <1>6, <1>7, <1>8

LEMMA DispatchReviewSteps == ASSUME HInv, DispatchReview PROVE Step
<1>1. PICK i \in Of(host, "preflight", Unit), o \in Offers, t \in Targets :
          LET d == ReviewDispatch(i, o, t)
          IN  EvaluateDispatch(host, d, clock) /\ AppendHost(d)
  BY DEF DispatchReview
<1> DEFINE d == ReviewDispatch(i, o, t)
<1>2. /\ Reviews(d) /\ d.unit = Unit /\ d.core = Len(core)
      /\ d.packet = None /\ d.risk \in Nat
  BY DispatchFields
<1>3. EvaluateDispatch(host, d, clock) /\ AppendHost(d) /\ DraftStep
  BY <1>1 DEF DispatchReview, DraftStep
<1> HIDE DEF d
<1>4. RecordInOrder(host \o <<d>>, Len(host) + 1, ledger) /\ ~HasPacket(d)
  BY <1>2, <1>3, ReviewFollows DEF HasPacket
<1>5. d.kind # "credit"
  BY <1>2 DEF Reviews
<1> QED BY <1>2, <1>3, <1>4, <1>5, AppendHostSteps

\* What a packet says.
LEMMA PacketFields ==
    ASSUME NEW o, NEW run
    PROVE  LET p == Packet(o, run) IN
           /\ p.reason = o.reason /\ p.run = run
           /\ BoundContractDigest(core) = None => p.contract = None
           /\ BoundContractDigest(core) # None =>
                 /\ p.contract = BoundContractDigest(core)
                 /\ p.covers = CurrentCovers(core, Unit)
                 /\ p.triggers = Classified(o).triggers
                 /\ p.family = Classified(o).family
<1> DEFINE plain == [run |-> run, reason |-> o.reason, until |-> clock + TTL,
                     contract |-> None, triggers |-> {}, family |-> FALSE]
           e == [covers |-> CurrentCovers(core, Unit)]
           b == [plain EXCEPT !.contract = BoundContractDigest(core),
                              !.triggers = Classified(o).triggers,
                              !.family = Classified(o).family]
<1>1. CASE BoundContractDigest(core) = None
  BY <1>1 DEF Packet
<1>2. CASE BoundContractDigest(core) # None
  <2> DEFINE p == e ++ b
  <2>1. p = Packet(o, run)
    BY <1>2 DEF Packet
  <2>2. /\ DOMAIN e = {"covers"} /\ e["covers"] = CurrentCovers(core, Unit)
        /\ DOMAIN b = {"run", "reason", "until", "contract", "triggers", "family"}
        /\ b["run"] = run /\ b["reason"] = o.reason
        /\ b["contract"] = BoundContractDigest(core)
        /\ b["triggers"] = Classified(o).triggers /\ b["family"] = Classified(o).family
    OBVIOUS
  <2> HIDE DEF e, b, plain
  <2>3. /\ \A f \in DOMAIN e : p[f] = e[f]
        /\ \A f \in DOMAIN b \ DOMAIN e : p[f] = b[f]
    BY Beside
  <2> HIDE DEF p
  <2>4. /\ p["covers"] = CurrentCovers(core, Unit)
        /\ p["run"] = run /\ p["reason"] = o.reason
        /\ p["contract"] = BoundContractDigest(core)
        /\ p["triggers"] = Classified(o).triggers /\ p["family"] = Classified(o).family
    BY <2>2, <2>3
  <2> QED BY <1>2, <2>1, <2>4
<1> QED BY <1>1, <1>2

\* The packet is built from chains under which it suffices.
LEMMA PacketReadSteps == ASSUME HInv, PacketRead PROVE Step
<1>1. PICK i \in Of(host, "preflight", Unit), o \in Offers, run \in Runs :
          /\ BoundContractDigest(core) # None => o.reason >= Classified(o).level
          /\ draft' = [ReviewDispatch(i, o, target) EXCEPT !.packet = Packet(o, run)]
                      ++ [required |-> IF BoundContractDigest(core) = None THEN 0
                                       ELSE Classified(o).required]
  BY DEF PacketRead
<1> DEFINE d == ReviewDispatch(i, o, target)
           p == Packet(o, run)
           e == [d EXCEPT !.packet = p]
           b == [required |-> IF BoundContractDigest(core) = None THEN 0
                              ELSE Classified(o).required]
           v == e ++ b
<1>2. /\ d = [f \in DOMAIN d |-> d[f]]
      /\ {"kind", "unit", "core", "role", "target", "risk", "disputed", "packet"}
            \subseteq DOMAIN d
      /\ "required" \notin DOMAIN d
      /\ Reviews(d) /\ d.unit = Unit /\ d.core = Len(core)
      /\ d.target = target /\ d.risk = o.risk /\ d.disputed = o.disputed /\ d.risk \in Nat
  BY DispatchFields
<1>3. draft' = v /\ core' = core /\ host' = host /\ ledger' = ledger
      /\ target' = target /\ gates' = gates
  BY <1>1 DEF PacketRead
<1>4. v = [f \in DOMAIN v |-> v[f]]
  BY DEF ++
<1>5. /\ p.reason = o.reason /\ o.reason \in Nat
      /\ BoundContractDigest(core) = None => p.contract = None
      /\ BoundContractDigest(core) # None =>
            /\ p.contract = BoundContractDigest(core)
            /\ p.covers = CurrentCovers(core, Unit)
            /\ p.triggers = Classified(o).triggers
            /\ p.family = Classified(o).family
  BY PacketFields, ReviewAssumption
<1> HIDE DEF d, p
<1>6. DOMAIN e = DOMAIN d /\ e["packet"] = p /\ \A f \in DOMAIN d \ {"packet"} : e[f] = d[f]
  BY <1>2
<1>7. DOMAIN b = {"required"} /\
      b["required"] = IF BoundContractDigest(core) = None THEN 0 ELSE Classified(o).required
  OBVIOUS
<1> HIDE DEF e, b
<1>8. /\ \A f \in DOMAIN e : v[f] = e[f]
      /\ \A f \in DOMAIN b \ DOMAIN e : v[f] = b[f]
  BY Beside
<1> HIDE DEF v
<1>9. /\ v.kind = d.kind /\ v.unit = d.unit /\ v.core = d.core /\ v.role = d.role
      /\ v.target = d.target /\ v.risk = d.risk /\ v.disputed = d.disputed
      /\ v.packet = p
  BY <1>2, <1>6, <1>8
<1>10. v.required = IF BoundContractDigest(core) = None THEN 0 ELSE Classified(o).required
  BY <1>2, <1>6, <1>7, <1>8
<1>11. Reviews(v)
  BY <1>2, <1>9 DEF Reviews
<1>12. ASSUME v.packet.contract # None, v.risk >= v.required
       PROVE  Suffices(v, host, core)
  <2>1. BoundContractDigest(core) # None
    BY <1>5, <1>9, <1>12
  <2>2. CheckpointInput(host, core, Unit, v.target, CurrentStage(core), v.risk, v.disputed)
        = CheckpointInput(host, core, Unit, target, CurrentStage(core), o.risk, o.disputed)
    BY <1>2, <1>9
  <2>3. ClassifyCheckpoint(CheckpointInput(host, core, Unit, v.target, CurrentStage(core),
                                           v.risk, v.disputed)) = Classified(o)
    BY <2>2 DEF Classified
  <2>4. Classified(o).level <= v.packet.reason /\ Classified(o).required <= v.risk
    BY <1>1, <1>5, <1>9, <1>10, <1>12, <2>1
  <2> QED BY <1>5, <1>9, <2>1, <2>3, <2>4 DEF Suffices
<1>13. DraftOK'
  <2>1. v.core \in 0..Len(core) /\ v.packet.reason \in Nat
    BY <1>2, <1>5, <1>9, ChainFacts DEF HInv
  <2> QED BY <1>2, <1>3, <1>4, <1>9, <1>11, <1>12, <2>1 DEF DraftOK
<1>14. HostStep /\ CoreStep /\ DraftStep
  BY <1>3, <1>13, CoreAlone DEF HostStep, DraftStep
<1>15. LedgerStep /\ GateStep /\ target' \in Targets
  BY <1>3 DEF LedgerStep, GateStep, HInv
<1> QED BY <1>14, <1>15 DEF Step

\* It is recorded only while the core chain stands.
LEMMA PacketCommitSteps == ASSUME HInv, PacketCommit PROVE Step
<1> DEFINE r == [draft EXCEPT !.core = Len(core)]
<1>1. draft # None /\ PacketCommits(draft) /\ AppendHost(r) /\ draft' = None
  BY DEF PacketCommit
<1>2. /\ draft = [f \in DOMAIN draft |-> draft[f]]
      /\ Reviews(draft) /\ draft.unit = Unit /\ draft.risk \in Nat
      /\ Len(core) = draft.core /\ draft.packet.contract # None
            /\ draft.risk >= draft.required => Suffices(draft, host, core)
  BY <1>1 DEF HInv, DraftOK
<1>3. /\ Len(core) = draft.core /\ draft.risk >= draft.required
      /\ EvaluateDispatch(host, draft, draft.at)
  BY <1>1 DEF PacketCommits
<1>4. r = draft
  BY <1>2, <1>3
<1> HIDE DEF r
<1>5. RecordInOrder(host \o <<r>>, Len(host) + 1, ledger)
  BY <1>2, <1>3, <1>4, ReviewFollows
<1>6. HasPacket(r) /\ r.packet.contract # None => Suffices(r, host, core)
  BY <1>2, <1>3, <1>4
<1>7. DraftStep /\ r.core = Len(core) /\ r.kind # "credit"
  BY <1>1, <1>2, <1>3, <1>4 DEF DraftStep, Reviews
<1> QED BY <1>1, <1>5, <1>6, <1>7, AppendHostSteps

LEMMA PacketDropSteps == ASSUME HInv, PacketDrop PROVE Step
<1>1. /\ core' = core /\ host' = host /\ ledger' = ledger /\ target' = target
      /\ gates' = gates /\ draft' = None
  BY DEF PacketDrop
<1>2. CoreStep
  BY <1>1, CoreAlone
<1> QED BY <1>1, <1>2 DEF Step, HostStep, LedgerStep, DraftStep, GateStep, HInv

-----------------------------------------------------------------------------
(* The steps that write the core chain, and the others.                    *)

LEMMA LaunchReviewerSteps == ASSUME HInv, LaunchReviewer PROVE Step
<1>1. /\ core' = core /\ host' = host /\ target' = target /\ gates' = gates /\ draft' = draft
  BY DEF LaunchReviewer
<1>2. PICK run \in Runs, o \in Launches,
           i \in {j \in Of(host, "dispatch", Unit) : HasPacket(host[j])} :
          /\ run \notin {l.run : l \in ledger}
          /\ ledger' = ledger \cup
                {[run |-> run, mode |-> "review", worker |-> o.seat.worker,
                  model |-> o.seat.model, target |-> target, started |-> clock,
                  report |-> o.report ++ [packet |-> i]]}
  BY DEF LaunchReviewer
<1> DEFINE n == [run |-> run, mode |-> "review", worker |-> o.seat.worker,
                 model |-> o.seat.model, target |-> target, started |-> clock,
                 report |-> o.report ++ [packet |-> i]]
<1>3. n.run = run /\ ledger' = ledger \cup {n}
  BY <1>2
<1> HIDE DEF n
<1>4. LedgerStep
  BY <1>2, <1>3 DEF LedgerStep, OneLaunchPerRun, HInv
<1>5. CoreStep
  BY <1>1, CoreAlone
<1> QED BY <1>1, <1>4, <1>5 DEF Step, HostStep, DraftStep, GateStep, HInv

\* What is appended to the core chain alone.
LEMMA WriteCoreSteps ==
    ASSUME HInv, NEW rs, Numbered(rs), Write(rs, <<>>),
           \A i \in 1..Len(rs) : CoreRecordInOrder(rs[i], host), Keeps(rs),
           UNCHANGED <<ledger, target, draft>>, GateStep
    PROVE  Step
<1>1. core' = core \o rs /\ host' = host
  BY GrowsByNothing DEF Write, HInv
<1>2. HostStep /\ CoreStep
  BY <1>1 DEF HostStep, CoreStep
<1> QED BY <1>2 DEF Step, LedgerStep, DraftStep, HInv

\* One record that gives no criteria, or those there are.
LEMMA OneCoreRecord ==
    ASSUME HInv, NEW r, CoreRecordInOrder(r, host), r.kind # "criterion",
           r.criteria \in {NoMap, Criteria(core)}
    PROVE  /\ Numbered(<<r>>) /\ \A i \in 1..Len(<<r>>) : CoreRecordInOrder(<<r>>[i], host)
           /\ Keeps(<<r>>)
<1>1. Numbered(<<r>>) /\ Len(<<r>>) = 1 /\ <<r>>[1] = r
  BY ShortChains
<1>2. \A i \in 1..Len(<<r>>) : i = 1
  BY <1>1
<1> DEFINE d == core \o <<r>>
           n == Len(core) + 1
<1>3. /\ Len(core) \in Nat /\ DOMAIN core = 1..Len(core) /\ Len(d) = n /\ d[n] = r
      /\ \A k \in 1..Len(core) : d[k] = core[k]
  BY GrowsByOne, GrowsFacts DEF HInv
<1> HIDE DEF d
<1>4. ASSUME r.criteria # NoMap
      PROVE  /\ DOMAIN r.criteria # {}
             /\ \E j \in 1..Len(core) :
                   /\ core[j].kind = "criterion" /\ core[j].criteria = r.criteria
                   /\ \A m \in (j + 1)..Len(core) : core[m].kind # "criterion"
  <2> DEFINE j == CriteriaAt(core)
  <2>1. r.criteria = Criteria(core) /\ \A k \in DOMAIN core : KeepsCriteria(core, k)
    BY <1>4 DEF HInv, CreditsInOrder
  <2>2. /\ j \in DOMAIN core /\ core[j].kind = "criterion" /\ core[j].criteria = r.criteria
        /\ \A k \in (j + 1)..Len(core) : core[k].kind # "criterion"
    BY <1>4, <2>1, CriteriaAtLast DEF HInv
  <2> HIDE DEF j
  <2>3. DOMAIN r.criteria # {}
    BY <1>4, <2>1, <2>2 DEF KeepsCriteria
  <2> QED BY <1>3, <2>2, <2>3
<1>5. KeepsCriteria(d, n)
  <2>1. n - 1 = Len(core)
    BY <1>3
  <2>2. /\ d[n].criteria = NoMap <=> DOMAIN d[n].criteria = {}
        /\ d[n].kind # "criterion"
    BY <1>3, <1>4, NoCriteria
  <2>3. d[n].criteria # NoMap =>
            \E j \in 1..(n - 1) :
                /\ d[j].kind = "criterion" /\ d[j].criteria = d[n].criteria
                /\ \A m \in (j + 1)..(n - 1) : d[m].kind # "criterion"
    <3> SUFFICES ASSUME d[n].criteria # NoMap
                 PROVE  \E j \in 1..(n - 1) :
                            /\ d[j].kind = "criterion" /\ d[j].criteria = d[n].criteria
                            /\ \A m \in (j + 1)..(n - 1) : d[m].kind # "criterion"
      OBVIOUS
    <3>1. PICK j \in 1..Len(core) :
              /\ core[j].kind = "criterion" /\ core[j].criteria = r.criteria
              /\ \A m \in (j + 1)..Len(core) : core[m].kind # "criterion"
      BY <1>3, <1>4
    <3>2. d[j] = core[j] /\ \A m \in (j + 1)..Len(core) : d[m] = core[m]
      BY <1>3
    <3> HIDE DEF n
    <3> QED BY <1>3, <2>1, <3>1, <3>2
  <2> HIDE DEF n
  <2> QED BY <2>2, <2>3 DEF KeepsCriteria
<1>6. \A k \in (Len(core) + 1)..Len(d) : k = n
  BY <1>3
<1>7. Keeps(<<r>>)
  BY <1>5, <1>6 DEF Keeps, d
<1> QED BY <1>1, <1>2, <1>7

\* The criteria of a chain in order are a list.
LEMMA CriteriaFinite ==
    ASSUME NEW c, Numbered(c), NEW h, CoreInOrder(c, h)
    PROVE  IsFiniteSet(DOMAIN Criteria(c)) /\ IsFiniteSet(DOMAIN NoMap)
<1> DEFINE I == {k \in 1..Len(c) : c[k].criteria # NoMap}
           s == SelectLastInSeq(c, LAMBDA r : r.criteria # NoMap)
<1>1. s = IF I # {} THEN Max(I) ELSE 0
  BY DEF SelectLastInSeq
<1>2. Criteria(c) = IF s = 0 THEN NoMap ELSE c[s].criteria
  BY DEF Criteria
<1>3. Len(c) \in Nat /\ DOMAIN c = 1..Len(c)
  BY ChainFacts
<1>4. I # {} => Max(I) \in I
  <2>1. I \subseteq 1..Len(c)
    OBVIOUS
  <2> HIDE DEF I
  <2> QED BY <2>1, LastOf
<1>5. \A k \in I : IsFiniteSet(DOMAIN c[k].criteria)
  BY <1>3 DEF CoreInOrder, CoreRecordInOrder
<1>6. IsFiniteSet(DOMAIN NoMap)
  <2>1. DOMAIN NoMap = {}
    BY DEF NoMap
  <2> QED BY <2>1, FS_EmptySet
<1> HIDE DEF I, s
<1>7. s # 0 => s \in I
  BY <1>1, <1>4
<1> QED BY <1>2, <1>5, <1>6, <1>7

\* Evidence, criteria and the decisions a transition records are in order.
LEMMA EvidenceInOrder ==
    ASSUME HInv PROVE CoreRecordInOrder(EvidenceRecord(core, Unit), host)
<1> DEFINE r == EvidenceRecord(core, Unit)
<1>1. r.kind = "evidence" /\ r.snapshot = FALSE /\ r.criteria = NoMap
  BY DEF EvidenceRecord, Blank
<1>2. IsFiniteSet(DOMAIN NoMap)
  BY CriteriaFinite DEF HInv
<1> HIDE DEF r
<1>3. CoreRecordInOrder(r, host)
  BY <1>1, <1>2 DEF CoreRecordInOrder, HoldsEstablished, AcceptsContract, ApprovedMove
<1> QED BY <1>3 DEF r

LEMMA CriteriaInOrder ==
    ASSUME HInv, NEW results PROVE CoreRecordInOrder(CriteriaRecord(core, Unit, results), host)
<1> DEFINE m == [id \in DOMAIN Criteria(core) |->
                    IF id \in DOMAIN results THEN results[id] ELSE Criteria(core)[id]]
           r == CriteriaRecord(core, Unit, results)
<1>1. r.kind = "criterion" /\ r.snapshot = FALSE /\ r.criteria = m
  BY DEF CriteriaRecord, Blank
<1>2. DOMAIN m = DOMAIN Criteria(core)
  OBVIOUS
<1>3. IsFiniteSet(DOMAIN Criteria(core))
  BY CriteriaFinite DEF HInv
<1> HIDE DEF r, m
<1>4. CoreRecordInOrder(r, host)
  BY <1>1, <1>2, <1>3 DEF CoreRecordInOrder, HoldsEstablished, AcceptsContract, ApprovedMove
<1> QED BY <1>4 DEF r

LEMMA OtherEvidenceSteps == ASSUME HInv, OtherEvidence PROVE Step
<1> DEFINE r == EvidenceRecord(core, Unit)
<1>1. Write(<<r>>, <<>>) /\ UNCHANGED <<ledger, target, draft>> /\ GateStep
  BY DEF OtherEvidence, GateStep
<1>2. CoreRecordInOrder(r, host) /\ r.kind # "criterion" /\ r.criteria = NoMap
  BY EvidenceInOrder DEF EvidenceRecord, Blank
<1> HIDE DEF r
<1> QED BY <1>1, <1>2, OneCoreRecord, WriteCoreSteps

LEMMA ChangeTargetSteps == ASSUME HInv, ChangeTarget PROVE Step
<1>1. /\ core' = core /\ host' = host /\ ledger' = ledger /\ draft' = draft
      /\ gates' = gates /\ target' \in Targets
  BY DEF ChangeTarget
<1>2. CoreStep
  BY <1>1, CoreAlone
<1> QED BY <1>1, <1>2 DEF Step, HostStep, LedgerStep, DraftStep, GateStep, HInv

LEMMA TickSteps == ASSUME HInv, Tick PROVE Step
<1>1. /\ core' = core /\ host' = host /\ ledger' = ledger /\ draft' = draft
      /\ gates' = gates /\ target' = target
  BY DEF Tick
<1>2. CoreStep
  BY <1>1, CoreAlone
<1> QED BY <1>1, <1>2 DEF Step, HostStep, LedgerStep, DraftStep, GateStep, HInv

\* The snapshot of an approving review holds all that was imported.
LEMMA ApprovedSnapshot ==
    ASSUME NEW prior, NEW imported, NEW n \in DOMAIN imported
    PROVE  LET fs == SnapshotFindings(prior, Unit, imported, "APPROVE")
               id == FindingID(Unit, n)
           IN  id \in DOMAIN fs /\ fs[id] = [disp |-> imported[n], unit |-> Unit]
<1> DEFINE fs == SnapshotFindings(prior, Unit, imported, "APPROVE")
           id == FindingID(Unit, n)
           theirs == {x \in DOMAIN prior : prior[x].unit # Unit}
           ours == DOMAIN prior \ theirs
           new == {FindingID(Unit, m) : m \in DOMAIN imported}
           holds(x) == /\ x \in ours
                       /\ "APPROVE" # "APPROVE"
                       /\ strength(prior[x].disp) > strength(imported[x.name])
<1>1. fs = [x \in theirs \cup new \cup {} |->
               IF x \in new /\ ~holds(x)
               THEN [disp |-> imported[x.name], unit |-> Unit] ELSE prior[x]]
  BY DEF SnapshotFindings
<1>2. ~holds(id)
  OBVIOUS
<1>3. id \in new /\ id.name = n
  BY DEF FindingID
<1> HIDE DEF fs, id, theirs, new, holds
<1>4. id \in DOMAIN fs /\ fs[id] = [disp |-> imported[n], unit |-> Unit]
  BY <1>1, <1>2, <1>3
<1> QED BY <1>4 DEF fs, id

LEMMA FindingsImportSteps == ASSUME HInv, FindingsImport PROVE Step
<1>1. PICK i \in Of(host, "review", Unit) : Write(<<SnapshotOf(host[i], i)>>, <<>>)
  BY DEF FindingsImport
<1> DEFINE v == host[i]
           im == Imported(ReportOf(v), v.target)
           fs == SnapshotFindings(Findings(core), Unit, im, v.verdict)
           e == [Blank EXCEPT !.unit = Unit, !.snapshot = TRUE, !.findings = fs, !.sealed = fs]
           b == [source |-> i]
           r == e ++ b
<1>2. r = SnapshotOf(v, i)
  BY DEF SnapshotOf
<1>3. /\ {"kind", "snapshot", "findings", "criteria"} \subseteq DOMAIN e
      /\ "source" \notin DOMAIN e
      /\ e["kind"] = "finding" /\ e["criteria"] = NoMap /\ e["findings"] = fs
  BY DEF Blank
<1>4. DOMAIN b = {"source"} /\ b["source"] = i
  OBVIOUS
<1> HIDE DEF fs, e, b
<1>5. /\ \A f \in DOMAIN e : r[f] = e[f]
      /\ \A f \in DOMAIN b \ DOMAIN e : r[f] = b[f]
  BY Beside
<1> HIDE DEF r
<1>6. r.kind = "finding" /\ r.criteria = NoMap /\ r.findings = fs /\ r.source = i
  BY <1>3, <1>4, <1>5
<1>7. i \in DOMAIN host
  BY DEF Of
<1>8. ASSUME v.verdict = "APPROVE", NEW n \in DOMAIN Established[v.target]
      PROVE  /\ FindingID(Unit, n) \in DOMAIN fs
             /\ fs[FindingID(Unit, n)] = [disp |-> Established[v.target][n], unit |-> Unit]
  <2>1. n \in DOMAIN im /\ im[n] = Established[v.target][n]
    BY <1>8 DEF Imported
  <2> HIDE DEF im
  <2>2. fs = SnapshotFindings(Findings(core), Unit, im, "APPROVE")
    BY <1>8 DEF fs
  <2> QED BY <2>1, <2>2, ApprovedSnapshot
<1>9. HoldsEstablished(r, host)
  BY <1>6, <1>7, <1>8 DEF HoldsEstablished
<1>10. CoreRecordInOrder(r, host)
  <2>1. IsFiniteSet(DOMAIN NoMap)
    BY CriteriaFinite DEF HInv
  <2> QED BY <1>6, <1>9, <2>1 DEF CoreRecordInOrder, AcceptsContract, ApprovedMove
<1>11. UNCHANGED <<ledger, target, draft>> /\ GateStep
  BY DEF FindingsImport, GateStep
<1>12. Write(<<r>>, <<>>)
  BY <1>1, <1>2
<1> QED BY <1>6, <1>10, <1>11, <1>12, OneCoreRecord, WriteCoreSteps

\* What a transition records is in order.
LEMMA AppliedInOrder ==
    ASSUME HInv, NEW a, NEW doc \in Contracts \cup {None}, AdmitsContract(core, a, doc)
    PROVE  CoreRecordInOrder(AppliedRecord(core, a), host)
<1> DEFINE r == AppliedRecord(core, a)
<1>1. r.snapshot = FALSE /\ r.approval = a /\ r.criteria \in {NoMap, Criteria(core)}
  BY DEF AppliedRecord, Blank
<1>2. IsFiniteSet(DOMAIN r.criteria)
  <2>1. IsFiniteSet(DOMAIN NoMap) /\ IsFiniteSet(DOMAIN Criteria(core))
    BY CriteriaFinite DEF HInv
  <2> HIDE DEF r
  <2>2. r.criteria = NoMap \/ r.criteria = Criteria(core)
    BY <1>1
  <2> QED BY <2>1, <2>2
<1> HIDE DEF r
<1>3. AcceptsContract(r) => a.contract \in Contracts \cup {None}
  BY <1>1 DEF AcceptsContract, AdmitsContract, AcceptsAnew
<1>4. CoreRecordInOrder(r, host)
  BY <1>1, <1>2, <1>3 DEF CoreRecordInOrder, HoldsEstablished
<1> QED BY <1>4 DEF r

LEMMA TransitionSteps == ASSUME HInv, Transition PROVE Step
<1>1. PICK k \in Approvals :
          LET a == Approve(k) IN
          /\ HostGate(a)
          /\ AdmitsTransition(core, a, Len(core) + 1, target.wt)
          /\ \E doc \in Contracts \cup {None} : AdmitsContract(core, a, doc)
          /\ Write(<<AppliedRecord(core, a)>>, <<>>)
          /\ gates' = gates \cup
                (IF Gated(a)
                 THEN {[at |-> Len(core) + 1, host |-> Len(host), target |-> target]}
                 ELSE {})
  BY DEF Transition
<1> DEFINE a == Approve(k)
           r == AppliedRecord(core, a)
<1>0. PICK g : g = [at |-> Len(core) + 1, host |-> Len(host), target |-> target]
  OBVIOUS
<1>2. r.approval = a
  BY DEF AppliedRecord, Blank
<1>3. /\ CoreRecordInOrder(r, host) /\ r.kind # "criterion"
      /\ r.criteria \in {NoMap, Criteria(core)}
  BY <1>1, AppliedInOrder DEF AppliedRecord, Blank
<1>4. PassedGate(host, core, a, target)
  <2>1. a.from = CurrentStage(core)
    BY <1>1 DEF AdmitsTransition
  <2>2. ApprovalBindsHeadDiff(a.from) => a.head = target.head
    BY DEF Approve
  <2>3. HostGate(a)
    BY <1>1
  <2> HIDE DEF a
  <2> QED BY <2>1, <2>2, <2>3 DEF PassedGate, HostGate, HostAdmits
<1> HIDE DEF a, r
<1>5. Write(<<r>>, <<>>) /\ UNCHANGED <<ledger, target, draft>>
  BY <1>1 DEF Transition, r, a
<1>6. core' = core \o <<r>> /\ host' = host
  BY <1>5, GrowsByNothing DEF Write, HInv
<1>7. /\ DOMAIN core' = 1..(Len(core) + 1) /\ Len(core) \in Nat /\ Len(host) \in Nat
      /\ DOMAIN host = 1..Len(host)
      /\ core'[Len(core) + 1] = r
      /\ SubSeq(core', 1, Len(core)) = core
      /\ SubSeq(host', 1, Len(host)) = host
  <2>1. Len(core') = Len(core) + 1 /\ core'[Len(core) + 1] = r
    BY <1>6, GrowsByOne DEF HInv
  <2>2. /\ Len(core) \in Nat /\ DOMAIN core' = 1..Len(core')
        /\ \A n \in 0..Len(core) : SubSeq(core', 1, n) = SubSeq(core, 1, n)
    BY <1>6, GrowsByOne, GrowsFacts DEF HInv
  <2>3. SubSeq(core, 1, Len(core)) = core /\ SubSeq(host, 1, Len(host)) = host
    BY WholeChain DEF HInv
  <2>4. Len(host) \in Nat /\ DOMAIN host = 1..Len(host)
    BY ChainFacts DEF HInv
  <2> QED BY <1>6, <2>1, <2>2, <2>3, <2>4
<1>8. GatePassed(g)'
  <2>1. /\ g.at = Len(core) + 1 /\ g.at - 1 = Len(core) /\ g.host = Len(host)
        /\ g.target = target
    BY <1>7, <1>0
  <2>2. \A i \in 1..g.host : host'[i].core \in 1..(g.at - 1)
    BY <1>6, <1>7, <2>1 DEF HInv, CoresNamed
  <2>3. /\ SubSeq(host', 1, g.host) = host /\ SubSeq(core', 1, g.at - 1) = core
        /\ core'[g.at].approval = a
    BY <1>2, <1>7, <2>1 DEF r
  <2>4. g.at \in DOMAIN core' /\ g.host \in 0..Len(host') /\ g.target \in Targets
    BY <1>6, <1>7, <2>1 DEF HInv
  <2>5. PassedGate(SubSeq(host', 1, g.host), SubSeq(core', 1, g.at - 1),
                   core'[g.at].approval, g.target)
    BY <1>4, <2>1, <2>3
  <2> QED BY <2>2, <2>4, <2>5 DEF GatePassed, HostAt, CoreAt, Before, Decided
<1>9. GateStep
  <2>1. gates' = gates \cup {g} \/ gates' = gates
    BY <1>1, <1>0
  <2> QED BY <1>8, <2>1 DEF GateStep
<1> QED BY <1>3, <1>5, <1>9, OneCoreRecord, WriteCoreSteps DEF r

\* What crediting leaves in the core chain is a chain of records in order.
LEMMA CreditInOrder ==
    ASSUME HInv, NEW results, IsFiniteSet(DOMAIN results)
    PROVE  LET whole == CreditRecords(core, Unit, results) IN
           /\ Numbered(whole) /\ Len(whole) >= 1
           /\ \A i \in 1..Len(whole) : CoreRecordInOrder(whole[i], host)
<1> DEFINE e == EvidenceRecord(core, Unit)
           c == CriteriaRecord(core, Unit, results)
           n == Cardinality(DOMAIN results)
           S == {e, c}
           es == [i \in 1..n |-> e]
           whole == Append(es, c)
<1>1. whole = CreditRecords(core, Unit, results)
  BY DEF CreditRecords
<1>2. n \in Nat
  BY FS_CardinalityType
<1>3. \A r \in S : CoreRecordInOrder(r, host)
  BY EvidenceInOrder, CriteriaInOrder
<1>4. c \in S /\ e \in S
  OBVIOUS
<1> HIDE DEF n, S, e, c
<1>5. es \in Seq(S)
  BY <1>2, <1>4
<1> HIDE DEF es
<1>6. whole \in Seq(S) /\ Len(whole) \in Nat /\ Len(whole) >= 1
  BY <1>4, <1>5
<1> HIDE DEF whole
<1>7. \A i \in 1..Len(whole) : whole[i] \in S
  BY <1>6
<1>8. Numbered(whole)
  BY <1>6, ChainOver
<1> QED BY <1>1, <1>3, <1>6, <1>7, <1>8

\* It is evidence, then criteria; each of its beginnings keeps the criteria.
LEMMA CreditKeeps ==
    ASSUME HInv, NEW results, IsFiniteSet(DOMAIN results)
    PROVE  LET whole == CreditRecords(core, Unit, results) IN
           /\ whole[Len(whole)].kind = "criterion"
           /\ \A k \in 1..Len(whole) : whole[k].kind \in {"evidence", "criterion"}
           /\ Keeps(whole) /\ \A n \in 1..Len(whole) : Keeps(SubSeq(whole, 1, n))
<1> DEFINE e == EvidenceRecord(core, Unit)
           c == CriteriaRecord(core, Unit, results)
           n == Cardinality(DOMAIN results)
           es == [i \in 1..n |-> e]
           whole == Append(es, c)
           d == core \o whole
           top == Len(core) + n + 1
<1>1. whole = CreditRecords(core, Unit, results)
  BY DEF CreditRecords
<1>2. n \in Nat
  BY FS_CardinalityType
<1>3. e.kind = "evidence" /\ e.criteria = NoMap
  BY DEF EvidenceRecord, Blank
<1>4. /\ c.kind = "criterion" /\ DOMAIN c.criteria = DOMAIN Criteria(core)
      /\ c.criteria = [x \in DOMAIN c.criteria |-> c.criteria[x]]
  <2> DEFINE m == [id \in DOMAIN Criteria(core) |->
                      IF id \in DOMAIN results THEN results[id] ELSE Criteria(core)[id]]
  <2>1. c.kind = "criterion" /\ c.criteria = m
    BY DEF CriteriaRecord, Blank
  <2>2. DOMAIN m = DOMAIN Criteria(core) /\ m = [x \in DOMAIN m |-> m[x]]
    OBVIOUS
  <2> HIDE DEF m, c
  <2> QED BY <2>1, <2>2
<1> HIDE DEF n, e, c
<1>5. /\ Numbered(whole) /\ Len(whole) = n + 1 /\ whole[n + 1] = c
      /\ \A k \in 1..n : whole[k] = e
  <2>1. es \in Seq({e, c}) /\ Len(es) = n /\ \A k \in 1..n : es[k] = e
    BY <1>2
  <2> HIDE DEF es
  <2>2. whole \in Seq({e, c}) /\ Len(whole) = n + 1 /\ whole[n + 1] = c
        /\ \A k \in 1..n : whole[k] = es[k]
    BY <1>2, <2>1
  <2> HIDE DEF whole
  <2> QED BY <2>1, <2>2, ChainOver
<1> HIDE DEF es, whole
<1>6. \A k \in 1..Len(whole) : k \in 1..n \/ k = n + 1
  BY <1>2, <1>5
<1>7. /\ Numbered(core) /\ Len(core) \in Nat /\ DOMAIN core = 1..Len(core)
      /\ \A k \in 1..Len(core) : d[k] = core[k]
      /\ \A k \in 1..Len(whole) : d[Len(core) + k] = whole[k]
      /\ Numbered(d) /\ Len(d) = top
  <2>1. /\ Numbered(core) /\ Len(core) \in Nat /\ DOMAIN core = 1..Len(core)
        /\ \A k \in 1..Len(core) : d[k] = core[k]
        /\ \A k \in 1..Len(whole) : d[Len(core) + k] = whole[k]
        /\ Numbered(d) /\ DOMAIN d = 1..(Len(core) + Len(whole))
    BY <1>5, Continued, ChainFacts DEF HInv
  <2>2. Len(d) \in Nat /\ DOMAIN d = 1..Len(d)
    BY <2>1, ChainFacts
  <2> QED BY <1>2, <1>5, <2>1, <2>2
<1>8. /\ \A k \in (Len(core) + 1)..(top - 1) : d[k] = e
      /\ d[top] = c /\ top \in Nat /\ top >= 1
  <2>1. \A k \in (Len(core) + 1)..(top - 1) :
            k - Len(core) \in 1..n /\ k = Len(core) + (k - Len(core))
            /\ k - Len(core) \in 1..Len(whole)
    BY <1>2, <1>5, <1>7
  <2>2. \A k \in (Len(core) + 1)..(top - 1) : d[k] = e
    BY <1>5, <1>7, <2>1
  <2>3. n + 1 \in 1..Len(whole) /\ top = Len(core) + (n + 1)
    BY <1>2, <1>5, <1>7
  <2>4. d[top] = c
    <3>1. d[Len(core) + (n + 1)] = c
      BY <1>5, <1>7, <2>3
    <3> HIDE DEF d, top
    <3> QED BY <2>3, <3>1
  <2> QED BY <1>2, <1>7, <2>2, <2>4
<1>9. c.criteria = NoMap <=> DOMAIN c.criteria = {}
  BY <1>4, NoCriteria
<1>10. ASSUME c.criteria = NoMap PROVE \A k \in DOMAIN core : core[k].criteria = NoMap
  <2>1. DOMAIN Criteria(core) = {} /\ \A k \in DOMAIN core : KeepsCriteria(core, k)
    BY <1>4, <1>9, <1>10 DEF HInv, CreditsInOrder
  <2>2. Criteria(core) = NoMap
    <3> SUFFICES ASSUME Criteria(core) # NoMap PROVE FALSE
      OBVIOUS
    <3>1. PICK j \in DOMAIN core : core[j].criteria = Criteria(core)
      BY <1>7, <2>1, CriteriaAtLast
    <3> QED BY <2>1, <3>1 DEF KeepsCriteria
  <2> DEFINE I == {k \in 1..Len(core) : core[k].criteria # NoMap}
             s == SelectLastInSeq(core, LAMBDA r : r.criteria # NoMap)
  <2>3. s = (IF I # {} THEN Max(I) ELSE 0) /\ Criteria(core) = IF s = 0 THEN NoMap ELSE core[s].criteria
    BY DEF Criteria, SelectLastInSeq
  <2>4. I # {} => Max(I) \in I
    <3>1. I \subseteq 1..Len(core)
      OBVIOUS
    <3> HIDE DEF I
    <3> QED BY <1>7, <3>1, LastOf
  <2>5. \A k \in I : core[k].criteria # NoMap /\ k # 0
    BY <1>7
  <2>6. I = {}
    <3> HIDE DEF I, s
    <3> QED BY <2>2, <2>3, <2>4, <2>5
  <2> QED BY <1>7, <2>6
<1> HIDE DEF d, top
<1>11. ASSUME NEW k \in (Len(core) + 1)..(top - 1) PROVE KeepsCriteria(d, k)
  <2>1. d[k].kind = "evidence" /\ d[k].criteria = NoMap
    BY <1>3, <1>8
  <2> QED BY <2>1, NoCriteria DEF KeepsCriteria
<1>12. KeepsCriteria(d, top)
  <2>1. ASSUME c.criteria = NoMap, NEW j \in 1..(top - 1) PROVE d[j].criteria = NoMap
    <3>1. j \in 1..Len(core) \/ j \in (Len(core) + 1)..(top - 1)
      BY <1>7, <1>8
    <3> QED BY <1>3, <1>7, <1>8, <1>10, <2>1, <3>1
  <2> QED BY <1>4, <1>8, <1>9, <2>1 DEF KeepsCriteria
<1>13. \A k \in (Len(core) + 1)..top : KeepsCriteria(d, k)
  <2>1. \A k \in (Len(core) + 1)..top : k \in (Len(core) + 1)..(top - 1) \/ k = top
    BY <1>7, <1>8
  <2> QED BY <1>11, <1>12, <2>1
<1>14. Keeps(whole)
  BY <1>7, <1>13 DEF Keeps, d
<1>15. ASSUME NEW m \in 1..Len(whole) PROVE Keeps(SubSeq(whole, 1, m))
  <2> DEFINE b == SubSeq(whole, 1, m)
             f == core \o b
  <2>1. m \in 0..Len(whole)
    OBVIOUS
  <2>2. Numbered(b) /\ Len(b) = m /\ \A k \in 1..m : b[k] = whole[k]
    BY <1>5, <2>1, PrefixFacts
  <2> HIDE DEF b
  <2>3. /\ \A k \in 1..Len(core) : f[k] = core[k]
        /\ \A k \in 1..m : f[Len(core) + k] = whole[k]
        /\ Len(f) = Len(core) + m
    <3>1. /\ \A k \in 1..Len(core) : f[k] = core[k]
          /\ \A k \in 1..m : f[Len(core) + k] = whole[k]
          /\ Numbered(f) /\ DOMAIN f = 1..(Len(core) + Len(b))
      <4>1. /\ \A k \in 1..Len(core) : f[k] = core[k]
            /\ \A k \in 1..Len(b) : f[Len(core) + k] = b[k]
            /\ Numbered(f) /\ DOMAIN f = 1..(Len(core) + Len(b))
        <5>1. Numbered(core) /\ Numbered(b)
          BY <1>7, <2>2
        <5> QED BY <5>1, Continued
      <4> HIDE DEF f
      <4> QED BY <2>2, <4>1
    <3>2. Len(f) \in Nat /\ DOMAIN f = 1..Len(f)
      BY <3>1, ChainFacts
    <3> HIDE DEF f
    <3> QED BY <1>7, <2>2, <3>1, <3>2
  <2> HIDE DEF f
  <2>4. ASSUME NEW k \in 1..(Len(core) + m) PROVE f[k] = d[k]
    <3>1. CASE k \in 1..Len(core)
      BY <1>7, <2>3, <3>1
    <3>2. CASE k \notin 1..Len(core)
      <4>1. /\ k - Len(core) \in 1..m /\ k = Len(core) + (k - Len(core))
            /\ k - Len(core) \in 1..Len(whole)
        BY <1>2, <1>5, <1>7, <3>2
      <4>2. f[k] = whole[k - Len(core)] /\ d[k] = whole[k - Len(core)]
        BY <1>7, <2>3, <4>1
      <4> QED BY <4>2
    <3> QED BY <3>1, <3>2
  <2>5. ASSUME NEW k \in (Len(core) + 1)..(Len(core) + m) PROVE KeepsCriteria(f, k)
    <3>1. k \in (Len(core) + 1)..top
      BY <1>2, <1>5, <1>7 DEF top
    <3>2. k \in Nat /\ k >= 1 /\ \A j \in 1..k : f[j] = d[j]
      BY <1>7, <2>4
    <3> QED BY <1>13, <3>1, <3>2, KeepsIsBehind
  <2> QED BY <2>3, <2>5 DEF Keeps, f, b
<1>16. whole[Len(whole)].kind = "criterion"
  BY <1>4, <1>5
<1>17. \A k \in 1..Len(whole) : whole[k].kind \in {"evidence", "criterion"}
  BY <1>3, <1>4, <1>5, <1>6
<1> QED BY <1>1, <1>14, <1>15, <1>16, <1>17

\* A credit follows the review it is of and the core records it appends.
LEMMA CreditFollowsChains ==
    ASSUME HInv, NEW i \in DOMAIN host, NEW whole, NEW r,
           Numbered(whole), Len(whole) >= 1, whole[Len(whole)].kind = "criterion",
           \A k \in 1..Len(whole) : whole[k].kind \in {"evidence", "criterion"},
           host[i].kind = "review", host[i].verdict = "APPROVE",
           host[i].isolation = "isolated", host[i].unit = Unit,
           reviewBinding(host, core, host[i]),
           r.review = i, r.core = Len(core) + Len(whole), r.record = Len(core) + Len(whole),
           r.issuer = currentIssuer(core, Unit),
           DOMAIN r.results = currentPlanUnit(core, Unit).criteria,
           core' = core \o whole, host' = host \o <<r>>
    PROVE  CreditFollows(host', Len(host) + 1, core')
<1> DEFINE n == Len(host) + 1
           top == Len(core) + Len(whole)
           x == currentIssuer(core, Unit)
           v == host[i]
<1>1. /\ DOMAIN host = 1..Len(host) /\ Len(host) \in Nat
      /\ host'[n] = r /\ \A k \in 1..Len(host) : host'[k] = host[k]
      /\ n - 1 = Len(host)
  BY GrowsByOne, GrowsFacts DEF HInv
<1>2. Grows(core, core')
  BY DEF Grows
<1>3. /\ Numbered(core) /\ Numbered(core') /\ Len(core) \in Nat /\ Len(whole) \in Nat
      /\ DOMAIN core = 1..Len(core)
      /\ Len(core') = top
      /\ \A k \in 1..Len(core) : core'[k] = core[k]
      /\ \A k \in 1..Len(whole) : core'[Len(core) + k] = whole[k]
      /\ \A k \in 0..Len(core) : SubSeq(core', 1, k) = SubSeq(core, 1, k)
  <2>1. /\ DOMAIN core' = 1..top /\ Len(core) \in Nat /\ Len(whole) \in Nat
        /\ \A k \in 1..Len(whole) : core'[Len(core) + k] = whole[k]
    BY Continued DEF HInv
  <2>2. /\ Numbered(core') /\ Len(core') \in Nat /\ DOMAIN core' = 1..Len(core')
        /\ DOMAIN core = 1..Len(core)
        /\ \A k \in 1..Len(core) : core'[k] = core[k]
        /\ \A k \in 0..Len(core) : SubSeq(core', 1, k) = SubSeq(core, 1, k)
    BY <1>2, GrowsFacts DEF HInv
  <2>3. Len(core') = top
    BY <2>1, <2>2
  <2> QED BY <2>1, <2>2, <2>3 DEF HInv
<1>4. SubSeq(core', 1, top) = core'
  BY <1>3, WholeChain
<1>5. currentIssuer(core', Unit) = x
  <2>1. ASSUME NEW k \in (Len(core) + 1)..Len(core') PROVE ~IssuesLease(core'[k], Unit)
    <3>1. k - Len(core) \in 1..Len(whole) /\ k = Len(core) + (k - Len(core))
      BY <1>3
    <3>2. core'[k].kind \in {"evidence", "criterion"}
      BY <1>3, <3>1
    <3> QED BY <3>2 DEF IssuesLease, ApprovedMove
  <2> QED BY <1>2, <1>3, <2>1, IssuerKept
<1>6. /\ v.dispatch \in DOMAIN host /\ host'[v.dispatch] = host[v.dispatch]
      /\ host[v.dispatch].core \in 0..Len(core)
  <2>1. v.dispatch \in 1..(i - 1)
    BY DEF HInv, HostInOrder, RecordInOrder, AnswersDispatch
  <2>2. v.dispatch \in DOMAIN host
    <3> HIDE DEF v
    <3> QED BY <1>1, <2>1
  <2> QED BY <1>1, <1>3, <2>2 DEF HInv, CoresNamed
<1>7. /\ x # 0 /\ x = currentIssuer(SubSeq(core', 1, host[v.dispatch].core), Unit)
  <2>1. /\ currentIssuer(SubSeq(core, 1, host[v.dispatch].core), Unit) # 0
        /\ currentIssuer(SubSeq(core, 1, host[v.dispatch].core), Unit) = x
    BY DEF reviewBinding, currentBinding
  <2> QED BY <1>3, <1>6, <2>1
<1>8. currentPlanUnit(core', Unit) = currentPlanUnit(core, Unit)
  <2>1. x \in DOMAIN core
    BY <1>3, <1>7, IssuerInChain
  <2>2. core'[x] = core[x]
    BY <1>3, <2>1
  <2> QED BY <1>5, <2>2 DEF currentPlanUnit
<1>9. ASSUME NEW j \in 1..(n - 1), host'[j].kind = "credit" PROVE host'[j].record < top
  <2>1. j \in DOMAIN host /\ host'[j] = host[j] /\ host[j].core \in 1..Len(core)
    BY <1>1 DEF HInv, CoresNamed
  <2>2. host[j].record = host[j].core
    BY <1>9, <2>1 DEF HInv, CreditsInOrder, CreditFollows
  <2> QED BY <1>3, <2>1, <2>2
<1>10. core'[top].kind = "criterion" /\ top \in 1..Len(core')
  <2>1. Len(whole) \in 1..Len(whole)
    BY <1>3
  <2>2. core'[Len(core) + Len(whole)] = whole[Len(whole)]
    BY <1>3, <2>1
  <2> QED BY <1>3, <2>2
<1>11. host'[n].review = i /\ i \in 1..(n - 1) /\ host'[host'[n].review] = v
  BY <1>1
<1>12. /\ host'[n].record = top /\ host'[n].core = top /\ host'[n].issuer = x
       /\ DOMAIN host'[n].results = currentPlanUnit(core, Unit).criteria
  BY <1>1
<1> HIDE DEF v, n, top, x
<1>13. /\ host'[n].review \in 1..(n - 1) /\ v.kind = "review"
       /\ v.verdict = "APPROVE" /\ v.isolation = "isolated"
       /\ host'[n].record = host'[n].core /\ host'[n].record \in 1..Len(core')
       /\ core'[host'[n].record].kind = "criterion" /\ host'[n].issuer # 0
       /\ host'[n].issuer = currentIssuer(SubSeq(core', 1, host'[n].record), Unit)
       /\ host'[n].issuer = currentIssuer(SubSeq(core', 1, host'[v.dispatch].core), Unit)
       /\ DOMAIN host'[n].results
             = currentPlanUnit(SubSeq(core', 1, host'[n].record), Unit).criteria
       /\ \A j \in 1..(n - 1) : host'[j].kind = "credit" => host'[j].record < host'[n].record
  <2>1. v.kind = "review" /\ v.verdict = "APPROVE" /\ v.isolation = "isolated"
    BY DEF v
  <2>2. /\ SubSeq(core', 1, host'[n].record) = core'
        /\ host'[v.dispatch].core = host[v.dispatch].core
    BY <1>4, <1>6, <1>12
  <2>3. /\ host'[n].issuer = currentIssuer(SubSeq(core', 1, host'[n].record), Unit)
        /\ host'[n].issuer = currentIssuer(SubSeq(core', 1, host'[v.dispatch].core), Unit)
        /\ DOMAIN host'[n].results
              = currentPlanUnit(SubSeq(core', 1, host'[n].record), Unit).criteria
    BY <1>5, <1>7, <1>8, <1>12, <2>2
  <2>4. \A j \in 1..(n - 1) : host'[j].kind = "credit" => host'[j].record < host'[n].record
    BY <1>9, <1>12
  <2> QED BY <1>7, <1>10, <1>11, <1>12, <2>1, <2>3, <2>4
<1>14. CreditFollows(host', n, core')
  BY <1>11, <1>13 DEF CreditFollows
<1> QED BY <1>14 DEF n

LEMMA CreditSteps == ASSUME HInv, Credit PROVE Step
<1>1. PICK i \in Of(host, "review", Unit) :
          /\ Creditable(host, core, i, target, Base)
          /\ LET ids == currentPlanUnit(core, Unit).criteria
             IN  \E exits \in [ids -> {0, 1}] :
                 LET results == [id \in ids |->
                                    criterionDisposition(exits[id], ReportOf(host[i]).status)]
                     whole == CreditRecords(core, Unit, results)
                     credit == [Envelope("credit") EXCEPT !.core = Len(core) + Len(whole)]
                               ++ [review |-> i, target |-> target, results |-> results,
                                   contract |-> BoundContractDigest(core),
                                   issuer |-> currentIssuer(core, Unit),
                                   record |-> Len(core) + Len(whole)]
                 IN  \/ Write(whole, <<credit>>)
                     \/ \E n \in 1..Len(whole) : Write(SubSeq(whole, 1, n), <<>>)
  BY DEF Credit
<1> DEFINE ids == currentPlanUnit(core, Unit).criteria
<1>2. PICK exits \in [ids -> {0, 1}] :
          LET results == [id \in ids |->
                             criterionDisposition(exits[id], ReportOf(host[i]).status)]
              whole == CreditRecords(core, Unit, results)
              credit == [Envelope("credit") EXCEPT !.core = Len(core) + Len(whole)]
                        ++ [review |-> i, target |-> target, results |-> results,
                            contract |-> BoundContractDigest(core),
                            issuer |-> currentIssuer(core, Unit),
                            record |-> Len(core) + Len(whole)]
          IN  \/ Write(whole, <<credit>>)
              \/ \E n \in 1..Len(whole) : Write(SubSeq(whole, 1, n), <<>>)
  BY <1>1
<1> DEFINE results == [id \in ids |->
                          criterionDisposition(exits[id], ReportOf(host[i]).status)]
           whole == CreditRecords(core, Unit, results)
           e == [Envelope("credit") EXCEPT !.core = Len(core) + Len(whole)]
           b == [review |-> i, target |-> target, results |-> results,
                 contract |-> BoundContractDigest(core),
                 issuer |-> currentIssuer(core, Unit),
                 record |-> Len(core) + Len(whole)]
           credit == e ++ b
<1>3. Write(whole, <<credit>>) \/ \E n \in 1..Len(whole) : Write(SubSeq(whole, 1, n), <<>>)
  BY <1>2
<1>4. IsFiniteSet(DOMAIN results)
  <2>1. i \in Of(host, "review", Unit) /\ host[i].unit = Unit
    BY DEF Of
  <2>2. ids \subseteq DOMAIN Criteria(core)
    BY <1>1, <2>1 DEF Creditable
  <2>3. IsFiniteSet(DOMAIN Criteria(core))
    BY CriteriaFinite DEF HInv
  <2>4. DOMAIN results = ids
    OBVIOUS
  <2> QED BY <2>2, <2>3, <2>4, FS_Subset
<1>5. credit.kind = "credit" /\ credit.unit = Unit /\ credit.core = Len(core) + Len(whole)
  <2>1. /\ DOMAIN e = {"kind", "unit", "core", "at"}
        /\ e["kind"] = "credit" /\ e["unit"] = Unit /\ e["core"] = Len(core) + Len(whole)
    BY DEF Envelope
  <2> HIDE DEF e, b
  <2>2. \A f \in DOMAIN e : credit[f] = e[f]
    BY Beside
  <2> HIDE DEF credit, whole
  <2> QED BY <2>1, <2>2
<1>10. /\ credit.review = i /\ credit.issuer = currentIssuer(core, Unit)
       /\ credit.record = Len(core) + Len(whole) /\ credit.results = results
  <2>1. DOMAIN e = {"kind", "unit", "core", "at"}
    BY DEF Envelope
  <2> HIDE DEF whole, results
  <2>2. /\ DOMAIN b = {"review", "target", "results", "contract", "issuer", "record"}
        /\ b["review"] = i /\ b["issuer"] = currentIssuer(core, Unit)
        /\ b["record"] = Len(core) + Len(whole) /\ b["results"] = results
    OBVIOUS
  <2> HIDE DEF e, b
  <2>3. \A f \in DOMAIN b \ DOMAIN e : credit[f] = b[f]
    BY Beside
  <2> HIDE DEF credit
  <2> QED BY <2>1, <2>2, <2>3
<1>11. DOMAIN results = currentPlanUnit(core, Unit).criteria
  OBVIOUS
<1> HIDE DEF credit
<1> HIDE DEF results
<1>6. /\ Numbered(whole) /\ Len(whole) >= 1
      /\ \A j \in 1..Len(whole) : CoreRecordInOrder(whole[j], host)
      /\ whole[Len(whole)].kind = "criterion"
      /\ \A k \in 1..Len(whole) : whole[k].kind \in {"evidence", "criterion"}
      /\ Keeps(whole) /\ \A n \in 1..Len(whole) : Keeps(SubSeq(whole, 1, n))
  BY <1>4, CreditInOrder, CreditKeeps
<1> HIDE DEF whole
<1>7. UNCHANGED <<ledger, target, draft>> /\ GateStep
  BY DEF Credit, GateStep
<1>8. CASE Write(whole, <<credit>>)
  <2>1. core' = core \o whole /\ host' = host \o <<credit>>
    BY <1>8 DEF Write
  <2>2. CoreStep
    BY <1>6, <2>1 DEF CoreStep
  <2>3. Len(core) \in Nat /\ Len(whole) \in Nat /\ Len(core') = Len(core) + Len(whole)
    <3>1. /\ Numbered(core') /\ DOMAIN core' = 1..(Len(core) + Len(whole))
          /\ Len(core) \in Nat /\ Len(whole) \in Nat
      BY <1>6, <2>1, Continued DEF HInv
    <3>2. Len(core') \in Nat /\ DOMAIN core' = 1..Len(core')
      BY <3>1, ChainFacts
    <3> QED BY <3>1, <3>2
  <2>4. credit.core \in 1..Len(core')
    BY <1>5, <1>6, <2>3
  <2>5. RecordInOrder(host \o <<credit>>, Len(host) + 1, ledger) /\ ~HasPacket(credit)
    BY <1>5, OtherRecords
  <2>6. CreditFollows(host', Len(host) + 1, core')
    <3>1. /\ i \in DOMAIN host /\ host[i].kind = "review" /\ host[i].verdict = "APPROVE"
          /\ host[i].isolation = "isolated" /\ reviewBinding(host, core, host[i])
          /\ host[i].unit = Unit
      BY <1>1 DEF Creditable, Of
    <3> QED BY <1>5, <1>6, <1>10, <1>11, <2>1, <3>1, CreditFollowsChains
  <2>7. NewHostRecord(credit)
    BY <1>5, <2>1, <2>4, <2>5, <2>6 DEF NewHostRecord
  <2> QED BY <1>7, <2>2, <2>7 DEF Step, HostStep, LedgerStep, DraftStep, HInv
<1>9. ASSUME NEW n \in 1..Len(whole), Write(SubSeq(whole, 1, n), <<>>) PROVE Step
  <2> DEFINE rs == SubSeq(whole, 1, n)
  <2>1. n \in 0..Len(whole) /\ \A j \in 1..n : j \in 1..Len(whole)
    BY <1>6, ChainFacts
  <2>2. Numbered(rs) /\ Len(rs) = n /\ \A j \in 1..n : rs[j] = whole[j]
    BY <1>6, <2>1, PrefixFacts
  <2>5. Keeps(rs)
    BY <1>6
  <2> HIDE DEF rs
  <2>3. \A j \in 1..Len(rs) : CoreRecordInOrder(rs[j], host)
    BY <1>6, <2>1, <2>2
  <2>4. Write(rs, <<>>)
    BY <1>9 DEF rs
  <2> QED BY <1>7, <2>2, <2>3, <2>4, <2>5, WriteCoreSteps
<1> QED BY <1>3, <1>8, <1>9

-----------------------------------------------------------------------------
(* Every step, and every run.                                              *)

LEMMA InitHolds == ASSUME Init PROVE HInv
<1>1. PICK s \in Starts :
          /\ core = s.core /\ host = s.host /\ ledger = s.ledger
          /\ target = s.target /\ gates = s.gates /\ draft = None
  BY DEF Init
<1> QED BY <1>1, ReviewAssumption DEF HInv, CoresNamed, DraftOK, GatesPassed

LEMMA NextSteps == ASSUME HInv, Next PROVE HInv'
<1>1. Step
  BY BindRepositorySteps, DecideSteps, PreflightSteps, DispatchImplementationSteps,
     DispatchReviewSteps, RecordReviewSteps, PacketReadSteps, PacketCommitSteps,
     PacketDropSteps, LaunchReviewerSteps, ReviewImportSteps, FindingsImportSteps,
     CreditSteps, TransitionSteps, OtherEvidenceSteps, ChangeTargetSteps, TickSteps
     DEF Next
<1> QED BY <1>1, StepKeeps

LEMMA StutterKeeps == ASSUME HInv, UNCHANGED vars PROVE HInv'
<1>1. /\ core' = core /\ host' = host /\ ledger' = ledger /\ draft' = draft
      /\ gates' = gates /\ target' = target
  BY DEF vars
<1>2. CoreStep
  BY <1>1, CoreAlone
<1>3. Step
  BY <1>1, <1>2 DEF Step, HostStep, LedgerStep, DraftStep, GateStep, HInv
<1> QED BY <1>3, StepKeeps

LEMMA HInvAlways == Spec => []HInv
<1>1. Init => HInv
  BY InitHolds
<1>2. HInv /\ [Next]_vars => HInv'
  BY NextSteps, StutterKeeps
<1> QED BY <1>1, <1>2, PTL DEF Spec

\* The chains a gate saw.
LEMMA AtGate ==
    ASSUME HInv, NEW g \in gates
    PROVE  /\ Numbered(HostAt(g)) /\ Numbered(CoreAt(g))
           /\ HostInOrder(HostAt(g), ledger)
           /\ Len(HostAt(g)) = g.host /\ DOMAIN HostAt(g) = 1..g.host
           /\ Len(CoreAt(g)) = g.at - 1 /\ g.at - 1 \in Nat
           /\ \A k \in 1..g.host : host[k] = HostAt(g)[k] /\ HostAt(g)[k].core \in 1..(g.at - 1)
           /\ \A k \in 1..(g.at - 1) : core[k] = CoreAt(g)[k]
           /\ CoreInOrder(CoreAt(g), host)
           /\ g.target \in Targets
           /\ PassedGate(HostAt(g), CoreAt(g), Decided(g), g.target)
<1>1. GatePassed(g)
  BY DEF HInv, GatesPassed
<1>2. /\ Numbered(host) /\ Numbered(core) /\ HostInOrder(host, ledger)
      /\ CoreInOrder(core, host)
      /\ DOMAIN core = 1..Len(core) /\ Len(core) \in Nat
  BY ChainFacts DEF HInv
<1>3. g.host \in 0..Len(host) /\ g.at - 1 \in 0..Len(core) /\ g.at - 1 \in Nat
  BY <1>1, <1>2 DEF GatePassed
<1> DEFINE h == SubSeq(host, 1, g.host)
           c == SubSeq(core, 1, g.at - 1)
<1>4. HostAt(g) = h /\ CoreAt(g) = c
  BY DEF HostAt, CoreAt, Before
<1>5. /\ Numbered(h) /\ Len(h) = g.host /\ DOMAIN h = 1..g.host
      /\ \A k \in 1..g.host : h[k] = host[k]
      /\ HostInOrder(h, ledger)
  BY <1>2, <1>3, PrefixFacts, PrefixInOrder
<1>6. /\ Numbered(c) /\ Len(c) = g.at - 1 /\ DOMAIN c = 1..(g.at - 1)
      /\ \A k \in 1..(g.at - 1) : c[k] = core[k] /\ k \in DOMAIN core
  BY <1>2, <1>3, PrefixFacts
<1> HIDE DEF h, c
<1>7. CoreInOrder(c, host)
  BY <1>2, <1>6 DEF CoreInOrder
<1>8. \A k \in 1..g.host : h[k].core \in 1..(g.at - 1)
  BY <1>1, <1>5 DEF GatePassed
<1> QED BY <1>1, <1>3, <1>4, <1>5, <1>6, <1>7, <1>8 DEF GatePassed

\* A unit leaves implementation review on the word of a reviewer who shares
\* nothing with anyone who implemented it (requireApprovedReview, and the
\* independence checks of EvaluateDispatch it rests on).
THEOREM ReviewersStandApart == Spec => []ReviewExitIndependent
<1>1. ASSUME HInv PROVE ReviewExitIndependent
  <2> SUFFICES ASSUME NEW g \in gates, ReviewEdge(Decided(g))
               PROVE  \E i \in Approving(HostAt(g)) :
                         LET h == HostAt(g)
                             s == h[h[i].dispatch].seat
                         IN  \A j \in DOMAIN h : Contributes(h[j]) =>
                                /\ h[j].seat.worker # s.worker
                                /\ h[j].seat.model # s.model
                                /\ h[j].seat.context # s.context
                                /\ h[h[i].dispatch].risk >= High => h[j].seat.family # s.family
    BY DEF ReviewExitIndependent
  <2> QED BY <1>1, AtGate, ExitIndependent
<1> QED BY <1>1, HInvAlways, PTL

\* The review a unit leaves on is of what the repository then holds, and
\* nothing was implemented, dispatched for review or recorded since.
LEMMA FreshHolds == ASSUME HInv PROVE ReviewExitFresh
<1> SUFFICES ASSUME NEW g \in gates, ReviewEdge(Decided(g))
             PROVE  LET h == HostAt(g) IN
                    \E i \in Approving(h) :
                        LET d == h[i].dispatch IN
                        /\ h[i].target = g.target
                        /\ \A j \in (d + 1)..g.host : ~Implements(h[j]) /\ h[j].kind # "decision"
                        /\ HasPacket(h[d]) => \A j \in (d + 1)..g.host : ~Reviews(h[j])
                        /\ \A j \in (h[i].core + 1)..(g.at - 1) :
                              core[j].snapshot /\ core[j].source = i
                        /\ HasPacket(h[d]) =>
                              /\ h[d].core = h[i].core /\ h[i].core < g.at - 1
                              /\ \E l \in ledger :
                                    /\ l.run = h[i].receipt /\ l.target = g.target
                                    /\ h[d].at <= l.started /\ l.started < h[d].packet.until
  BY DEF ReviewExitFresh
<1> DEFINE h == HostAt(g)
           c == CoreAt(g)
<1>1. /\ Numbered(h) /\ Numbered(c) /\ HostInOrder(h, ledger)
      /\ Len(h) = g.host /\ DOMAIN h = 1..g.host
      /\ Len(c) = g.at - 1 /\ g.at - 1 \in Nat
      /\ \A k \in 1..g.host : h[k].core \in 1..(g.at - 1)
      /\ \A k \in 1..(g.at - 1) : core[k] = c[k]
      /\ g.target \in Targets
      /\ PassedGate(h, c, Decided(g), g.target)
  BY AtGate
<1> HIDE DEF h, c
<1>2. FreshExit(h, ledger, c, g.target)
  BY <1>1, ExitFresh
<1>3. PICK i \in Approving(h) :
          LET d == h[i].dispatch IN
          /\ h[i].target = g.target
          /\ \A j \in (d + 1)..Len(h) : ~Implements(h[j]) /\ h[j].kind # "decision"
          /\ HasPacket(h[d]) => \A j \in (d + 1)..Len(h) : ~Reviews(h[j])
          /\ \A j \in (h[i].core + 1)..Len(c) : c[j].snapshot /\ c[j].source = i
          /\ HasPacket(h[d]) =>
                /\ h[d].core = h[i].core /\ h[i].core < Len(c)
                /\ \E l \in ledger :
                      /\ l.run = h[i].receipt /\ l.target = g.target
                      /\ h[d].at <= l.started /\ l.started < h[d].packet.until
  BY <1>2 DEF FreshExit
<1>4. i \in DOMAIN h
  BY DEF Approving, Of
<1>5. \A j \in (h[i].core + 1)..(g.at - 1) : core[j].snapshot /\ core[j].source = i
  <2>1. h[i].core \in Nat
    BY <1>1, <1>4
  <2>2. \A j \in (h[i].core + 1)..(g.at - 1) : j \in 1..(g.at - 1)
    BY <1>1, <2>1
  <2> QED BY <1>1, <1>3, <2>2
<1> QED BY <1>1, <1>3, <1>5 DEF h

\* What HMA measured on that content does not block.
LEMMA MeasuredHolds == ASSUME HInv PROVE ReviewExitMeasured
<1> SUFFICES ASSUME NEW g \in gates, ReviewEdge(Decided(g)), packetMode(HostAt(g)),
                    NEW n \in DOMAIN Established[g.target]
             PROVE  Established[g.target][n] # "BLOCK"
  BY DEF ReviewExitMeasured
<1> DEFINE h == HostAt(g)
           c == CoreAt(g)
<1>1. /\ Numbered(h) /\ Numbered(c) /\ HostInOrder(h, ledger)
      /\ DOMAIN h = 1..g.host /\ g.at - 1 \in Nat
      /\ \A k \in 1..g.host : host[k] = h[k] /\ h[k].core \in 1..(g.at - 1)
      /\ CoreInOrder(c, host) /\ g.target \in Targets
      /\ PassedGate(h, c, Decided(g), g.target)
  BY AtGate
<1> HIDE DEF c
<1>2. \A k \in DOMAIN h : host[k] = h[k] /\ h[k].core \in Nat
  <2> HIDE DEF h
  <2> QED BY <1>1
<1> QED BY <1>1, <1>2, ExitMeasured

\* No two reviews rest on the same launch, and none on another packet's.
LEMMA OneReviewHolds == ASSUME HInv PROVE OneReviewPerLaunch
<1> SUFFICES ASSUME NEW i \in Of(host, "review", Unit), NEW j \in Of(host, "review", Unit),
                    host[i].receipt # None
             PROVE  /\ i # j => host[i].receipt # host[j].receipt
                    /\ ReportOf(host[i]).packet = host[i].dispatch
  BY DEF OneReviewPerLaunch
<1>1. /\ DOMAIN host = 1..Len(host) /\ Len(host) \in Nat
      /\ i \in DOMAIN host /\ j \in DOMAIN host
      /\ host[i].kind = "review" /\ host[j].kind = "review"
      /\ AnswersLaunch(host, i, ledger) /\ AnswersLaunch(host, j, ledger)
  BY ChainFacts DEF HInv, HostInOrder, RecordInOrder, Of
<1>2. PICK l \in ledger : l.run = host[i].receipt /\ l.report.packet = host[i].dispatch
  BY <1>1 DEF AnswersLaunch
<1>3. \A m \in ledger : m.run = host[i].receipt => m = l
  BY <1>2 DEF HInv, OneLaunchPerRun
<1>4. ReportOf(host[i]) = l.report
  <2>1. (CHOOSE m \in ledger : m.run = host[i].receipt) = l
    BY <1>2, <1>3
  <2> QED BY <2>1 DEF ReportOf
<1>5. ASSUME i # j, host[i].receipt = host[j].receipt PROVE FALSE
  <2>1. PICK m \in ledger : m.run = host[j].receipt /\ m.report.packet = host[j].dispatch
    BY <1>1, <1>5 DEF AnswersLaunch
  <2>2. host[i].dispatch = host[j].dispatch
    BY <1>2, <1>3, <1>5, <2>1
  <2>3. i \in 1..(j - 1) \/ j \in 1..(i - 1)
    BY <1>1, <1>5
  <2> QED BY <1>1, <1>5, <2>2, <2>3 DEF AnswersLaunch
<1> QED BY <1>2, <1>4, <1>5

\* Each review stands for one launch, on the content the unit leaves with, and
\* none leaves out what HMA saw itself (requireApprovedReview, the review
\* import, the findings import).
THEOREM ExitsAreAnswered == Spec => []ReviewExitAnswered
<1>1. HInv => ReviewExitAnswered
  BY FreshHolds, OneReviewHolds, MeasuredHolds DEF ReviewExitAnswered
<1> QED BY <1>1, HInvAlways, PTL

\* A packet still says at least what the classifier makes of the chains its
\* dispatch was recorded after (hma host review-packet).
THEOREM PacketsSayEnough == Spec => []PacketSufficient
<1>1. HInv => PacketSufficient
  BY DEF HInv, PacketSufficient
<1> QED BY <1>1, HInvAlways, PTL

\* A unit whose change matters goes to release only after a checkpoint review
\* of it (requireCheckpointReview).
THEOREM CheckpointsAreReviewed == Spec => []CheckpointExit
<1>1. ASSUME HInv PROVE CheckpointExit
  <2> SUFFICES ASSUME NEW g \in gates, CheckpointEdge(Decided(g)),
                      BoundContractDigest(CoreAt(g)) # None,
                      (UNION ClassesAt[g.target]) \ {"ordinary"} # {}
                         \/ {} \in ClassesAt[g.target]
               PROVE  LET h == HostAt(g)
                          c == CoreAt(g)
                      IN  \E i \in Approving(h) :
                            LET d == h[h[i].dispatch] IN
                            /\ h[i].isolation = "isolated" /\ h[i].target = g.target
                            /\ d.packet # None
                            /\ d.packet.contract = BoundContractDigest(c)
                            /\ d.risk >= RiskOf[BoundContractDigest(c)]
                            /\ (UNION ClassesAt[g.target]) \ {"ordinary"} # {} => d.risk >= High
                            /\ CurrentStage(SubSeq(c, 1, d.core)) = "INDEPENDENT_VALIDATION"
                            /\ \A j \in (d.core + 1)..Len(c) : ~ApprovedMove(c[j])
    BY DEF CheckpointExit
  <2> DEFINE h == HostAt(g)
             c == CoreAt(g)
  <2>1. /\ Numbered(h) /\ Numbered(c) /\ HostInOrder(h, ledger)
        /\ DOMAIN h = 1..g.host /\ Len(c) = g.at - 1
        /\ \A k \in 1..g.host : host[k] = h[k] /\ h[k].core \in 1..(g.at - 1)
        /\ CoreInOrder(c, host) /\ g.target \in Targets
        /\ PassedGate(h, c, Decided(g), g.target)
    BY <1>1, AtGate
  <2>2. \A k \in DOMAIN h : host[k] = h[k] /\ h[k].core \in 1..Len(c)
    <3> HIDE DEF h, c
    <3> QED BY <2>1
  <2>3. BoundContractDigest(c) # None
    OBVIOUS
  <2>4. Checkpointed(h, c, g.target)
    <3> HIDE DEF h, c
    <3> QED BY <2>1, <2>2, <2>3, CheckpointReviewed
  <2> QED BY <2>4 DEF Checkpointed
<1> QED BY <1>1, HInvAlways, PTL

\* The credits and criteria a gate saw were in order.
LEMMA CreditsAtGate ==
    ASSUME HInv, NEW g \in gates
    PROVE  CreditsInOrder(HostAt(g), CoreAt(g))
<1> DEFINE h == HostAt(g)
           c == CoreAt(g)
           n == g.at - 1
<1>1. /\ Numbered(c) /\ DOMAIN h = 1..g.host /\ Len(h) = g.host /\ Len(c) = n /\ n \in Nat
      /\ \A k \in 1..g.host : host[k] = h[k] /\ h[k].core \in 1..n
      /\ \A k \in 1..n : core[k] = c[k]
  BY AtGate
<1>2. g.at \in DOMAIN core /\ g.host \in 0..Len(host)
  BY DEF HInv, GatesPassed, GatePassed
<1>3. /\ DOMAIN host = 1..Len(host) /\ Len(host) \in Nat
      /\ DOMAIN core = 1..Len(core) /\ Len(core) \in Nat /\ n \in 0..Len(core)
      /\ \A k \in DOMAIN host : AnswersDispatch(host, k) /\ CreditFollows(host, k, core)
      /\ \A k \in DOMAIN core : KeepsCriteria(core, k)
  <2>1. /\ DOMAIN host = 1..Len(host) /\ Len(host) \in Nat
        /\ DOMAIN core = 1..Len(core) /\ Len(core) \in Nat
        /\ \A k \in DOMAIN host : AnswersDispatch(host, k) /\ CreditFollows(host, k, core)
        /\ \A k \in DOMAIN core : KeepsCriteria(core, k)
    BY ChainFacts DEF HInv, HostInOrder, RecordInOrder, CreditsInOrder
  <2> QED BY <1>2, <2>1
<1>4. \A k \in 0..n : SubSeq(c, 1, k) = SubSeq(core, 1, k)
  <2>1. Numbered(core) /\ c = SubSeq(core, 1, n)
    BY DEF HInv, CoreAt, Before
  <2> HIDE DEF c, n
  <2> QED BY <1>3, <2>1, PrefixOfPrefix
<1> HIDE DEF h, c, n
<1>5. ASSUME NEW k \in DOMAIN c PROVE KeepsCriteria(c, k)
  <2>1. k \in 1..n /\ k \in DOMAIN core
    BY <1>1, <1>3, <1>5, ChainFacts
  <2>2. k \in Nat /\ k >= 1 /\ \A j \in 1..k : c[j] = core[j]
    BY <1>1, <2>1
  <2> QED BY <1>3, <2>1, <2>2, KeepsIsBehind
<1>6. ASSUME NEW i \in DOMAIN h PROVE CreditFollows(h, i, c)
  <2>1. /\ i \in Nat /\ i >= 1 /\ i \in DOMAIN host
        /\ \A k \in 1..i : k \in 1..g.host /\ k \in DOMAIN host
    BY <1>1, <1>2, <1>3, <1>6
  <2>2. \A k \in 1..i : h[k] = host[k] /\ host[k].core \in 1..n /\ AnswersDispatch(host, k)
    BY <1>1, <1>3, <2>1
  <2>3. /\ n <= Len(c) /\ Len(c) \in Nat /\ \A k \in 1..n : c[k] = core[k]
        /\ CreditFollows(host, i, core)
    BY <1>1, <1>3, <2>1
  <2> QED BY <1>1, <1>4, <2>1, <2>2, <2>3, CreditIsBehind
<1> QED BY <1>5, <1>6 DEF CreditsInOrder, h, c

\* A run ends claiming success only with each passed criterion credited by
\* HMA's own check, on the content it ends with, by an isolated final audit
\* of the unit's last lease (requireIndependentCredit, hma host credit).
THEOREM ClosuresAreCredited == Spec => []ClosureCredited
<1>1. ASSUME HInv PROVE ClosureCredited
  <2> SUFFICES ASSUME NEW g \in gates, ClaimsSuccess(Decided(g))
               PROVE  Credited(HostAt(g), CoreAt(g), g.target)
    BY DEF ClosureCredited, Credited
  <2> DEFINE h == HostAt(g)
             c == CoreAt(g)
  <2>1. /\ Numbered(h) /\ Numbered(c) /\ HostInOrder(h, ledger)
        /\ DOMAIN h = 1..g.host /\ Len(c) = g.at - 1
        /\ \A k \in 1..g.host : host[k] = h[k] /\ h[k].core \in 1..(g.at - 1)
        /\ PassedGate(h, c, Decided(g), g.target)
    BY <1>1, AtGate
  <2>2. CreditsInOrder(h, c)
    BY <1>1, CreditsAtGate
  <2>3. requireIndependentCredit(h, c, g.target)
    BY <2>1 DEF PassedGate
  <2> HIDE DEF h, c
  <2>4. \A k \in DOMAIN h : h[k].core \in 1..Len(c)
    BY <2>1
  <2>5. Credited(h, c, g.target)
    BY <2>1, <2>2, <2>3, <2>4, CreditedAtGate
  <2> QED BY <2>5 DEF h, c
<1> QED BY <1>1, HInvAlways, PTL

-----------------------------------------------------------------------------
(* Types.                                                                  *)

\* What the order of the records does not say of their form.
FormInv ==
    /\ clock \in 1..Horizon
    /\ \A i \in DOMAIN host : HostRecordTyped(host[i])
    /\ draft # None =>
          HostRecordTyped(draft) /\ draft.packet.run \in Runs

\* A step writes no host record, or one of a right form.
Formed == host' = host \/ \E r : host' = host \o <<r>> /\ HostRecordTyped(r)

LEMMA HostStaysFormed ==
    ASSUME HInv, FormInv, Formed
    PROVE  \A i \in DOMAIN host' : HostRecordTyped(host'[i])
<1>1. CASE host' = host
  BY <1>1 DEF FormInv
<1>2. ASSUME NEW r, host' = host \o <<r>>, HostRecordTyped(r)
      PROVE  \A i \in DOMAIN host' : HostRecordTyped(host'[i])
  <2>1. /\ Len(host') = Len(host) + 1 /\ host'[Len(host) + 1] = r
        /\ Len(host) \in Nat /\ DOMAIN host = 1..Len(host) /\ DOMAIN host' = 1..Len(host')
        /\ \A k \in 1..Len(host) : host'[k] = host[k]
    BY <1>2, GrowsByOne, GrowsFacts DEF HInv
  <2>2. \A i \in DOMAIN host' : i \in DOMAIN host \/ i = Len(host) + 1
    BY <2>1
  <2> QED BY <1>2, <2>1, <2>2 DEF FormInv
<1> QED BY <1>1, <1>2 DEF Formed

\* A record with an envelope is written.
LEMMA EnvelopedFormed ==
    ASSUME HInv, FormInv, NEW r, NEW kind, AppendHost(r), Enveloped(r, kind),
           kind \in {"repository", "decision", "preflight", "dispatch", "review"},
           draft' = draft
    PROVE  FormInv'
<1>1. host' = host \o <<r>> /\ clock' = clock
  BY DEF AppendHost, Write
<1>2. HostRecordTyped(r)
  BY DEF Enveloped, FormInv, HostRecordTyped
<1>3. \A i \in DOMAIN host' : HostRecordTyped(host'[i])
  BY <1>1, <1>2, HostStaysFormed DEF Formed
<1> QED BY <1>1, <1>3 DEF FormInv

LEMMA BindRepositoryFormed == ASSUME HInv, FormInv, BindRepository PROVE FormInv'
BY EnvelopeStays, EnvelopedFormed DEF BindRepository

LEMMA DecideFormed == ASSUME HInv, FormInv, Decide PROVE FormInv'
<1>1. PICK o \in Decisions, s \in {0, latestDecision(host, Unit)} :
          AppendHost(Envelope("decision") ++ Route(o.seat) ++ [mode |-> o.mode, supersedes |-> s])
  BY DEF Decide
<1> QED BY <1>1, EnvelopeStays, EnvelopedFormed DEF Decide

LEMMA PreflightFormed == ASSUME HInv, FormInv, Preflight PROVE FormInv'
<1>1. PICK seat \in Seats, role \in {"implementation", "review"},
           status \in {"AVAILABLE", "UNAVAILABLE"} :
          AppendHost(Envelope("preflight") ++ Route(seat)
                     ++ [role |-> role, status |-> status, expires |-> clock + TTL])
  BY DEF Preflight
<1> QED BY <1>1, EnvelopeStays, EnvelopedFormed DEF Preflight

LEMMA DispatchImplementationFormed ==
    ASSUME HInv, FormInv, DispatchImplementation PROVE FormInv'
<1>1. PICK i \in Of(host, "preflight", Unit) :
          AppendHost(Envelope("dispatch") ++ Route(host[i].seat)
                     ++ [role |-> "implementation", preflight |-> i])
  BY DEF DispatchImplementation
<1> QED BY <1>1, EnvelopeStays, EnvelopedFormed DEF DispatchImplementation

LEMMA DispatchReviewFormed == ASSUME HInv, FormInv, DispatchReview PROVE FormInv'
<1>1. PICK i \in Of(host, "preflight", Unit), o \in Offers, t \in Targets :
          AppendHost(ReviewDispatch(i, o, t))
  BY DEF DispatchReview
<1>2. Enveloped(ReviewDispatch(i, o, t), "dispatch")
  BY DispatchFields
<1> QED BY <1>1, <1>2, EnvelopedFormed DEF DispatchReview

LEMMA ReviewFormed ==
    ASSUME HInv, FormInv, NEW i, NEW verdict, NEW receipt, NEW isolation,
           AppendHost(ReviewOf(i, verdict, receipt, isolation)), draft' = draft
    PROVE  FormInv'
<1>1. Enveloped(ReviewOf(i, verdict, receipt, isolation), "review")
  BY EnvelopeStays DEF ReviewOf
<1> QED BY <1>1, EnvelopedFormed

LEMMA RecordReviewFormed == ASSUME HInv, FormInv, RecordReview PROVE FormInv'
<1>1. PICK i \in Of(host, "dispatch", Unit), verdict \in {"APPROVE", "BLOCK"} :
          AppendHost(ReviewOf(i, verdict, None, None))
  BY DEF RecordReview
<1> QED BY <1>1, ReviewFormed DEF RecordReview

LEMMA ReviewImportFormed == ASSUME HInv, FormInv, ReviewImport PROVE FormInv'
<1>1. PICK i \in Of(host, "dispatch", Unit), l \in ledger :
          AppendHost(ReviewOf(i, MapReportVerdict(l.report), l.run, l.report.isolation))
  BY DEF ReviewImport
<1> QED BY <1>1, ReviewFormed DEF ReviewImport

LEMMA PacketReadFormed == ASSUME HInv, FormInv, PacketRead PROVE FormInv'
<1>1. PICK i \in Of(host, "preflight", Unit), o \in Offers, run \in Runs :
          draft' = [ReviewDispatch(i, o, target) EXCEPT !.packet = Packet(o, run)]
                   ++ [required |-> IF BoundContractDigest(core) = None THEN 0
                                    ELSE Classified(o).required]
  BY DEF PacketRead
<1> DEFINE d == ReviewDispatch(i, o, target)
           p == Packet(o, run)
           e == [d EXCEPT !.packet = p]
           b == [required |-> IF BoundContractDigest(core) = None THEN 0
                              ELSE Classified(o).required]
           v == e ++ b
<1>2. Enveloped(d, "dispatch") /\ d = [f \in DOMAIN d |-> d[f]] /\ "packet" \in DOMAIN d
  BY DispatchFields
<1>3. p.run = run
  BY PacketFields
<1> HIDE DEF d, p
<1>4. DOMAIN e = DOMAIN d /\ e["packet"] = p /\ \A f \in DOMAIN d \ {"packet"} : e[f] = d[f]
  BY <1>2
<1> HIDE DEF e, b
<1>5. \A f \in DOMAIN e : v[f] = e[f]
  BY Beside
<1>6. draft' = v /\ host' = host /\ clock' = clock
  BY <1>1 DEF PacketRead, v, e, b, d, p
<1> HIDE DEF v
<1>7. v.kind = "dispatch" /\ v.at = clock /\ v.packet = p
  BY <1>2, <1>4, <1>5 DEF Enveloped
<1>8. HostRecordTyped(v) /\ v.packet.run \in Runs
  BY <1>3, <1>7 DEF FormInv, HostRecordTyped
<1> QED BY <1>6, <1>8 DEF FormInv

LEMMA PacketCommitFormed == ASSUME HInv, FormInv, PacketCommit PROVE FormInv'
<1> DEFINE r == [draft EXCEPT !.core = Len(core)]
<1>1. draft # None /\ PacketCommits(draft) /\ AppendHost(r) /\ draft' = None
  BY DEF PacketCommit
<1>2. draft = [f \in DOMAIN draft |-> draft[f]] /\ Len(core) = draft.core
  BY <1>1 DEF HInv, DraftOK, PacketCommits
<1>3. r = draft
  BY <1>2
<1>4. HostRecordTyped(draft)
  BY <1>1 DEF FormInv
<1>5. host' = host \o <<draft>> /\ clock' = clock
  BY <1>1, <1>3 DEF AppendHost, Write
<1>6. \A i \in DOMAIN host' : HostRecordTyped(host'[i])
  BY <1>4, <1>5, HostStaysFormed DEF Formed
<1> QED BY <1>1, <1>5, <1>6 DEF FormInv

LEMMA CreditFormed == ASSUME HInv, FormInv, Credit PROVE FormInv'
<1>1. PICK i \in Of(host, "review", Unit) :
          /\ Creditable(host, core, i, target, Base)
          /\ LET ids == currentPlanUnit(core, Unit).criteria
             IN  \E exits \in [ids -> {0, 1}] :
                 LET results == [id \in ids |->
                                    criterionDisposition(exits[id], ReportOf(host[i]).status)]
                     whole == CreditRecords(core, Unit, results)
                     credit == [Envelope("credit") EXCEPT !.core = Len(core) + Len(whole)]
                               ++ [review |-> i, target |-> target, results |-> results,
                                   contract |-> BoundContractDigest(core),
                                   issuer |-> currentIssuer(core, Unit),
                                   record |-> Len(core) + Len(whole)]
                 IN  \/ Write(whole, <<credit>>)
                     \/ \E n \in 1..Len(whole) : Write(SubSeq(whole, 1, n), <<>>)
  BY DEF Credit
<1>2. \E whole, more :
          LET credit == [Envelope("credit") EXCEPT !.core = Len(core) + Len(whole)] ++ more
          IN  \/ Write(whole, <<credit>>)
              \/ \E n \in 1..Len(whole) : Write(SubSeq(whole, 1, n), <<>>)
  BY <1>1
<1>3. PICK whole, more :
          LET credit == [Envelope("credit") EXCEPT !.core = Len(core) + Len(whole)] ++ more
          IN  \/ Write(whole, <<credit>>)
              \/ \E n \in 1..Len(whole) : Write(SubSeq(whole, 1, n), <<>>)
  BY <1>2
<1> DEFINE e == [Envelope("credit") EXCEPT !.core = Len(core) + Len(whole)]
           credit == e ++ more
<1>4. {"kind", "at"} \subseteq DOMAIN e /\ e["kind"] = "credit" /\ e["at"] = clock
  BY DEF Envelope
<1> HIDE DEF e
<1>5. \A f \in DOMAIN e : credit[f] = e[f]
  BY Beside
<1>6. Formed
  <2>1. CASE Write(whole, <<credit>>)
    <3>1. host' = host \o <<credit>>
      BY <2>1 DEF Write
    <3> HIDE DEF credit
    <3>2. HostRecordTyped(credit)
      BY <1>4, <1>5 DEF FormInv, HostRecordTyped
    <3> QED BY <3>1, <3>2 DEF Formed
  <2>2. CASE \E n \in 1..Len(whole) : Write(SubSeq(whole, 1, n), <<>>)
    BY <2>2, GrowsByNothing DEF Write, HInv, Formed
  <2> QED BY <1>3, <2>1, <2>2 DEF e
<1>7. \A i_1 \in DOMAIN host' : HostRecordTyped(host'[i_1])
  BY <1>6, HostStaysFormed
<1>8. clock' = clock /\ draft' = draft
  BY DEF Credit
<1> QED BY <1>7, <1>8 DEF FormInv

\* The other steps write no host record.
LEMMA OthersFormed ==
    ASSUME HInv, FormInv,
           \/ PacketDrop \/ LaunchReviewer \/ FindingsImport \/ Transition
           \/ OtherEvidence \/ ChangeTarget \/ Tick \/ UNCHANGED vars
    PROVE  FormInv'
<1>1. host' = host
  <2>1. host \o <<>> = host
    BY GrowsByNothing DEF HInv
  <2> QED BY <2>1 DEF PacketDrop, LaunchReviewer, FindingsImport, Transition, OtherEvidence,
                      ChangeTarget, Tick, Write, vars
<1>2. draft' = draft \/ draft' = None
  BY DEF PacketDrop, LaunchReviewer, FindingsImport, Transition, OtherEvidence,
         ChangeTarget, Tick, vars
<1>3. clock' \in 1..Horizon
  <2>1. clock' = clock \/ (clock' = clock + 1 /\ clock < Horizon)
    BY DEF PacketDrop, LaunchReviewer, FindingsImport, Transition, OtherEvidence,
           ChangeTarget, Tick, vars
  <2>2. Horizon \in Nat
    BY ReviewAssumption
  <2> QED BY <2>1, <2>2 DEF FormInv
<1> QED BY <1>1, <1>2, <1>3 DEF FormInv

\* Records and the dispatch about to be recorded have the form they should have,
\* name earlier records, and an imported review names one receipt.
THEOREM ReviewTypesHold == Spec => []TypeOK
<1>1. Init => FormInv
  <2> SUFFICES ASSUME Init PROVE FormInv
    OBVIOUS
  <2>1. PICK s \in Starts : host = s.host /\ draft = None /\ clock = 1
    BY DEF Init
  <2>2. Horizon \in Nat \ {0} /\ \A i \in DOMAIN s.host : HostRecordTyped(s.host[i])
    BY ReviewAssumption
  <2> QED BY <2>1, <2>2 DEF FormInv
<1>2. HInv /\ FormInv /\ [Next]_vars => FormInv'
  BY BindRepositoryFormed, DecideFormed, PreflightFormed, DispatchImplementationFormed,
     DispatchReviewFormed, RecordReviewFormed, ReviewImportFormed, PacketReadFormed,
     PacketCommitFormed, CreditFormed, OthersFormed DEF Next
<1>3. HInv /\ FormInv => TypeOK
  <2> SUFFICES ASSUME HInv, FormInv PROVE TypeOK
    OBVIOUS
  <2>1. ASSUME NEW i \in DOMAIN host
        PROVE  /\ HostRecordTyped(host[i]) /\ host[i].core \in 1..Len(core)
               /\ host[i].kind = "review" =>
                     /\ host[i].dispatch \in 1..(i - 1) /\ Reviews(host[host[i].dispatch])
                     /\ host[i].receipt # None =>
                           Cardinality({l \in ledger : l.run = host[i].receipt}) = 1
               /\ host[i].kind = "credit" => host[i].review \in 1..(i - 1)
    <3>1. /\ HostRecordTyped(host[i]) /\ host[i].core \in 1..Len(core)
          /\ AnswersDispatch(host, i) /\ AnswersLaunch(host, i, ledger)
          /\ CreditFollows(host, i, core)
      BY DEF FormInv, HInv, CoresNamed, HostInOrder, RecordInOrder, CreditsInOrder
    <3>2. ASSUME host[i].kind = "review", host[i].receipt # None
          PROVE  Cardinality({l \in ledger : l.run = host[i].receipt}) = 1
      <4>1. PICK l \in ledger : l.run = host[i].receipt
        BY <3>1, <3>2 DEF AnswersLaunch
      <4>2. {m \in ledger : m.run = host[i].receipt} = {l}
        BY <4>1 DEF HInv, OneLaunchPerRun
      <4> QED BY <4>2, FS_Singleton
    <3>3. host[i].kind = "credit" => host[i].review \in 1..(i - 1)
      BY <3>1 DEF CreditFollows
    <3>4. host[i].kind = "review" =>
              host[i].dispatch \in 1..(i - 1) /\ Reviews(host[host[i].dispatch])
      BY <3>1 DEF AnswersDispatch
    <3> QED BY <3>1, <3>2, <3>3, <3>4
  <2>2. HostRecordsTyped
    BY <2>1 DEF HostRecordsTyped
  <2>3. draft # None => Reviews(draft) /\ draft.packet.run \in Runs /\ draft.core <= Len(core)
    BY ChainFacts DEF HInv, DraftOK, FormInv
  <2>4. \A g \in gates : g.at \in DOMAIN core /\ g.host <= Len(host)
    BY ChainFacts DEF HInv, GatesPassed, GatePassed
  <2> QED BY <2>2, <2>3, <2>4 DEF TypeOK, HInv, FormInv
<1> QED BY <1>1, <1>2, <1>3, HInvAlways, PTL DEF Spec
===============================================================================
