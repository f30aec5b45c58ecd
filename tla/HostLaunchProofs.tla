--------------------------- MODULE HostLaunchProofs ---------------------------
(***************************************************************************)
(* Proofs about HostLaunch, for all plans, controllers, requests, policies *)
(* and moves, and for all the states a run is picked up at that are in     *)
(* order themselves.                                                       *)
(*                                                                         *)
(* The hook decides to charge an attempt, waits, and then writes the       *)
(* charge.  That it was fresh and within budget when it was written rests  *)
(* on both chains standing still in between: Pending says what the charge  *)
(* that is waiting still satisfies.                                        *)
(***************************************************************************)
EXTENDS HostLaunch, ChainLemmas, FiniteSetTheorems

\* What a charge satisfies until it is written.
Pending(r) ==
    /\ r.kind = "reservation" /\ r.unit = Unit /\ r.gen \in DOMAIN core
    /\ \A i \in Reservations :
          /\ host[i].id # r.id
          /\ <<host[i].ctl, host[i].idx>> # <<r.ctl, r.idx>>
          /\ host[i].sig = None \/ host[i].sig # r.sig
    /\ Cardinality(Reservations) < Plans[core[r.gen].approval.plan].attempts
    /\ core[r.gen].approval.plan \in DOMAIN Plans

Chains ==
    /\ Numbered(core) /\ Numbered(host)
    /\ \A i \in Reservations : host[i].unit = Unit /\ host[i].gen \in DOMAIN core

LInv ==
    /\ Chains
    /\ ChargedOnce
    /\ AttemptsKept
    /\ call # None /\ call.phase = "waiting" => Pending(call.charge)

-----------------------------------------------------------------------------
(* Records.                                                                *)

\* A field of a host record is the envelope's, or else what was joined to it.
LEMMA EnvelopeField ==
    ASSUME NEW k, NEW t, NEW r
    PROVE  /\ (Envelope(k, t) ++ r).kind = k
           /\ (Envelope(k, t) ++ r).unit = Unit
           /\ \A f \in DOMAIN r \ {"kind", "unit", "core", "at"} : (Envelope(k, t) ++ r)[f] = r[f]
BY DEF Envelope, ++

-----------------------------------------------------------------------------
(* Steps of other commands.                                                *)

Other(hs) == \A i \in DOMAIN hs : hs[i].kind # "reservation"

\* What another command writes leaves the charges, and their leases, alone.
LEMMA WriteKeeps ==
    ASSUME LInv, NEW rs, NEW hs, Numbered(rs), Numbered(hs), Other(hs), Write(rs, hs)
    PROVE  /\ call = None /\ Numbered(core') /\ Numbered(host')
           /\ Reservations' = Reservations
           /\ \A i \in Reservations :
                 /\ host'[i] = host[i] /\ host[i].gen \in DOMAIN core'
                 /\ core'[host[i].gen] = core[host[i].gen]
<1>1. /\ core' = core \o rs /\ host' = host \o hs
      /\ Numbered(core) /\ Numbered(host) /\ call = None
  BY DEF Write, LInv, Chains
<1>2. /\ Len(host) \in Nat /\ DOMAIN host = 1..Len(host)
      /\ Len(core) \in Nat /\ DOMAIN core = 1..Len(core)
      /\ Len(rs) \in Nat /\ Len(hs) \in Nat /\ DOMAIN hs = 1..Len(hs)
  BY <1>1, ChainFacts
<1>3. /\ DOMAIN host' = 1..(Len(host) + Len(hs)) /\ Numbered(host')
      /\ \A i \in DOMAIN host : host'[i] = host[i]
      /\ \A i \in 1..Len(hs) : host'[Len(host) + i] = hs[i]
  BY <1>1, <1>2, Continued
<1>4. /\ DOMAIN core' = 1..(Len(core) + Len(rs)) /\ Numbered(core')
      /\ \A i \in DOMAIN core : core'[i] = core[i]
  BY <1>1, <1>2, Continued
<1>5. Reservations' = Reservations
  <2>1. \A i \in DOMAIN host' : i \notin DOMAIN host => host'[i].kind # "reservation"
    <3> TAKE i \in DOMAIN host'
    <3> HAVE i \notin DOMAIN host
    <3>1. i - Len(host) \in 1..Len(hs) /\ i = Len(host) + (i - Len(host))
      BY <1>2, <1>3
    <3>2. host'[i] = hs[i - Len(host)]
      BY <1>3, <3>1
    <3> QED BY <1>2, <3>1, <3>2 DEF Other
  <2>2. DOMAIN host \subseteq DOMAIN host'
    BY <1>2, <1>3
  <2> QED BY <1>3, <2>1, <2>2 DEF Reservations, Kind
<1>6. \A i \in Reservations : i \in DOMAIN host /\ host'[i] = host[i]
  BY <1>3 DEF Reservations, Kind
<1>7. \A i \in Reservations : core'[host[i].gen] = core[host[i].gen]
                              /\ host[i].gen \in DOMAIN core'
  BY <1>2, <1>4 DEF LInv, Chains
<1> QED BY <1>1, <1>3, <1>4, <1>5, <1>6, <1>7

\* What another command writes charges nothing, and takes nothing back.
LEMMA WriteCharges ==
    ASSUME LInv, NEW rs, NEW hs, Numbered(rs), Numbered(hs), Other(hs), Write(rs, hs),
           call' = call
    PROVE  LInv'
<1>1. /\ call = None /\ Numbered(core') /\ Numbered(host')
      /\ Reservations' = Reservations
      /\ \A i \in Reservations :
            /\ host'[i] = host[i] /\ host[i].gen \in DOMAIN core'
            /\ core'[host[i].gen] = core[host[i].gen]
  BY WriteKeeps
<1>2. ChargedOnce' /\ AttemptsKept'
  BY <1>1 DEF LInv, ChargedOnce, ChargedOnceIn, AttemptsKept, AttemptsKeptIn, Reservations
<1>3. Chains'
  BY <1>1 DEF Chains, LInv
<1> QED BY <1>1, <1>2, <1>3 DEF LInv

\* A step that writes neither chain, and leaves no new charge waiting.
LEMMA QuietCharges ==
    ASSUME LInv, UNCHANGED <<core, host>>,
           call' = call \/ call' = None
    PROVE  LInv'
BY DEF LInv, Chains, ChargedOnce, AttemptsKept, Reservations, Pending

-----------------------------------------------------------------------------
(* The hook.                                                               *)

\* The unit's counters are over all the charges there are.
LEMMA CountedAll ==
    ASSUME LInv, NEW gen
    PROVE  unitCounters(host, gen) = CountersOf(host, Reservations)
<1>1. {i \in Kind(host, "reservation") : host[i].unit = Unit} = Reservations
  BY DEF LInv, Chains, Reservations
<1> QED BY <1>1 DEF unitCounters

\* What the waiting charge is of the request it is for.
LEMMA ChargeDecided ==
    ASSUME Charge
    PROVE  \E req \in Requests, plan \in DOMAIN Plans, policy \in Policies :
              /\ Admissible(req, plan)
              /\ unitCounters(host, Issuer).cost + Envelopes[req.env].cost <= Plans[plan].cost
              /\ call'.charge.cost = Envelopes[req.env].cost /\ call'.charge.gen = Issuer
<1>1. PICK req \in Requests, plan \in DOMAIN Plans, policy \in Policies :
          /\ Admissible(req, plan)
          /\ unitCounters(host, Issuer).cost + Envelopes[req.env].cost <= Plans[plan].cost
          /\ call' =
                [phase |-> "waiting", req |-> req, plan |-> plan, policy |-> policy,
                 until |-> Min({LeaseEnd(plan), host[Preflown].expires}),
                 charge |->
                    Envelope("reservation", WholeSecond(clock))
                    ++ [ctl |-> ctl(req), idx |-> req.idx, id |-> req.id, sig |-> req.sig,
                        req |-> req, admission |-> Admission(req),
                        route |-> host[Preflown].route, cost |-> Envelopes[req.env].cost,
                        from |-> WholeSecond(clock), until |-> LeaseEnd(plan),
                        gen |-> Issuer]]
  BY ZenonT(60) DEF Charge
<1>2. call'.charge.cost = Envelopes[req.env].cost /\ call'.charge.gen = Issuer
  BY <1>1, EnvelopeField
<1> QED BY <1>1, <1>2

\* A charge that is decided is fresh and within the budget.
LEMMA ChargePending ==
    ASSUME LInv, Charge
    PROVE  LInv'
<1>1. PICK req \in Requests, plan \in DOMAIN Plans, policy \in Policies :
          /\ Admissible(req, plan)
          /\ req.sig # None => \A i \in Kind(host, "reservation") : host[i].sig # req.sig
          /\ call' =
                [phase |-> "waiting", req |-> req, plan |-> plan, policy |-> policy,
                 until |-> Min({LeaseEnd(plan), host[Preflown].expires}),
                 charge |->
                    Envelope("reservation", WholeSecond(clock))
                    ++ [ctl |-> ctl(req), idx |-> req.idx, id |-> req.id, sig |-> req.sig,
                        req |-> req, admission |-> Admission(req),
                        route |-> host[Preflown].route, cost |-> Envelopes[req.env].cost,
                        from |-> WholeSecond(clock), until |-> LeaseEnd(plan),
                        gen |-> Issuer]]
  BY ZenonT(60) DEF Charge
<1> DEFINE r == call.charge
<1>2. /\ r'.kind = "reservation" /\ r'.unit = Unit /\ r'.gen = Issuer
      /\ r'.ctl = ctl(req) /\ r'.idx = req.idx /\ r'.id = req.id /\ r'.sig = req.sig
  BY <1>1, EnvelopeField
<1>3. UNCHANGED <<core, host>>
  BY DEF Charge
<1>4. Issuer \in DOMAIN core
  BY <1>1, IssuerInChain DEF Admissible, Issuer, LInv, Chains
<1>5. LeaseUnder(plan, unitCounters(host, Issuer))
  BY <1>1 DEF Admissible
<1>6. /\ core[Issuer].approval.plan = plan
      /\ unitCounters(host, Issuer).attempts < Plans[plan].attempts
  BY <1>5 DEF LeaseUnder, LeaseHolds, Issuer
<1>7. unitCounters(host, Issuer).attempts = Cardinality(Reservations)
  BY CountedAll DEF CountersOf
<1>8. \A i \in Reservations :
          /\ host[i].id # req.id
          /\ ~(host[i].ctl = ctl(req) /\ host[i].idx = req.idx)
  BY <1>1 DEF Admissible, Fresh, Reservations
<1>9. Pending(r)'
  <2>1. \A i \in Reservations : host[i].sig = None \/ host[i].sig # req.sig
    BY <1>1 DEF Reservations
  <2> HIDE DEF r
  <2>2. Reservations' = Reservations
    BY <1>3 DEF Reservations
  <2> QED BY <2>1, <2>2, <1>2, <1>3, <1>4, <1>6, <1>7, <1>8 DEF Pending
<1>10. Chains' /\ ChargedOnce' /\ AttemptsKept'
  BY <1>3 DEF LInv, Chains, ChargedOnce, AttemptsKept, Reservations
<1> QED BY <1>9, <1>10 DEF LInv

\* Writing the charge adds it to those there are, after them.
LEMMA CommitAdds ==
    ASSUME LInv, Commit
    PROVE  /\ Pending(call.charge) /\ Numbered(host) /\ Numbered(core)
           /\ core' = core /\ call'.phase = "charged" /\ call.phase = "waiting" /\ call # None
           /\ Len(host) \in Nat /\ DOMAIN host = 1..Len(host) /\ Numbered(host')
           /\ host'[Len(host) + 1] = call.charge
           /\ \A i \in DOMAIN host : host'[i] = host[i]
           /\ Reservations' = Reservations \cup {Len(host) + 1}
           /\ Len(host) + 1 \notin Reservations
           /\ \A i \in Reservations : i \in DOMAIN host /\ i < Len(host) + 1
                                     /\ host'[i] = host[i]
<1> DEFINE r == call.charge
           n == Len(host) + 1
<1>1. /\ host' = Append(host, r) /\ core' = core /\ call'.phase = "charged"
      /\ Pending(r) /\ Numbered(host) /\ Numbered(core)
      /\ call.phase = "waiting" /\ call # None
  <2>1. call' = [call EXCEPT !.phase = "charged"]
    BY DEF Commit
  <2> QED BY <2>1 DEF Commit, LInv, Chains
<1> HIDE DEF r
<1>2. /\ Len(host) \in Nat /\ DOMAIN host = 1..Len(host) /\ DOMAIN host' = 1..n
      /\ Numbered(host') /\ host'[n] = r /\ \A i \in DOMAIN host : host'[i] = host[i]
  BY <1>1, ChainFacts, Appended
<1>3. /\ Reservations' = Reservations \cup {n} /\ n \notin Reservations
      /\ \A i \in Reservations : i \in DOMAIN host /\ i < n /\ host'[i] = host[i]
  BY <1>1, <1>2 DEF Reservations, Kind, Pending
<1> QED BY <1>1, <1>2, <1>3 DEF r

\* Writing the charge keeps attempts apart and within the budget.
LEMMA CommitCharges ==
    ASSUME LInv, Commit
    PROVE  LInv'
<1> DEFINE r == call.charge
           n == Len(host) + 1
<1>1. /\ core' = core /\ call'.phase = "charged"
      /\ Pending(r) /\ Numbered(host) /\ Numbered(core)
  BY CommitAdds
<1>2. /\ Len(host) \in Nat /\ DOMAIN host = 1..Len(host)
      /\ Numbered(host') /\ host'[n] = r /\ \A i \in DOMAIN host : host'[i] = host[i]
  BY CommitAdds
<1>3. /\ Reservations' = Reservations \cup {n} /\ n \notin Reservations
      /\ \A i \in Reservations : i \in DOMAIN host /\ i < n /\ host'[i] = host[i]
  BY CommitAdds
<1> HIDE DEF r
<1>4. Chains'
  BY <1>1, <1>2, <1>3 DEF Chains, LInv, Pending
<1>5. ChargedOnce'
  BY <1>1, <1>2, <1>3 DEF ChargedOnce, ChargedOnceIn, LInv, Pending, Reservations
<1>6. AttemptsKept'
  <2> SUFFICES ASSUME NEW i \in Reservations'
               PROVE  Cardinality({j \in Reservations' : j <= i})
                          <= Plans[core[host'[i].gen].approval.plan].attempts
    BY <1>1 DEF AttemptsKept, AttemptsKeptIn, Reservations
  <2>1. CASE i \in Reservations
    <3>1. {j \in Reservations' : j <= i} = {j \in Reservations : j <= i}
      BY <2>1, <1>2, <1>3
    <3> QED BY <2>1, <3>1, <1>3 DEF LInv, AttemptsKept, AttemptsKeptIn, Reservations
  <2>2. CASE i = n
    <3>1. {j \in Reservations' : j <= i} = Reservations \cup {n}
      <4>1. \A j \in Reservations : j \in Nat /\ j <= n
        BY <1>2, <1>3
      <4>2. n \in Nat
        BY <1>2
      <4> HIDE DEF n
      <4> QED BY <2>2, <4>1, <4>2, <1>3
    <3>2. IsFiniteSet(Reservations)
      <4>1. Reservations \subseteq 1..Len(host)
        BY <1>2 DEF Reservations, Kind
      <4>2. IsFiniteSet(1..Len(host))
        BY <1>2, FS_Interval
      <4> QED BY <4>1, <4>2, FS_Subset
    <3>3. Cardinality(Reservations \cup {n}) = Cardinality(Reservations) + 1
      BY <3>2, <1>3, FS_AddElement
    <3>4. Cardinality(Reservations) \in Nat
      BY <3>2, FS_CardinalityType
    <3>5. Cardinality(Reservations) < Plans[core[r.gen].approval.plan].attempts
          /\ Plans[core[r.gen].approval.plan].attempts \in Nat
      BY <1>1, PlansAssumption DEF Pending
    <3>6. host'[i].gen = r.gen
      BY <2>2, <1>2
    <3>7. Cardinality(Reservations) + 1 <= Plans[core[r.gen].approval.plan].attempts
      BY <3>4, <3>5
    <3> HIDE DEF n
    <3>8. Cardinality({j \in Reservations' : j <= i})
              <= Plans[core[r.gen].approval.plan].attempts
      BY <3>1, <3>3, <3>7
    <3> QED BY <3>6, <3>8
  <2> QED BY <2>1, <2>2, <1>3
<1> QED BY <1>1, <1>4, <1>5, <1>6 DEF LInv

-----------------------------------------------------------------------------
(* The other commands.                                                     *)

\* A changed policy is put on record, and nothing else.
LEMMA PolicyChangeOther ==
    ASSUME NEW plan, NEW policy
    PROVE  Numbered(PolicyChange(plan, policy)) /\ Other(PolicyChange(plan, policy))
<1>1. \A r : r.kind # "reservation" => Other(<<r>>)
  BY DEF Other
<1> QED BY <1>1, ShortChains, EnvelopeField DEF PolicyChange, Other

\* One host record of another kind.
LEMMA OneOther ==
    ASSUME NEW r, r.kind # "reservation"
    PROVE  Numbered(<<r>>) /\ Other(<<r>>)
BY ShortChains DEF Other

\* No host record.
LEMMA NoneOther == Numbered(<<>>) /\ Other(<<>>)
BY ShortChains DEF Other

\* The commands other than the hook's charge.
OtherCommand ==
    \/ PolicyRefused \/ Admit \/ Replay \/ Preflight \/ Reconcile \/ LoopEvidence
    \/ Transition \/ Resolve

\* What they write is no charge.
LEMMA CommandsWrite ==
    ASSUME OtherCommand
    PROVE  \E rs, hs : /\ Numbered(rs) /\ Numbered(hs) /\ Other(hs) /\ Write(rs, hs)
                       /\ call' = call
<1>1. PICK rs, hs : Numbered(rs) /\ Numbered(hs) /\ Other(hs) /\ Write(rs, hs) /\ call' = call
  <2>1. CASE PolicyRefused \/ Replay
    <3>1. PICK plan, policy : Write(<<>>, PolicyChange(plan, policy))
      BY <2>1 DEF PolicyRefused, Replay
    <3> QED BY <2>1, <3>1, PolicyChangeOther, NoneOther DEF PolicyRefused, Replay
  <2>2. CASE Admit
    <3>1. PICK r : Write(<<>>, <<Envelope("loop_admission", clock) ++ r>>)
      BY <2>2 DEF Admit
    <3>2. (Envelope("loop_admission", clock) ++ r).kind # "reservation"
      BY EnvelopeField
    <3> QED BY <2>2, <3>1, <3>2, OneOther, NoneOther DEF Admit
  <2>3. CASE Preflight
    <3>1. PICK p, r : Write(<<>>, <<Envelope("preflight", clock) ++ p ++ r>>)
      BY <2>3 DEF Preflight
    <3>2. (Envelope("preflight", clock) ++ p ++ r).kind # "reservation"
      BY DEF Envelope, ++
    <3> QED BY <2>3, <3>1, <3>2, OneOther, NoneOther DEF Preflight
  <2>4. CASE Reconcile
    <3>1. PICK bad, policy, at, hs :
              /\ Write(UnauthorizedRecord(bad), hs)
              /\ hs = <<ReconciliationRecord(bad, policy, at)>> \/ hs = <<>>
      BY <2>4 DEF Reconcile
    <3>2. ReconciliationRecord(bad, policy, at).kind # "reservation"
      BY DEF ReconciliationRecord, Envelope, ++
    <3>3. Numbered(UnauthorizedRecord(bad))
      BY ShortChains DEF UnauthorizedRecord
    <3>4. call' = call
      BY <2>4 DEF Reconcile
    <3> QED BY <3>1, <3>2, <3>3, <3>4, OneOther, NoneOther
  <2>5. CASE LoopEvidence
    <3>1. PICK a, r, c, hs :
              /\ Write(<<c>>, hs)
              /\ hs = <<[Envelope("loop_evidence", clock) EXCEPT !.core = a] ++ r>> \/ hs = <<>>
      BY <2>5 DEF LoopEvidence
    <3>2. ([Envelope("loop_evidence", clock) EXCEPT !.core = a] ++ r).kind # "reservation"
      BY DEF Envelope, ++
    <3>3. call' = call
      BY <2>5 DEF LoopEvidence
    <3> QED BY <3>1, <3>2, <3>3, OneOther, NoneOther, ShortChains
  <2>6. CASE Transition \/ Resolve
    <3>1. PICK c : Write(<<c>>, <<>>)
      BY <2>6 DEF Transition, Resolve
    <3> QED BY <2>6, <3>1, NoneOther, ShortChains DEF Transition, Resolve
  <2> QED BY <2>1, <2>2, <2>3, <2>4, <2>5, <2>6 DEF OtherCommand
<1> QED BY <1>1

\* What the other commands do charges nothing.
LEMMA CommandsCharge ==
    ASSUME LInv, OtherCommand
    PROVE  LInv'
<1>1. PICK rs, hs : Numbered(rs) /\ Numbered(hs) /\ Other(hs) /\ Write(rs, hs) /\ call' = call
  BY CommandsWrite
<1> QED BY <1>1, WriteCharges

\* Runs are picked up with their charges in order.
LEMMA InitCharges == Init => LInv
<1> SUFFICES ASSUME Init PROVE LInv
  OBVIOUS
<1>1. PICK s \in Starts : core = s.core /\ host = s.host /\ call = None
  BY DEF Init
<1>2. /\ Numbered(core) /\ Numbered(host)
      /\ ChargedOnceIn(host) /\ AttemptsKeptIn(core, host)
      /\ \A i \in DOMAIN host : HostRecordInOrder(core, host, i, s.clock)
  BY <1>1, StartsAssumption
<1>3. \A i \in Reservations : host[i].unit = Unit /\ host[i].gen \in DOMAIN core
  BY <1>2 DEF Reservations, Kind, HostRecordInOrder, ReservationInOrder
<1> QED BY <1>1, <1>2, <1>3 DEF LInv, Chains, ChargedOnce, AttemptsKept

\* Every step keeps the charges in order.
LEMMA NextCharges == LInv /\ [Next]_vars => LInv'
<1> SUFFICES ASSUME LInv, [Next]_vars PROVE LInv'
  OBVIOUS
<1>1. CASE Retain \/ Answer \/ Die \/ Launch \/ Receipt \/ Tick \/ UNCHANGED vars
  <2>1. UNCHANGED <<core, host>> /\ (call' = call \/ call' = None)
    BY <1>1 DEF Retain, Answer, Die, Launch, Receipt, Tick, vars
  <2> QED BY <2>1, QuietCharges
<1> QED BY <1>1, ChargePending, CommitCharges, CommandsCharge DEF Next, OtherCommand

\* No attempt, dispatch id or failure is ever charged twice, however commands,
\* launches, crashes of the hook and retries interleave.
THEOREM ChargedOnceHolds == Spec => []ChargedOnce
<1>1. LInv => ChargedOnce
  BY DEF LInv
<1> QED BY InitCharges, NextCharges, <1>1, PTL DEF Spec

\* No unit is ever charged more attempts than the plan of its lease allows,
\* however its leases and controllers change.
THEOREM AttemptsKeptHolds == Spec => []AttemptsKept
<1>1. LInv => AttemptsKept
  BY DEF LInv
<1> QED BY InitCharges, NextCharges, <1>1, PTL DEF Spec

-----------------------------------------------------------------------------
(* What a set of charges costs.  The cost is a fold, and a fold a recursive *)
(* function on the subsets of what it folds: it exists on finite sets, does *)
(* not depend on the order it takes the records in, and grows with a charge *)
(* by what the charge costs.                                                *)

\* A set of numbers that has 0, and with each number the next, has them all.
LEMMA CountUp ==
    ASSUME NEW T, T \subseteq Nat, 0 \in T, \A k \in T : k + 1 \in T
    PROVE  T = Nat
<1>1. \E R : IsWellFoundedOn(R, Nat) /\ \A x, y \in Nat : <<y, x>> \in R <=> y < x
  <2> WITNESS OpToRel(<, Nat)
  <2>1. \A x, y \in Nat : <<y, x>> \in OpToRel(<, Nat) <=> y < x
    BY DEF OpToRel
  <2> QED BY <2>1, NatLessThanWellFounded
<1>2. PICK R : IsWellFoundedOn(R, Nat) /\ \A x, y \in Nat : <<y, x>> \in R <=> y < x
  BY <1>1
<1> SUFFICES ASSUME Nat \ T # {} PROVE FALSE
  OBVIOUS
<1>3. PICK x \in Nat \ T : \A y \in Nat \ T : ~ (<<y, x>> \in R)
  BY <1>2, WFMin
<1>4. x # 0 /\ x - 1 \in Nat /\ x - 1 < x /\ (x - 1) + 1 = x
  BY <1>3
<1>5. x - 1 \in T
  BY <1>2, <1>3, <1>4
<1> QED BY <1>3, <1>4, <1>5

\* The element of a set that a fold takes next.
Picked(s) == CHOOSE x \in s : TRUE

\* it sums, over each set of D, the costs of the records of h at its positions.
Sums(h, D, it) ==
    it = [s \in D |-> IF s = {} THEN 0 ELSE h[Picked(s)].cost + it[s \ {Picked(s)}]]
SumsAll(h, S, it) == Sums(h, SUBSET S, it)

\* h and g have the same costs in S.
Alike(h, g, S) == \A i \in S : g[i].cost = h[i].cost

UpTo(S, k) == {s \in SUBSET S : Cardinality(s) <= k}

\* A set has one element less without one of its elements.
LEMMA OneLess ==
    ASSUME NEW S, IsFiniteSet(S), NEW s \in SUBSET S, NEW x \in s
    PROVE  /\ s \ {x} \in SUBSET S /\ Cardinality(s) \in Nat
           /\ Cardinality(s \ {x}) \in Nat
           /\ Cardinality(s \ {x}) = Cardinality(s) - 1
<1>1. IsFiniteSet(s)
  BY FS_Subset
<1>2. Cardinality(s) \in Nat /\ IsFiniteSet(s \ {x})
      /\ Cardinality(s \ {x}) = Cardinality(s) - 1
  BY <1>1, FS_RemoveElement, FS_CardinalityType
<1> QED BY <1>2, FS_CardinalityType

\* There is such a function, built up by the size of the sets.
LEMMA SumsExist ==
    ASSUME NEW h, NEW S, IsFiniteSet(S)
    PROVE  \E it : SumsAll(h, S, it)
<1> DEFINE T == {k \in Nat : \E it : Sums(h, UpTo(S, k), it)}
<1>1. \A s \in SUBSET S : IsFiniteSet(s) /\ Cardinality(s) \in Nat
                          /\ (Cardinality(s) <= 0 => s = {})
  BY FS_Subset, FS_CardinalityType, FS_EmptySet
<1>2. 0 \in T
  <2>1. UpTo(S, 0) = {{}}
    BY <1>1, FS_EmptySet DEF UpTo
  <2>2. Sums(h, UpTo(S, 0), [s \in {{}} |-> 0])
    BY <2>1 DEF Sums
  <2> QED BY <2>2
<1>3. ASSUME NEW k \in T PROVE k + 1 \in T
  <2>1. PICK f : Sums(h, UpTo(S, k), f)
    OBVIOUS
  <2> DEFINE g == [s \in UpTo(S, k + 1) |->
                      IF s = {} THEN 0 ELSE h[Picked(s)].cost + f[s \ {Picked(s)}]]
  <2>2. ASSUME NEW s \in UpTo(S, k + 1), s # {}
        PROVE  s \ {Picked(s)} \in UpTo(S, k) /\ s \ {Picked(s)} \in UpTo(S, k + 1)
    <3>1. Picked(s) \in s
      BY <2>2 DEF Picked
    <3> QED BY <2>2, <3>1, OneLess DEF UpTo
  <2>3. \A s \in UpTo(S, k) : f[s] = g[s]
    <3>1. \A s \in UpTo(S, k) : s \in UpTo(S, k + 1)
      BY <1>1 DEF UpTo
    <3>2. \A s \in UpTo(S, k) : 
            f[s] = IF s = {} THEN 0 ELSE h[Picked(s)].cost + f[s \ {Picked(s)}]
      BY <2>1 DEF Sums
    <3> QED BY <3>1, <3>2
  <2>4. Sums(h, UpTo(S, k + 1), g)
    <3>1. \A s \in UpTo(S, k + 1) : s # {} => f[s \ {Picked(s)}] = g[s \ {Picked(s)}]
      BY <2>2, <2>3
    <3> HIDE DEF g
    <3>2. g = [s \in UpTo(S, k + 1) |->
                      IF s = {} THEN 0 ELSE h[Picked(s)].cost + f[s \ {Picked(s)}]]
      BY DEF g
    <3>3. [s \in UpTo(S, k + 1) |->
                      IF s = {} THEN 0 ELSE h[Picked(s)].cost + f[s \ {Picked(s)}]]
          = [s \in UpTo(S, k + 1) |->
                      IF s = {} THEN 0 ELSE h[Picked(s)].cost + g[s \ {Picked(s)}]]
      BY <3>1
    <3> QED BY <3>2, <3>3 DEF Sums
  <2> QED BY <2>4
<1>4. Cardinality(S) \in T
  <2>1. Cardinality(S) \in Nat
    BY FS_CardinalityType
  <2>2. T = Nat
    <3> HIDE DEF T
    <3>1. T \subseteq Nat
      BY DEF T
    <3> QED BY <1>2, <1>3, <3>1, CountUp
  <2> QED BY <2>1, <2>2
<1>5. UpTo(S, Cardinality(S)) = SUBSET S
  BY FS_Subset DEF UpTo
<1> QED BY <1>4, <1>5 DEF SumsAll

\* Sums of the same costs are the same, whatever sets they are part of.
LEMMA SumsAgree ==
    ASSUME NEW S, IsFiniteSet(S), NEW h, NEW it, SumsAll(h, S, it),
           NEW R, S \in SUBSET R, NEW g, NEW jt, SumsAll(g, R, jt),
           Alike(h, g, S)
    PROVE  jt[S] = it[S]
<1> DEFINE T == {k \in Nat : \A s \in UpTo(S, k) : jt[s] = it[s]}
<1>1. \A s \in SUBSET S : IsFiniteSet(s) /\ Cardinality(s) \in Nat
                          /\ (Cardinality(s) <= 0 => s = {})
  BY FS_Subset, FS_CardinalityType, FS_EmptySet
<1>2. \A s \in SUBSET S : s \in SUBSET R
  OBVIOUS
<1>3. /\ \A s \in SUBSET S :
            it[s] = IF s = {} THEN 0 ELSE h[Picked(s)].cost + it[s \ {Picked(s)}]
      /\ \A s \in SUBSET R :
            jt[s] = IF s = {} THEN 0 ELSE g[Picked(s)].cost + jt[s \ {Picked(s)}]
  <2>1. \A s \in SUBSET S :
            it[s] = IF s = {} THEN 0 ELSE h[Picked(s)].cost + it[s \ {Picked(s)}]
    BY DEF Sums, SumsAll
  <2>2. \A s \in SUBSET R :
            jt[s] = IF s = {} THEN 0 ELSE g[Picked(s)].cost + jt[s \ {Picked(s)}]
    BY DEF Sums, SumsAll
  <2> QED BY <2>1, <2>2
<1>4. 0 \in T
  <2>1. \A s \in UpTo(S, 0) : s = {} /\ s \in SUBSET S
    BY <1>1 DEF UpTo
  <2> QED BY <2>1, <1>2, <1>3
<1>5. ASSUME NEW k \in T PROVE k + 1 \in T
  <2>1. ASSUME NEW s \in UpTo(S, k + 1) PROVE jt[s] = it[s]
    <3>1. s \in SUBSET S /\ s \in SUBSET R /\ Cardinality(s) <= k + 1
      BY <2>1, <1>2 DEF UpTo
    <3>2. CASE s = {}
      BY <3>1, <3>2, <1>3
    <3>3. CASE s # {}
      <4> DEFINE x == Picked(s)
      <4>1. x \in s
        BY <3>3 DEF Picked
      <4> HIDE DEF x
      <4>2. s \ {x} \in UpTo(S, k)
        BY <3>1, <4>1, OneLess DEF UpTo
      <4>3. jt[s \ {x}] = it[s \ {x}]
        BY <4>2
      <4>4. g[x].cost = h[x].cost
        BY <3>1, <4>1 DEF Alike
      <4>5. it[s] = h[x].cost + it[s \ {x}] /\ jt[s] = g[x].cost + jt[s \ {x}]
        BY <3>1, <3>3, <1>3 DEF x
      <4> QED BY <4>3, <4>4, <4>5
    <3> QED BY <3>2, <3>3
  <2> QED BY <2>1
<1>6. Cardinality(S) \in T /\ S \in UpTo(S, Cardinality(S))
  <2>1. Cardinality(S) \in Nat
    BY FS_CardinalityType
  <2>2. T = Nat
    <3> HIDE DEF T
    <3>1. T \subseteq Nat
      BY DEF T
    <3> QED BY <1>4, <1>5, <3>1, CountUp
  <2> QED BY <2>1, <2>2 DEF UpTo
<1> QED BY <1>6

\* Costs can be summed in any order.
LEMMA SumTakes ==
    ASSUME NEW S, IsFiniteSet(S), NEW h, NEW it, SumsAll(h, S, it),
           \A i \in S : h[i].cost \in Nat
    PROVE  it[S] \in Nat /\ \A x \in S : it[S] = h[x].cost + it[S \ {x}]
<1> DEFINE Ordered(s) == it[s] \in Nat /\ \A x \in s : it[s] = h[x].cost + it[s \ {x}]
           T == {k \in Nat : \A s \in UpTo(S, k) : Ordered(s)}
<1>1. \A s \in SUBSET S : IsFiniteSet(s) /\ Cardinality(s) \in Nat
                          /\ (Cardinality(s) <= 0 => s = {})
  BY FS_Subset, FS_CardinalityType, FS_EmptySet
<1>2. \A s \in SUBSET S :
          it[s] = IF s = {} THEN 0 ELSE h[Picked(s)].cost + it[s \ {Picked(s)}]
  BY DEF Sums, SumsAll
<1>3. 0 \in T
  <2>1. \A s \in UpTo(S, 0) : s = {} /\ s \in SUBSET S
    BY <1>1 DEF UpTo
  <2>2. \A s \in UpTo(S, 0) : s = {} /\ it[s] = 0
    BY <2>1, <1>2
  <2> QED BY <2>2
<1>4. ASSUME NEW k \in T PROVE k + 1 \in T
  <2>1. ASSUME NEW s \in UpTo(S, k + 1) PROVE Ordered(s)
    <3>1. s \in SUBSET S /\ Cardinality(s) <= k + 1
      BY <2>1 DEF UpTo
    <3>2. CASE s = {}
      <4>1. it[s] = 0
        BY <3>1, <3>2, <1>2
      <4> QED BY <3>2, <4>1
    <3>3. CASE s # {}
      <4> DEFINE c == Picked(s)
      <4>1. c \in s
        BY <3>3 DEF Picked
      <4> HIDE DEF c
      <4>2. it[s] = h[c].cost + it[s \ {c}]
        BY <1>2, <3>1, <3>3 DEF c
      <4>3. \A x \in s : s \ {x} \in UpTo(S, k) /\ h[x].cost \in Nat
        BY <3>1, OneLess DEF UpTo
      <4>4. \A x \in s : Ordered(s \ {x})
        BY <4>3
      <4>5. it[s] \in Nat
        BY <4>1, <4>2, <4>3, <4>4
      <4>6. ASSUME NEW x \in s PROVE it[s] = h[x].cost + it[s \ {x}]
        <5>1. CASE x = c
          BY <5>1, <4>2
        <5>2. CASE x # c
          <6>1. x \in s \ {c} /\ c \in s \ {x} /\ (s \ {c}) \ {x} = (s \ {x}) \ {c}
            BY <5>2, <4>1
          <6>2. it[s \ {c}] = h[x].cost + it[(s \ {c}) \ {x}]
            BY <6>1, <4>1, <4>4
          <6>3. it[s \ {x}] = h[c].cost + it[(s \ {x}) \ {c}]
            BY <6>1, <4>4
          <6>4. (s \ {c}) \ {x} \in UpTo(S, k)
            <7>1. s \ {c} \in SUBSET S /\ Cardinality(s \ {c}) \in Nat
                  /\ Cardinality(s \ {c}) <= k
              BY <3>1, <4>1, OneLess
            <7> QED BY <7>1, <6>1, OneLess DEF UpTo
          <6>5. it[(s \ {c}) \ {x}] \in Nat
            BY <6>4
          <6> HIDE DEF Ordered
          <6> DEFINE rest == it[(s \ {c}) \ {x}]
                     a == h[x].cost
                     b == h[c].cost
          <6>6. it[s \ {x}] = b + rest /\ it[s] = b + (a + rest)
            BY <6>1, <6>2, <6>3, <4>2
          <6>7. a \in Nat /\ b \in Nat /\ rest \in Nat
            BY <4>1, <4>3, <6>5
          <6> HIDE DEF rest, a, b
          <6>8. it[s] = a + it[s \ {x}]
            BY <6>6, <6>7
          <6> QED BY <6>8 DEF a
        <5> QED BY <5>1, <5>2
      <4> QED BY <4>5, <4>6
    <3> QED BY <3>2, <3>3
  <2> QED BY <2>1
<1>5. Cardinality(S) \in T /\ S \in UpTo(S, Cardinality(S))
  <2>1. Cardinality(S) \in Nat
    BY FS_CardinalityType
  <2>2. T = Nat
    <3> HIDE DEF T
    <3>1. T \subseteq Nat
      BY DEF T
    <3> QED BY <1>3, <1>4, <3>1, CountUp
  <2>3. S \in UpTo(S, Cardinality(S))
    BY <2>1 DEF UpTo
  <2> HIDE DEF T
  <2> QED BY <2>1, <2>2, <2>3
<1>6. Ordered(S)
  BY <1>5
<1> QED BY <1>6

\* The cost of some records is such a sum.
LEMMA CostSums ==
    ASSUME NEW h, NEW S, IsFiniteSet(S)
    PROVE  \E it : SumsAll(h, S, it) /\ CostOf(h, S) = it[S]
<1>1. PICK t : SumsAll(h, S, t)
  BY SumsExist
<1> QED BY <1>1 DEF CostOf, SumsAll, Sums, Picked, MapThenSumSet, MapThenFoldSet

\* It depends on nothing but their costs.
LEMMA CostSame ==
    ASSUME NEW S, IsFiniteSet(S), NEW h, NEW g, Alike(h, g, S)
    PROVE  CostOf(g, S) = CostOf(h, S)
<1>1. PICK it : SumsAll(h, S, it) /\ CostOf(h, S) = it[S]
  BY CostSums
<1>2. PICK jt : SumsAll(g, S, jt) /\ CostOf(g, S) = jt[S]
  BY CostSums
<1>3. jt[S] = it[S]
  <2>1. S \in SUBSET S
    OBVIOUS
  <2> QED BY <1>1, <1>2, <2>1, SumsAgree
<1> QED BY <1>1, <1>2, <1>3

\* One more record adds its own cost.
LEMMA CostAdds ==
    ASSUME NEW S, IsFiniteSet(S), NEW h, NEW n, n \notin S,
           \A i \in S \cup {n} : h[i].cost \in Nat
    PROVE  CostOf(h, S \cup {n}) = CostOf(h, S) + h[n].cost /\ CostOf(h, S) \in Nat
<1>1. IsFiniteSet(S \cup {n})
  BY FS_AddElement
<1>2. PICK it : SumsAll(h, S, it) /\ CostOf(h, S) = it[S]
  BY CostSums
<1>3. PICK jt : SumsAll(h, S \cup {n}, jt) /\ CostOf(h, S \cup {n}) = jt[S \cup {n}]
  BY <1>1, CostSums
<1>4. jt[S] = it[S]
  <2>1. S \in SUBSET (S \cup {n}) /\ Alike(h, h, S)
    BY DEF Alike
  <2> QED BY <1>2, <1>3, <2>1, SumsAgree
<1>5. (S \cup {n}) \ {n} = S
  OBVIOUS
<1>6. jt[S \cup {n}] = h[n].cost + jt[(S \cup {n}) \ {n}]
  BY <1>1, <1>3, SumTakes
<1>7. it[S] \in Nat
  BY <1>2, SumTakes
<1>8. h[n].cost \in Nat
  OBVIOUS
<1>9. jt[S \cup {n}] = it[S] + h[n].cost
  <2>1. jt[S \cup {n}] = h[n].cost + it[S]
    BY <1>4, <1>5, <1>6
  <2>2. \A a, b \in Nat : a + b = b + a
    OBVIOUS
  <2>3. h[n].cost + it[S] = it[S] + h[n].cost
    BY <1>7, <1>8, <2>2, Zenon
  <2> QED BY <2>1, <2>3
<1> QED BY <1>2, <1>3, <1>7, <1>9

-----------------------------------------------------------------------------
(* The budget.                                                             *)

\* What the cost of a charge satisfies until it is written.
Affordable(r) ==
    /\ r.cost \in Nat
    /\ CostOf(host, Reservations) + r.cost <= Plans[core[r.gen].approval.plan].cost

Costs ==
    /\ CostsKeptIn(core, host)
    /\ \A i \in Reservations : host[i].cost \in Nat

BInv ==
    /\ LInv /\ Costs
    /\ call # None /\ call.phase = "waiting" => Affordable(call.charge)

\* Charges up to one of them are finitely many.
LEMMA ChargesFinite ==
    ASSUME LInv
    PROVE  IsFiniteSet(Reservations)
           /\ \A i \in Reservations : IsFiniteSet({j \in Reservations : j <= i})
<1>1. Len(host) \in Nat /\ Reservations \subseteq 1..Len(host)
  <2>1. Len(host) \in Nat /\ DOMAIN host = 1..Len(host)
    BY ChainFacts DEF LInv, Chains
  <2> QED BY <2>1 DEF Reservations, Kind
<1>2. IsFiniteSet(1..Len(host))
  BY <1>1, FS_Interval
<1>3. IsFiniteSet(Reservations)
  BY <1>1, <1>2, FS_Subset
<1>4. \A i \in Reservations : {j \in Reservations : j <= i} \in SUBSET Reservations
  OBVIOUS
<1> QED BY <1>3, <1>4, FS_Subset

\* Steps that leave the charges there are, and their leases, alone.
LEMMA KeptCosts ==
    ASSUME LInv, Costs, Reservations' = Reservations,
           \A i \in Reservations :
              /\ host'[i] = host[i] /\ core'[host[i].gen] = core[host[i].gen]
    PROVE  Costs'
<1>1. ASSUME NEW i \in Reservations
      PROVE  CostOf(host', {j \in Reservations : j <= i})
                 <= Plans[core'[host'[i].gen].approval.plan].cost
  <2> DEFINE S == {j \in Reservations : j <= i}
  <2>1. CostOf(host, S) <= Plans[core[host[i].gen].approval.plan].cost
    BY DEF Costs, CostsKeptIn, Reservations
  <2>2. IsFiniteSet(S) /\ Alike(host, host', S)
    BY ChargesFinite DEF Alike
  <2> HIDE DEF S
  <2>3. CostOf(host', S) = CostOf(host, S)
    BY <2>2, CostSame
  <2>4. core'[host'[i].gen] = core[host[i].gen]
    OBVIOUS
  <2>5. CostOf(host', S) <= Plans[core'[host'[i].gen].approval.plan].cost
    BY <2>1, <2>3, <2>4
  <2> QED BY <2>5 DEF S
<1>2. CostsKeptIn(core', host')
  <2>1. Kind(host', "reservation") = Reservations
    BY DEF Reservations
  <2> QED BY <1>1, <2>1 DEF CostsKeptIn
<1>3. \A i \in Reservations' : host'[i].cost \in Nat
  BY DEF Costs
<1> QED BY <1>2, <1>3 DEF Costs

\* A charge that is decided can be afforded.
LEMMA ChargeAffordable ==
    ASSUME BInv, Charge
    PROVE  BInv'
<1>1. PICK req \in Requests, plan \in DOMAIN Plans, policy \in Policies :
          /\ Admissible(req, plan)
          /\ unitCounters(host, Issuer).cost + Envelopes[req.env].cost <= Plans[plan].cost
          /\ call'.charge.cost = Envelopes[req.env].cost /\ call'.charge.gen = Issuer
  BY ChargeDecided
<1>2. UNCHANGED <<core, host>> /\ Reservations' = Reservations
  BY DEF Charge, Reservations
<1>3. LInv' /\ Costs'
  <2>1. LInv'
    BY ChargePending DEF BInv
  <2> QED BY <2>1, <1>2, KeptCosts DEF BInv
<1>4. core[Issuer].approval.plan = plan
  BY <1>1 DEF Admissible, LeaseUnder, LeaseHolds, Issuer
<1>5. unitCounters(host, Issuer).cost = CostOf(host, Reservations)
  BY CountedAll DEF CountersOf, BInv
<1>6. Envelopes[req.env].cost \in Nat
  BY PlansAssumption
<1>7. Affordable(call.charge)'
  <2>1. CostOf(host', Reservations') = CostOf(host, Reservations)
    BY <1>2
  <2> QED BY <1>1, <1>2, <1>4, <1>5, <1>6, <2>1 DEF Affordable
<1> QED BY <1>3, <1>7 DEF BInv

\* Writing the charge stays within the budget.
LEMMA CommitCosts ==
    ASSUME BInv, Commit
    PROVE  BInv'
<1> DEFINE r == call.charge
           n == Len(host) + 1
           within(i) == Plans[core[host'[i].gen].approval.plan].cost
<1>1. /\ core' = core /\ call'.phase = "charged" /\ Affordable(r)
  BY CommitAdds DEF BInv
<1>2. Len(host) \in Nat /\ host'[n] = r
  BY CommitAdds DEF BInv
<1>3. /\ Reservations' = Reservations \cup {n} /\ n \notin Reservations
      /\ \A i \in Reservations : i \in DOMAIN host /\ i < n /\ host'[i] = host[i]
      /\ DOMAIN host = 1..Len(host)
  BY CommitAdds DEF BInv
<1>4. IsFiniteSet(Reservations)
      /\ \A i \in Reservations : IsFiniteSet({j \in Reservations : j <= i})
  BY ChargesFinite DEF BInv
<1> HIDE DEF r
<1>5. \A i \in Reservations' : host'[i].cost \in Nat
  BY <1>1, <1>2, <1>3 DEF BInv, Costs, Affordable
<1>6. \A i \in Reservations : CostOf(host', {j \in Reservations' : j <= i}) <= within(i)
  <2> TAKE i \in Reservations
  <2> DEFINE S == {j \in Reservations : j <= i}
  <2>1. {j \in Reservations' : j <= i} = S
    BY <1>2, <1>3
  <2>2. CostOf(host, S) <= Plans[core[host[i].gen].approval.plan].cost
    BY DEF BInv, Costs, CostsKeptIn, Reservations
  <2>3. IsFiniteSet(S) /\ Alike(host, host', S)
    BY <1>3, <1>4 DEF Alike
  <2> HIDE DEF S
  <2>4. CostOf(host', S) = CostOf(host, S)
    BY <2>3, CostSame
  <2>5. host'[i] = host[i]
    BY <1>3
  <2>6. CostOf(host', S) <= within(i)
    BY <2>2, <2>4, <2>5
  <2> QED BY <2>1, <2>6
<1>7. CostOf(host', {j \in Reservations' : j <= n}) <= within(n)
  <2>1. {j \in Reservations' : j <= n} = Reservations \cup {n}
    <3>1. n \in Nat /\ \A j \in Reservations : j \in Nat /\ j <= n
      BY <1>2, <1>3
    <3> HIDE DEF n
    <3> QED BY <3>1, <1>3
  <2>2. \A i \in Reservations \cup {n} : host'[i].cost \in Nat
    BY <1>3, <1>5
  <2>3. CostOf(host', Reservations \cup {n}) = CostOf(host', Reservations) + host'[n].cost
    <3>1. n \notin Reservations
      BY <1>3
    <3> HIDE DEF n
    <3> QED BY <2>2, <3>1, <1>4, CostAdds
  <2>4. CostOf(host', Reservations) = CostOf(host, Reservations)
    <3>1. Alike(host, host', Reservations)
      BY <1>3 DEF Alike
    <3> QED BY <3>1, <1>4, CostSame
  <2>5. CostOf(host, Reservations) + r.cost <= Plans[core[r.gen].approval.plan].cost
    BY <1>1 DEF Affordable
  <2> QED BY <1>2, <2>1, <2>3, <2>4, <2>5
<1>8. CostsKeptIn(core', host')
  <2>1. Kind(host', "reservation") = Reservations'
    BY DEF Reservations
  <2>2. \A i \in Reservations' : CostOf(host', {j \in Reservations' : j <= i}) <= within(i)
    <3> HIDE DEF n, within
    <3> QED BY <1>3, <1>6, <1>7
  <2> QED BY <1>1, <2>1, <2>2 DEF CostsKeptIn
<1>9. LInv'
  BY CommitCharges DEF BInv
<1> QED BY <1>1, <1>5, <1>8, <1>9 DEF BInv, Costs

\* Runs are picked up within their budget.
LEMMA InitCosts == Init => BInv
<1> SUFFICES ASSUME Init PROVE BInv
  OBVIOUS
<1>1. PICK s \in Starts : core = s.core /\ host = s.host /\ call = None
  BY DEF Init
<1>2. CostsKeptIn(core, host) /\ \A i \in Kind(host, "reservation") : host[i].cost \in Nat
  BY <1>1, StartsAssumption
<1> QED BY <1>1, <1>2, InitCharges DEF BInv, Costs, Reservations

\* Every step stays within the budget.
LEMMA NextCosts == BInv /\ [Next]_vars => BInv'
<1> SUFFICES ASSUME BInv, [Next]_vars PROVE BInv'
  OBVIOUS
<1>1. LInv'
  BY NextCharges DEF BInv
<1>2. CASE Retain \/ Answer \/ Die \/ Launch \/ Receipt \/ Tick \/ UNCHANGED vars
  <2>1. UNCHANGED <<core, host>> /\ (call' = call \/ call' = None)
    BY <1>2 DEF Retain, Answer, Die, Launch, Receipt, Tick, vars
  <2>2. Reservations' = Reservations
    BY <2>1 DEF Reservations
  <2>3. Costs'
    BY <2>1, <2>2, KeptCosts DEF BInv
  <2> QED BY <1>1, <2>1, <2>2, <2>3 DEF BInv, Affordable
<1>3. CASE OtherCommand
  <2>1. PICK rs, hs : /\ Numbered(rs) /\ Numbered(hs) /\ Other(hs) /\ Write(rs, hs)
                      /\ call' = call
    BY <1>3, CommandsWrite
  <2>2. /\ call = None /\ Reservations' = Reservations
        /\ \A i \in Reservations :
              /\ host'[i] = host[i] /\ core'[host[i].gen] = core[host[i].gen]
    BY <2>1, WriteKeeps DEF BInv
  <2>3. Costs'
    BY <2>2, KeptCosts DEF BInv
  <2> QED BY <1>1, <2>1, <2>2, <2>3 DEF BInv
<1> QED BY <1>2, <1>3, ChargeAffordable, CommitCosts DEF Next, OtherCommand

\* No unit ever spends more attempts or more money than the plan of its lease
\* allows, however its leases and controllers change, and whatever is retried.
THEOREM BudgetKeptHolds == Spec => []BudgetKept
<1>1. BInv => BudgetKept
  BY DEF BInv, LInv, Costs, BudgetKept
<1> QED BY InitCosts, NextCosts, <1>1, PTL DEF Spec

-----------------------------------------------------------------------------
(* What stands behind a grant, and what reconciliation found.              *)

\* What the unit's route approval rests on is as it was when it was given.
RouteStands(c, gen) ==
    LET plan == c[gen].approval.plan
        route == routeApprovalFor(c, gen, Unit)
    IN  /\ route # 0 /\ c[route].approval.plan = plan
        /\ c[route].approval.waivers \cup c[gen].approval.waivers \subseteq LiveGrants(c)
        /\ \A j \in (route + 1)..Len(c) : ApprovedMove(c[j]) =>
              /\ ~Reopens(c[j])
              /\ c[j].unit \in dependencyClosure[plan][Unit] => ~Reworks(c[j])

\* Nothing recorded ends the launches under the lease issued at gen.
LeaseStands(c, gen) ==
    \A j \in (gen + 1)..Len(c) :
        ~Revokes(c[j], Unit, dependencyClosure[c[gen].approval.plan][Unit], FALSE)

\* Nor was its policy seen replaced.
PolicyStill(h, c, gen, policy, seen) ==
    /\ policy = Plans[c[gen].approval.plan].policy
    /\ PolicyRevocations(h, policy, gen) = {}
    /\ \A o \in seen : o.policy = policy => o.core < gen

Behind(c, h, gen, policy, seen) ==
    RouteStands(c, gen) /\ LeaseStands(c, gen) /\ PolicyStill(h, c, gen, policy, seen)

\* A replaced policy that was seen is on record for every lease there was.
ChangeRecorded(o) ==
    /\ o.core \in 0..Len(core)
    /\ \E k \in DOMAIN host :
          /\ Observes(host[k], o.policy) /\ host[k].core \in Nat
          /\ \A gen \in DOMAIN core :
                gen <= o.core /\ IssuesLease(core[gen], core[gen].unit) => gen <= host[k].core

\* The charge the hook has decided on, written or still to be.
CallOK ==
    call # None =>
        LET r == call.charge IN
        /\ call.phase \in {"waiting", "charged"} /\ call.policy # None
        /\ r.kind = "reservation" /\ r.req = call.req
        /\ r.core \in 1..Len(core) /\ r.from \in Nat
        /\ call.until \in Nat /\ call.until <= r.until
        /\ r.gen \in DOMAIN core /\ Behind(core, host, r.gen, call.policy, observed)
        /\ call.phase = "waiting" =>
              /\ ReservationInOrder(core, Append(host, r), Len(host) + 1, r.from)
              /\ \A j \in Kind(host, "dispatch") : r.id # host[j].id
        /\ call.phase = "charged" =>
              /\ Len(host) \in DOMAIN host /\ host[Len(host)] = r
              /\ r.from <= clock

\* The answer a was given to a launch that was authorized.
GrantGood(a) ==
    LET c == SubSeq(core, 1, a.core)
        h == SubSeq(host, 1, a.host)
        gen == host[a.record].gen
    IN  /\ a.core \in 0..Len(core) /\ a.host \in 0..Len(host)
        /\ a.record \in DOMAIN host /\ gen \in 1..a.core
        /\ ~Refused(c, h, Launched(a.req) ++ [at |-> Second(a.at), receipt |-> TRUE], a.policy)
        /\ RouteStands(c, gen)
        /\ \A o \in a.seen : o.policy = Plans[PlanOf(a.record)].policy => o.core < gen

\* The gate g was passed with all launches authorized, and none ever found
\* that was not.
GateClean(g) ==
    LET c == SubSeq(core, 1, g.at - 1)
        h == SubSeq(host, 1, g.host)
    IN  /\ g.at - 1 \in 0..Len(core) /\ g.host \in 0..Len(host)
        /\ Unauthorized(c, h, g.ledger, g.policy) = {}
        /\ \A j \in DOMAIN c : c[j].findings = NoMap

GInv ==
    /\ Numbered(core) /\ Numbered(host) /\ clock \in Nat \ {0} /\ stored \subseteq DOMAIN Plans
    /\ \A i \in DOMAIN core : CoreRecordInOrder(core[i])
    /\ \A i \in DOMAIN host : HostRecordInOrder(core, host, i, clock)
    /\ LedgerInOrder(ledger, clock) /\ IdsApart(host)
    /\ \A o \in observed : ChangeRecorded(o)
    /\ CallOK
    /\ \A a \in answers : a.eligible => GrantGood(a)
    /\ \A g \in gates : GateClean(g)

-----------------------------------------------------------------------------
(* The earliest of some times.                                             *)

LEMMA MinOf ==
    ASSUME NEW S \in SUBSET Nat, S # {}
    PROVE  Min(S) \in S /\ \A y \in S : Min(S) <= y
<1>1. PICK x \in S : \A y \in S : ~ (<<y, x>> \in OpToRel(<, Nat))
  BY NatLessThanWellFounded, WFMin
<1>2. \A y \in S : x <= y
  <2>1. ASSUME NEW y \in S, y < x PROVE FALSE
    <3>1. <<y, x>> \in OpToRel(<, Nat)
      BY <2>1 DEF OpToRel
    <3> QED BY <3>1, <1>1
  <2> QED BY <2>1
<1> QED BY <1>1, <1>2 DEF Min

LEMMA MinOfOne == ASSUME NEW t \in Nat PROVE Min({t}) = t
<1>1. {t} \in SUBSET Nat /\ {t} # {}
  OBVIOUS
<1> QED BY <1>1, MinOf

\* A later time beside an earlier one does not count.
LEMMA MinBesideLater ==
    ASSUME NEW S \in SUBSET Nat, NEW v \in S, NEW t \in Nat, v <= t
    PROVE  Min(S \cup {t}) = Min(S)
<1>1. Min(S) \in S /\ \A y \in S : Min(S) <= y
  BY MinOf
<1>2. /\ Min(S \cup {t}) \in S \cup {t}
      /\ \A y \in S \cup {t} : Min(S \cup {t}) <= y
  <2>1. S \cup {t} \in SUBSET Nat /\ S \cup {t} # {}
    OBVIOUS
  <2> QED BY <2>1, MinOf
<1>3. /\ Min(S) <= Min(S \cup {t}) /\ Min(S \cup {t}) <= Min(S)
      /\ Min(S) \in Nat /\ Min(S \cup {t}) \in Nat
  <2>1. Min(S) \in Nat /\ Min(S \cup {t}) \in Nat /\ Min(S) <= v
    BY <1>1, <1>2
  <2>2. Min(S \cup {t}) <= Min(S)
    BY <1>1, <1>2
  <2>3. Min(S) <= Min(S \cup {t})
    <3>1. CASE Min(S \cup {t}) = t
      BY <2>1, <3>1
    <3>2. CASE Min(S \cup {t}) \in S
      BY <1>1, <3>2
    <3> QED BY <1>2, <3>1, <3>2
  <2> QED BY <2>1, <2>2, <2>3
<1> QED BY <1>3

-----------------------------------------------------------------------------
(* What a lease that holds rests on.                                       *)

\* The unit's route approval is before the lease, or is it.
LEMMA RouteApproval ==
    ASSUME NEW c, Numbered(c), NEW i \in DOMAIN c, routeApprovalFor(c, i, Unit) # 0
    PROVE  /\ routeApprovalFor(c, i, Unit) \in 1..i
           /\ routeApprovalFor(c, i, Unit) \in DOMAIN c
           /\ ApprovedMove(c[routeApprovalFor(c, i, Unit)])
<1> DEFINE b == SubSeq(c, 1, i)
           P(r) == /\ ApprovedMove(r) /\ r.unit = Unit
                   /\ Edge(r.approval, "ROUTE_SELECTION", "IMPLEMENTATION_AUTHORIZATION")
           I == {k \in 1..Len(b) : P(b[k])}
<1>1. /\ Len(c) \in Nat /\ DOMAIN c = 1..Len(c) /\ i \in 0..Len(c)
  BY ChainFacts
<1>2. Numbered(b) /\ Len(b) = i /\ \A k \in 1..i : b[k] = c[k] /\ k \in DOMAIN c
  BY <1>1, PrefixFacts
<1>3. routeApprovalFor(c, i, Unit) = IF I # {} THEN Max(I) ELSE 0
  BY DEF routeApprovalFor, SelectLastInSeq
<1>4. I \subseteq 1..Len(b)
  OBVIOUS
<1>5. I # {} => Max(I) \in I
  <2> HIDE DEF I, b
  <2> QED BY <1>2, <1>4, LastOf
<1>6. Max(I) \in I /\ routeApprovalFor(c, i, Unit) = Max(I)
  BY <1>3, <1>5
<1> HIDE DEF b
<1> QED BY <1>2, <1>6

\* Waivers an approval binds are live while nothing operated on them.
LEMMA WaiversLive ==
    ASSUME NEW c, Numbered(c), NEW i \in DOMAIN c, c[i].resolution = None,
           ~issuerWaiversChanged(c, i)
    PROVE  c[i].approval.waivers \subseteq LiveGrants(c)
<1> SUFFICES ASSUME NEW w \in c[i].approval.waivers PROVE w \in LiveGrants(c)
  OBVIOUS
<1> DEFINE b == SubSeq(c, 1, i - 1)
<1>1. /\ Len(c) \in Nat /\ DOMAIN c = 1..Len(c) /\ i - 1 \in 0..Len(c)
  BY ChainFacts
<1>2. /\ Len(b) = i - 1 /\ DOMAIN b = 1..(i - 1)
      /\ \A k \in 1..(i - 1) : b[k] = c[k] /\ k \in DOMAIN c
  BY <1>1, PrefixFacts
<1>3. w \in LiveGrants(b)
      /\ \A j \in (i + 1)..Len(c) :
            ~(WaiverOperation(c[j]) /\ c[j].resolution.scope = c[w].resolution.scope)
  BY DEF issuerWaiversChanged, Before
<1>4. /\ w \in DOMAIN b /\ WaiverOperation(b[w]) /\ b[w].resolution.op = "GRANT"
      /\ \A j \in (w + 1)..Len(b) :
            WaiverOperation(b[j]) => b[j].resolution.scope # b[w].resolution.scope
  BY <1>3 DEF LiveGrants
<1> HIDE DEF b
<1>5. w \in 1..(i - 1) /\ b[w] = c[w] /\ w \in DOMAIN c
  BY <1>2, <1>4
<1>6. ASSUME NEW j \in (w + 1)..Len(c), WaiverOperation(c[j])
      PROVE  c[j].resolution.scope # c[w].resolution.scope
  <2>1. CASE j < i
    <3>1. j \in (w + 1)..Len(b) /\ b[j] = c[j]
      BY <1>1, <1>2, <1>5, <2>1
    <3> QED BY <3>1, <1>4, <1>5, <1>6
  <2>2. CASE j = i
    BY <1>6, <2>2 DEF WaiverOperation
  <2>3. CASE j > i
    <3>1. j \in (i + 1)..Len(c)
      BY <1>1, <1>5, <2>3
    <3> QED BY <3>1, <1>3, <1>6
  <2> QED BY <1>1, <1>5, <2>1, <2>2, <2>3
<1> QED BY <1>4, <1>5, <1>6 DEF LiveGrants

\* Nothing since voids a lease that holds, and its route approval stands.
LEMMA LeaseBehind ==
    ASSUME NEW c, Numbered(c), \A k \in DOMAIN c : CoreRecordInOrder(c[k]),
           NEW plan \in DOMAIN Plans, NEW grant, NEW counters, NEW now,
           LeaseHolds(c, Unit, plan, grant, counters, now)
    PROVE  LET i == currentIssuer(c, Unit) IN
           /\ i \in DOMAIN c /\ IssuesLease(c[i], Unit) /\ c[i].approval.plan = plan
           /\ RouteStands(c, i) /\ LeaseStands(c, i)
<1> DEFINE i == currentIssuer(c, Unit)
           D == dependencyClosure[plan][Unit]
           r == routeApprovalFor(c, i, Unit)
<1>1. /\ i # 0 /\ c[i].approval.plan = plan /\ ~Terminal(c)
      /\ ~issuerWaiversChanged(c, i)
      /\ \A j \in (AuthorityStart(c, i, Unit) + 1)..Len(c) : ~Voids(c, j, i, Unit, D)
      /\ RouteHolds(c, i, Unit, plan, grant)
  BY DEF LeaseHolds
<1>2. i \in DOMAIN c /\ IssuesLease(c[i], Unit)
  BY <1>1, IssuerInChain
<1> HIDE DEF i
<1>3. Len(c) \in Nat /\ DOMAIN c = 1..Len(c)
  BY ChainFacts
<1>4. /\ r # 0 /\ r \in 1..i /\ r \in DOMAIN c /\ ApprovedMove(c[r])
      /\ r # i => ~issuerWaiversChanged(c, r) /\ c[r].approval.plan = plan
  BY <1>1, <1>2, RouteApproval DEF RouteHolds
<1>5. AuthorityStart(c, i, Unit) = r
  BY <1>4 DEF AuthorityStart
<1> HIDE DEF r
<1>6. D \subseteq Units /\ Unit \notin D /\ None \notin D
  BY PlansAssumption DEF dependencyClosure
<1> HIDE DEF D
<1>7. ASSUME NEW j \in (i + 1)..Len(c) PROVE ~Revokes(c[j], Unit, D, FALSE)
  <2>1. j \in (r + 1)..Len(c) /\ j \in DOMAIN c /\ ~(j <= i)
    BY <1>2, <1>3, <1>4
  <2>2. ~Voids(c, j, i, Unit, D)
    BY <1>1, <1>5, <2>1
  <2>3. c[j].kind # "outcome"
    BY <1>1, <2>1 DEF Terminal
  <2> QED BY <2>1, <2>2, <2>3 DEF Revokes, Voids
<1>8. ASSUME NEW j \in (r + 1)..Len(c), ApprovedMove(c[j])
      PROVE  ~Reopens(c[j]) /\ (c[j].unit \in D => ~Reworks(c[j]))
  <2>1. ~Voids(c, j, i, Unit, D)
    BY <1>1, <1>5
  <2>2. Reopens(c[j]) => c[j].approval.to \in EarlierGates
    BY DEF Reopens, EarlierGates
  <2>3. c[j].unit \in D => c[j].unit \notin {Unit, None}
    BY <1>6
  <2> QED BY <1>8, <2>1, <2>2, <2>3 DEF Voids
<1>9. c[r].approval.plan = plan
  BY <1>1, <1>4
<1>10. c[r].approval.waivers \cup c[i].approval.waivers \subseteq LiveGrants(c)
  <2>1. c[i].resolution = None /\ c[r].resolution = None
    BY <1>2, <1>4 DEF CoreRecordInOrder, IssuesLease
  <2>2. ~issuerWaiversChanged(c, r)
    BY <1>1, <1>4
  <2>3. c[r].approval.waivers \subseteq LiveGrants(c)
    BY <1>4, <2>1, <2>2, WaiversLive
  <2>4. c[i].approval.waivers \subseteq LiveGrants(c)
    BY <1>1, <1>2, <2>1, WaiversLive
  <2> QED BY <2>3, <2>4
<1>11. RouteStands(c, i)
  BY <1>1, <1>4, <1>8, <1>9, <1>10 DEF RouteStands, r, D
<1>12. LeaseStands(c, i)
  BY <1>1, <1>7 DEF LeaseStands, D
<1> QED BY <1>1, <1>2, <1>11, <1>12 DEF i

-----------------------------------------------------------------------------
(* A launch under a charge that stands is one reconciliation authorizes.   *)

LEMMA WholeSeconds ==
    ASSUME NEW t \in Nat, NEW f \in Nat, f % 2 = 0, f <= t
    PROVE  Second(t) \in Nat /\ f <= Second(t) /\ Second(t) <= t
BY DEF Second

LEMMA Honoured ==
    ASSUME NEW c, Numbered(c), \A k \in DOMAIN c : CoreRecordInOrder(c[k]),
           NEW h, Numbered(h), ChargedOnceIn(h), IdsApart(h),
           \A k \in Kind(h, "loop_admission") : h[k].ns = Envelopes[h[k].env].ns,
           NEW m \in DOMAIN h, h[m].kind = "reservation", NEW t \in Nat,
           ReservationInOrder(c, h, m, t), LeaseStands(c, h[m].gen),
           NEW policy, policy # None, policy = Plans[c[h[m].gen].approval.plan].policy,
           PolicyRevocations(h, policy, h[m].gen) = {}, t < h[m].until
    PROVE  ~Refused(c, h, Launched(h[m].req) ++ [at |-> Second(t), receipt |-> TRUE], policy)
<1> DEFINE r == h[m]
           l == Launched(r.req) ++ [at |-> Second(t), receipt |-> TRUE]
           plan == c[r.gen].approval.plan
<1>1. /\ l.ns = ns(r.req) /\ l.dir = r.req.id /\ l.run = r.req.id /\ l.mode = "implement"
      /\ l.route = Envelopes[r.req.env].route /\ l.at = Second(t) /\ l.receipt = TRUE
  BY DEF Launched, ++
<1> HIDE DEF l
<1>2. /\ r.unit = Unit /\ r.gen \in DOMAIN c /\ plan \in DOMAIN Plans
      /\ IssuesLease(c[r.gen], Unit)
      /\ h[r.admission].env = r.req.env /\ h[r.admission].kind = "loop_admission"
      /\ r.admission \in 1..(m - 1)
      /\ r.id = r.req.id /\ r.route = Envelopes[r.req.env].route
      /\ r.from \in Nat /\ r.from % 2 = 0 /\ r.from <= t
      /\ r.until = c[r.gen].approval.at + Plans[plan].wall
  BY DEF ReservationInOrder
<1>3. r.until \in Nat
  <2>1. c[r.gen].approval.at \in Nat
    BY <1>2 DEF CoreRecordInOrder, IssuesLease, ApprovedMove
  <2>2. Plans[plan].wall \in Nat
    BY <1>2, PlansAssumption
  <2> QED BY <1>2, <2>1, <2>2
<1>4. Authorities(h, r.id) = {m}
  <2>1. m \in Kind(h, "reservation")
    BY DEF Kind
  <2>2. \A k \in Kind(h, "reservation") : h[k].id = r.id => k = m
    BY <2>1 DEF ChargedOnceIn
  <2>3. \A k \in Kind(h, "dispatch") : h[k].id # r.id
    BY <2>1 DEF IdsApart
  <2> HIDE DEF r
  <2>4. h[m].id = r.id
    BY DEF r
  <2> QED BY <2>1, <2>2, <2>3, <2>4 DEF Authorities
<1>5. generation(c, h, m) = r.gen /\ r.gen # 0
  BY <1>2, ChainFacts DEF generation
<1>6. RevokedEnd(c, h, m) = r.until
  <2> DEFINE K == {k \in (r.gen + 1)..Len(c) :
                      Revokes(c[k], r.unit, dependencyClosure[plan][r.unit], FALSE)}
  <2>1. K = {}
    BY <1>2 DEF LeaseStands
  <2>2. RevokedAt(c, plan, r.unit, r.gen, r.until, FALSE) = Min({r.until})
    <3>1. {r.until} \cup {eventTime(c[j]) : j \in K} = {r.until}
      BY <2>1
    <3> QED BY <3>1 DEF RevokedAt
  <2>3. RevokedEnd(c, h, m) = RevokedAt(c, plan, r.unit, r.gen, r.until, FALSE)
    BY <1>5 DEF RevokedEnd
  <2> QED BY <2>2, <2>3, <1>3, MinOfOne
<1>7. ValidUntil(c, h, m) = r.until
  <2>1. ValidUntil(c, h, m) = PolicyRevokedAt(h, policy, r.gen, r.until)
    BY <1>5, <1>6 DEF ValidUntil
  <2>2. {r.until} \cup PolicyRevocations(h, policy, r.gen) = {r.until}
    OBVIOUS
  <2> HIDE DEF r
  <2> QED BY <2>1, <2>2, <1>3, MinOfOne DEF PolicyRevokedAt, r
<1>8. NamespaceOf(h, m) = l.ns
  <2>1. r.admission \in DOMAIN h
    BY <1>2, ChainFacts
  <2> QED BY <1>1, <1>2, <2>1 DEF NamespaceOf, ns, Kind
<1>9. Authorizes(c, h, m, l, policy)
  <2>1. ValidFrom(h, m) <= l.at /\ l.at < ValidUntil(c, h, m)
    BY <1>1, <1>2, <1>3, <1>7, WholeSeconds DEF ValidFrom
  <2>2. PolicyProven(c, h, m, policy)
    BY <1>5 DEF PolicyProven
  <2>3. l.mode = "review" <=> h[m].kind = "dispatch"
    BY <1>1
  <2>4. l.route = h[m].route /\ generation(c, h, m) # 0
    BY <1>1, <1>2, <1>5
  <2> QED BY <1>8, <2>1, <2>2, <2>3, <2>4 DEF Authorizes
<1> QED BY <1>1, <1>2, <1>4, <1>9 DEF Refused, l

-----------------------------------------------------------------------------
(* What was authorized stays so while nothing is recorded but              *)
(* reconciliations, and what they see replaced.                            *)

LaunchKinds == {"loop_admission", "reservation", "dispatch", "loop_evidence"}

NoLaunchesSince(h, g) ==
    Grows(h, g) /\ \A k \in (Len(h) + 1)..Len(g) : g[k].kind \notin LaunchKinds

LEMMA SameLaunches ==
    ASSUME NEW h, Numbered(h), NEW g, NoLaunchesSince(h, g)
    PROVE  /\ \A k \in LaunchKinds : Kind(g, k) = Kind(h, k)
           /\ \A L : Inventory(g, L) = Inventory(h, L)
           /\ reconcileJournals(g) = reconcileJournals(h)
           /\ \A id : Authorities(g, id) = Authorities(h, id)
<1>1. /\ DOMAIN h = 1..Len(h) /\ DOMAIN g = 1..Len(g) /\ Len(h) <= Len(g)
      /\ Len(h) \in Nat /\ Len(g) \in Nat
      /\ \A k \in DOMAIN h : g[k] = h[k] /\ k \in DOMAIN g
  BY GrowsFacts DEF NoLaunchesSince
<1>2. \A i \in DOMAIN g : g[i].kind \in LaunchKinds => i \in DOMAIN h /\ g[i] = h[i]
  BY <1>1 DEF NoLaunchesSince
<1>3. \A k \in LaunchKinds : Kind(g, k) = Kind(h, k)
  BY <1>1, <1>2 DEF Kind
<1>4. \A k \in LaunchKinds : \A i \in Kind(g, k) : g[i] = h[i]
  BY <1>1, <1>3 DEF Kind
<1>5. {"loop_admission", "reservation", "dispatch", "loop_evidence"} = LaunchKinds
  BY DEF LaunchKinds
<1>6. /\ Kind(g, "loop_admission") = Kind(h, "loop_admission")
      /\ Kind(g, "reservation") = Kind(h, "reservation")
      /\ Kind(g, "dispatch") = Kind(h, "dispatch")
      /\ Kind(g, "loop_evidence") = Kind(h, "loop_evidence")
      /\ \A i \in Kind(h, "loop_admission") : g[i] = h[i]
      /\ \A i \in Kind(h, "reservation") : g[i] = h[i]
      /\ \A i \in Kind(h, "dispatch") : g[i] = h[i]
      /\ \A i \in Kind(h, "loop_evidence") : g[i] = h[i]
  BY <1>3, <1>4, <1>5
<1>7. Namespaces(g) = Namespaces(h)
  BY <1>6 DEF Namespaces
<1>8. \A L : Inventory(g, L) = Inventory(h, L)
  BY <1>7 DEF Inventory
<1>9. \A id : Authorities(g, id) = Authorities(h, id)
  BY <1>6 DEF Authorities
<1>10. reconcileJournals(g) = reconcileJournals(h)
  <2>1. \A j \in Kind(h, "loop_evidence") : Admitted(g, j) <=> Admitted(h, j)
    <3> TAKE j \in Kind(h, "loop_evidence")
    <3>1. {x \in Kind(g, "loop_admission") : g[x].ctl = g[j].ctl}
              = {x \in Kind(h, "loop_admission") : h[x].ctl = h[j].ctl}
      BY <1>6
    <3> DEFINE S == {x \in Kind(h, "loop_admission") : h[x].ctl = h[j].ctl}
    <3>2. \A a : S = {a} => a \in Kind(h, "loop_admission")
      OBVIOUS
    <3>3. \A a \in Kind(h, "loop_admission") : a \in DOMAIN h /\ a \in DOMAIN g
      BY <1>1 DEF Kind
    <3>4. g[j] = h[j]
      BY <1>6
    <3>5. Admitted(g, j) <=> \E a \in DOMAIN g :
              S = {a} /\ g[a].env = g[j].env /\ g[a].ns = g[j].ns /\ g[a].unit = g[j].unit
      BY <3>1 DEF Admitted
    <3>6. Admitted(h, j) <=> \E a \in DOMAIN h :
              S = {a} /\ h[a].env = h[j].env /\ h[a].ns = h[j].ns /\ h[a].unit = h[j].unit
      BY DEF Admitted
    <3> HIDE DEF S
    <3> QED BY <1>6, <3>2, <3>3, <3>4, <3>5, <3>6
  <2>2. \A j \in Kind(h, "loop_evidence") : \A id :
          Reserved(g, j, id) <=> Reserved(h, j, id)
    BY <1>6 DEF Reserved
  <2>3. {g[j].ctl : j \in {x \in Kind(g, "loop_evidence") : ~Admitted(g, x)}}
            = {h[j].ctl : j \in {x \in Kind(h, "loop_evidence") : ~Admitted(h, x)}}
    BY <1>6, <2>1
  <2>4. {{id \in g[j].attempts : ~Reserved(g, j, id)} : j \in Kind(g, "loop_evidence")}
            = {{id \in h[j].attempts : ~Reserved(h, j, id)} : j \in Kind(h, "loop_evidence")}
    <3>1. \A j \in Kind(h, "loop_evidence") :
              {id \in g[j].attempts : ~Reserved(g, j, id)}
                  = {id \in h[j].attempts : ~Reserved(h, j, id)}
      BY <1>6, <2>2
    <3> QED BY <1>6, <3>1
  <2> QED BY <2>3, <2>4 DEF reconcileJournals
<1> QED BY <1>3, <1>8, <1>9, <1>10

\* Only policies other than p are seen replaced in what g adds to h, and not
\* before those that were already.
RevocationsGrow(h, g, p) ==
    \A q, i :
        \/ PolicyRevocations(g, q, i) = PolicyRevocations(h, q, i)
        \/ /\ q # p
           /\ PolicyRevocations(h, q, i) \subseteq Nat
           /\ \E t \in Nat :
                 /\ PolicyRevocations(g, q, i) = PolicyRevocations(h, q, i) \cup {t}
                 /\ \A v \in PolicyRevocations(h, q, i) : v <= t

\* An authority's generation is a lease under a known plan, and ends some time.
LEMMA AuthorityEnds ==
    ASSUME NEW c, Numbered(c), \A k \in DOMAIN c : CoreRecordInOrder(c[k]),
           NEW h, NEW m \in DOMAIN h, h[m].kind \in {"reservation", "dispatch"},
           NEW t, HostRecordInOrder(c, h, m, t), generation(c, h, m) # 0
    PROVE  RevokedEnd(c, h, m) \in Nat
<1> DEFINE g == generation(c, h, m)
           plan == c[g].approval.plan
<1>1. Len(c) \in Nat /\ DOMAIN c = 1..Len(c)
  BY ChainFacts
<1>2. /\ g \in DOMAIN c /\ IssuesLease(c[g], h[m].unit) /\ plan \in DOMAIN Plans
      /\ h[m].kind = "dispatch" => h[m].until \in Nat
  <2>1. CASE h[m].kind = "reservation"
    BY <2>1 DEF HostRecordInOrder, ReservationInOrder, generation
  <2>2. CASE h[m].kind = "dispatch"
    <3> DEFINE b == SubSeq(c, 1, h[m].core)
    <3>1. ReviewInOrder(c, h, m) /\ h[m].core \in 1..Len(c)
      BY <2>2 DEF HostRecordInOrder
    <3>2. /\ Numbered(b) /\ DOMAIN b = 1..h[m].core
          /\ \A k \in 1..h[m].core : b[k] = c[k] /\ k \in DOMAIN c
      <4>1. h[m].core \in 0..Len(c)
        BY <1>1, <3>1
      <4> QED BY <4>1, PrefixFacts
    <3>3. g = currentIssuer(b, h[m].unit)
      BY <2>2 DEF generation
    <3> HIDE DEF b, g
    <3>4. g # 0
      BY DEF g
    <3>5. g \in DOMAIN b /\ IssuesLease(b[g], h[m].unit)
      BY <3>2, <3>3, <3>4, IssuerInChain
    <3>6. c[g].approval.plan \in DOMAIN Plans /\ h[m].until \in Nat
      BY <3>1, <3>4 DEF ReviewInOrder, g
    <3> QED BY <2>2, <3>2, <3>5, <3>6
  <2> QED BY <2>1, <2>2
<1>3. c[g].approval.at \in Nat /\ Plans[plan].wall \in Nat
  BY <1>2, PlansAssumption DEF IssuesLease, ApprovedMove, CoreRecordInOrder
<1> DEFINE wall == c[g].approval.at + Plans[plan].wall
           review == h[m].kind = "dispatch"
           end == IF review THEN Min({h[m].until, wall}) ELSE h[m].until
<1>4. wall \in Nat
  BY <1>3
<1>5. end \in Nat
  <2>1. CASE review
    <3>1. {h[m].until, wall} \in SUBSET Nat /\ {h[m].until, wall} # {}
      BY <1>2, <1>4, <2>1
    <3>2. Min({h[m].until, wall}) \in Nat
      <4> HIDE DEF wall
      <4> QED BY <3>1, MinOf
    <3> QED BY <2>1, <3>2
  <2>2. CASE ~review
    <3>1. g = h[m].gen /\ h[m].until = wall
      BY <2>2 DEF HostRecordInOrder, ReservationInOrder, generation
    <3> QED BY <1>4, <2>2, <3>1
  <2> QED BY <2>1, <2>2
<1> HIDE DEF end
<1> DEFINE K == {k \in (g + 1)..Len(c) :
                    Revokes(c[k], h[m].unit, dependencyClosure[plan][h[m].unit], review)}
           S == {end} \cup {eventTime(c[j]) : j \in K}
<1>6. RevokedEnd(c, h, m) = Min(S)
  BY DEF RevokedEnd, RevokedAt, end
<1>7. \A j \in K : eventTime(c[j]) \in Nat
  <2> TAKE j \in K
  <2>1. j \in DOMAIN c
    BY <1>1, <1>2
  <2> QED BY <2>1 DEF eventTime, CoreRecordInOrder
<1>8. S \in SUBSET Nat /\ S # {}
  <2> HIDE DEF K
  <2> QED BY <1>5, <1>7
<1>9. Min(S) \in Nat
  <2> HIDE DEF S
  <2> QED BY <1>8, MinOf
<1> QED BY <1>6, <1>9

LEMMA StillAuthorized ==
    ASSUME NEW c, Numbered(c), \A k \in DOMAIN c : CoreRecordInOrder(c[k]),
           NEW h, Numbered(h), NEW g, NoLaunchesSince(h, g), NEW p, RevocationsGrow(h, g, p),
           NEW m \in DOMAIN h, h[m].kind \in {"reservation", "dispatch"},
           NEW t, HostRecordInOrder(c, h, m, t), NEW l, Authorizes(c, h, m, l, p)
    PROVE  Authorizes(c, g, m, l, p)
<1>1. /\ DOMAIN h = 1..Len(h) /\ Len(h) \in Nat
      /\ \A k \in DOMAIN h : g[k] = h[k]
  BY GrowsFacts DEF NoLaunchesSince
<1>2. g[m] = h[m]
  BY <1>1
<1>3. generation(c, g, m) = generation(c, h, m) /\ ValidFrom(g, m) = ValidFrom(h, m)
      /\ RevokedEnd(c, g, m) = RevokedEnd(c, h, m)
  BY <1>2 DEF generation, ValidFrom, RevokedEnd
<1>4. NamespaceOf(g, m) = NamespaceOf(h, m)
  <2>1. h[m].kind = "reservation" => h[m].admission \in DOMAIN h
    BY <1>1 DEF HostRecordInOrder, ReservationInOrder
  <2> QED BY <1>1, <1>2, <2>1 DEF NamespaceOf
<1> DEFINE i == generation(c, h, m)
           q == Plans[c[i].approval.plan].policy
           R == PolicyRevocations(h, q, i)
           E == RevokedEnd(c, h, m)
<1>5. i # 0 /\ E \in Nat /\ PolicyProven(c, h, m, p)
  BY AuthorityEnds DEF Authorizes
<1>6. p # None /\ (p = q \/ R # {})
  BY <1>5 DEF PolicyProven
<1>7. ValidUntil(c, h, m) = Min({E} \cup R)
  BY DEF ValidUntil, PolicyRevokedAt
<1>8. ValidUntil(c, g, m) = Min({E} \cup PolicyRevocations(g, q, i))
  BY <1>3 DEF ValidUntil, PolicyRevokedAt
<1> HIDE DEF i, q, R, E
<1>9. PolicyRevocations(h, q, i) = R
  BY DEF R
<1>10. Min({E} \cup PolicyRevocations(g, q, i)) = Min({E} \cup R)
       /\ (R # {} => PolicyRevocations(g, q, i) # {})
  <2>1. CASE PolicyRevocations(g, q, i) = R
    BY <2>1
  <2>2. CASE PolicyRevocations(g, q, i) # R
    <3>1. /\ q # p /\ R \subseteq Nat
          /\ \E u \in Nat : PolicyRevocations(g, q, i) = R \cup {u} /\ \A v \in R : v <= u
      BY <1>9, <2>2 DEF RevocationsGrow
    <3>2. PICK u \in Nat : PolicyRevocations(g, q, i) = R \cup {u} /\ \A v \in R : v <= u
      BY <3>1
    <3>3. PICK v \in R : TRUE
      BY <1>6, <3>1
    <3>4. {E} \cup R \in SUBSET Nat /\ v \in {E} \cup R /\ v <= u
      BY <1>5, <3>1, <3>2
    <3>5. Min(({E} \cup R) \cup {u}) = Min({E} \cup R)
      BY <3>4, MinBesideLater
    <3>6. ({E} \cup R) \cup {u} = {E} \cup PolicyRevocations(g, q, i)
      BY <3>2
    <3> QED BY <3>2, <3>5, <3>6
  <2> QED BY <2>1, <2>2
<1>11. ValidUntil(c, g, m) = ValidUntil(c, h, m)
  BY <1>7, <1>8, <1>10
<1>12. PolicyProven(c, g, m, p)
  BY <1>3, <1>6, <1>10 DEF PolicyProven, q, i, R
<1> QED BY <1>2, <1>3, <1>4, <1>11, <1>12 DEF Authorizes

\* So a reconciliation that found nothing unauthorized would find nothing now.
LEMMA StillClean ==
    ASSUME NEW c, Numbered(c), \A k \in DOMAIN c : CoreRecordInOrder(c[k]),
           NEW h, Numbered(h), NEW g, NoLaunchesSince(h, g), NEW p, RevocationsGrow(h, g, p),
           NEW t, \A m \in DOMAIN h : HostRecordInOrder(c, h, m, t),
           NEW L, Unauthorized(c, h, L, p) = {}
    PROVE  Unauthorized(c, g, L, p) = {}
<1>1. reconcileJournals(h) = {} /\ \A l \in Inventory(h, L) : ~Refused(c, h, l, p)
  BY DEF Unauthorized
<1>2. /\ Inventory(g, L) = Inventory(h, L) /\ reconcileJournals(g) = reconcileJournals(h)
      /\ \A id : Authorities(g, id) = Authorities(h, id)
  BY SameLaunches
<1>3. ASSUME NEW l \in Inventory(h, L) PROVE ~Refused(c, g, l, p)
  <2>1. l.receipt
    BY <1>1 DEF Refused
  <2>2. CASE l.at >= c[1].rec
    <3>1. PICK m \in DOMAIN h :
              l.run = l.dir /\ Authorities(h, l.run) = {m} /\ Authorizes(c, h, m, l, p)
      BY <1>1, <2>2 DEF Refused
    <3>2. h[m].kind \in {"reservation", "dispatch"}
      <4>1. m \in Authorities(h, l.run)
        BY <3>1
      <4> QED BY <4>1 DEF Authorities, Kind
    <3>3. Authorizes(c, g, m, l, p)
      BY <3>1, <3>2, StillAuthorized
    <3>4. m \in DOMAIN g
      BY GrowsFacts DEF NoLaunchesSince
    <3> QED BY <1>2, <2>1, <3>1, <3>3, <3>4 DEF Refused
  <2>3. CASE ~(l.at >= c[1].rec)
    BY <2>1, <2>3 DEF Refused
  <2> QED BY <2>2, <2>3
<1> QED BY <1>1, <1>2, <1>3 DEF Unauthorized

-----------------------------------------------------------------------------
(* What the gate reads of the core chain.                                  *)

\* Where findings were ever set, an unauthorized launch stands.
LEMMA FoundStands ==
    ASSUME NEW c, Numbered(c), \A k \in DOMAIN c : CoreRecordInOrder(c[k]),
           ~HasUnauthorizedDispatch(c)
    PROVE  \A j \in DOMAIN c : c[j].findings = NoMap
<1> SUFFICES ASSUME NEW j \in DOMAIN c, c[j].findings # NoMap PROVE HasUnauthorizedDispatch(c)
  OBVIOUS
<1> DEFINE I == {k \in 1..Len(c) : SetsFindings(c[k])}
           n == SelectLastInSeq(c, SetsFindings)
<1>1. Len(c) \in Nat /\ DOMAIN c = 1..Len(c)
  BY ChainFacts
<1>2. n = IF I # {} THEN Max(I) ELSE 0
  BY DEF SelectLastInSeq
<1>3. I \subseteq 1..Len(c) /\ j \in I
  BY <1>1 DEF SetsFindings
<1>4. Max(I) \in I
  <2> HIDE DEF I
  <2> QED BY <1>3, LastOf
<1>5. n \in DOMAIN c /\ n # 0 /\ SetsFindings(c[n])
  BY <1>1, <1>2, <1>3, <1>4
<1> HIDE DEF n
<1>6. PICK id \in DOMAIN c[n].findings :
          id[1] = "UNAUTHORIZED_DISPATCH" /\ c[n].findings[id].disp = "BLOCK"
  BY <1>5 DEF CoreRecordInOrder
<1>7. SelectLastInSeq(c, LAMBDA r : Overrides(r, id)) = 0
  <2> DEFINE O == {k \in 1..Len(c) : Overrides(c[k], id)}
  <2>1. O = {}
    BY <1>1 DEF CoreRecordInOrder, Overrides
  <2>2. SelectLastInSeq(c, LAMBDA r : Overrides(r, id)) = IF O # {} THEN Max(O) ELSE 0
    BY DEF SelectLastInSeq
  <2> QED BY <2>1, <2>2
<1>8. FindingsSince(c, n)[id] = c[n].findings[id] /\ DOMAIN FindingsSince(c, n) = DOMAIN c[n].findings
  <2>1. ~(0 > n)
    BY <1>1, <1>5
  <2> QED BY <1>6, <1>7, <2>1 DEF FindingsSince
<1>9. Findings(c) = FindingsSince(c, n)
  BY <1>5 DEF Findings, n
<1> QED BY <1>6, <1>8, <1>9 DEF HasUnauthorizedDispatch

-----------------------------------------------------------------------------
(* Records in order.                                                       *)

LEMMA SameBeginning ==
    ASSUME NEW h, NEW g, NEW n \in Nat, \A k \in 1..n : g[k] = h[k]
    PROVE  SubSeq(g, 1, n) = SubSeq(h, 1, n)
BY DEF SubSeq

\* What is appended to a chain follows it.
LEMMA AppendIsOne ==
    ASSUME NEW c, Numbered(c), NEW r
    PROVE  Append(c, r) = c \o <<r>>
<1> DEFINE S == {c[i] : i \in DOMAIN c} \cup {r}
<1>1. c \in Seq(S) /\ r \in S
  <2>1. c \in Seq({c[i] : i \in DOMAIN c})
    BY DEF Numbered
  <2>2. /\ Len(c) \in Nat /\ DOMAIN c = 1..Len(c) /\ c = [i \in 1..Len(c) |-> c[i]]
    BY <2>1
  <2>3. \A i \in 1..Len(c) : c[i] \in S
    BY <2>2
  <2> HIDE DEF S
  <2>4. c \in Seq(S)
    BY <2>2, <2>3
  <2> QED BY <2>4 DEF S
<1> HIDE DEF S
<1> QED BY <1>1

\* A record's order rests on the records up to it, and the core chain then.
LEMMA OrderStays ==
    ASSUME NEW c, Numbered(c), NEW d, Grows(c, d), NEW h, NEW g, NEW i \in Nat, i >= 1,
           \A k \in 1..i : g[k] = h[k], NEW t \in Nat, NEW u \in Nat, t <= u,
           HostRecordInOrder(c, h, i, t)
    PROVE  HostRecordInOrder(d, g, i, u)
<1>1. /\ Len(c) \in Nat /\ Len(d) \in Nat /\ Len(c) <= Len(d)
      /\ DOMAIN c = 1..Len(c) /\ DOMAIN d = 1..Len(d)
      /\ \A k \in DOMAIN c : d[k] = c[k] /\ k \in DOMAIN d
      /\ \A n \in 0..Len(c) : SubSeq(d, 1, n) = SubSeq(c, 1, n)
  BY GrowsFacts
<1>2. g[i] = h[i] /\ \A k \in 1..(i - 1) : g[k] = h[k]
  OBVIOUS
<1>3. h[i].core \in 1..Len(c) /\ g[i].core \in 1..Len(d)
      /\ SubSeq(d, 1, h[i].core) = SubSeq(c, 1, h[i].core)
  BY <1>1, <1>2 DEF HostRecordInOrder
<1>4. h[i].kind = "reservation" => ReservationInOrder(d, g, i, u)
  <2> SUFFICES ASSUME h[i].kind = "reservation" PROVE ReservationInOrder(d, g, i, u)
    OBVIOUS
  <2>1. ReservationInOrder(c, h, i, t)
    BY DEF HostRecordInOrder
  <2>2. /\ d[h[i].gen] = c[h[i].gen] /\ h[i].gen \in DOMAIN d
        /\ g[h[i].admission] = h[h[i].admission]
    BY <1>1, <1>2, <2>1 DEF ReservationInOrder
  <2>3. h[i].from \in Nat /\ h[i].from <= u
    BY <2>1 DEF ReservationInOrder
  <2> QED BY <1>2, <2>1, <2>2, <2>3 DEF ReservationInOrder
<1>5. h[i].kind = "dispatch" => ReviewInOrder(d, g, i)
  <2> SUFFICES ASSUME h[i].kind = "dispatch" PROVE ReviewInOrder(d, g, i)
    OBVIOUS
  <2> DEFINE b == SubSeq(c, 1, h[i].core)
  <2>1. ReviewInOrder(c, h, i)
    BY DEF HostRecordInOrder
  <2>2. generation(c, h, i) = currentIssuer(b, h[i].unit)
        /\ generation(d, g, i) = currentIssuer(b, h[i].unit)
    BY <1>2, <1>3 DEF generation
  <2>3. Numbered(b) /\ DOMAIN b = 1..h[i].core
    BY <1>1, <1>3, PrefixFacts, SMTT(40)
  <2> HIDE DEF b
  <2>4. generation(c, h, i) # 0 => generation(c, h, i) \in DOMAIN c
    BY <1>1, <1>3, <2>2, <2>3, IssuerInChain
  <2> QED BY <1>1, <1>2, <2>1, <2>2, <2>4 DEF ReviewInOrder
<1>6. h[i].kind = "launch_reconciliation" => ReconciliationInOrder(d, g, i)
  <2>1. SubSeq(g, 1, i) = SubSeq(h, 1, i)
    BY SameBeginning
  <2> QED BY <1>2, <1>3, <2>1 DEF HostRecordInOrder, ReconciliationInOrder
<1>7. h[i].kind \in {"policy_revocation", "launch_reconciliation"} =>
          h[i].observed \in Nat /\ h[i].observed <= u
  BY DEF HostRecordInOrder
<1> QED BY <1>2, <1>3, <1>4, <1>5, <1>6, <1>7 DEF HostRecordInOrder

\* A chain is its beginning and the rest.
LEMMA BeginningGrows ==
    ASSUME NEW h, Numbered(h), NEW n \in 0..Len(h)
    PROVE  Grows(SubSeq(h, 1, n), h)
<1> DEFINE S == {h[i] : i \in DOMAIN h}
           m == Len(h) - n
           e == [k \in 1..m |-> h[n + k]]
           b == SubSeq(h, 1, n)
<1>1. h \in Seq(S)
  BY DEF Numbered
<1> HIDE DEF S
<1>2. Len(h) \in Nat /\ DOMAIN h = 1..Len(h) /\ \A k \in 1..Len(h) : h[k] \in S
  BY <1>1
<1>3. e \in Seq(S) /\ Len(e) = m /\ \A k \in 1..m : e[k] = h[n + k]
  <2>1. m \in Nat /\ \A k \in 1..m : n + k \in 1..Len(h)
    BY <1>2
  <2>2. e \in [1..m -> S]
    BY <1>2, <2>1
  <2>3. e \in Seq(S)
    BY <2>1, <2>2, SeqDef, ZenonT(60)
  <2>4. DOMAIN e = 1..m /\ \A k \in 1..m : e[k] = h[n + k]
    OBVIOUS
  <2> HIDE DEF m, e
  <2>5. Len(e) \in Nat /\ DOMAIN e = 1..Len(e)
    BY <2>3, LenProperties
  <2> QED BY <2>1, <2>3, <2>4, <2>5
<1>4. b \in Seq(S) /\ Len(b) = n /\ \A k \in 1..n : b[k] = h[k]
  BY <1>1, <1>2
<1>5. m \in Nat /\ n \in Nat /\ n + m = Len(h)
  BY <1>2
<1> HIDE DEF e, b, m
<1>6. b \o e \in Seq(S) /\ Len(b \o e) = Len(h)
  BY <1>3, <1>4, <1>5
<1>7. \A k \in 1..Len(h) : (b \o e)[k] = h[k]
  <2> TAKE k \in 1..Len(h)
  <2>1. CASE k <= n
    BY <1>2, <1>3, <1>4, <1>5, <2>1
  <2>2. CASE k > n
    <3>1. PICK j \in 1..m : k = n + j
      <4>1. k - n \in 1..m /\ k = n + (k - n)
        BY <1>2, <1>5, <2>2
      <4> QED BY <4>1
    <3>2. ~(k <= Len(b)) /\ k \in 1..(Len(b) + Len(e)) /\ k - Len(b) = j
      BY <1>2, <1>3, <1>4, <1>5, <2>2, <3>1
    <3>3. (b \o e)[k] = e[j]
      BY <1>3, <1>4, <3>2, ConcatProperties
    <3>4. e[j] = h[n + j]
      BY <1>3
    <3> QED BY <3>1, <3>3, <3>4
  <2>3. k <= n \/ k > n
    BY <1>2, <1>5
  <2> QED BY <2>1, <2>2, <2>3
<1>8. h = b \o e
  BY <1>1, <1>6, <1>7, SeqEqual
<1>9. Numbered(e)
  BY <1>3, ChainOver
<1> QED BY <1>8, <1>9 DEF Grows, b

\* A reconciliation is recorded in order: if it found nothing unauthorized, it
\* would not with its own record in the chain either.
LEMMA ReconciliationFollows ==
    ASSUME GInv, NEW policy, NEW bad, NEW at,
           at \in Nat, bad = {} => at = Len(core),
           bad = Unauthorized(core, host, ledger, policy),
           NEW r, r = ReconciliationRecord(bad, policy, at),
           NEW d, Grows(core, d), at \in 1..Len(d)
    PROVE  HostRecordInOrder(d, host \o <<r>>, Len(host) + 1, clock)
<1> DEFINE n == Len(host) + 1
           g == host \o <<r>>
<1>1. /\ r.kind = "launch_reconciliation" /\ r.core = at /\ r.policy = policy
      /\ r.unauthorized = bad /\ r.inventory = Inventory(host, ledger)
      /\ r.revoked \subseteq Replaced(policy) /\ r.observed = clock
  BY DEF ReconciliationRecord, Envelope, ++
<1>2. /\ Numbered(core) /\ Numbered(host) /\ clock \in Nat
      /\ \A k \in DOMAIN core : CoreRecordInOrder(core[k])
      /\ \A k \in DOMAIN host : HostRecordInOrder(core, host, k, clock)
  BY DEF GInv
<1>3. Grows(host, g) /\ Len(g) = n /\ g[n] = r
  BY <1>2, GrowsByOne
<1>4. /\ Numbered(g) /\ Len(host) \in Nat /\ DOMAIN host = 1..Len(host) /\ DOMAIN g = 1..n
      /\ \A k \in DOMAIN host : g[k] = host[k]
  BY <1>2, <1>3, GrowsFacts
<1> HIDE DEF g
<1>5. ASSUME bad = {}
      PROVE  /\ Unauthorized(core, g, r.inventory, policy) = {}
             /\ Inventory(g, r.inventory) = r.inventory
  <2>1. NoLaunchesSince(host, g)
    <3>1. \A k \in (Len(host) + 1)..Len(g) : k = n
      BY <1>3, <1>4
    <3> QED BY <1>1, <1>3, <3>1 DEF NoLaunchesSince, LaunchKinds
  <2>2. RevocationsGrow(host, g, policy)
    <3> SUFFICES ASSUME NEW q, NEW i
                 PROVE  \/ PolicyRevocations(g, q, i) = PolicyRevocations(host, q, i)
                        \/ /\ q # policy
                           /\ PolicyRevocations(host, q, i) \subseteq Nat
                           /\ \E t \in Nat :
                                 /\ PolicyRevocations(g, q, i)
                                        = PolicyRevocations(host, q, i) \cup {t}
                                 /\ \A v \in PolicyRevocations(host, q, i) : v <= t
      BY DEF RevocationsGrow
    <3>1. \A k \in DOMAIN host : Observes(host[k], q) =>
              host[k].observed \in Nat /\ host[k].observed <= clock
      BY <1>2 DEF Observes, HostRecordInOrder
    <3>2. \A v \in PolicyRevocations(host, q, i) : v \in Nat /\ v <= clock
      BY <3>1 DEF PolicyRevocations
    <3> DEFINE K == {k \in DOMAIN host : Observes(host[k], q) /\ host[k].core >= i}
               J == {k \in DOMAIN g : Observes(g[k], q) /\ g[k].core >= i}
    <3>3. DOMAIN g = DOMAIN host \cup {n}
      BY <1>4
    <3>4. J = K \/ (J = K \cup {n} /\ Observes(r, q))
      <4>1. \A k \in DOMAIN host : k \in J <=> k \in K
        BY <1>4, <3>3
      <4>2. n \in J => Observes(r, q)
        BY <1>3
      <4> QED BY <3>3, <4>1, <4>2
    <3>5. \A k \in K : k \in DOMAIN host /\ g[k].observed = host[k].observed
      BY <1>4
    <3>6. CASE J = K
      <4>1. {g[k].observed : k \in J} = {host[k].observed : k \in K}
        BY <3>5, <3>6
      <4> QED BY <4>1 DEF PolicyRevocations
    <3>7. CASE J = K \cup {n} /\ Observes(r, q)
      <4>1. {g[k].observed : k \in J} = {host[k].observed : k \in K} \cup {clock}
        BY <1>1, <1>3, <3>5, <3>7
      <4>2. q # policy
        BY <1>1, <3>7 DEF Observes, Replaced
      <4>3. PolicyRevocations(g, q, i) = PolicyRevocations(host, q, i) \cup {clock}
        BY <4>1 DEF PolicyRevocations
      <4> QED BY <1>2, <3>2, <4>2, <4>3
    <3> HIDE DEF K, J
    <3> QED BY <3>4, <3>6, <3>7
  <2>3. Inventory(host, r.inventory) = r.inventory
    BY <1>1 DEF Inventory
  <2>4. Unauthorized(core, host, r.inventory, policy) = Unauthorized(core, host, ledger, policy)
    BY <1>1, <2>3 DEF Unauthorized
  <2>5. Unauthorized(core, g, r.inventory, policy) = {}
    <3>1. Unauthorized(core, host, r.inventory, policy) = {}
      BY <1>5, <2>4
    <3> QED BY <1>2, <2>1, <2>2, <3>1, StillClean
  <2>6. Inventory(g, r.inventory) = r.inventory
    BY <1>2, <2>1, <2>3, SameLaunches
  <2> QED BY <2>5, <2>6
<1>6. ReconciliationInOrder(d, g, n)
  <2>1. SubSeq(g, 1, n) = g
    BY <1>3, <1>4, WholeChain
  <2>2. bad = {} => SubSeq(d, 1, at) = core
    <3> SUFFICES ASSUME bad = {} PROVE SubSeq(d, 1, at) = core
      OBVIOUS
    <3>1. at = Len(core) /\ at \in 0..Len(core)
      OBVIOUS
    <3>2. SubSeq(d, 1, at) = SubSeq(core, 1, at)
      BY <1>2, <3>1, GrowsFacts
    <3> QED BY <1>2, <3>1, <3>2, WholeChain
  <2> QED BY <1>1, <1>3, <1>5, <2>1, <2>2 DEF ReconciliationInOrder
<1>7. HostRecordInOrder(d, g, n, clock)
  BY <1>1, <1>2, <1>3, <1>6 DEF HostRecordInOrder
<1> QED BY <1>7 DEF g

\* The gate passes a run only if everything launched is authorized, and nothing
\* was ever found that was not.
LEMMA GateChecked ==
    ASSUME GInv, NEW policy, LaunchesReconciled(core, host, ledger, policy)
    PROVE  /\ Unauthorized(core, host, ledger, policy) = {}
           /\ \A j \in DOMAIN core : core[j].findings = NoMap
<1> DEFINE i == Max({0} \cup Kind(host, "launch_reconciliation"))
<1>1. /\ Numbered(core) /\ Numbered(host) /\ clock \in Nat
      /\ \A k \in DOMAIN core : CoreRecordInOrder(core[k])
      /\ \A k \in DOMAIN host : HostRecordInOrder(core, host, k, clock)
  BY DEF GInv
<1>2. \A j \in DOMAIN core : core[j].findings = NoMap
  BY <1>1, FoundStands DEF LaunchesReconciled
<1>3. CASE Namespaces(host) = {}
  <2>1. \A L : Inventory(host, L) = {}
    BY <1>3 DEF Inventory
  <2>2. Kind(host, "loop_evidence") = {}
    BY <1>3 DEF Namespaces
  <2>3. reconcileJournals(host) = {}
    BY <2>2 DEF reconcileJournals
  <2> QED BY <1>2, <2>1, <2>3 DEF Unauthorized
<1>4. CASE Namespaces(host) # {}
  <2>1. /\ i # 0 /\ \A j \in (i + 1)..Len(host) : ~ReconciliationRelevant(host[j])
        /\ host[i].unauthorized = {} /\ host[i].core = Len(core)
        /\ Inventory(host, ledger) = host[i].inventory
        /\ policy = host[i].policy
    BY <1>4 DEF LaunchesReconciled
  <2>2. Len(host) \in Nat /\ DOMAIN host = 1..Len(host)
    BY <1>1, ChainFacts
  <2>3. /\ i \in Kind(host, "launch_reconciliation")
        /\ \A j \in Kind(host, "launch_reconciliation") : j <= i
    <3> DEFINE S == {0} \cup Kind(host, "launch_reconciliation")
    <3>1. S \in SUBSET (0..Len(host)) /\ S # {}
      BY <2>2 DEF Kind
    <3>2. Max(S) \in S /\ \A j \in S : j <= Max(S)
      <4> HIDE DEF S
      <4> QED BY <2>2, <3>1, MaxOf
    <3> QED BY <2>1, <3>2
  <2> HIDE DEF i
  <2> DEFINE b == SubSeq(host, 1, i)
  <2>4. i \in DOMAIN host /\ i \in 0..Len(host) /\ host[i].kind = "launch_reconciliation"
    BY <2>2, <2>3 DEF Kind
  <2>5. /\ Numbered(b) /\ Len(b) = i /\ DOMAIN b = 1..i
        /\ \A k \in 1..i : b[k] = host[k] /\ k \in DOMAIN host
    BY <1>1, <2>4, PrefixFacts
  <2>6. Grows(b, host)
    BY <1>1, <2>4, BeginningGrows
  <2>7. Unauthorized(core, b, host[i].inventory, policy) = {}
        /\ Inventory(b, host[i].inventory) = host[i].inventory
    <3>1. ReconciliationInOrder(core, host, i)
      BY <1>1, <2>4 DEF HostRecordInOrder
    <3>2. SubSeq(core, 1, host[i].core) = core
      BY <1>1, <2>1, WholeChain
    <3> QED BY <2>1, <3>1, <3>2 DEF ReconciliationInOrder
  <2> HIDE DEF b
  <2>8. \A k \in (i + 1)..Len(host) :
            /\ ~ReconciliationRelevant(host[k]) /\ host[k].kind # "launch_reconciliation"
    <3> TAKE k \in (i + 1)..Len(host)
    <3>1. k \in DOMAIN host /\ ~(k <= i)
      BY <2>2, <2>4
    <3>2. k \notin Kind(host, "launch_reconciliation")
      BY <2>3, <3>1
    <3> QED BY <2>1, <3>1, <3>2 DEF Kind
  <2>9. NoLaunchesSince(b, host)
    BY <2>5, <2>6, <2>8 DEF NoLaunchesSince, LaunchKinds, ReconciliationRelevant
  <2>10. RevocationsGrow(b, host, policy)
    <3>1. \A q, n : PolicyRevocations(host, q, n) = PolicyRevocations(b, q, n)
      <4> TAKE q, n
      <4>1. \A k \in DOMAIN host : Observes(host[k], q) => k \in 1..i
        BY <2>2, <2>4, <2>8 DEF Observes, ReconciliationRelevant
      <4>2. {k \in DOMAIN host : Observes(host[k], q) /\ host[k].core >= n}
                = {k \in DOMAIN b : Observes(b[k], q) /\ b[k].core >= n}
        BY <2>5, <4>1
      <4> DEFINE K == {k \in DOMAIN b : Observes(b[k], q) /\ b[k].core >= n}
      <4>3. \A k \in K : host[k].observed = b[k].observed
        BY <2>5
      <4>4. PolicyRevocations(host, q, n) = {host[k].observed : k \in K}
        BY <4>2 DEF PolicyRevocations
      <4>5. PolicyRevocations(b, q, n) = {b[k].observed : k \in K}
        BY DEF PolicyRevocations
      <4> HIDE DEF K
      <4> QED BY <4>3, <4>4, <4>5
    <3> QED BY <3>1 DEF RevocationsGrow
  <2>11. \A k \in DOMAIN b : HostRecordInOrder(core, b, k, clock)
    <3> TAKE k \in DOMAIN b
    <3>1. k \in Nat /\ k >= 1 /\ k \in DOMAIN host /\ \A j \in 1..k : b[j] = host[j]
      BY <2>4, <2>5
    <3>2. HostRecordInOrder(core, host, k, clock)
      BY <1>1, <3>1
    <3> QED BY <1>1, <3>1, <3>2, GrowsByNothing, OrderStays
  <2>12. Unauthorized(core, host, host[i].inventory, policy) = {}
    BY <1>1, <2>5, <2>7, <2>9, <2>10, <2>11, StillClean
  <2>13. Inventory(host, host[i].inventory) = host[i].inventory
    BY <2>5, <2>7, <2>9, SameLaunches
  <2>14. Unauthorized(core, host, ledger, policy)
             = Unauthorized(core, host, host[i].inventory, policy)
    BY <2>1, <2>13 DEF Unauthorized
  <2> QED BY <1>2, <2>12, <2>14
<1> QED BY <1>3, <1>4

-----------------------------------------------------------------------------
(* A step, as the invariant sees it.                                       *)

\* At most one record, which follows those before it.
NewHostRecord(r) ==
    /\ host' = host \o <<r>>
    /\ HostRecordInOrder(core', host', Len(host) + 1, clock)
    /\ r.kind # "dispatch"
    /\ r.kind = "reservation" => \A j \in Kind(host, "dispatch") : r.id # host[j].id

HostStep == host' = host \/ \E r : NewHostRecord(r)

CoreStep == core' = core \/ \E r : core' = core \o <<r>> /\ CoreRecordInOrder(r)

TimeStep ==
    /\ clock' \in Nat /\ clock <= clock'
    /\ LedgerInOrder(ledger', clock') /\ stored' \subseteq DOMAIN Plans

HistoryStep ==
    /\ \A o \in observed' : o \in observed \/ ChangeRecorded(o)'
    /\ \A a \in answers' : a \in answers \/ (a.eligible => GrantGood(a)')
    /\ \A g \in gates' : g \in gates \/ GateClean(g)'

Step == HostStep /\ CoreStep /\ TimeStep /\ HistoryStep /\ CallOK'

LEMMA StepGrows ==
    ASSUME GInv, HostStep, CoreStep
    PROVE  Grows(core, core') /\ Grows(host, host')
<1>1. Numbered(core) /\ Numbered(host)
  BY DEF GInv
<1>2. \A c : Numbered(c) => Grows(c, c) /\ \A r : Grows(c, c \o <<r>>)
  BY GrowsByNothing, GrowsByOne
<1>3. Grows(core, core')
  BY <1>1, <1>2 DEF CoreStep
<1>4. Grows(host, host')
  BY <1>1, <1>2 DEF HostStep, NewHostRecord
<1> QED BY <1>3, <1>4

\* Records in order stay so, and a new one is.
LEMMA RecordsStayInOrder ==
    ASSUME GInv, Step
    PROVE  /\ \A i \in DOMAIN core' : CoreRecordInOrder(core'[i])
           /\ \A i \in DOMAIN host' : HostRecordInOrder(core', host', i, clock')
           /\ IdsApart(host')
<1>1. /\ Numbered(core) /\ Numbered(host) /\ Grows(core, core') /\ Grows(host, host')
      /\ clock \in Nat /\ clock' \in Nat /\ clock <= clock'
  BY StepGrows DEF GInv, Step, TimeStep
<1>2. /\ Numbered(core') /\ Numbered(host')
      /\ Len(core) \in Nat /\ Len(host) \in Nat
      /\ DOMAIN core = 1..Len(core) /\ DOMAIN core' = 1..Len(core')
      /\ DOMAIN host = 1..Len(host) /\ DOMAIN host' = 1..Len(host')
      /\ Len(host) <= Len(host') /\ Len(host') \in Nat /\ Len(core') \in Nat
      /\ \A i \in DOMAIN core : core'[i] = core[i]
      /\ \A i \in DOMAIN host : host'[i] = host[i]
  BY <1>1, GrowsFacts
<1>3. \A i \in DOMAIN core' : CoreRecordInOrder(core'[i])
  <2>1. CASE core' = core
    BY <2>1 DEF GInv
  <2>2. ASSUME NEW r, core' = core \o <<r>>, CoreRecordInOrder(r)
        PROVE  \A i \in DOMAIN core' : CoreRecordInOrder(core'[i])
    <3>1. Len(core') = Len(core) + 1 /\ core'[Len(core) + 1] = r
      BY <1>1, <2>2, GrowsByOne
    <3>2. \A i \in DOMAIN core' : i \in DOMAIN core \/ i = Len(core) + 1
      BY <1>2, <3>1
    <3> QED BY <1>2, <2>2, <3>1, <3>2 DEF GInv
  <2> QED BY <2>1, <2>2 DEF Step, CoreStep
<1>4. \A i \in DOMAIN host : HostRecordInOrder(core', host', i, clock')
  <2> TAKE i \in DOMAIN host
  <2>1. i \in Nat /\ i >= 1 /\ \A k \in 1..i : host'[k] = host[k]
    BY <1>2
  <2>2. HostRecordInOrder(core, host, i, clock)
    BY DEF GInv
  <2> QED BY <1>1, <2>1, <2>2, OrderStays
<1>5. CASE host' = host
  <2>1. IdsApart(host')
    BY <1>5 DEF GInv
  <2> QED BY <1>3, <1>4, <1>5, <2>1
<1>6. ASSUME NEW r, NewHostRecord(r)
      PROVE  /\ \A i \in DOMAIN host' : HostRecordInOrder(core', host', i, clock')
             /\ IdsApart(host')
  <2> DEFINE n == Len(host) + 1
  <2>1. Len(host') = n /\ host'[n] = r /\ n \in Nat /\ n >= 1
    BY <1>1, <1>2, <1>6, GrowsByOne DEF NewHostRecord
  <2>2. HostRecordInOrder(core', host', n, clock)
    BY <1>6 DEF NewHostRecord
  <2>3. HostRecordInOrder(core', host', n, clock')
    BY <1>1, <1>2, <2>1, <2>2, GrowsByNothing, OrderStays
  <2>4. \A i \in DOMAIN host' : i \in DOMAIN host \/ i = n
    BY <1>2, <2>1
  <2>5. /\ Kind(host', "dispatch") = Kind(host, "dispatch")
        /\ \A i \in Kind(host', "reservation") :
              i \in Kind(host, "reservation") \/ (i = n /\ r.kind = "reservation")
    <3>1. \A i \in DOMAIN host : i \in DOMAIN host'
      BY <1>2, <2>1
    <3> HIDE DEF n
    <3> QED BY <1>2, <1>6, <2>1, <2>4, <3>1 DEF Kind, NewHostRecord
  <2>6. \A i \in Kind(host, "reservation") \cup Kind(host, "dispatch") : host'[i] = host[i]
    BY <1>2 DEF Kind
  <2>7. IdsApart(host)
    BY DEF GInv
  <2> HIDE DEF n
  <2>8. r.kind = "reservation" => \A j \in Kind(host, "dispatch") : r.id # host[j].id
    BY <1>6 DEF NewHostRecord
  <2>9. IdsApart(host')
    <3> SUFFICES ASSUME NEW i \in Kind(host', "reservation"), NEW j \in Kind(host, "dispatch")
                 PROVE  host'[i].id # host[j].id
      BY <2>5, <2>6 DEF IdsApart
    <3>1. CASE i \in Kind(host, "reservation")
      BY <2>6, <2>7, <3>1 DEF IdsApart
    <3>2. CASE i = n /\ r.kind = "reservation"
      BY <2>1, <2>8, <3>2
    <3> QED BY <2>5, <3>1, <3>2
  <2> QED BY <1>4, <2>3, <2>4, <2>9
<1> QED BY <1>3, <1>5, <1>6 DEF Step, HostStep

\* What was seen, answered and passed stays as it was.
LEMMA HistoryStays ==
    ASSUME GInv, Step
    PROVE  /\ \A o \in observed' : ChangeRecorded(o)'
           /\ \A a \in answers' : a.eligible => GrantGood(a)'
           /\ \A g \in gates' : GateClean(g)'
<1>1. /\ Numbered(core) /\ Numbered(host) /\ Grows(core, core') /\ Grows(host, host')
  BY StepGrows DEF GInv, Step
<1>2. /\ Len(core) \in Nat /\ Len(core') \in Nat /\ Len(core) <= Len(core')
      /\ DOMAIN core = 1..Len(core) /\ DOMAIN core' = 1..Len(core')
      /\ \A i \in 1..Len(core) : core'[i] = core[i]
      /\ \A n \in 0..Len(core) : SubSeq(core', 1, n) = SubSeq(core, 1, n)
  BY <1>1, GrowsFacts
<1>3. /\ Len(host) \in Nat /\ Len(host') \in Nat /\ Len(host) <= Len(host')
      /\ DOMAIN host = 1..Len(host) /\ DOMAIN host' = 1..Len(host')
      /\ \A i \in 1..Len(host) : host'[i] = host[i]
      /\ \A n \in 0..Len(host) : SubSeq(host', 1, n) = SubSeq(host, 1, n)
  BY <1>1, GrowsFacts
<1>4. ASSUME NEW o, ChangeRecorded(o) PROVE ChangeRecorded(o)'
  <2>1. o.core \in 0..Len(core) /\ o.core \in 0..Len(core')
    BY <1>2, <1>4 DEF ChangeRecorded
  <2>2. PICK k \in DOMAIN host :
            /\ Observes(host[k], o.policy) /\ host[k].core \in Nat
            /\ \A gen \in DOMAIN core :
                  gen <= o.core /\ IssuesLease(core[gen], core[gen].unit) => gen <= host[k].core
    BY <1>4 DEF ChangeRecorded
  <2>3. k \in DOMAIN host' /\ host'[k] = host[k]
    BY <1>3
  <2>4. ASSUME NEW gen \in DOMAIN core', gen <= o.core,
               IssuesLease(core'[gen], core'[gen].unit)
        PROVE  gen <= host'[k].core
    <3>1. gen \in DOMAIN core /\ core'[gen] = core[gen]
      BY <1>2, <2>1, <2>4
    <3> QED BY <2>2, <2>3, <2>4, <3>1
  <2> QED BY <2>1, <2>2, <2>3, <2>4 DEF ChangeRecorded
<1>5. ASSUME NEW a, GrantGood(a) PROVE GrantGood(a)'
  <2>1. /\ a.core \in 0..Len(core) /\ a.host \in 0..Len(host) /\ a.record \in DOMAIN host
        /\ host[a.record].gen \in 1..a.core
    BY <1>5 DEF GrantGood
  <2>2. /\ a.core \in 0..Len(core') /\ a.host \in 0..Len(host') /\ a.record \in DOMAIN host'
        /\ host'[a.record] = host[a.record]
        /\ SubSeq(core', 1, a.core) = SubSeq(core, 1, a.core)
        /\ SubSeq(host', 1, a.host) = SubSeq(host, 1, a.host)
    BY <1>2, <1>3, <2>1
  <2>3. core'[host[a.record].gen] = core[host[a.record].gen]
    BY <1>2, <2>1
  <2>4. PlanOf(a.record)' = PlanOf(a.record)
    BY <2>2, <2>3 DEF PlanOf
  <2>5. /\ ~Refused(SubSeq(core, 1, a.core), SubSeq(host, 1, a.host),
                    Launched(a.req) ++ [at |-> Second(a.at), receipt |-> TRUE], a.policy)
        /\ RouteStands(SubSeq(core, 1, a.core), host[a.record].gen)
        /\ \A o \in a.seen :
              o.policy = Plans[PlanOf(a.record)].policy => o.core < host[a.record].gen
    BY <1>5 DEF GrantGood
  <2> QED BY <2>1, <2>2, <2>4, <2>5 DEF GrantGood
<1>6. ASSUME NEW g, GateClean(g) PROVE GateClean(g)'
  <2>1. /\ g.at - 1 \in 0..Len(core) /\ g.host \in 0..Len(host)
        /\ Unauthorized(SubSeq(core, 1, g.at - 1), SubSeq(host, 1, g.host),
                        g.ledger, g.policy) = {}
        /\ \A j \in DOMAIN SubSeq(core, 1, g.at - 1) :
              SubSeq(core, 1, g.at - 1)[j].findings = NoMap
    BY <1>6 DEF GateClean
  <2>2. /\ g.at - 1 \in 0..Len(core') /\ g.host \in 0..Len(host')
        /\ SubSeq(core', 1, g.at - 1) = SubSeq(core, 1, g.at - 1)
        /\ SubSeq(host', 1, g.host) = SubSeq(host, 1, g.host)
    BY <1>2, <1>3, <2>1
  <2> QED BY <2>1, <2>2 DEF GateClean
<1>7. /\ \A o \in observed : ChangeRecorded(o)
      /\ \A a \in answers : a.eligible => GrantGood(a)
      /\ \A g \in gates : GateClean(g)
  BY DEF GInv
<1> QED BY <1>4, <1>5, <1>6, <1>7 DEF Step, HistoryStep

LEMMA StepKeeps == ASSUME GInv, Step PROVE GInv'
<1>1. Numbered(core') /\ Numbered(host')
  <2>1. Numbered(core) /\ Numbered(host) /\ Grows(core, core') /\ Grows(host, host')
    BY StepGrows DEF GInv, Step
  <2> QED BY <2>1, GrowsFacts
<1>2. clock' \in Nat \ {0} /\ LedgerInOrder(ledger', clock') /\ stored' \subseteq DOMAIN Plans
  BY DEF GInv, Step, TimeStep
<1>3. CallOK'
  BY DEF Step
<1> QED BY <1>1, <1>2, <1>3, RecordsStayInOrder, HistoryStays DEF GInv

-----------------------------------------------------------------------------
(* What the commands write.                                                *)

\* A step that writes only the host chain, one record of it.
LEMMA RecordsOne ==
    ASSUME GInv, NEW r, core' = core, host' = host \o <<r>>, clock' = clock,
           core # <<>>, r.core = Len(core),
           r.kind \notin {"reservation", "dispatch", "launch_reconciliation"},
           r.kind = "preflight" => r.expires \in Nat,
           r.kind = "policy_revocation" => r.observed = clock,
           r.kind = "loop_admission" => r.ns = Envelopes[r.env].ns
    PROVE  CoreStep /\ HostStep
<1>1. Numbered(host) /\ Numbered(core) /\ clock \in Nat
  BY DEF GInv
<1>2. host'[Len(host) + 1] = r
  BY <1>1, GrowsByOne
<1>3. Len(core) \in Nat /\ Len(core) # 0
  <2>1. core \in Seq({core[i] : i \in DOMAIN core})
    BY <1>1 DEF Numbered
  <2> QED BY <2>1
<1>4. HostRecordInOrder(core', host', Len(host) + 1, clock)
  BY <1>1, <1>2, <1>3 DEF HostRecordInOrder
<1>5. NewHostRecord(r)
  BY <1>4 DEF NewHostRecord
<1> QED BY <1>5 DEF CoreStep, HostStep

\* Where time, ledger and histories stand still.
LEMMA Still ==
    ASSUME GInv, UNCHANGED <<ledger, clock>>, stored' \subseteq DOMAIN Plans
    PROVE  TimeStep
BY DEF GInv, TimeStep

LEMMA NoCall == ASSUME call' = None PROVE CallOK'
BY DEF CallOK

\* The latest generation is the greatest.
LEMMA LatestGeneration ==
    ASSUME NEW c, Numbered(c)
    PROVE  /\ latestGeneration(c) \in Nat
           /\ \A gen \in DOMAIN c : IssuesLease(c[gen], c[gen].unit) => gen <= latestGeneration(c)
<1> DEFINE I == {k \in 1..Len(c) : IssuesLease(c[k], c[k].unit)}
<1>1. Len(c) \in Nat /\ DOMAIN c = 1..Len(c)
  BY ChainFacts
<1>2. latestGeneration(c) = IF I # {} THEN Max(I) ELSE 0
  BY DEF latestGeneration, SelectLastInSeq
<1>3. I \subseteq 1..Len(c)
  OBVIOUS
<1>4. \A k \in DOMAIN c : IssuesLease(c[k], c[k].unit) => k \in I
  BY <1>1
<1> HIDE DEF I
<1>5. I # {} => Max(I) \in I /\ \A j \in I : j <= Max(I)
  BY <1>3, LastOf
<1>6. I # {} => Max(I) \in Nat
  <2>1. \A k \in I : k \in Nat
    BY <1>1, <1>3
  <2> QED BY <1>5, <2>1
<1> QED BY <1>2, <1>4, <1>5, <1>6

-----------------------------------------------------------------------------
(* A replaced policy that is seen is put on record.                        *)

\* That q was replaced is, or was, recorded for every lease there is.
LEMMA SeenRecorded ==
    ASSUME GInv, Grows(core, core'), Grows(host, host'), NEW q,
           \/ ~PolicyRevocationNeeded(core, host, q)
           \/ \E k \in DOMAIN host' :
                 Observes(host'[k], q) /\ host'[k].core \in Nat /\ host'[k].core >= Len(core),
           NEW o, o = [policy |-> q, core |-> Len(core)]
    PROVE  ChangeRecorded(o)'
<1>1. Numbered(core) /\ Numbered(host)
  BY DEF GInv
<1>2. /\ Len(core) \in Nat /\ Len(core') \in Nat /\ Len(core) <= Len(core')
      /\ DOMAIN core = 1..Len(core) /\ DOMAIN core' = 1..Len(core')
      /\ \A i \in 1..Len(core) : core'[i] = core[i]
  BY <1>1, GrowsFacts
<1>3. \A k \in DOMAIN host : k \in DOMAIN host' /\ host'[k] = host[k]
  <2>1. /\ Len(host) \in Nat /\ Len(host') \in Nat /\ Len(host) <= Len(host')
        /\ DOMAIN host = 1..Len(host) /\ DOMAIN host' = 1..Len(host')
        /\ \A i \in 1..Len(host) : host'[i] = host[i]
    BY <1>1, GrowsFacts
  <2> QED BY <2>1
<1>4. PICK k \in DOMAIN host' :
          /\ Observes(host'[k], q) /\ host'[k].core \in Nat
          /\ \A gen \in DOMAIN core : IssuesLease(core[gen], core[gen].unit) => gen <= host'[k].core
  <2>1. CASE \E k \in DOMAIN host' :
                 Observes(host'[k], q) /\ host'[k].core \in Nat /\ host'[k].core >= Len(core)
    BY <1>2, <2>1
  <2>2. CASE ~PolicyRevocationNeeded(core, host, q)
    <3>1. PICK k \in DOMAIN host :
              Observes(host[k], q) /\ host[k].core >= latestGeneration(core)
      BY <2>2 DEF PolicyRevocationNeeded, PolicyRevocations
    <3>2. host[k].core \in Nat
      BY <1>2 DEF GInv, HostRecordInOrder
    <3>3. /\ latestGeneration(core) \in Nat
          /\ \A gen \in DOMAIN core :
                IssuesLease(core[gen], core[gen].unit) => gen <= latestGeneration(core)
      BY <1>1, LatestGeneration
    <3>4. \A gen \in DOMAIN core :
              IssuesLease(core[gen], core[gen].unit) => gen <= host[k].core
      BY <1>2, <3>1, <3>2, <3>3
    <3> QED BY <1>3, <3>1, <3>2, <3>4
  <2> QED BY <2>1, <2>2
<1>5. ASSUME NEW gen \in DOMAIN core', gen <= o.core, IssuesLease(core'[gen], core'[gen].unit)
      PROVE  gen <= host'[k].core
  <2>1. gen \in DOMAIN core /\ core'[gen] = core[gen]
    BY <1>2, <1>5
  <2> QED BY <1>4, <1>5, <2>1
<1>6. o.core \in 0..Len(core')
  BY <1>2
<1> QED BY <1>4, <1>5, <1>6 DEF ChangeRecorded

\* A policy for which no change is on record under a lease was not seen
\* replaced since.
LEMMA NotSeen ==
    ASSUME GInv, NEW gen \in DOMAIN core, IssuesLease(core[gen], Unit), NEW q,
           PolicyRevocations(host, q, gen) = {}, NEW o \in observed, o.policy = q
    PROVE  o.core < gen
<1> SUFFICES ASSUME ~(o.core < gen) PROVE FALSE
  OBVIOUS
<1>1. ChangeRecorded(o) /\ Numbered(core)
  BY DEF GInv
<1>2. gen \in Nat /\ o.core \in Nat /\ gen <= o.core
  <2>1. gen \in Nat
    BY <1>1, ChainFacts
  <2>2. o.core \in 0..Len(core)
    BY <1>1 DEF ChangeRecorded
  <2> QED BY <2>1, <2>2
<1>3. IssuesLease(core[gen], core[gen].unit)
  BY DEF IssuesLease
<1>4. PICK k \in DOMAIN host : Observes(host[k], q) /\ host[k].core \in Nat /\ gen <= host[k].core
  BY <1>1, <1>2, <1>3 DEF ChangeRecorded
<1>5. host[k].observed \in PolicyRevocations(host, q, gen)
  BY <1>2, <1>4 DEF PolicyRevocations
<1> QED BY <1>5

\* The change of policy is recorded, and with it on record the policy was seen.
LEMMA PolicyChangeSteps ==
    ASSUME GInv, NEW plan, NEW policy, Write(<<>>, PolicyChange(plan, policy)),
           observed' = Observed(Seen(plan, policy)), clock' = clock
    PROVE  /\ CoreStep /\ HostStep /\ call = None /\ core' = core
           /\ \A o \in observed' : o \in observed \/ ChangeRecorded(o)'
           /\ Plans[plan].policy = policy => host' = host
<1> DEFINE q == Plans[plan].policy
           r == Envelope("policy_revocation", clock) ++ [policy |-> q, observed |-> clock]
<1>1. /\ core' = core \o <<>> /\ host' = host \o PolicyChange(plan, policy)
      /\ call = None /\ core # <<>> /\ Numbered(core) /\ Numbered(host)
  BY DEF Write, GInv
<1>2. core' = core
  BY <1>1, GrowsByNothing
<1>3. /\ r.kind = "policy_revocation" /\ r.core = Len(core) /\ r.observed = clock
      /\ r.policy = q
  BY DEF Envelope, ++
<1>4. Len(core) \in Nat
  BY <1>1, ChainFacts
<1>5. CASE PolicyChange(plan, policy) = <<>>
  <2>1. host' = host
    BY <1>1, <1>5, GrowsByNothing
  <2>2. q # policy => ~PolicyRevocationNeeded(core, host, q)
    <3>1. <<r>> # <<>>
      OBVIOUS
    <3> HIDE DEF r
    <3> QED BY <1>5, <3>1 DEF PolicyChange, r, q
  <2>3. Grows(core, core') /\ Grows(host, host')
    BY <1>1, <1>2, <2>1, GrowsByNothing
  <2>4. ASSUME NEW o \in observed' PROVE o \in observed \/ ChangeRecorded(o)'
    <3>1. CASE o \notin observed
      <4>1. o = [policy |-> q, core |-> Len(core)] /\ q # policy
        BY <3>1 DEF Observed, Seen
      <4> QED BY <2>2, <2>3, <4>1, SeenRecorded
    <3> QED BY <3>1
  <2> QED BY <1>1, <1>2, <2>1, <2>4 DEF CoreStep, HostStep
<1>6. CASE PolicyChange(plan, policy) # <<>>
  <2>1. q # policy /\ PolicyChange(plan, policy) = <<r>>
    BY <1>6 DEF PolicyChange
  <2> HIDE DEF r
  <2>2. host' = host \o <<r>>
    BY <1>1, <2>1
  <2>3. CoreStep /\ HostStep
    BY <1>1, <1>2, <1>3, <2>2, RecordsOne
  <2>4. Grows(core, core') /\ Grows(host, host')
    BY <2>3, StepGrows
  <2>5. Len(host) + 1 \in DOMAIN host' /\ host'[Len(host) + 1] = r
    <3>1. Len(host) \in Nat /\ Len(host') = Len(host) + 1 /\ host'[Len(host) + 1] = r
      BY <1>1, <2>2, GrowsByOne, ChainFacts
    <3>2. DOMAIN host' = 1..Len(host')
      BY <1>1, <2>4, GrowsFacts
    <3> QED BY <3>1, <3>2
  <2>6. Observes(r, q)
    BY <1>3 DEF Observes
  <2>7. ASSUME NEW o \in observed' PROVE o \in observed \/ ChangeRecorded(o)'
    <3>1. CASE o \notin observed
      <4>1. o = [policy |-> q, core |-> Len(core)]
        BY <3>1 DEF Observed, Seen
      <4>2. \E k \in DOMAIN host' :
                Observes(host'[k], q) /\ host'[k].core \in Nat /\ host'[k].core >= Len(core)
        BY <1>3, <1>4, <2>5, <2>6
      <4> QED BY <2>4, <4>1, <4>2, SeenRecorded
    <3> QED BY <3>1
  <2> QED BY <1>1, <1>2, <2>1, <2>3, <2>7
<1> QED BY <1>5, <1>6

LEMMA PolicyRefusedSteps == ASSUME GInv, PolicyRefused PROVE GInv'
<1>1. PICK req \in Requests, plan \in DOMAIN Plans, policy \in Policies :
          /\ Write(<<>>, PolicyChange(plan, policy))
          /\ observed' = Observed(Seen(plan, policy))
  BY DEF PolicyRefused
<1>2. UNCHANGED <<ledger, stored, clock, call, answers, gates>>
  BY DEF PolicyRefused
<1>3. /\ CoreStep /\ HostStep /\ call = None
      /\ \A o \in observed' : o \in observed \/ ChangeRecorded(o)'
  BY <1>1, <1>2, PolicyChangeSteps
<1>4. TimeStep /\ HistoryStep /\ CallOK'
  BY <1>2, <1>3, Still, NoCall DEF HistoryStep, GInv
<1> QED BY <1>3, <1>4, StepKeeps DEF Step

-----------------------------------------------------------------------------
(* The hook: what it grants.                                               *)

\* A grant under a charge that stands.
LEMMA GrantMade ==
    ASSUME GInv, ChargedOnce, UNCHANGED <<core, host>>,
           NEW a, a.core = Len(core), a.host = Len(host), a.at = clock, a.seen = observed,
           a.policy # None, a.record \in DOMAIN host, host[a.record].kind = "reservation",
           host[a.record].req = a.req, clock < host[a.record].until,
           Behind(core, host, host[a.record].gen, a.policy, observed)
    PROVE  GrantGood(a)'
<1> DEFINE m == a.record
           gen == host[m].gen
<1>1. /\ Numbered(core) /\ Numbered(host) /\ clock \in Nat /\ IdsApart(host)
      /\ \A k \in DOMAIN core : CoreRecordInOrder(core[k])
      /\ \A k \in DOMAIN host : HostRecordInOrder(core, host, k, clock)
  BY DEF GInv
<1>2. SubSeq(core, 1, a.core) = core /\ SubSeq(host, 1, a.host) = host
  BY <1>1, WholeChain
<1>3. Len(core) \in Nat /\ Len(host) \in Nat /\ DOMAIN core = 1..Len(core)
  BY <1>1, ChainFacts
<1>4. ReservationInOrder(core, host, m, clock)
  BY <1>1 DEF HostRecordInOrder
<1>5. gen \in 1..Len(core)
  BY <1>3, <1>4 DEF ReservationInOrder
<1>6. \A k \in Kind(host, "loop_admission") : host[k].ns = Envelopes[host[k].env].ns
  BY <1>1 DEF Kind, HostRecordInOrder
<1>7. /\ RouteStands(core, gen) /\ LeaseStands(core, gen)
      /\ a.policy = Plans[core[gen].approval.plan].policy
      /\ PolicyRevocations(host, a.policy, gen) = {}
      /\ \A o \in observed : o.policy = a.policy => o.core < gen
  BY DEF Behind, PolicyStill
<1>8. ~Refused(core, host, Launched(a.req) ++ [at |-> Second(clock), receipt |-> TRUE], a.policy)
  <2>1. ChargedOnceIn(host)
    BY DEF ChargedOnce
  <2> QED BY <1>1, <1>4, <1>6, <1>7, <2>1, Honoured
<1>9. \A o \in a.seen : o.policy = Plans[PlanOf(m)].policy => o.core < gen
  BY <1>7 DEF PlanOf
<1>10. GrantGood(a)
  <2>1. a.core \in 0..Len(core) /\ a.host \in 0..Len(host) /\ gen \in 1..a.core
    BY <1>3, <1>5
  <2>2. ~Refused(SubSeq(core, 1, a.core), SubSeq(host, 1, a.host),
                 Launched(a.req) ++ [at |-> Second(a.at), receipt |-> TRUE], a.policy)
    BY <1>2, <1>8
  <2>3. RouteStands(SubSeq(core, 1, a.core), gen)
    BY <1>2, <1>7
  <2> QED BY <2>1, <2>2, <2>3, <1>9 DEF GrantGood
<1> QED BY <1>10 DEF GrantGood, PlanOf

\* What a lease that holds, with its policy standing, leaves behind.
LEMMA LeaseUnderBehind ==
    ASSUME GInv, NEW plan \in DOMAIN Plans, NEW counters, LeaseUnder(plan, counters),
           NEW policy, policy = Plans[plan].policy, PolicyRevocations(host, policy, Issuer) = {}
    PROVE  /\ Issuer \in DOMAIN core /\ IssuesLease(core[Issuer], Unit)
           /\ core[Issuer].approval.plan = plan
           /\ Behind(core, host, Issuer, policy, observed)
<1>1. Numbered(core) /\ \A k \in DOMAIN core : CoreRecordInOrder(core[k])
  BY DEF GInv
<1>2. /\ Issuer \in DOMAIN core /\ IssuesLease(core[Issuer], Unit)
      /\ core[Issuer].approval.plan = plan
      /\ RouteStands(core, Issuer) /\ LeaseStands(core, Issuer)
  BY <1>1, LeaseBehind DEF LeaseUnder, Issuer
<1>3. \A o \in observed : o.policy = policy => o.core < Issuer
  BY <1>2, NotSeen
<1> QED BY <1>2, <1>3 DEF Behind, PolicyStill

LEMMA AnswerSteps == ASSUME GInv, ChargedOnce, Answer PROVE GInv'
<1> DEFINE e == StillEligible(call)
           m == Len(host)
<1>1. /\ call # None /\ call.phase = "charged" /\ call' = None
      /\ UNCHANGED <<core, host, ledger, stored, clock, room, observed, gates>>
      /\ answers' = answers \cup
            {Answered(call.req, call.plan, call.policy, m, e, m)}
  BY DEF Answer
<1>2. /\ call.charge.kind = "reservation" /\ call.charge.req = call.req
      /\ call.until \in Nat /\ call.until <= call.charge.until /\ call.policy # None
      /\ Behind(core, host, call.charge.gen, call.policy, observed)
      /\ m \in DOMAIN host /\ host[m] = call.charge
  BY <1>1 DEF GInv, CallOK
<1>3. call.charge.until \in Nat
  <2>1. ReservationInOrder(core, host, m, clock)
    BY <1>2 DEF GInv, HostRecordInOrder
  <2>2. CoreRecordInOrder(core[host[m].gen])
    BY <2>1 DEF GInv, ReservationInOrder
  <2>3. core[host[m].gen].approval.at \in Nat
    BY <2>1, <2>2 DEF ReservationInOrder, CoreRecordInOrder, IssuesLease, ApprovedMove
  <2>4. Plans[core[host[m].gen].approval.plan].wall \in Nat
    BY <2>1, PlansAssumption DEF ReservationInOrder
  <2>5. host[m].until = core[host[m].gen].approval.at + Plans[core[host[m].gen].approval.plan].wall
    BY <2>1 DEF ReservationInOrder
  <2>6. host[m].until \in Nat
    BY <2>3, <2>4, <2>5
  <2> QED BY <1>2, <2>6
<1>4. ASSUME NEW a \in answers', a \notin answers, a.eligible PROVE GrantGood(a)'
  <2>1. a = Answered(call.req, call.plan, call.policy, m, e, m)
    BY <1>1, <1>4
  <2>2. /\ a.core = Len(core) /\ a.host = Len(host) /\ a.at = clock /\ a.seen = observed
        /\ a.policy = call.policy /\ a.record = m /\ a.req = call.req /\ a.eligible = e
    BY <2>1 DEF Answered
  <2>3. clock < call.until
    BY <1>4, <2>2 DEF StillEligible
  <2>4. clock < host[m].until
    BY <1>2, <1>3, <2>3 DEF GInv
  <2> QED BY <1>1, <1>2, <2>2, <2>4, GrantMade
<1>5. CoreStep /\ HostStep
  BY <1>1 DEF CoreStep, HostStep
<1>6. TimeStep /\ CallOK'
  BY <1>1, Still, NoCall DEF GInv
<1>7. HistoryStep
  BY <1>1, <1>4 DEF HistoryStep
<1> QED BY <1>5, <1>6, <1>7, StepKeeps DEF Step

LEMMA ReplaySteps == ASSUME GInv, ChargedOnce, Replay PROVE GInv'
<1>1. PICK i \in Kind(host, "reservation"), plan \in DOMAIN Plans, policy \in Policies :
          /\ Write(<<>>, PolicyChange(plan, policy))
          /\ answers' = answers \cup
                (IF ReplayEligible(i, host[i].req, plan, policy)
                 THEN {Answered(host[i].req, plan, policy, i, TRUE, Len(host))} ELSE {})
          /\ observed' = Observed(Seen(plan, policy))
  BY DEF Replay
<1>2. UNCHANGED <<ledger, stored, clock, call, gates>>
  BY DEF Replay
<1>3. /\ CoreStep /\ HostStep /\ call = None /\ core' = core
      /\ \A o \in observed' : o \in observed \/ ChangeRecorded(o)'
      /\ Plans[plan].policy = policy => host' = host
  BY <1>1, <1>2, PolicyChangeSteps
<1>4. ASSUME NEW a \in answers', a \notin answers PROVE GrantGood(a)'
  <2>1. /\ ReplayEligible(i, host[i].req, plan, policy)
        /\ a = Answered(host[i].req, plan, policy, i, TRUE, Len(host))
    BY <1>1, <1>4
  <2>2. /\ LeaseUnder(plan, Uncharged) /\ policy = Plans[plan].policy
        /\ clock < host[i].until /\ Issuer = host[i].gen
        /\ PolicyRevocations(host, policy, Issuer) = {}
    BY <2>1 DEF ReplayEligible
  <2>3. Behind(core, host, host[i].gen, policy, observed)
    BY <2>2, LeaseUnderBehind
  <2>4. policy # None
    BY PlansAssumption
  <2>5. i \in DOMAIN host /\ host[i].kind = "reservation"
    BY DEF Kind
  <2>6. /\ a.core = Len(core) /\ a.host = Len(host) /\ a.at = clock /\ a.seen = observed
        /\ a.policy = policy /\ a.record = i /\ a.req = host[i].req
    BY <2>1 DEF Answered
  <2> QED BY <1>3, <2>2, <2>3, <2>4, <2>5, <2>6, GrantMade
<1>5. TimeStep /\ CallOK'
  BY <1>2, <1>3, Still, NoCall DEF GInv
<1>6. HistoryStep
  BY <1>2, <1>3, <1>4 DEF HistoryStep
<1> QED BY <1>3, <1>5, <1>6, StepKeeps DEF Step

-----------------------------------------------------------------------------
(* Steps that write neither chain.                                         *)

\* A charge that is waiting or written waits, or stays, as it was.
LEMMA CallStays ==
    ASSUME GInv, UNCHANGED <<core, host, call, observed>>, clock' \in Nat, clock <= clock'
    PROVE  CallOK'
<1> SUFFICES ASSUME call # None PROVE CallOK'
  BY NoCall
<1> DEFINE r == call.charge
<1>1. /\ call.phase \in {"waiting", "charged"} /\ call.policy # None
      /\ r.kind = "reservation" /\ r.req = call.req
      /\ r.core \in 1..Len(core) /\ r.from \in Nat
      /\ call.until \in Nat /\ call.until <= r.until
      /\ r.gen \in DOMAIN core /\ Behind(core, host, r.gen, call.policy, observed)
      /\ call.phase = "waiting" =>
            /\ ReservationInOrder(core, Append(host, r), Len(host) + 1, r.from)
            /\ \A j \in Kind(host, "dispatch") : r.id # host[j].id
      /\ call.phase = "charged" =>
            /\ Len(host) \in DOMAIN host /\ host[Len(host)] = r
            /\ r.from <= clock
  BY DEF GInv, CallOK
<1>2. clock \in Nat
  BY DEF GInv
<1>3. call.phase = "charged" => r.from <= clock'
  BY <1>1, <1>2
<1> QED BY <1>1, <1>3 DEF CallOK

LEMMA QuietSteps ==
    ASSUME GInv, UNCHANGED <<core, host, answers, observed, gates>>,
           call' = call \/ call' = None, TimeStep
    PROVE  GInv'
<1>1. CoreStep /\ HostStep /\ HistoryStep
  BY DEF CoreStep, HostStep, HistoryStep
<1>2. CallOK'
  <2>1. clock' \in Nat /\ clock <= clock'
    BY DEF TimeStep
  <2> QED BY <2>1, CallStays, NoCall
<1> QED BY <1>1, <1>2, StepKeeps DEF Step

LEMMA RetainSteps == ASSUME GInv, Retain PROVE GInv'
<1>1. UNCHANGED <<core, host, ledger, clock, call, answers, observed, gates>>
  BY DEF Retain
<1>2. stored' \subseteq DOMAIN Plans
  BY DEF Retain, GInv
<1> QED BY <1>1, <1>2, Still, QuietSteps

LEMMA DieSteps == ASSUME GInv, Die \/ UNCHANGED vars PROVE GInv'
<1>1. /\ UNCHANGED <<core, host, ledger, stored, clock, answers, observed, gates>>
      /\ call' = call \/ call' = None
  BY DEF Die, vars
<1>2. stored' \subseteq DOMAIN Plans
  BY <1>1 DEF GInv
<1> QED BY <1>1, <1>2, Still, QuietSteps

LEMMA TickSteps == ASSUME GInv, Tick PROVE GInv'
<1>1. /\ clock' = clock + 1 /\ clock \in Nat /\ clock' \in Nat /\ clock <= clock'
      /\ UNCHANGED <<core, host, ledger, stored, call, answers, observed, gates>>
  BY DEF Tick, GInv
<1>2. LedgerInOrder(ledger, clock')
  BY <1>1 DEF GInv, LedgerInOrder
<1>3. TimeStep
  BY <1>1, <1>2 DEF TimeStep, GInv
<1> QED BY <1>1, <1>3, QuietSteps

LEMMA LaunchSteps == ASSUME GInv, Launch PROVE GInv'
<1>1. PICK l \in {Launched(req) : req \in Requests} \cup Strays :
          ledger' = ledger \cup {l ++ [at |-> Second(clock), receipt |-> FALSE]}
  BY DEF Launch
<1>2. UNCHANGED <<core, host, stored, clock, call, answers, observed, gates>>
  BY DEF Launch
<1>3. clock \in Nat /\ LedgerInOrder(ledger, clock) /\ stored \subseteq DOMAIN Plans
  BY DEF GInv
<1>4. "at" \notin DOMAIN l /\ "receipt" \notin DOMAIN l
  <2>1. CASE l \in Strays
    <3>1. DOMAIN l \cap {"at", "receipt"} = {}
      BY <2>1, PlansAssumption
    <3> QED BY <3>1
  <2>2. CASE l \notin Strays
    BY <1>1, <2>2 DEF Launched
  <2> QED BY <2>1, <2>2
<1> DEFINE e == [at |-> Second(clock), receipt |-> FALSE]
           n == l ++ e
<1>5. /\ {"at", "receipt"} \subseteq DOMAIN n
      /\ n.at = Second(clock) /\ n.receipt = FALSE
  <2>1. DOMAIN e = {"at", "receipt"} /\ e.at = Second(clock) /\ e.receipt = FALSE
    OBVIOUS
  <2> HIDE DEF e
  <2>2. /\ DOMAIN (l ++ e) = DOMAIN l \cup DOMAIN e
        /\ \A f \in DOMAIN e \ DOMAIN l : (l ++ e)[f] = e[f]
    BY Beside
  <2> QED BY <1>4, <2>1, <2>2
<1>6. Second(clock) \in Nat /\ Second(clock) <= clock
  BY <1>3 DEF Second
<1> HIDE DEF n
<1>7. LedgerInOrder(ledger', clock)
  BY <1>1, <1>3, <1>5, <1>6 DEF LedgerInOrder, n
<1>8. TimeStep
  BY <1>2, <1>3, <1>7 DEF TimeStep
<1> QED BY <1>2, <1>8, QuietSteps

LEMMA ReceiptSteps == ASSUME GInv, Receipt PROVE GInv'
<1>1. PICK l \in ledger : ledger' = (ledger \ {l}) \cup {[l EXCEPT !.receipt = TRUE]}
  BY DEF Receipt
<1>2. UNCHANGED <<core, host, stored, clock, call, answers, observed, gates>>
  BY DEF Receipt
<1>3. clock \in Nat /\ LedgerInOrder(ledger, clock) /\ stored \subseteq DOMAIN Plans
  BY DEF GInv
<1> DEFINE n == [l EXCEPT !.receipt = TRUE]
<1>4. {"at", "receipt"} \subseteq DOMAIN l /\ l.at \in Nat /\ l.at <= clock
  BY <1>3 DEF LedgerInOrder
<1>5. DOMAIN n = DOMAIN l /\ n.at = l.at /\ n.receipt = TRUE
  BY <1>4
<1> HIDE DEF n
<1>6. LedgerInOrder(ledger', clock)
  BY <1>1, <1>3, <1>4, <1>5 DEF LedgerInOrder, n
<1>7. TimeStep
  BY <1>2, <1>3, <1>6 DEF TimeStep
<1> QED BY <1>2, <1>7, QuietSteps

-----------------------------------------------------------------------------
(* The hook: what it admits and charges.                                   *)

\* The latest admission of a controller, and the latest preflight.
LEMMA Latest ==
    ASSUME GInv, NEW S, S \subseteq DOMAIN host, Max({0} \cup S) # 0
    PROVE  Max({0} \cup S) \in S
<1>1. Len(host) \in Nat /\ DOMAIN host = 1..Len(host)
  BY ChainFacts DEF GInv
<1>2. {0} \cup S \in SUBSET (0..Len(host)) /\ {0} \cup S # {}
  BY <1>1
<1>3. Max({0} \cup S) \in {0} \cup S
  <2> DEFINE T == {0} \cup S
  <2> HIDE DEF T
  <2> QED BY <1>1, <1>2, MaxOf DEF T
<1> QED BY <1>3

LEMMA AdmitSteps == ASSUME GInv, Admit PROVE GInv'
<1>1. PICK req \in Requests, plan \in DOMAIN Plans :
          /\ stored' = stored \cup {plan}
          /\ Write(<<>>, <<Envelope("loop_admission", clock)
                           ++ [ctl |-> ctl(req), env |-> req.env, ns |-> ns(req),
                               gen |-> Issuer]>>)
  BY DEF Admit
<1>2. UNCHANGED <<ledger, clock, call, answers, observed, gates>>
  BY DEF Admit
<1> DEFINE r == Envelope("loop_admission", clock)
                ++ [ctl |-> ctl(req), env |-> req.env, ns |-> ns(req), gen |-> Issuer]
<1>3. r.kind = "loop_admission" /\ r.core = Len(core) /\ r.ns = Envelopes[r.env].ns
  BY DEF Envelope, ++, ns
<1>4. core' = core \o <<>> /\ host' = host \o <<r>> /\ core # <<>> /\ call = None
  BY <1>1 DEF Write
<1> HIDE DEF r
<1>5. core' = core
  BY <1>4, GrowsByNothing DEF GInv
<1>6. CoreStep /\ HostStep
  BY <1>2, <1>3, <1>4, <1>5, RecordsOne
<1>7. TimeStep
  <2>1. stored' \subseteq DOMAIN Plans
    BY <1>1 DEF GInv
  <2> QED BY <1>2, <2>1, Still
<1>8. HistoryStep /\ CallOK'
  BY <1>2, <1>4, NoCall DEF HistoryStep
<1> QED BY <1>6, <1>7, <1>8, StepKeeps DEF Step

\* The charge that is decided on will be in order from the whole second it
\* waits for on.
LEMMA ChargeSteps == ASSUME GInv, Charge PROVE GInv'
<1>1. PICK req \in Requests, plan \in DOMAIN Plans, policy \in Policies :
          /\ Admissible(req, plan)
          /\ PolicyStands(plan, policy)
          /\ stored' = stored \cup {plan}
          /\ Admission(req) # 0
          /\ host[Admission(req)].env = req.env
          /\ host[Admission(req)].gen = Issuer
          /\ call' =
                [phase |-> "waiting", req |-> req, plan |-> plan, policy |-> policy,
                 until |-> Min({LeaseEnd(plan), host[Preflown].expires}),
                 charge |->
                    Envelope("reservation", WholeSecond(clock))
                    ++ [ctl |-> ctl(req), idx |-> req.idx, id |-> req.id, sig |-> req.sig,
                        req |-> req, admission |-> Admission(req),
                        route |-> host[Preflown].route, cost |-> Envelopes[req.env].cost,
                        from |-> WholeSecond(clock), until |-> LeaseEnd(plan),
                        gen |-> Issuer]]
  BY ZenonT(60) DEF Charge
<1>2. UNCHANGED <<core, host, ledger, clock, answers, observed, gates>>
  BY DEF Charge
<1>3. /\ Numbered(core) /\ Numbered(host) /\ clock \in Nat
      /\ Len(core) \in Nat /\ DOMAIN core = 1..Len(core)
      /\ Len(host) \in Nat /\ DOMAIN host = 1..Len(host)
  BY ChainFacts DEF GInv
<1> DEFINE f == Envelope("reservation", WholeSecond(clock))
                ++ [ctl |-> ctl(req), idx |-> req.idx, id |-> req.id, sig |-> req.sig,
                    req |-> req, admission |-> Admission(req),
                    route |-> host[Preflown].route, cost |-> Envelopes[req.env].cost,
                    from |-> WholeSecond(clock), until |-> LeaseEnd(plan),
                    gen |-> Issuer]
<1>4. PICK r : r = f
  OBVIOUS
<1>5. /\ r.kind = "reservation" /\ r.unit = Unit /\ r.core = Len(core)
      /\ r.ctl = ctl(req) /\ r.id = req.id /\ r.req = req
      /\ r.admission = Admission(req) /\ r.route = host[Preflown].route
      /\ r.from = WholeSecond(clock) /\ r.until = LeaseEnd(plan) /\ r.gen = Issuer
  BY <1>4 DEF Envelope, ++
<1>6. /\ call'.phase = "waiting" /\ call'.req = req /\ call'.policy = policy
      /\ call'.until = Min({LeaseEnd(plan), host[Preflown].expires}) /\ call'.charge = r
  BY <1>1, <1>4
<1> HIDE DEF f
<1>7. /\ RouteGranted(req) /\ Fresh(req) /\ LeaseUnder(plan, unitCounters(host, Issuer))
      /\ policy = Plans[plan].policy /\ PolicyRevocations(host, policy, Issuer) = {}
  BY <1>1 DEF Admissible, PolicyStands
<1>8. /\ Issuer \in DOMAIN core /\ IssuesLease(core[Issuer], Unit)
      /\ core[Issuer].approval.plan = plan
      /\ Behind(core, host, Issuer, policy, observed)
  BY <1>7, LeaseUnderBehind
<1>9. LeaseEnd(plan) \in Nat
  <2>1. core[Issuer].approval.at \in Nat
    BY <1>8 DEF GInv, CoreRecordInOrder, IssuesLease, ApprovedMove
  <2>2. Plans[plan].wall \in Nat
    BY PlansAssumption
  <2> QED BY <2>1, <2>2 DEF LeaseEnd
<1>10. host[Preflown].expires \in Nat /\ host[Preflown].route = Envelopes[req.env].route
  <2>1. Preflown # 0 /\ host[Preflown].route = Envelopes[req.env].route
    BY <1>7 DEF RouteGranted
  <2> DEFINE S == {i \in Kind(host, "preflight") : host[i].unit = Unit}
  <2>2. S \subseteq DOMAIN host
    BY DEF Kind
  <2>3. Preflown \in S
    <3> HIDE DEF S
    <3> QED BY <2>1, <2>2, Latest DEF Preflown, S
  <2>4. Preflown \in DOMAIN host /\ host[Preflown].kind = "preflight"
    BY <2>3 DEF Kind
  <2> QED BY <2>1, <2>4 DEF GInv, HostRecordInOrder
<1>11. call'.until \in Nat /\ call'.until <= LeaseEnd(plan)
  <2> DEFINE S == {LeaseEnd(plan), host[Preflown].expires}
  <2>1. S \in SUBSET Nat /\ S # {} /\ LeaseEnd(plan) \in S
    BY <1>9, <1>10
  <2> HIDE DEF S
  <2>2. Min(S) \in Nat /\ Min(S) <= LeaseEnd(plan)
    BY <2>1, MinOf
  <2> QED BY <1>6, <2>2 DEF S
<1>12. r.from \in Nat /\ r.from % 2 = 0
  BY <1>3, <1>5 DEF WholeSecond
<1>13. /\ Admission(req) \in 1..Len(host) /\ host[Admission(req)].kind = "loop_admission"
       /\ host[Admission(req)].ctl = ctl(req)
  <2> DEFINE S == {i \in Kind(host, "loop_admission") : host[i].ctl = ctl(req)}
  <2>1. S \subseteq DOMAIN host
    BY DEF Kind
  <2>2. Admission(req) \in S
    <3> HIDE DEF S
    <3> QED BY <1>1, <2>1, Latest DEF Admission, S
  <2> QED BY <1>3, <2>2 DEF Kind
<1>14. ReservationInOrder(core, Append(host, r), Len(host) + 1, r.from)
  <2>1. /\ Append(host, r)[Len(host) + 1] = r
        /\ Append(host, r)[r.admission] = host[r.admission]
    BY <1>3, <1>5, <1>13, Appended
  <2>2. r.gen \in DOMAIN core /\ r.gen <= r.core
    BY <1>3, <1>5, <1>8
  <2>3. r.until = core[r.gen].approval.at + Plans[core[r.gen].approval.plan].wall
    BY <1>5, <1>8 DEF LeaseEnd
  <2>4. r.admission \in 1..((Len(host) + 1) - 1)
    BY <1>3, <1>5, <1>13
  <2>5. r.from <= r.from
    BY <1>12
  <2> DEFINE g == Append(host, r)
             n == Len(host) + 1
  <2>6. g[n] = r /\ g[r.admission] = host[r.admission] /\ r.admission \in 1..(n - 1)
    BY <2>1, <2>4
  <2> HIDE DEF g, n
  <2>7. ReservationInOrder(core, g, n, r.from)
    BY <1>1, <1>5, <1>8, <1>10, <1>12, <1>13, <2>2, <2>3, <2>5, <2>6 DEF ReservationInOrder
  <2> QED BY <2>7 DEF g, n
<1>15. \A j \in Kind(host, "dispatch") : r.id # host[j].id
  BY <1>5, <1>7 DEF Fresh
<1>16. r.core \in 1..Len(core) /\ r.gen \in DOMAIN core
  BY <1>3, <1>5, <1>8
<1>17. CallOK'
  <2>1. policy # None /\ call'.until <= r.until
    BY <1>5, <1>11, PlansAssumption
  <2>2. Behind(core, host, r.gen, policy, observed)
    BY <1>5, <1>8
  <2> QED BY <1>2, <1>5, <1>6, <1>11, <1>12, <1>14, <1>15, <1>16, <2>1, <2>2 DEF CallOK
<1>18. CoreStep /\ HostStep /\ HistoryStep
  BY <1>2 DEF CoreStep, HostStep, HistoryStep
<1>19. TimeStep
  <2>1. stored' \subseteq DOMAIN Plans
    BY <1>1 DEF GInv
  <2> QED BY <1>2, <2>1, Still
<1> QED BY <1>17, <1>18, <1>19, StepKeeps DEF Step

\* The charge is written, in order from the whole second on that it waited for.
LEMMA CommitSteps == ASSUME GInv, Commit PROVE GInv'
<1> DEFINE n == Len(host) + 1
<1>1. PICK r : r = call.charge
  OBVIOUS
<1>2. /\ call # None /\ call.phase = "waiting" /\ clock >= r.from
      /\ host' = Append(host, r) /\ call' = [call EXCEPT !.phase = "charged"]
      /\ UNCHANGED <<core, ledger, stored, clock, answers, observed, gates>>
  BY <1>1 DEF Commit
<1>3. /\ r.kind = "reservation" /\ r.req = call.req /\ call.policy # None
      /\ r.core \in 1..Len(core) /\ r.from \in Nat
      /\ call.until \in Nat /\ call.until <= r.until
      /\ r.gen \in DOMAIN core /\ Behind(core, host, r.gen, call.policy, observed)
      /\ ReservationInOrder(core, Append(host, r), n, r.from)
      /\ \A j \in Kind(host, "dispatch") : r.id # host[j].id
  BY <1>1, <1>2 DEF GInv, CallOK
<1>4. Numbered(core) /\ Numbered(host) /\ clock \in Nat
  BY DEF GInv
<1>5. /\ host' = host \o <<r>> /\ Len(host') = n /\ host'[n] = r
      /\ Len(host) \in Nat /\ DOMAIN host = 1..Len(host) /\ DOMAIN host' = 1..n
      /\ \A k \in DOMAIN host : host'[k] = host[k]
  <2>1. host' = host \o <<r>>
    BY <1>2, <1>4, AppendIsOne
  <2>2. /\ Numbered(host') /\ DOMAIN host' = 1..n /\ host'[n] = r
        /\ Len(host) \in Nat /\ DOMAIN host = 1..Len(host)
        /\ \A k \in DOMAIN host : host'[k] = host[k]
    BY <1>2, <1>4, Appended, ChainFacts
  <2>3. Len(host') = n
    BY <1>4, <2>1, GrowsByOne
  <2> QED BY <2>1, <2>2, <2>3
<1>6. ReservationInOrder(core', host', n, clock)
  <2>1. ReservationInOrder(core, host', n, r.from)
    BY <1>2, <1>3
  <2>2. r.from <= clock
    BY <1>2, <1>3, <1>4
  <2> HIDE DEF n
  <2> QED BY <1>2, <1>3, <1>4, <1>5, <2>1, <2>2 DEF ReservationInOrder
<1>7. HostRecordInOrder(core', host', n, clock)
  <2> HIDE DEF n
  <2> QED BY <1>2, <1>3, <1>5, <1>6 DEF HostRecordInOrder
<1>8. HostStep
  BY <1>3, <1>5, <1>7 DEF HostStep, NewHostRecord
<1>9. CoreStep /\ HistoryStep
  BY <1>2 DEF CoreStep, HistoryStep
<1>10. TimeStep
  <2>1. stored' \subseteq DOMAIN Plans
    BY <1>2 DEF GInv
  <2> QED BY <1>2, <2>1, Still
<1>11. /\ call'.phase = "charged" /\ call'.charge = r /\ call'.req = call.req
       /\ call'.policy = call.policy /\ call'.until = call.until
  BY <1>1, <1>2
<1>12. Behind(core', host', r.gen, call.policy, observed')
  <2> DEFINE q == call.policy
             K(h) == {k \in DOMAIN h : Observes(h[k], q) /\ h[k].core >= r.gen}
  <2>1. K(host') = K(host) /\ \A k \in K(host) : host'[k] = host[k]
    <3>1. \A k \in DOMAIN host' : k \in DOMAIN host \/ k = n
      BY <1>5
    <3>2. ~Observes(r, q)
      BY <1>3 DEF Observes
    <3>3. \A k \in DOMAIN host : k \in DOMAIN host'
      BY <1>5
    <3> HIDE DEF n, q
    <3> QED BY <1>5, <3>1, <3>2, <3>3
  <2> HIDE DEF q
  <2>2. {host'[k].observed : k \in K(host')} = {host[k].observed : k \in K(host)}
    BY <2>1
  <2>3. PolicyRevocations(host', q, r.gen) = PolicyRevocations(host, q, r.gen)
    BY <2>2 DEF PolicyRevocations
  <2> QED BY <1>2, <1>3, <2>3 DEF Behind, PolicyStill, q
<1>13. CallOK'
  <2>1. Len(host') \in DOMAIN host' /\ host'[Len(host')] = r /\ r.from <= clock'
    BY <1>2, <1>3, <1>4, <1>5
  <2> QED BY <1>2, <1>3, <1>11, <1>12, <2>1 DEF CallOK
<1> QED BY <1>8, <1>9, <1>10, <1>13, StepKeeps DEF Step

-----------------------------------------------------------------------------
(* The other commands.                                                     *)

LEMMA PreflightSteps == ASSUME GInv, Preflight PROVE GInv'
<1>1. PICK p \in Preflights :
          Write(<<>>, <<Envelope("preflight", clock) ++ p
                        ++ [approval |-> approvedCoreRoute(core, Unit),
                            expires |-> clock + TTL]>>)
  BY DEF Preflight
<1>2. UNCHANGED <<ledger, stored, clock, call, answers, observed, gates>>
  BY DEF Preflight
<1> DEFINE e == Envelope("preflight", clock) ++ p
           x == [approval |-> approvedCoreRoute(core, Unit), expires |-> clock + TTL]
           r == e ++ x
<1>3. /\ e.kind = "preflight" /\ e.core = Len(core) /\ {"kind", "core"} \subseteq DOMAIN e
      /\ "expires" \notin DOMAIN e
  BY PlansAssumption DEF Envelope, ++
<1>4. "expires" \in DOMAIN x /\ x.expires = clock + TTL
  OBVIOUS
<1>5. clock + TTL \in Nat
  BY PlansAssumption DEF GInv
<1> HIDE DEF e, x
<1>6. r.kind = "preflight" /\ r.core = Len(core) /\ r.expires \in Nat
  <2>1. /\ \A f \in DOMAIN e : (e ++ x)[f] = e[f]
        /\ \A f \in DOMAIN x \ DOMAIN e : (e ++ x)[f] = x[f]
    BY Beside
  <2> QED BY <1>3, <1>4, <1>5, <2>1
<1>7. core' = core \o <<>> /\ host' = host \o <<r>> /\ core # <<>> /\ call = None
  BY <1>1 DEF Write, e, x
<1> HIDE DEF r
<1>8. core' = core
  BY <1>7, GrowsByNothing DEF GInv
<1>9. CoreStep /\ HostStep
  BY <1>2, <1>6, <1>7, <1>8, RecordsOne
<1>10. TimeStep
  <2>1. stored' \subseteq DOMAIN Plans
    BY <1>2 DEF GInv
  <2> QED BY <1>2, <2>1, Still
<1>11. HistoryStep /\ CallOK'
  BY <1>2, <1>7, NoCall DEF HistoryStep
<1> QED BY <1>9, <1>10, <1>11, StepKeeps DEF Step

\* A record of the core chain: Blank but for some fields, and stamped.
LEMMA Stamped ==
    ASSUME NEW b, "rec" \notin DOMAIN b, DOMAIN b = DOMAIN Blank
    PROVE  /\ Stamp(b).rec = clock
           /\ \A f \in DOMAIN Blank : Stamp(b)[f] = b[f]
<1> DEFINE x == [rec |-> clock]
<1>1. "rec" \in DOMAIN x /\ x.rec = clock
  OBVIOUS
<1> HIDE DEF x
<1>2. /\ \A f \in DOMAIN b : (b ++ x)[f] = b[f]
      /\ \A f \in DOMAIN x \ DOMAIN b : (b ++ x)[f] = x[f]
  BY Beside
<1> QED BY <1>1, <1>2 DEF Stamp, x

LEMMA ResolveSteps == ASSUME GInv, Resolve PROVE GInv'
<1>1. PICK op \in {"GRANT", "WITHDRAW"} :
          Write(<<Stamp([Blank EXCEPT !.kind = "waiver_operation",
                            !.resolution = [op |-> op, scope |-> Waivable, disp |-> None,
                                            unit |-> None, nonce |-> Len(core) + 1]])>>, <<>>)
  BY DEF Resolve
<1>2. UNCHANGED <<ledger, stored, clock, call, answers, observed, gates>>
  BY DEF Resolve
<1> DEFINE b == [Blank EXCEPT !.kind = "waiver_operation",
                    !.resolution = [op |-> op, scope |-> Waivable, disp |-> None,
                                    unit |-> None, nonce |-> Len(core) + 1]]
           r == Stamp(b)
<1>3. /\ "rec" \notin DOMAIN b /\ DOMAIN b = DOMAIN Blank
      /\ {"kind", "approval", "resolution", "findings", "snapshot"} \subseteq DOMAIN Blank
      /\ b.kind = "waiver_operation" /\ b.approval = None /\ b.resolution.op = op
      /\ b.findings = NoMap /\ b.snapshot = FALSE
  BY DEF Blank
<1> HIDE DEF b
<1>4. /\ r.rec = clock /\ r.kind = "waiver_operation" /\ r.approval = None
      /\ r.resolution.op = op /\ r.findings = NoMap /\ r.snapshot = FALSE
  BY <1>3, Stamped
<1>5. core' = core \o <<r>> /\ host' = host \o <<>> /\ call = None
  BY <1>1 DEF Write, b
<1> HIDE DEF r
<1>6. CoreRecordInOrder(r)
  <2>1. clock \in Nat
    BY DEF GInv
  <2> QED BY <1>4, <2>1 DEF CoreRecordInOrder, ApprovedMove, SetsFindings
<1>7. CoreStep /\ HostStep
  <2>1. host' = host
    BY <1>5, GrowsByNothing DEF GInv
  <2> QED BY <1>5, <1>6, <2>1 DEF CoreStep, HostStep
<1>8. TimeStep
  <2>1. stored' \subseteq DOMAIN Plans
    BY <1>2 DEF GInv
  <2> QED BY <1>2, <2>1, Still
<1>9. HistoryStep /\ CallOK'
  BY <1>2, <1>5, NoCall DEF HistoryStep
<1> QED BY <1>7, <1>8, <1>9, StepKeeps DEF Step

LEMMA LoopEvidenceSteps == ASSUME GInv, LoopEvidence PROVE GInv'
<1> DEFINE b == [Blank EXCEPT !.kind = "evidence", !.unit = Unit, !.stage = CurrentStage(core)]
           r == Stamp(b)
           journal(j) == [Envelope("loop_evidence", clock) EXCEPT !.core = @ + 1]
                         ++ [ctl |-> Envelopes[j.env].ctl, env |-> j.env,
                             ns |-> Envelopes[j.env].ns, attempts |-> j.attempts]
<1>1. PICK j \in Journals : Write(<<r>>, <<journal(j)>>) \/ Write(<<r>>, <<>>)
  BY DEF LoopEvidence
<1> DEFINE y == journal(j)
<1>2. UNCHANGED <<ledger, stored, clock, call, answers, observed, gates>>
  BY DEF LoopEvidence
<1>3. /\ "rec" \notin DOMAIN b /\ DOMAIN b = DOMAIN Blank
      /\ {"kind", "approval", "resolution", "findings", "snapshot"} \subseteq DOMAIN Blank
      /\ b.kind = "evidence" /\ b.approval = None /\ b.resolution = None
      /\ b.findings = NoMap /\ b.snapshot = FALSE
  BY DEF Blank
<1>4. y.kind = "loop_evidence" /\ y.core = Len(core) + 1
  BY DEF Envelope, ++
<1>5. /\ core' = core \o <<r>> /\ call = None
      /\ (host' = host \o <<>>) \/ (host' = host \o <<y>>)
  BY <1>1 DEF Write
<1> HIDE DEF b
<1>6. /\ r.rec = clock /\ r.kind = "evidence" /\ r.approval = None
      /\ r.resolution = None /\ r.findings = NoMap /\ r.snapshot = FALSE
  BY <1>3, Stamped
<1> HIDE DEF r, y
<1>7. Numbered(core) /\ Numbered(host) /\ clock \in Nat
  BY DEF GInv
<1>8. CoreRecordInOrder(r)
  BY <1>6, <1>7 DEF CoreRecordInOrder, ApprovedMove, SetsFindings
<1>9. HostStep
  <2>1. CASE host' = host \o <<>>
    BY <1>7, <2>1, GrowsByNothing DEF HostStep
  <2>2. CASE host' = host \o <<y>>
    <3>1. host'[Len(host) + 1] = y
      BY <1>7, <2>2, GrowsByOne
    <3>2. y.core \in 1..Len(core')
      <4>1. Len(core') = Len(core) + 1 /\ Len(core) \in Nat
        BY <1>5, <1>7, GrowsByOne, ChainFacts
      <4> QED BY <1>4, <4>1
    <3>3. HostRecordInOrder(core', host', Len(host) + 1, clock)
      BY <1>4, <3>1, <3>2 DEF HostRecordInOrder
    <3> QED BY <1>4, <2>2, <3>3 DEF HostStep, NewHostRecord
  <2> QED BY <1>5, <2>1, <2>2
<1>10. CoreStep
  BY <1>5, <1>8 DEF CoreStep
<1>11. TimeStep
  <2>1. stored' \subseteq DOMAIN Plans
    BY <1>2 DEF GInv
  <2> QED BY <1>2, <2>1, Still
<1>12. HistoryStep /\ CallOK'
  BY <1>2, <1>5, NoCall DEF HistoryStep
<1> QED BY <1>9, <1>10, <1>11, <1>12, StepKeeps DEF Step

\* A gated transition leaves behind that launches were reconciled.
LEMMA TransitionSteps == ASSUME GInv, Transition PROVE GInv'
<1>1. PICK k \in Moves, at \in {clock - 1, clock}, ws \in {{}, LiveGrants(core)},
           policy \in Policies :
          LET a == Approve(k, at, ws) IN
          /\ Write(<<Stamp(AppliedRecord(core, a))>>, <<>>)
          /\ HostAdmits(core, a)
          /\ Gated(a) => LaunchesReconciled(core, host, ledger, policy)
          /\ AdmitsTransition(core, a, Len(core) + 1, None)
          /\ \E doc \in {Contract, None} : AdmitsContract(core, a, doc)
          /\ gates' = gates \cup
                (IF Gated(a)
                 THEN {[at |-> Len(core) + 1, host |-> Len(host), ledger |-> ledger,
                        policy |-> policy]}
                 ELSE {})
  BY DEF Transition
<1>2. UNCHANGED <<ledger, stored, clock, call, answers, observed>>
  BY DEF Transition
<1> DEFINE a == Approve(k, at, ws)
           b == AppliedRecord(core, a)
           r == Stamp(b)
<1>3. Numbered(core) /\ Numbered(host) /\ clock \in Nat \ {0}
  BY DEF GInv
<1>4. a.at \in Nat
  <2>1. "at" \notin DOMAIN k
    BY PlansAssumption
  <2>2. a.at = at
    BY <2>1 DEF Approve, ++
  <2> QED BY <1>3, <2>2
<1>5. /\ Gated(a) => LaunchesReconciled(core, host, ledger, policy)
      /\ core' = core \o <<r>> /\ host' = host \o <<>> /\ call = None
      /\ \A g \in gates' : g \in gates \/
            (Gated(a) /\ g = [at |-> Len(core) + 1, host |-> Len(host), ledger |-> ledger,
                              policy |-> policy])
  BY <1>1 DEF Write
<1> HIDE DEF a
<1>6. /\ "rec" \notin DOMAIN b /\ DOMAIN b = DOMAIN Blank
      /\ {"kind", "approval", "resolution", "findings", "snapshot"} \subseteq DOMAIN Blank
      /\ b.approval = a /\ b.resolution = None
      /\ b.findings = NoMap /\ b.snapshot = FALSE
  BY DEF AppliedRecord, Blank
<1> HIDE DEF b
<1>7. /\ r.rec = clock /\ r.approval = a
      /\ r.resolution = None /\ r.findings = NoMap /\ r.snapshot = FALSE
  BY <1>6, Stamped
<1> HIDE DEF r
<1>8. CoreRecordInOrder(r)
  BY <1>3, <1>4, <1>7 DEF CoreRecordInOrder, SetsFindings
<1>9. host' = host
  BY <1>3, <1>5, GrowsByNothing
<1>10. CoreStep /\ HostStep
  BY <1>5, <1>8, <1>9 DEF CoreStep, HostStep
<1>11. ASSUME NEW g \in gates', g \notin gates PROVE GateClean(g)'
  <2>1. /\ g.at - 1 = Len(core) /\ g.host = Len(host) /\ g.ledger = ledger /\ g.policy = policy
        /\ Gated(a)
    <3>1. Len(core) \in Nat
      BY <1>3, ChainFacts
    <3> QED BY <1>5, <1>11, <3>1
  <2>2. /\ Unauthorized(core, host, ledger, policy) = {}
        /\ \A j \in DOMAIN core : core[j].findings = NoMap
    BY <1>5, <2>1, GateChecked
  <2>3. /\ Len(core) \in 0..Len(core') /\ Len(host) \in 0..Len(host')
        /\ SubSeq(core', 1, Len(core)) = core /\ SubSeq(host', 1, Len(host)) = host
    <3>1. Grows(core, core') /\ Len(core') = Len(core) + 1
      BY <1>3, <1>5, GrowsByOne
    <3>2. Len(core) \in Nat /\ Len(host) \in Nat
      BY <1>3, ChainFacts
    <3>3. SubSeq(core', 1, Len(core)) = SubSeq(core, 1, Len(core))
      <4>1. Len(core) \in 0..Len(core)
        BY <3>2
      <4> QED BY <1>3, <3>1, <4>1, GrowsFacts
    <3>4. SubSeq(core, 1, Len(core)) = core /\ SubSeq(host, 1, Len(host)) = host
      BY <1>3, WholeChain
    <3> QED BY <1>9, <3>1, <3>2, <3>3, <3>4
  <2> QED BY <2>1, <2>2, <2>3 DEF GateClean
<1>12. HistoryStep
  BY <1>2, <1>11 DEF HistoryStep
<1>13. TimeStep
  <2>1. stored' \subseteq DOMAIN Plans
    BY <1>2 DEF GInv
  <2> QED BY <1>2, <2>1, Still
<1>14. CallOK'
  BY <1>2, <1>5, NoCall
<1> QED BY <1>10, <1>12, <1>13, <1>14, StepKeeps DEF Step

\* The finding for unauthorized launches blocks, and is no override.
LEMMA FoundSteps ==
    ASSUME GInv, NEW bad, core' = core \o UnauthorizedRecord(bad)
    PROVE  /\ CoreStep
           /\ Len(core') = Len(core) + Len(UnauthorizedRecord(bad))
           /\ Len(core') \in Nat /\ Len(core) <= Len(core')
           /\ bad = {} => UnauthorizedRecord(bad) = <<>> /\ Len(core') = Len(core)
<1> DEFINE found == UnauthorizedRecord(bad)
           prior == Findings(core)
           new == {UnauthorizedFinding(id) : id \in bad} \ DOMAIN prior
           all == [id \in DOMAIN prior \cup new |->
                      IF id \in new THEN [disp |-> "BLOCK", unit |-> None] ELSE prior[id]]
           b == [Blank EXCEPT !.stage = CurrentStage(core), !.findings = all, !.sealed = all]
           r == Stamp(b)
<1>1. Numbered(core) /\ clock \in Nat
  BY DEF GInv
<1>2. Len(core) \in Nat
  BY <1>1, ChainFacts
<1>3. found = IF new = {} THEN <<>> ELSE <<r>>
  BY DEF UnauthorizedRecord
<1>4. bad = {} => new = {}
  OBVIOUS
<1>5. CASE new = {}
  <2>1. found = <<>> /\ Len(<<>>) = 0
    BY <1>3, <1>5
  <2>2. core' = core
    BY <1>1, <2>1, GrowsByNothing
  <2> HIDE DEF found
  <2> QED BY <1>2, <2>1, <2>2 DEF CoreStep, found
<1>6. CASE new # {}
  <2>1. PICK id \in new : TRUE
    BY <1>6
  <2>2. id \in DOMAIN all /\ all[id].disp = "BLOCK" /\ id[1] = "UNAUTHORIZED_DISPATCH"
    BY <2>1 DEF UnauthorizedFinding
  <2> HIDE DEF all, new
  <2>3. /\ "rec" \notin DOMAIN b /\ DOMAIN b = DOMAIN Blank
        /\ {"kind", "approval", "resolution", "findings", "snapshot"} \subseteq DOMAIN Blank
        /\ b.kind = "finding" /\ b.approval = None /\ b.resolution = None
        /\ b.findings = all
    BY DEF Blank
  <2> HIDE DEF b
  <2>4. /\ r.rec = clock /\ r.kind = "finding" /\ r.approval = None
        /\ r.resolution = None /\ r.findings = all
    BY <2>3, Stamped
  <2>5. found = <<r>> /\ Len(<<r>>) = 1
    BY <1>3, <1>6
  <2> HIDE DEF r
  <2>6. CoreRecordInOrder(r)
    BY <1>1, <2>2, <2>4 DEF CoreRecordInOrder, ApprovedMove
  <2> HIDE DEF found
  <2>7. core' = core \o <<r>>
    BY <2>5 DEF found
  <2>8. Len(core') = Len(core) + 1
    BY <1>1, <2>7, GrowsByOne
  <2> QED BY <1>2, <1>4, <1>6, <2>5, <2>6, <2>7, <2>8 DEF CoreStep, found
<1> QED BY <1>5, <1>6

LEMMA ReconcileSteps == ASSUME GInv, Reconcile PROVE GInv'
<1>1. PICK policy \in Policies \cup {None} :
          LET bad == Unauthorized(core, host, ledger, policy)
              found == UnauthorizedRecord(bad)
          IN  \/ /\ Write(found, <<ReconciliationRecord(bad, policy, Len(core) + Len(found))>>)
                 /\ observed' = Observed(Replaced(policy))
              \/ found # <<>> /\ Write(found, <<>>) /\ UNCHANGED observed
  BY DEF Reconcile
<1>2. UNCHANGED <<ledger, stored, clock, call, answers, gates>>
  BY DEF Reconcile
<1>3. PICK bad : bad = Unauthorized(core, host, ledger, policy)
  OBVIOUS
<1>4. PICK at : at = Len(core) + Len(UnauthorizedRecord(bad))
  OBVIOUS
<1>5. PICK r : r = ReconciliationRecord(bad, policy, at)
  OBVIOUS
<1>6. /\ core' = core \o UnauthorizedRecord(bad) /\ call = None /\ core # <<>>
      /\ \/ host' = host \o <<r>> /\ observed' = Observed(Replaced(policy))
         \/ (host' = host \o <<>>) /\ observed' = observed
  BY <1>1, <1>3, <1>4, <1>5 DEF Write
<1>7. Numbered(core) /\ Numbered(host)
  BY DEF GInv
<1>8. /\ CoreStep /\ at = Len(core') /\ at \in Nat /\ Len(core) <= at
      /\ bad = {} => at = Len(core)
  BY <1>4, <1>6, FoundSteps
<1>9. HostStep /\ \A o \in observed' : o \in observed \/ ChangeRecorded(o)'
  <2>1. CASE host' = host \o <<>> /\ observed' = observed
    BY <1>7, <2>1, GrowsByNothing DEF HostStep
  <2>2. CASE host' = host \o <<r>> /\ observed' = Observed(Replaced(policy))
    <3>1. Grows(core, core')
      <4>1. Numbered(UnauthorizedRecord(bad))
        BY ShortChains DEF UnauthorizedRecord
      <4> QED BY <1>6, <4>1 DEF Grows
    <3>2. at \in 1..Len(core')
      <4>1. core \in Seq({core[i] : i \in DOMAIN core}) /\ Len(core) \in Nat
        BY <1>7, ChainFacts DEF Numbered
      <4>2. Len(core) # 0
        BY <1>6, <4>1
      <4> QED BY <1>8, <4>1, <4>2
    <3>3. HostRecordInOrder(core', host', Len(host) + 1, clock)
      BY <1>3, <1>5, <1>8, <2>2, <3>1, <3>2, ReconciliationFollows
    <3>4. /\ r.kind = "launch_reconciliation" /\ r.core = at
          /\ r.revoked = {q \in Replaced(policy) : PolicyRevocationNeeded(core, host, q)}
      BY <1>5 DEF ReconciliationRecord, Envelope, ++
    <3>5. HostStep
      BY <2>2, <3>3, <3>4 DEF HostStep, NewHostRecord
    <3>6. Grows(host, host') /\ Len(host) + 1 \in DOMAIN host' /\ host'[Len(host) + 1] = r
      <4>1. /\ Grows(host, host') /\ Len(host') = Len(host) + 1 /\ Len(host) \in Nat
            /\ host'[Len(host) + 1] = r
        BY <1>7, <2>2, GrowsByOne, ChainFacts
      <4>2. DOMAIN host' = 1..Len(host')
        BY <1>7, <4>1, GrowsFacts
      <4> QED BY <4>1, <4>2
    <3>7. ASSUME NEW o \in observed', o \notin observed PROVE ChangeRecorded(o)'
      <4>1. PICK q \in Replaced(policy) : o = [policy |-> q, core |-> Len(core)]
        BY <2>2, <3>7 DEF Observed
      <4>2. \/ ~PolicyRevocationNeeded(core, host, q)
            \/ \E k \in DOMAIN host' :
                  Observes(host'[k], q) /\ host'[k].core \in Nat /\ host'[k].core >= Len(core)
        <5>1. CASE PolicyRevocationNeeded(core, host, q)
          <6>1. Observes(r, q)
            BY <3>4, <5>1 DEF Observes
          <6>2. r.core \in Nat /\ r.core >= Len(core)
            BY <1>7, <1>8, <3>4, ChainFacts
          <6> QED BY <3>6, <6>1, <6>2
        <5> QED BY <5>1
      <4> QED BY <3>1, <3>6, <4>1, <4>2, SeenRecorded
    <3> QED BY <3>5, <3>7
  <2> QED BY <1>6, <2>1, <2>2
<1>10. TimeStep
  <2>1. stored' \subseteq DOMAIN Plans
    BY <1>2 DEF GInv
  <2> QED BY <1>2, <2>1, Still
<1>11. HistoryStep /\ CallOK'
  BY <1>2, <1>6, <1>9, NoCall DEF HistoryStep
<1> QED BY <1>8, <1>9, <1>10, <1>11, StepKeeps DEF Step

-----------------------------------------------------------------------------
(* What holds throughout.                                                  *)

\* A run is picked up in order, and nothing was answered or passed yet.
LEMMA InitGrants == Init => GInv
<1> SUFFICES ASSUME Init PROVE GInv
  OBVIOUS
<1>1. PICK s \in Starts :
          /\ core = s.core /\ host = s.host /\ ledger = s.ledger
          /\ stored = s.stored /\ clock = s.clock
  BY DEF Init
<1>2. call = None /\ answers = {} /\ observed = {} /\ gates = {}
  BY DEF Init
<1>3. /\ Numbered(core) /\ Numbered(host) /\ clock \in Nat \ {0} /\ stored \subseteq DOMAIN Plans
      /\ \A i \in DOMAIN core : CoreRecordInOrder(core[i])
      /\ \A i \in DOMAIN host : HostRecordInOrder(core, host, i, clock)
      /\ LedgerInOrder(ledger, clock) /\ IdsApart(host)
  BY <1>1, StartsAssumption
<1> QED BY <1>2, <1>3 DEF GInv, CallOK

LEMMA NextGrants == LInv /\ GInv /\ [Next]_vars => GInv'
<1> SUFFICES ASSUME LInv, GInv, [Next]_vars PROVE GInv'
  OBVIOUS
<1>1. ChargedOnce
  BY DEF LInv
<1>2. CASE PolicyRefused \/ Retain \/ Admit \/ Charge \/ Commit
  BY <1>2, PolicyRefusedSteps, RetainSteps, AdmitSteps, ChargeSteps, CommitSteps
<1>3. CASE Answer \/ Replay
  BY <1>1, <1>3, AnswerSteps, ReplaySteps
<1>4. CASE Preflight \/ Reconcile \/ LoopEvidence \/ Transition \/ Resolve
  BY <1>4, PreflightSteps, ReconcileSteps, LoopEvidenceSteps, TransitionSteps, ResolveSteps
<1>5. CASE Die \/ UNCHANGED vars \/ Launch \/ Receipt \/ Tick
  BY <1>5, DieSteps, LaunchSteps, ReceiptSteps, TickSteps
<1> QED BY <1>2, <1>3, <1>4, <1>5 DEF Next

LEMMA GInvHolds == Spec => []GInv
<1> QED BY InitCharges, NextCharges, InitGrants, NextGrants, PTL DEF Spec

\* Host records name what is there already, and no run of the ledger is from
\* the future, whatever commands, controllers and others do.
THEOREM LaunchTypesHold == Spec => []TypeOK
<1>1. GInv => TypeOK
  <2> SUFFICES ASSUME GInv PROVE TypeOK
    OBVIOUS
  <2>1. \A i \in DOMAIN host : host[i].core \in 1..Len(core)
    BY DEF GInv, HostRecordInOrder
  <2>2. ASSUME NEW i \in Reservations
        PROVE  LET r == host[i] IN
               /\ r.admission < i /\ host[r.admission].kind = "loop_admission"
               /\ host[r.admission].ctl = r.ctl /\ host[r.admission].gen = r.gen
               /\ r.gen <= r.core /\ IssuesLease(core[r.gen], r.unit)
    <3>1. i \in DOMAIN host /\ ReservationInOrder(core, host, i, clock)
      BY DEF Reservations, Kind, GInv, HostRecordInOrder
    <3>2. i \in Nat
      BY <3>1, ChainFacts DEF GInv
    <3> QED BY <3>1, <3>2 DEF ReservationInOrder
  <2>3. \A l \in ledger : l.at <= clock /\ l.receipt \in BOOLEAN
    BY DEF GInv, LedgerInOrder
  <2> QED BY <2>1, <2>2, <2>3 DEF TypeOK, GInv
<1> QED BY GInvHolds, <1>1, PTL

\* HMA says to launch only what reconciliation will find to have been
\* authorized, on approvals, waivers and dependencies nothing revised since,
\* and under a policy no command saw replaced: whatever is recorded, launched
\* or decided between the charge, the answer and the next question.
THEOREM GrantsAreJustified == Spec => []GrantJustified
<1>1. GInv => GrantJustified
  <2> SUFFICES ASSUME GInv, NEW g \in Grants
               PROVE  LET c == SubSeq(core, 1, g.core)
                          l == Launched(g.req) ++ [at |-> Second(g.at), receipt |-> TRUE]
                          gen == host[g.record].gen
                          route == routeApprovalFor(c, gen, Unit)
                      IN  /\ ~Refused(c, SubSeq(host, 1, g.host), l, g.policy)
                          /\ route # 0 /\ c[route].approval.plan = PlanOf(g.record)
                          /\ c[route].approval.waivers \cup c[gen].approval.waivers
                                \subseteq LiveGrants(c)
                          /\ \A j \in (route + 1)..Len(c) : ApprovedMove(c[j]) =>
                                /\ ~Reopens(c[j])
                                /\ c[j].unit \in dependencyClosure[PlanOf(g.record)][Unit]
                                      => ~Reworks(c[j])
                          /\ \A o \in g.seen :
                                o.policy = Plans[PlanOf(g.record)].policy => o.core < gen
    BY DEF GrantJustified, GrantHonoured, GrantStands, PolicyChangeFinal
  <2> DEFINE c == SubSeq(core, 1, g.core)
             gen == host[g.record].gen
  <2>1. GrantGood(g)
    BY DEF GInv, Grants
  <2>2. c[gen].approval.plan = PlanOf(g.record)
    <3>1. g.core \in 0..Len(core) /\ gen \in 1..g.core
      BY <2>1 DEF GrantGood
    <3>2. c[gen] = core[gen]
      BY <3>1, PrefixFacts DEF GInv
    <3> QED BY <3>2 DEF PlanOf
  <2> QED BY <2>1, <2>2 DEF GrantGood, RouteStands
<1> QED BY GInvHolds, <1>1, PTL

\* A unit leaves authorization or review only if everything launched up to then
\* was authorized, and nothing was ever found that was not: the gate looks at
\* the latest reconciliation only, and what was recorded since it ran can not
\* have changed what it would find.
THEOREM GatesAreReconciled == Spec => []GateReconciled
<1>1. GInv => GateReconciled
  BY DEF GInv, GateClean, GateReconciled
<1> QED BY GInvHolds, <1>1, PTL
===============================================================================
