------------------------------ MODULE ChainLemmas ------------------------------
(***************************************************************************)
(* Facts about chains of records that the proofs about the host commands   *)
(* share: what continuing a chain keeps, and where its latest record of a  *)
(* kind is.                                                                *)
(***************************************************************************)
EXTENDS ChainGates, TLAPS, SequenceTheorems, WellFoundedInduction

\* A chain's records are numbered from one.
LEMMA ChainFacts ==
    ASSUME NEW c, Numbered(c)
    PROVE  Len(c) \in Nat /\ DOMAIN c = 1..Len(c)
<1> DEFINE S == {c[i] : i \in DOMAIN c}
<1>1. c \in Seq(S)
  BY DEF Numbered
<1> HIDE DEF S
<1> QED BY <1>1, LenProperties

\* What is a sequence is a chain.
LEMMA ChainOver == ASSUME NEW S, NEW c \in Seq(S) PROVE Numbered(c)
<1> DEFINE T == {c[i] : i \in DOMAIN c}
<1>1. Len(c) \in Nat /\ DOMAIN c = 1..Len(c) /\ c = [i \in 1..Len(c) |-> c[i]]
  OBVIOUS
<1>2. \A i \in 1..Len(c) : c[i] \in T
  BY <1>1
<1>3. c \in Seq(T)
  <2> HIDE DEF T
  <2> QED BY <1>1, <1>2
<1> QED BY <1>3 DEF Numbered

\* A chain continued by another keeps its records.
LEMMA Continued ==
    ASSUME NEW c, NEW d, Numbered(c), Numbered(d)
    PROVE  /\ Numbered(c \o d)
           /\ DOMAIN (c \o d) = 1..(Len(c) + Len(d))
           /\ Len(c) \in Nat /\ Len(d) \in Nat
           /\ \A i \in 1..Len(c) : (c \o d)[i] = c[i]
           /\ \A i \in 1..Len(d) : (c \o d)[Len(c) + i] = d[i]
<1> DEFINE S == {c[i] : i \in DOMAIN c} \cup {d[i] : i \in DOMAIN d}
<1>1. c \in Seq(S) /\ d \in Seq(S)
  <2>1. {c[i] : i \in DOMAIN c} \subseteq S /\ {d[i] : i \in DOMAIN d} \subseteq S
    OBVIOUS
  <2> DEFINE C == {c[i] : i \in DOMAIN c}
             D == {d[i] : i \in DOMAIN d}
  <2>2. c \in Seq(C) /\ d \in Seq(D) /\ C \subseteq S /\ D \subseteq S
    BY <2>1 DEF Numbered
  <2> HIDE DEF S, C, D
  <2> QED BY <2>2
<1> HIDE DEF S
<1>2. c \o d \in Seq(S)
  BY <1>1
<1>3. Numbered(c \o d)
  BY <1>2, ChainOver
<1> QED BY <1>1, <1>3

\* One more record.
LEMMA Appended ==
    ASSUME NEW c, NEW r, Numbered(c)
    PROVE  /\ Numbered(Append(c, r))
           /\ DOMAIN Append(c, r) = 1..(Len(c) + 1)
           /\ Len(c) \in Nat
           /\ \A i \in 1..Len(c) : Append(c, r)[i] = c[i]
           /\ Append(c, r)[Len(c) + 1] = r
<1> DEFINE S == {c[i] : i \in DOMAIN c} \cup {r}
<1>1. c \in Seq(S) /\ r \in S
  <2> DEFINE C == {c[i] : i \in DOMAIN c}
  <2>2. c \in Seq(C) /\ C \subseteq S /\ r \in S
    BY DEF Numbered
  <2> HIDE DEF S, C
  <2> QED BY <2>2
<1> HIDE DEF S
<1>2. Append(c, r) \in Seq(S)
  BY <1>1
<1>3. Numbered(Append(c, r))
  BY <1>2, ChainOver
<1> QED BY <1>1, <1>3

\* No record and one record are chains.
LEMMA ShortChains == Numbered(<<>>) /\ \A r : Numbered(<<r>>)
<1>1. <<>> \in Seq({})
  OBVIOUS
<1>2. \A r : <<r>> \in Seq({r})
  OBVIOUS
<1> QED BY <1>1, <1>2, ChainOver

\* A set of record numbers has a greatest one.
LEMMA MaxOf ==
    ASSUME NEW n \in Nat, NEW S \in SUBSET (0..n), S # {}
    PROVE  Max(S) \in S /\ \A j \in S : j <= Max(S)
<1> DEFINE T == {n - i : i \in S}
<1>1. T \in SUBSET Nat /\ T # {}
  <2>1. \A i \in S : n - i \in Nat
    OBVIOUS
  <2> QED BY <2>1
<1>2. PICK x \in T : \A y \in T : ~ (<<y, x>> \in OpToRel(<, Nat))
  BY <1>1, NatLessThanWellFounded, WFMin
<1>3. \A y \in T : ~ (y < x)
  <2>1. ASSUME NEW y \in T, y < x PROVE FALSE
    <3>1. <<y, x>> \in OpToRel(<, Nat)
      BY <1>1, <2>1 DEF OpToRel
    <3> QED BY <3>1, <1>2
  <2> QED BY <2>1
<1>4. PICK i \in S : x = n - i
  OBVIOUS
<1>5. \A j \in S : i >= j
  <2> TAKE j \in S
  <2>1. n - j \in T
    OBVIOUS
  <2>2. i \in 0..n /\ j \in 0..n
    OBVIOUS
  <2>3. ~ (n - j < n - i)
    BY <2>1, <1>3, <1>4
  <2> QED BY <2>2, <2>3
<1>6. Max(S) \in S /\ \A j \in S : Max(S) >= j
  BY <1>5 DEF Max
<1>7. \A j \in S : j \in Nat
  OBVIOUS
<1> QED BY <1>6, <1>7

\* The record issuing a unit's lease, if there is one, is in the chain and
\* issues it.
LEMMA IssuerInChain ==
    ASSUME NEW c, Numbered(c), NEW unit, currentIssuer(c, unit) # 0
    PROVE  /\ currentIssuer(c, unit) \in DOMAIN c
           /\ IssuesLease(c[currentIssuer(c, unit)], unit)
<1> DEFINE I == {i \in 1..Len(c) : IssuesLease(c[i], unit)}
<1>1. currentIssuer(c, unit) = IF I # {} THEN Max(I) ELSE 0
  BY DEF currentIssuer, SelectLastInSeq
<1>2. Len(c) \in Nat /\ DOMAIN c = 1..Len(c)
  BY ChainFacts
<1>3. I \in SUBSET (0..Len(c))
  BY <1>2
<1>4. I # {} => Max(I) \in I
  <2> HIDE DEF I
  <2> QED BY <1>2, <1>3, MaxOf
<1> QED BY <1>1, <1>2, <1>4

\* A chain's last record for which a condition holds.
LEMMA LastOf ==
    ASSUME NEW c, Numbered(c), NEW I, I \subseteq 1..Len(c), I # {}
    PROVE  Max(I) \in I /\ \A j \in I : j <= Max(I)
<1>1. Len(c) \in Nat /\ I \in SUBSET (0..Len(c))
  BY ChainFacts
<1> QED BY <1>1, MaxOf

\* The beginning of a chain is not changed by what follows.
LEMMA PrefixKept ==
    ASSUME NEW c, NEW d, Numbered(c), Numbered(d), NEW n \in 0..Len(c)
    PROVE  SubSeq(c \o d, 1, n) = SubSeq(c, 1, n)
<1>1. \A i \in 1..n : (c \o d)[i] = c[i]
  BY Continued
<1> HIDE DEF Numbered
<1> DEFINE e == c \o d
<1>2. \A i \in 1..n : e[i] = c[i]
  BY <1>1
<1> HIDE DEF e
<1>3. SubSeq(e, 1, n) = SubSeq(c, 1, n)
  BY <1>2
<1> QED BY <1>3 DEF e

\* A chain is its own beginning.
LEMMA WholeChain ==
    ASSUME NEW c, Numbered(c)
    PROVE  SubSeq(c, 1, Len(c)) = c
<1> DEFINE S == {c[i] : i \in DOMAIN c}
<1>1. c \in Seq(S)
  BY DEF Numbered
<1> HIDE DEF S
<1> QED BY <1>1

\* The beginning of a chain is a chain of the same records.
LEMMA PrefixFacts ==
    ASSUME NEW c, Numbered(c), NEW n \in 0..Len(c)
    PROVE  /\ Numbered(SubSeq(c, 1, n))
           /\ Len(SubSeq(c, 1, n)) = n /\ DOMAIN SubSeq(c, 1, n) = 1..n
           /\ \A i \in 1..n : SubSeq(c, 1, n)[i] = c[i] /\ i \in DOMAIN c
<1> DEFINE S == {c[i] : i \in DOMAIN c}
<1>1. c \in Seq(S) /\ Len(c) \in Nat /\ DOMAIN c = 1..Len(c)
  BY ChainFacts DEF Numbered
<1> HIDE DEF S
<1>2. SubSeq(c, 1, n) \in Seq(S)
  BY <1>1
<1>3. Len(SubSeq(c, 1, n)) = n /\ \A i \in 1..n : SubSeq(c, 1, n)[i] = c[i]
  BY <1>1
<1>4. DOMAIN SubSeq(c, 1, n) = 1..n
  BY <1>2, <1>3
<1>5. Numbered(SubSeq(c, 1, n))
  BY <1>2, ChainOver
<1>6. \A i \in 1..n : i \in DOMAIN c
  BY <1>1
<1> QED BY <1>3, <1>4, <1>5, <1>6

\* The beginning of a beginning is one of the chain.
LEMMA PrefixOfPrefix ==
    ASSUME NEW c, Numbered(c), NEW n \in 0..Len(c), NEW k \in 0..n
    PROVE  SubSeq(SubSeq(c, 1, n), 1, k) = SubSeq(c, 1, k)
<1> DEFINE b == SubSeq(c, 1, n)
<1>1. \A i \in 1..n : b[i] = c[i]
  BY PrefixFacts
<1> HIDE DEF Numbered, b
<1>2. \A i \in 1..k : b[i] = c[i]
  BY <1>1
<1>3. SubSeq(b, 1, k) = SubSeq(c, 1, k)
  BY <1>2
<1> QED BY <1>3 DEF b

-----------------------------------------------------------------------------
(* Records as the commands put them together, and growing chains.          *)

\* Fields beside a record's own leave those as they are.
LEMMA Beside ==
    ASSUME NEW e, NEW r
    PROVE  /\ DOMAIN (e ++ r) = DOMAIN e \cup DOMAIN r
           /\ \A f \in DOMAIN e : (e ++ r)[f] = e[f]
           /\ \A f \in DOMAIN r \ DOMAIN e : (e ++ r)[f] = r[f]
BY DEF ++

\* d is c and what was appended to it.
Grows(c, d) == \E e : Numbered(e) /\ d = c \o e

LEMMA GrowsFacts ==
    ASSUME NEW c, NEW d, Numbered(c), Grows(c, d)
    PROVE  /\ Numbered(d)
           /\ Len(c) \in Nat /\ Len(d) \in Nat /\ Len(c) <= Len(d)
           /\ DOMAIN c = 1..Len(c) /\ DOMAIN d = 1..Len(d)
           /\ \A k \in 1..Len(c) : d[k] = c[k]
           /\ \A n \in 0..Len(c) : SubSeq(d, 1, n) = SubSeq(c, 1, n)
<1>1. PICK e : Numbered(e) /\ d = c \o e
  BY DEF Grows
<1>2. /\ Numbered(d) /\ Len(c) \in Nat /\ Len(e) \in Nat
      /\ DOMAIN d = 1..(Len(c) + Len(e))
      /\ \A k \in 1..Len(c) : d[k] = c[k]
  BY <1>1, Continued
<1>3. DOMAIN c = 1..Len(c) /\ DOMAIN d = 1..Len(d) /\ Len(d) \in Nat
  BY <1>2, ChainFacts
<1>4. Len(d) = Len(c) + Len(e)
  BY <1>2, <1>3
<1>5. \A n \in 0..Len(c) : SubSeq(d, 1, n) = SubSeq(c, 1, n)
  BY <1>1, PrefixKept
<1>6. Len(c) <= Len(d)
  BY <1>2, <1>4
<1> QED BY <1>2, <1>3, <1>5, <1>6

LEMMA GrowsByNothing == ASSUME NEW c, Numbered(c) PROVE Grows(c, c) /\ c \o <<>> = c
<1> DEFINE S == {c[i] : i \in DOMAIN c}
<1>1. c \in Seq(S)
  BY DEF Numbered
<1>2. c = c \o <<>>
  <2> HIDE DEF S
  <2> QED BY <1>1
<1> QED BY <1>2, ShortChains DEF Grows

LEMMA GrowsByOne ==
    ASSUME NEW c, NEW r, Numbered(c)
    PROVE  /\ Grows(c, c \o <<r>>)
           /\ Len(c \o <<r>>) = Len(c) + 1
           /\ (c \o <<r>>)[Len(c) + 1] = r
<1>1. Numbered(<<r>>) /\ Len(<<r>>) = 1 /\ <<r>>[1] = r
  BY ShortChains
<1>2. /\ Numbered(c \o <<r>>) /\ Len(c) \in Nat /\ 1 \in 1..Len(<<r>>)
      /\ DOMAIN (c \o <<r>>) = 1..(Len(c) + 1)
      /\ (c \o <<r>>)[Len(c) + 1] = r
  <2>1. 1 \in 1..Len(<<r>>)
    BY <1>1
  <2> HIDE DEF Numbered
  <2>2. \A i \in 1..Len(<<r>>) : (c \o <<r>>)[Len(c) + i] = <<r>>[i]
    BY <1>1, Continued
  <2> QED BY <1>1, <2>1, <2>2, Continued
<1>3. Len(c \o <<r>>) \in Nat /\ DOMAIN (c \o <<r>>) = 1..Len(c \o <<r>>)
  BY <1>2, ChainFacts
<1>4. Len(c \o <<r>>) = Len(c) + 1
  BY <1>2, <1>3
<1> QED BY <1>1, <1>2, <1>4 DEF Grows
===============================================================================
