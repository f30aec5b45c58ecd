----------------------------- MODULE CaptureProofs -----------------------------
(***************************************************************************)
(* Proofs about Capture: its types, that a packet which is written         *)
(* describes what its digests bind, and binds the repository of one        *)
(* moment, that a credited check ran on what was reviewed, and that a      *)
(* repository at rest is refused only for a reason.                        *)
(***************************************************************************)
EXTENDS Capture, TLAPS, WellFoundedInduction

-----------------------------------------------------------------------------
(* Types.                                                                  *)

View ==
    [head : Commits \cup {None}, changed : SUBSET Paths,
     entries : [Paths -> Contained \cup {Unread}], others : SUBSET Paths,
     index : [Paths -> Contained \cup {Unread}], staged : BOOLEAN,
     digest : [Paths -> (Contained \X Contained) \cup {Unread}],
     rows : [Places -> Nat \cup {Unread}]]

DiscoverySteps == {"head", "tracked", "staged", "others", "ignored", "listed"}

\* The reads of each pass, and the passes of each command.
Position ==
    \/ pass \in {"capture", "recapture"} /\ step \in DiscoverySteps \cup {"index", "digest"}
    \/ pass = "capture" /\ command = "credit" /\ step = "headAgain"
    \/ /\ pass = "observe" /\ command = "packet"
       /\ step \in {"launch", "observed", "observing"}
    \/ /\ pass = "copy" /\ command = "credit"
       /\ step \in (DiscoverySteps \ {"head"}) \cup {"files", "rest"}
    \/ /\ pass \in {"print", "reprint"} /\ command = "credit"
       /\ step \in {"dir", "names", "gitHead", "gitIndex", "files"}
    \/ pass = "written" /\ command = "packet" /\ step = "end"
    \/ pass = "recorded" /\ command = "credit" /\ step = "end"
    \/ pass = "refused" /\ step = "end"

Discovering == pass \in {"capture", "recapture", "copy"}

\* The first capture is over.
Kept == pass \in {"observe", "copy", "recapture", "reprint", "written", "recorded"}

Digested(v) == \A p \in Paths : v.digest[p] # Unread => p \in v.changed

Typed ==
    /\ seen \subseteq {r \in [head : Commits, index : [Paths -> Contained],
                              disk : [Paths -> Contained]] : IsRepository(r)}
    /\ repo \in seen
    /\ stamp \in [Places -> 0..Edits]
    /\ approved \in BOOLEAN /\ torn \in BOOLEAN
    /\ command \in {"packet", "credit"}
    /\ Position
    /\ at \in 1..Len(Order) + 1
    /\ view \in View /\ captured \in View
    /\ print \in [Places -> Nat \cup {Unread}]
    /\ made \in [Paths -> {Unread} \cup (IF Reader THEN BOOLEAN \X Contained ELSE Contained)]
    /\ Discovering /\ step # "head" => view.head \in Commits
    /\ step = "head" => view = Blind
    /\ step = "digest" => view.index \in [Paths -> Contained]
    /\ step # "digest" => view.digest = Nothing
    /\ Kept => captured.head \in Commits
    /\ Digested(view) /\ Digested(captured)

-----------------------------------------------------------------------------
(* The packet.                                                             *)

\* The places read so far in the pass.
Done == {Order[i] : i \in 1..at - 1}

AfterIgnored == {"listed", "index", "digest"}
AfterOthers == {"ignored"} \cup AfterIgnored
AfterStaged == {"others"} \cup AfterOthers
AfterTracked == {"staged"} \cup AfterStaged

\* What the entries and the digest of view v say once it has come to step s.
Read(v, s) ==
    /\ \A p \in InTree(v.head) :
          v.entries[p] \notin {Unread, Tree[v.head][p]} => p \in v.changed
    /\ s \in AfterTracked => \A p \in InTree(v.head) : v.entries[p] # Unread
    /\ \A p \in Paths :
          v.entries[p] # Unread =>
             p \in InTree(v.head) \/ (s \in AfterIgnored /\ p \in {Ignore} \cup v.changed)
    /\ s \in AfterIgnored =>
          \A p \in v.others \ (v.changed \cup InTree(v.head)) :
             /\ p # Ignore /\ Ignore \notin v.changed /\ v.entries[Ignore] # Unread
             /\ p \in HiddenBy(v.entries[Ignore])
    /\ \A p \in Paths :
          v.digest[p] # Unread =>
             v.entries[p] # Unread /\ v.digest[p] = <<v.index[p], v.entries[p]>>

\* Of the paths of view v that are read one by one, those read are in.
ReadSoFar(v) ==
    /\ step = "tracked" => \A p \in InTree(v.head) \cap Done : v.entries[p] # Unread
    /\ step = "tracked" => v.changed \subseteq Done
    /\ step = "digest" => \A p \in v.changed \cap Done : v.digest[p] # Unread
    /\ step = "head" => v.entries = Nothing
    /\ step # "digest" => v.index = Nothing
    /\ step \in {"index", "digest"} => v.changed = {} \/ approved

\* An entry m of the manifest tells of p what the digests bind, or p is an
\* ignore file that was there when it was read for its rules.
Tells(m, p) ==
    \/ (IF m = Unread THEN Tree[Base][p] ELSE m[2]) = Binds(captured, p)
    \/ /\ p = Ignore /\ p \notin InTree(captured.head) \cup captured.changed
       /\ captured.entries[p] \notin {Unread, None}

\* The manifest so far.
ManifestSoFar ==
    /\ \A p \in Paths : pass = "observe" /\ (step = "observing" => p \notin Done) => made[p] = Unread
    /\ pass = "observe" /\ step = "observing" => \A p \in Done : Tells(made[p], p)
    /\ pass \in {"recapture", "written"} => \A p \in Paths : Tells(made[p], p)
    /\ \A p \in Paths :
          made[p] # Unread => made[p][1] = (captured.index[p] # Tree[captured.head][p])

\* What a pass over the repository has read, of a packet.
ViewReads ==
    Reader /\ pass \in {"capture", "recapture"} =>
       /\ step # "head" => Read(view, step)
       /\ ReadSoFar(view)
       /\ pass = "capture" => made = Nothing

\* What the first capture has read, and the manifest says.
KeptReads ==
    Reader /\ Kept =>
       /\ Read(captured, "digest")
       /\ \A p \in captured.changed : captured.digest[p] # Unread
       /\ captured.index \in [Paths -> Contained]
       /\ captured.changed = {} \/ approved
       /\ ManifestSoFar

Had(k) == \E s \in seen : k \in Holds(s)
Gone(k) == Had(k) /\ k \notin Holds(repo)

\* What view v has found the repository to hold when it has come to step s.
Witness(v, s) ==
    (IF s # "head" THEN {<<"HEAD", "HEAD", v.head>>} ELSE {})
    \cup {<<p, "disk", v.entries[p]>> : p \in {q \in Paths : v.entries[q] # Unread}}
    \cup {<<p, "index", v.index[p]>> : p \in {q \in Paths : v.index[q] # Unread}}
    \cup {<<p, "index", Tree[v.head][p]>> :
            p \in IF s \in AfterStaged THEN Paths \ v.changed ELSE {}}
    \cup {<<p, "untracked", FALSE>> : p \in IF s \in AfterOthers THEN Paths \ v.others ELSE {}}

\* The index entries found as committed that were not so any more later in v.
Lost(v) ==
    {<<p, "index", Tree[v.head][p]>> : p \in {q \in Paths \ v.changed :
        \/ v.index[q] \notin {Unread, Tree[v.head][q]}
        \/ q = Ignore /\ q \notin InTree(v.head) /\ v.entries[q] \notin {Unread, None}}}

\* Why the second capture lists path p.
Reason(p) ==
    \/ p \in InTree(view.head) /\ view.entries[p] \notin {Unread, Tree[view.head][p]}
    \/ captured.index[p] # Tree[view.head][p]
    \/ Gone(<<p, "index", Tree[view.head][p]>>) /\ view.index[p] # Tree[view.head][p]
    \/ /\ step \in AfterIgnored /\ p \in view.others \ InTree(view.head)
       /\ Ignore \in view.changed \/ p \notin HiddenBy(view.entries[Ignore])

\* Repository r holds all that the first capture found, but for what the
\* repository does not hold any more and the second has not found.
Anchor(r) ==
    \A k \in Witness(captured, "digest") :
        \/ k \in Holds(r)
        \/ k \notin Holds(repo) /\ (pass = "recapture" => k \notin Witness(view, step))

Bound(r) ==
    /\ Describes(captured, r)
    /\ \A p \in Paths :
          captured.index[p] # Tree[captured.head][p] <=> r.index[p] # Tree[r.head][p]

\* What a packet's captures found was there.
Founds ==
    Reader =>
       /\ pass \in {"capture", "recapture"} => \A k \in Witness(view, step) : Had(k)
       /\ Kept => \A k \in Witness(captured, "digest") : Had(k)

\* While nothing is torn, an ignore file that is there always was.
IgnoreStays == ~torn /\ repo.disk[Ignore] # None => \A s \in seen : s.disk[Ignore] # None

\* What a view has lost does not come back.
ViewLost ==
    Reader /\ ~torn /\ pass \in {"capture", "recapture"} =>
       /\ step = "ignored" =>
             \/ Ignore \in InTree(view.head) \cup view.changed \cup view.others
             \/ Gone(<<Ignore, "index", None>>) \/ repo.disk[Ignore] = None
       /\ step \in AfterIgnored => \A k \in Lost(view) : Gone(k)

\* A view that read an ignore file and does not list it was not the first to
\* find it.
IgnoreFound ==
    /\ Reader /\ ~torn /\ pass \in {"capture", "recapture"} /\ step \in AfterIgnored
    /\ Ignore \notin InTree(view.head) \cup view.changed
    /\ view.entries[Ignore] \notin {Unread, None}
    => \A s \in seen : s.disk[Ignore] # None \/ s.index[Ignore] # None

Anchored ==
    Reader /\ ~torn /\ pass \in {"observe", "recapture"} =>
       /\ \E r \in seen : Anchor(r)
       /\ \A k \in Lost(captured) :
             Gone(k) /\ (pass = "recapture" => k \notin Witness(view, step))

Reasons ==
    Reader /\ ~torn /\ pass = "recapture" /\ view.head = captured.head =>
       /\ \A p \in view.changed : Reason(p)
       /\ step \in AfterOthers => \A p \in view.others \ InTree(view.head) :
             \/ captured.entries[p] # None
             \/ Gone(<<p, "disk", None>>) /\ view.entries[p] # None

WrittenBound ==
    Reader /\ ~torn /\ pass = "written" =>
       (\E r \in seen : Bound(r)) /\ Lost(captured) = {}

-----------------------------------------------------------------------------
(* The repository at rest.                                                 *)

\* What was fingerprinted has the status-change time it had.
Unmoved == \A p \in Places : print[p] # Unread => print[p] = stamp[p]

Printed1 == pass \in {"capture", "copy", "recapture", "reprint", "recorded"} /\ command = "credit"

Still == Changes = 0 \/ (Printed1 /\ Unmoved)

Modified == {p \in InTree(repo.head) : repo.disk[p] # Tree[repo.head][p]}
Diff == Modified \cup {p \in Paths : repo.index[p] # Tree[repo.head][p]}

\* What a pass has seen of a repository at rest.
ExactView ==
    Discovering =>
       /\ step # "head" => view.head = repo.head
       /\ step = "headAgain" => view.changed = {}
       /\ step = "tracked" => view.changed = Modified \cap Done
       /\ step = "staged" => view.changed = Modified
       /\ step \in {"others", "ignored"} => view.changed = Diff
       /\ step = "ignored" => view.others = Untracked(repo) \ (IF Reader THEN {} ELSE HiddenBy(repo.disk[Ignore]))
       /\ step \in AfterIgnored \cup {"files", "rest"} => view.changed = Differences(repo)
       /\ step = "digest" =>
            /\ view.index = repo.index /\ view.staged = (repo.index # Tree[repo.head])
            /\ view.digest = [p \in Paths |-> IF p \in Differences(repo) \cap Done
                                               THEN <<repo.index[p], repo.disk[p]>> ELSE Unread]
       /\ \A p \in Paths : view.entries[p] \in {Unread, repo.disk[p]}
       /\ Reader /\ step = "tracked" =>
             \A p \in InTree(view.head) \cap Done : view.entries[p] # Unread
       /\ Reader /\ step \in AfterTracked => \A p \in InTree(view.head) : view.entries[p] # Unread
       /\ Reader /\ step = "digest" => \A p \in view.changed \cap Done : view.entries[p] # Unread

ExactCapture ==
    Kept =>
       /\ Describes(captured, repo) /\ captured.changed = Differences(repo)
       /\ captured.staged = (repo.index # Tree[repo.head])
       /\ \A p \in Paths : captured.entries[p] \in {Unread, repo.disk[p]}
       /\ Reader => \A p \in InTree(repo.head) \cup Differences(repo) : captured.entries[p] # Unread

\* What the copy holds of p.
CopyOf(p) == IF p \in InTree(repo.head) \cup Differences(repo) THEN repo.disk[p] ELSE Unread

ExactCopy ==
    command = "credit" =>
       /\ pass = "copy" /\ step \notin {"files", "rest"} => made = Nothing
       /\ pass = "copy" /\ step = "files" =>
             made = [p \in Paths |-> IF p \in InTree(repo.head) \cap Done THEN CopyOf(p) ELSE Unread]
       /\ pass = "copy" /\ step = "rest" =>
             made = [p \in Paths |-> IF p \in InTree(repo.head) \cup Done THEN CopyOf(p) ELSE Unread]
       /\ pass \in {"recapture", "reprint", "recorded"} => made = [p \in Paths |-> CopyOf(p)]

\* What a fingerprint says of a repository that never changed.
Rows == [p \in Places |-> IF p \in Paths /\ repo.disk[p] = None THEN Unread ELSE 0]

ExactPrint ==
    command = "credit" /\ Changes = 0 =>
       /\ pass \in {"print", "reprint"} =>
            /\ step \in {"gitHead", "gitIndex", "files"} =>
                  view.changed = {p \in Paths : repo.disk[p] # None}
            /\ view.rows = [p \in Places |->
                  IF \/ p = "dir" /\ step # "dir"
                     \/ p = "HEAD" /\ step \in {"gitIndex", "files"}
                     \/ p = "index" /\ step = "files"
                     \/ step = "files" /\ p \in Done
                  THEN Rows[p] ELSE Unread]
       /\ Printed1 => print = Rows

RefusedFor ==
    pass = "refused" /\ Changes = 0 =>
        \/ Differences(repo) # {} /\ ~approved
        \/ command = "packet" /\ \E p \in Paths \ (InTree(repo.head) \cup Differences(repo)) :
              Tree[Base][p] # None /\ repo.disk[p] # None

Exact == /\ Still => ExactView /\ ExactCapture /\ ExactCopy
         /\ ExactPrint
         /\ pass \in {"print", "capture"} => made = Nothing
         /\ RefusedFor

\* The fingerprint says which files are there, unless the directory changed,
\* and no time of it is yet to come.
Rowed(rows) == \A p \in Places : rows[p] # Unread => rows[p] <= stamp[p]
Present(rows) ==
    \A p \in Paths : rows[p] = Unread => repo.disk[p] = None

Fingerprint ==
    /\ Rowed(view.rows) /\ Rowed(print)
    /\ pass = "print" =>
         /\ step # "dir" => view.rows["dir"] # Unread
         /\ step \in {"gitIndex", "files"} => view.rows["HEAD"] # Unread
         /\ step = "files" => view.rows["index"] # Unread
         /\ step \notin {"dir", "names"} /\ view.rows["dir"] = stamp["dir"] =>
               view.changed = {p \in Paths : repo.disk[p] # None}
         /\ step = "files" => \A p \in view.changed \cap Done : view.rows[p] # Unread
    /\ Printed1 =>
         /\ \A p \in {"dir", "HEAD", "index"} : print[p] # Unread
         /\ print["dir"] = stamp["dir"] => Present(print)

\* The repository r is the one captured, and copied.
Good(r) ==
    /\ Describes(captured, r) /\ captured.staged = (r.index # Tree[r.head])
    /\ \A p \in Paths : (IF made[p] = Unread THEN None ELSE made[p]) = Binds(captured, p)

\* The second fingerprint will not equal the first.
Doomed ==
    \E p \in Places : /\ print[p] # Unread /\ print[p] < stamp[p]
                      /\ view.rows[p] = Unread \/ view.rows[p] > print[p]

Checked ==
    /\ pass = "reprint" => (\E r \in seen : Good(r)) \/ Doomed
    /\ pass = "recorded" => \E r \in seen : Good(r)

-----------------------------------------------------------------------------
(* Lemmas about the order of the paths, the passes and the stamps.         *)

LEMMA NextPath ==
    ASSUME at \in 1..Len(Order) + 1
    PROVE  /\ Left => Path \in Paths /\ Path \notin Done
           /\ Left /\ at' = at + 1 =>
                 at' \in 1..Len(Order) + 1 /\ Done' = Done \cup {Path}
           /\ at' = 1 => at' \in 1..Len(Order) + 1 /\ Done' = {}
           /\ ~Left => Done = Paths
           /\ Done \subseteq Paths
<1>1. Order \in Seq(Paths) /\ \A i, j \in DOMAIN Order : Order[i] = Order[j] => i = j
  BY CaptureAssumption
<1>2. Len(Order) \in Nat /\ DOMAIN Order = 1..Len(Order)
  BY <1>1
<1>3. Left => Path \in Paths /\ Path \notin Done
  BY <1>1, <1>2 DEF Left, Path, Paths, Done
<1>4. Left /\ at' = at + 1 => at' \in 1..Len(Order) + 1 /\ Done' = Done \cup {Path}
  <2>1. SUFFICES ASSUME Left, at' = at + 1
                 PROVE  at' \in 1..Len(Order) + 1 /\ Done' = Done \cup {Path}
    OBVIOUS
  <2>2. at' \in 1..Len(Order) + 1
    BY <2>1, <1>2 DEF Left
  <2>3. 1..at' - 1 = (1..at - 1) \cup {at}
    BY <2>1
  <2>4. Done' = Done \cup {Path}
    BY <2>3 DEF Done, Path
  <2> QED BY <2>2, <2>4
<1>5. at' = 1 => at' \in 1..Len(Order) + 1 /\ Done' = {}
  BY <1>2 DEF Done
<1>6. ~Left => Done = Paths
  BY <1>2 DEF Left, Done, Paths
<1>7. Done \subseteq Paths
  BY <1>2 DEF Done, Paths
<1> QED BY <1>3, <1>4, <1>5, <1>6, <1>7

LEMMA NextPass ==
    /\ DOMAIN Passes = {"packet", "credit"}
    /\ command = "packet" =>
          /\ Passes[command][1] = "capture"
          /\ pass = "capture" => Following = "observe"
          /\ pass = "recapture" => Following = "written"
    /\ command = "credit" =>
          /\ Passes[command][1] = "print"
          /\ pass = "print" => Following = "capture"
          /\ pass = "capture" => Following = "copy"
          /\ pass = "recapture" => Following = "reprint"
          /\ pass = "reprint" => Following = "recorded"
<1>1. DOMAIN Passes = {"packet", "credit"}
  BY DEF Passes
<1>2. ASSUME command = "packet"
      PROVE  /\ Passes[command][1] = "capture"
             /\ pass = "capture" => Following = "observe"
             /\ pass = "recapture" => Following = "written"
  <2> DEFINE ps == <<"capture", "observe", "recapture", "written">>
  <2>1. Passes[command] = ps
    BY <1>2 DEF Passes
  <2>2. DOMAIN ps = 1..4
    OBVIOUS
  <2>3. \A i \in 1..4 : i = 1 \/ i = 2 \/ i = 3 \/ i = 4
    OBVIOUS
  <2>4. pass = "capture" => (CHOOSE i \in DOMAIN ps : ps[i] = pass) = 1
    BY <2>2, <2>3
  <2>5. pass = "recapture" => (CHOOSE i \in DOMAIN ps : ps[i] = pass) = 3
    BY <2>2, <2>3
  <2> QED BY <2>1, <2>4, <2>5 DEF Following
<1>3. ASSUME command = "credit"
      PROVE  /\ Passes[command][1] = "print"
             /\ pass = "print" => Following = "capture"
             /\ pass = "capture" => Following = "copy"
             /\ pass = "recapture" => Following = "reprint"
             /\ pass = "reprint" => Following = "recorded"
  <2> DEFINE ps == <<"print", "capture", "copy", "recapture", "reprint", "recorded">>
  <2>1. Passes[command] = ps
    BY <1>3 DEF Passes
  <2>2. DOMAIN ps = 1..6
    OBVIOUS
  <2>3. \A i \in 1..6 : i = 1 \/ i = 2 \/ i = 3 \/ i = 4 \/ i = 5 \/ i = 6
    OBVIOUS
  <2>4. pass = "print" => (CHOOSE i \in DOMAIN ps : ps[i] = pass) = 1
    BY <2>2, <2>3
  <2>5. pass = "capture" => (CHOOSE i \in DOMAIN ps : ps[i] = pass) = 2
    BY <2>2, <2>3
  <2>6. pass = "recapture" => (CHOOSE i \in DOMAIN ps : ps[i] = pass) = 4
    BY <2>2, <2>3
  <2>7. pass = "reprint" => (CHOOSE i \in DOMAIN ps : ps[i] = pass) = 5
    BY <2>2, <2>3
  <2> QED BY <2>1, <2>4, <2>5, <2>6, <2>7 DEF Following
<1> QED BY <1>1, <1>2, <1>3

LEMMA ChangesIsMax ==
    ASSUME stamp \in [Places -> 0..Edits]
    PROVE  /\ Changes \in 0..Edits
           /\ \A p \in Places : stamp[p] <= Changes
           /\ \E p \in Places : stamp[p] = Changes
<1>1. Edits \in Nat /\ "HEAD" \in Places
  BY CaptureAssumption DEF Places
<1> DEFINE Above(n) == \A p \in Places : stamp[p] <= n
<1>2. PICK n \in Nat : Above(n) /\ \A m \in Nat : Above(m) => ~ (m < n)
  <2>1. Edits \in {n \in Nat : Above(n)}
    BY <1>1
  <2>2. IsWellFoundedOn(OpToRel(<, Nat), Nat)
    BY NatLessThanWellFounded
  <2>3. PICK n \in {n \in Nat : Above(n)} :
             \A m \in {k \in Nat : Above(k)} : ~ (<<m, n>> \in OpToRel(<, Nat))
    BY <2>1, <2>2, WFMin
  <2>4. \A m \in Nat : m < n => <<m, n>> \in OpToRel(<, Nat)
    BY DEF OpToRel
  <2> QED BY <2>3, <2>4
<1>3. \E p \in Places : stamp[p] = n
  <2>1. SUFFICES ASSUME \A p \in Places : stamp[p] # n
                 PROVE  FALSE
    OBVIOUS
  <2>2. \A p \in Places : stamp[p] \in Nat /\ stamp[p] < n
    BY <1>1, <1>2, <2>1
  <2>3. n - 1 \in Nat /\ Above(n - 1)
    BY <1>1, <2>2
  <2> QED BY <2>3, <1>2
<1>4. n \in 0..Edits
  BY <1>1, <1>3
<1>5. n \in {stamp[p] : p \in Places}
  BY <1>3
<1>6. \E m \in 0..Edits : m \in {stamp[p] : p \in Places} /\ Above(m)
  BY <1>2, <1>4, <1>5
<1>7. Changes = CHOOSE m \in 0..Edits : m \in {stamp[p] : p \in Places} /\ Above(m)
  BY DEF Changes
<1>8. Changes \in 0..Edits /\ Changes \in {stamp[p] : p \in Places} /\ Above(Changes)
  BY <1>6, <1>7
<1> QED BY <1>8

-----------------------------------------------------------------------------
(* Types.                                                                  *)

LEMMA Constants ==
    /\ None \in Contained /\ Ignore \in Paths
    /\ Unread \notin Contained /\ Unread \notin Nat
    /\ Unread \notin Contained \X Contained /\ Unread \notin BOOLEAN \X Contained
    /\ "HEAD" \notin Paths /\ "index" \notin Paths /\ "dir" \notin Paths
    /\ Places = Paths \cup {"HEAD", "index", "dir"}
    /\ \A c \in Commits : Tree[c] \in [Paths -> Contained] /\ InTree(c) \subseteq Paths
    /\ Edits \in Nat /\ None \notin DOMAIN Hides
<1>1. /\ Ignore \in Paths /\ Edits \in Nat /\ None \notin DOMAIN Hides
      /\ Paths \cap {"HEAD", "index", "dir"} = {}
      /\ \A c \in Commits : Tree[c] \in [Paths -> Contained]
  BY CaptureAssumption
<1>2. Unread \notin Contained \cup Nat \cup (Contained \X Contained) \cup (BOOLEAN \X Contained)
  BY CaptureAssumption
<1>3. None \in Contained
  BY DEF Contained
<1>4. \A c \in Commits : InTree(c) \subseteq Paths
  BY DEF InTree
<1>5. Places = Paths \cup {"HEAD", "index", "dir"}
  BY DEF Places
<1> QED BY <1>1, <1>2, <1>3, <1>4, <1>5

LEMMA RepoTyped ==
    ASSUME Typed
    PROVE  /\ repo \in [head : Commits, index : [Paths -> Contained], disk : [Paths -> Contained]]
           /\ IsRepository(repo)
           /\ repo.head \in Commits
           /\ repo.index \in [Paths -> Contained] /\ repo.disk \in [Paths -> Contained]
BY DEF Typed

LEMMA BlindTyped ==
    /\ Blind \in View /\ Nothing \in [Paths -> {Unread}] /\ Digested(Blind)
    /\ Blind.rows = [p \in Places |-> Unread] /\ Blind.head = None
    /\ Blind.changed = {} /\ Blind.others = {} /\ Blind.staged = FALSE
    /\ Blind.entries = Nothing /\ Blind.index = Nothing /\ Blind.digest = Nothing
BY Constants DEF Blind, View, Nothing, Digested

LEMMA TypedInit == Init => Typed
<1>1. SUFFICES ASSUME Init PROVE Typed
  OBVIOUS
<1>2. repo \in Starts /\ seen = {repo} /\ torn = FALSE /\ approved \in BOOLEAN
  BY <1>1 DEF Init
<1>3. IsRepository(repo)
  BY <1>2, CaptureAssumption
<1>4. seen \subseteq {r \in [head : Commits, index : [Paths -> Contained],
                              disk : [Paths -> Contained]] : IsRepository(r)}
  BY <1>2, <1>3 DEF IsRepository
<1>5. command \in {"packet", "credit"} /\ Position /\ at = 1
  BY <1>1, NextPass DEF Init, FirstRead, Position, DiscoverySteps
<1>6. at \in 1..Len(Order) + 1
  BY <1>5, CaptureAssumption
<1>7. stamp \in [Places -> 0..Edits]
  BY <1>1, Constants DEF Init
<1>8. view = Blind /\ captured = Blind /\ print = Blind.rows /\ made = Nothing
  BY <1>1 DEF Init
<1>9. /\ view \in View /\ captured \in View
      /\ print \in [Places -> Nat \cup {Unread}]
      /\ made \in [Paths -> {Unread} \cup (IF Reader THEN BOOLEAN \X Contained ELSE Contained)]
      /\ Digested(view) /\ Digested(captured) /\ view.digest = Nothing
  BY <1>8, BlindTyped
<1>10. step \in {"head", "dir"} /\ ~Kept /\ (Discovering => step = "head")
  BY <1>1, NextPass DEF Init, FirstRead, Kept, Discovering
<1> QED BY <1>2, <1>4, <1>5, <1>6, <1>7, <1>8, <1>9, <1>10 DEF Typed

\* Types are kept by what neither touches the repository nor the results, and
\* leaves the view typed.
LEMMA TypedRead ==
    ASSUME Typed, UNCHANGED <<git, results, history>>,
           view' \in View, Digested(view)',
           (Discovering /\ step # "head" => view.head \in Commits)',
           (step = "head" => view = Blind)',
           (step = "digest" => view.index \in [Paths -> Contained])',
           (step # "digest" => view.digest = Nothing)',
           UNCHANGED <<command, approved>>, Position', Kept' => Kept,
           (at' = at + 1 /\ Left) \/ at' = 1
    PROVE  Typed'
<1>1. at' \in 1..Len(Order) + 1
  BY NextPath DEF Typed
<1>2. Digested(captured)'
  BY DEF Typed, results, Digested
<1> QED BY <1>1, <1>2 DEF Typed, git, results, history, Reader

LEMMA TypedRefuse ==
    ASSUME Typed, Refuse, UNCHANGED <<git, results, history>>
    PROVE  Typed'
<1>1. /\ pass' = "refused" /\ step' = "end" /\ at' = 1 /\ view' = Blind
      /\ UNCHANGED <<command, approved>>
  BY DEF Refuse, Begin, FirstRead
<1>2. Digested(view)'
  BY <1>1, BlindTyped DEF Digested
<1> QED BY <1>1, <1>2, TypedRead, BlindTyped DEF Position, Kept, Discovering

LEMMA TypedDiscovery ==
    ASSUME Typed, Discovery
    PROVE  Typed'
<1> USE DEF Goto, Stay, Position, DiscoverySteps, Kept, Discovering, Digested
<1>1. CASE ReadHead
  <2>1. view' = [view EXCEPT !.head = repo.head] /\ view' \in View /\ view'.head = repo.head
    BY <1>1, RepoTyped, ZenonT(30) DEF ReadHead, Typed, View
  <2>2. Digested(view)'
    BY <2>1 DEF Typed, View
  <2>3. /\ step' \in {"tracked", "headAgain"}
        /\ step' = "headAgain" => pass = "capture" /\ command = "credit"
    BY <1>1 DEF ReadHead, Typed, Reader
  <2> QED BY <1>1, <2>1, <2>2, <2>3, TypedRead, RepoTyped DEF ReadHead, Typed
<1>2. CASE ReadHeadAgain
  <2>1. CASE repo.head = view.head
    BY <1>2, <2>1, TypedRead, RepoTyped DEF ReadHeadAgain, Typed
  <2>2. CASE repo.head # view.head
    BY <1>2, <2>2, TypedRefuse DEF ReadHeadAgain
  <2> QED BY <2>1, <2>2
<1>3. CASE ReadTracked
  <2>1. CASE Left /\ Path \in InTree(view.head)
    <3> DEFINE read == IF Reader THEN [view.entries EXCEPT ![Path] = repo.disk[Path]]
                       ELSE view.entries
               more == IF repo.disk[Path] # Tree[view.head][Path]
                       THEN view.changed \cup {Path} ELSE view.changed
    <3>1. Path \in Paths
      BY <2>1, NextPath DEF Typed
    <3>2. read \in [Paths -> Contained \cup {Unread}] /\ more \subseteq Paths
          /\ view.changed \subseteq more
      BY <3>1, RepoTyped DEF Typed, View
    <3>3. view' = [view EXCEPT !.entries = read, !.changed = more]
      BY <1>3, <2>1 DEF ReadTracked, Typed, View
    <3>4. step = "tracked" /\ Stay /\ UNCHANGED <<git, results, history>>
      BY <1>3, <2>1 DEF ReadTracked
    <3> HIDE DEF read, more
    <3> QED BY <2>1, <3>2, <3>3, <3>4, TypedRead DEF Typed, View
  <2>2. CASE Left /\ Path \notin InTree(view.head)
    BY <1>3, <2>2, TypedRead DEF ReadTracked, Typed
  <2>3. CASE ~Left
    BY <1>3, <2>3, TypedRead DEF ReadTracked, Typed
  <2> QED BY <2>1, <2>2, <2>3
<1>4. CASE ReadStaged
  BY <1>4, TypedRead, RepoTyped DEF ReadStaged, Typed, View
<1>5. CASE ReadOthers
  BY <1>5, TypedRead, RepoTyped DEF ReadOthers, Typed, View, Untracked
<1>6. CASE ReadIgnored
  <2>1. CASE Reader /\ ~Consistent(Ignore)
    BY <1>6, <2>1, TypedRefuse DEF ReadIgnored
  <2>2. CASE ~(Reader /\ ~Consistent(Ignore))
    <3> DEFINE all == IF Reader THEN view.others ELSE Untracked(repo)
               shown == IF Reader THEN view.others \ HiddenBy(repo.disk[Ignore]) ELSE view.others
               listed == WithUntracked(view, all, shown)
               read == IF Reader THEN [view.entries EXCEPT ![Ignore] = repo.disk[Ignore]]
                       ELSE view.entries
    <3>1. view.changed \subseteq Paths /\ view.others \subseteq Paths
          /\ view.entries \in [Paths -> Contained \cup {Unread}]
      BY DEF Typed, View
    <3>2. all \subseteq Paths /\ shown \subseteq Paths
      BY <3>1 DEF Untracked
    <3>3. listed \subseteq Paths /\ view.changed \subseteq listed
      BY <3>1, <3>2 DEF WithUntracked
    <3>4. read \in [Paths -> Contained \cup {Unread}]
      BY <3>1, RepoTyped, Constants
    <3>5. view' = [view EXCEPT !.entries = read, !.changed = listed]
      BY <1>6, <2>2 DEF ReadIgnored, Typed, View
    <3>6. /\ step = "ignored" /\ Goto("listed")
          /\ UNCHANGED <<git, results, history>>
      BY <1>6, <2>2 DEF ReadIgnored
    <3> HIDE DEF listed, read
    <3> QED BY <3>3, <3>4, <3>5, <3>6, TypedRead DEF Typed, View
  <2> QED BY <2>1, <2>2
<1> QED BY <1>1, <1>2, <1>3, <1>4, <1>5, <1>6 DEF Discovery

LEMMA TypedDigesting ==
    ASSUME Typed, Digesting
    PROVE  Typed'
<1>1. CASE Listed
  <2>1. CASE pass # "copy" /\ view.changed # {} /\ ~approved
    BY <1>1, <2>1, TypedRefuse DEF Listed
  <2>2. CASE ~(pass # "copy" /\ view.changed # {} /\ ~approved)
    <3>1. /\ UNCHANGED view /\ step' \in {"files", "index"} /\ step = "listed"
          /\ step' = "files" <=> pass = "copy"
          /\ at' = 1 /\ UNCHANGED <<command, approved, pass, git, results, history>>
      BY <1>1, <2>2 DEF Listed, Goto
    <3>2. Digested(view)' /\ (Position' /\ (Kept' => Kept) /\ Discovering)
      BY <3>1 DEF Typed, Digested, Position, Discovering, DiscoverySteps, Kept
    <3> QED BY <3>1, <3>2, TypedRead DEF Typed
  <2> QED BY <2>1, <2>2
<1>2. CASE ReadIndex
  <2>1. /\ view' = [view EXCEPT !.index = repo.index, !.staged = repo.index # Tree[view.head]]
        /\ step = "index" /\ step' = "digest" /\ at' = 1
        /\ UNCHANGED <<command, approved, pass, git, results, history>>
    BY <1>2 DEF ReadIndex, Goto
  <2>2. Discovering /\ Discovering' /\ (Kept' => Kept) /\ Position'
    BY <2>1 DEF Typed, Position, Discovering, DiscoverySteps, Kept
  <2>3. view' \in View /\ view'.head \in Commits /\ view'.index \in [Paths -> Contained]
    BY <2>1, <2>2, RepoTyped DEF Typed, View
  <2>4. Digested(view)'
    BY <2>1 DEF Typed, Digested, View
  <2> QED BY <2>1, <2>2, <2>3, <2>4, TypedRead
<1>3. CASE ReadDigest
  <2>1. CASE Reader /\ Path \in view.changed /\ ~Consistent(Path)
    BY <1>3, <2>1, TypedRefuse DEF ReadDigest
  <2>2. CASE ~(Reader /\ Path \in view.changed /\ ~Consistent(Path))
    <3> DEFINE read == IF Reader THEN [view.entries EXCEPT ![Path] = repo.disk[Path]]
                       ELSE view.entries
               digested == [view.digest EXCEPT ![Path] = <<view.index[Path], repo.disk[Path]>>]
    <3>1. Path \in Paths
      BY <1>3, NextPath DEF ReadDigest, Typed
    <3>2. /\ view.index \in [Paths -> Contained] /\ view.entries \in [Paths -> Contained \cup {Unread}]
          /\ view.digest \in [Paths -> (Contained \X Contained) \cup {Unread}]
          /\ view.head \in Commits /\ Discovering
      BY <1>3 DEF ReadDigest, Typed, View, Position, Discovering, DiscoverySteps
    <3>3. read \in [Paths -> Contained \cup {Unread}]
      BY <3>1, <3>2, RepoTyped
    <3>4. digested \in [Paths -> (Contained \X Contained) \cup {Unread}]
      BY <3>1, <3>2, RepoTyped
    <3>5. /\ step = "digest" /\ Left /\ Stay
          /\ \/ Path \notin view.changed /\ UNCHANGED view
             \/ Path \in view.changed /\ view' = [view EXCEPT !.entries = read, !.digest = digested]
          /\ UNCHANGED <<git, results, history>>
      BY <1>3, <2>2 DEF ReadDigest, Typed, View
    <3>6. /\ view' \in View /\ view'.head \in Commits /\ view'.index \in [Paths -> Contained]
      <4> HIDE DEF read, digested
      <4> QED BY <3>2, <3>3, <3>4, <3>5 DEF Typed, View
    <3>7. Digested(view)'
      <4>1. \A p \in Paths : digested[p] # view.digest[p] => p = Path
        BY <3>1, <3>2
      <4> HIDE DEF read, digested
      <4>2. CASE UNCHANGED view
        BY <4>2 DEF Typed, Digested
      <4>3. CASE Path \in view.changed /\ view' = [view EXCEPT !.entries = read, !.digest = digested]
        <5>1. view'.digest = digested /\ view'.changed = view.changed
          BY <4>3 DEF Typed, View
        <5> QED BY <4>1, <4>3, <5>1 DEF Typed, Digested
      <4> QED BY <3>5, <4>2, <4>3
    <3>8. Position' /\ (Kept' => Kept) /\ step' = "digest" /\ at' = at + 1
          /\ UNCHANGED <<command, approved>>
      BY <3>5 DEF Typed, Position, Stay, Kept
    <3> HIDE DEF read, digested
    <3> QED BY <3>5, <3>6, <3>7, <3>8, TypedRead
  <2> QED BY <2>1, <2>2
<1>4. CASE Captured
  <2>1. CASE pass # "capture" /\ ~SameCapture(view)
    BY <1>4, <2>1, TypedRefuse DEF Captured, results
  <2>2. CASE pass = "capture"
    <3>1. /\ captured' = view /\ view' = [Blind EXCEPT !.head = view.head]
          /\ pass' = Following /\ step' = FirstRead[pass'] /\ at' = 1 /\ step = "digest"
          /\ UNCHANGED <<command, approved, git, print, made, history>>
      BY <1>4, <2>2 DEF Captured, Begin
    <3>2. /\ pass' = (IF command = "packet" THEN "observe" ELSE "copy")
          /\ step' = (IF command = "packet" THEN "launch" ELSE "tracked")
      BY <3>1, <2>2, NextPass DEF Typed, FirstRead
    <3>3. view.head \in Commits
      BY <3>1, <2>2 DEF Typed, Discovering
    <3>4. /\ view' \in View /\ view'.head = view.head /\ Digested(view')
          /\ view'.digest = Nothing
      BY <3>1, <3>3, BlindTyped DEF View, Digested
    <3>5. Position' /\ Kept' /\ (Discovering' => view'.head \in Commits)
          /\ step' # "head" /\ step' # "digest" /\ captured'.head \in Commits
      BY <3>1, <3>2, <3>3, <3>4 DEF Typed, Position, DiscoverySteps, Kept
    <3>6. at' \in 1..Len(Order) + 1
      BY <3>1, NextPath DEF Typed
    <3>7. Digested(captured') /\ Digested(view')
      BY <3>1, <3>4 DEF Typed
    <3> QED BY <3>1, <3>4, <3>5, <3>6, <3>7 DEF Typed, git, history, Reader, Digested
  <2>3. CASE pass # "capture" /\ SameCapture(view)
    <3>1. /\ view' = Blind /\ pass' = Following /\ step' = FirstRead[pass'] /\ at' = 1
          /\ UNCHANGED <<command, approved, git, results, history>>
      BY <1>4, <2>3 DEF Captured, Begin, results
    <3>2. pass = "recapture"
      BY <1>4, <2>3 DEF Captured, Typed, Position, DiscoverySteps
    <3>3. /\ pass' = (IF command = "packet" THEN "written" ELSE "reprint")
          /\ step' = (IF command = "packet" THEN "end" ELSE "dir")
      BY <3>1, <3>2, NextPass DEF Typed, FirstRead
    <3>4. Digested(view)'
      BY <3>1, BlindTyped DEF Digested
    <3> QED BY <3>1, <3>2, <3>3, <3>4, TypedRead, BlindTyped
            DEF Position, Kept, Discovering, Typed
  <2> QED BY <2>1, <2>2, <2>3
<1> QED BY <1>1, <1>2, <1>3, <1>4 DEF Digesting

LEMMA TypedManifest ==
    ASSUME Typed, Manifest
    PROVE  Typed'
<1> USE DEF Position, Kept, Discovering, DiscoverySteps
<1>1. CASE ReadLaunchHead
  <2>1. CASE repo.head = captured.head
    BY <1>1, <2>1, TypedRead DEF ReadLaunchHead, Goto, Typed, Digested
  <2>2. CASE repo.head # captured.head
    BY <1>1, <2>2, TypedRefuse DEF ReadLaunchHead
  <2> QED BY <2>1, <2>2
<1>2. CASE ReadObservedHead
  <2>1. CASE repo.head = captured.head
    BY <1>2, <2>1, TypedRead DEF ReadObservedHead, Goto, Typed, Digested
  <2>2. CASE repo.head # captured.head
    BY <1>2, <2>2, TypedRefuse DEF ReadObservedHead
  <2> QED BY <2>1, <2>2
<1>3. CASE Observe
  <2> DEFINE now == IF approved THEN repo.disk[Path] ELSE Tree[captured.head][Path]
             flag == captured.index[Path] # Tree[captured.head][Path]
             told == [made EXCEPT ![Path] = <<flag, now>>]
  <2>1. CASE Refuse /\ UNCHANGED made
    BY <1>3, <2>1, TypedRefuse DEF Observe, results
  <2>2. CASE UNCHANGED <<view, made>> /\ Stay
    BY <1>3, <2>2, TypedRead DEF Observe, results, Stay, Typed, Digested
  <2>3. CASE Stay /\ UNCHANGED view /\ made' = told
    <3>1. step = "observing" /\ Left /\ UNCHANGED <<git, captured, print, history>>
      BY <1>3 DEF Observe
    <3>2. pass = "observe" /\ Reader /\ Kept
      BY <3>1 DEF Typed, Reader
    <3>3. Path \in Paths /\ at' \in 1..Len(Order) + 1
      BY <2>3, <3>1, NextPath DEF Typed, Stay
    <3>4. captured.head \in Commits
      BY <3>2 DEF Typed
    <3>5. now \in Contained
      BY <3>3, <3>4, RepoTyped, Constants
    <3>6. flag \in BOOLEAN
      OBVIOUS
    <3>7. <<flag, now>> \in BOOLEAN \X Contained
      BY <3>5, <3>6
    <3>8. told \in [Paths -> {Unread} \cup (BOOLEAN \X Contained)]
      <4> HIDE DEF flag, now
      <4> QED BY <3>2, <3>3, <3>7 DEF Typed
    <3>9. Reader' /\ Position' /\ Kept'
      BY <2>3, <3>1, <3>2 DEF Stay, Reader
    <3>10. made' \in [Paths -> {Unread} \cup (IF Reader' THEN BOOLEAN \X Contained ELSE Contained)]
      BY <2>3, <3>8, <3>9
    <3> HIDE DEF flag, now, told
    <3> QED BY <2>3, <3>1, <3>2, <3>3, <3>9, <3>10 DEF Typed, Stay, Digested, git, history
  <2>4. \/ Refuse /\ UNCHANGED made
        \/ UNCHANGED <<view, made>> /\ Stay
        \/ Stay /\ UNCHANGED view /\ made' = told
    BY <1>3 DEF Observe
  <2> QED BY <2>1, <2>2, <2>3, <2>4
<1>4. CASE Observed
  <2>1. Digested(view)'
    BY <1>4, BlindTyped DEF Observed, Begin, Digested
  <2> QED BY <1>4, <2>1, TypedRead, BlindTyped DEF Observed, Begin, FirstRead, Typed
<1> QED BY <1>1, <1>2, <1>3, <1>4 DEF Manifest

LEMMA TypedFingerprinting ==
    ASSUME Typed, Fingerprinting
    PROVE  Typed'
<1>1. ASSUME NEW place \in Places, view' = [view EXCEPT !.rows[place] = stamp[place]]
      PROVE  view' \in View /\ Digested(view)' /\ view'.digest = view.digest
  <2> DEFINE rows == [view.rows EXCEPT ![place] = stamp[place]]
  <2>1. rows \in [Places -> Nat \cup {Unread}]
    BY Constants DEF Typed, View
  <2>2. view' = [view EXCEPT !.rows = rows]
    BY <1>1 DEF Typed, View
  <2> HIDE DEF rows
  <2> QED BY <2>1, <2>2 DEF Typed, View, Digested
<1>2. {"dir", "HEAD", "index"} \subseteq Places
  BY Constants
<1> USE DEF Position, Kept, Discovering, DiscoverySteps
<1>3. CASE PrintDirectory
  BY <1>1, <1>2, <1>3, TypedRead DEF PrintDirectory, Goto, Typed
<1>4. CASE PrintNames
  <2>1. view' = [view EXCEPT !.changed = {p \in Paths : repo.disk[p] # None}]
    BY <1>4 DEF PrintNames
  <2>2. view' \in View /\ view'.digest = Nothing
    BY <1>4, <2>1 DEF PrintNames, Typed, View
  <2>3. Digested(view)'
    BY <2>2, BlindTyped DEF Digested
  <2> QED BY <1>4, <2>2, <2>3, TypedRead DEF PrintNames, Goto, Typed
<1>5. CASE PrintHead
  BY <1>1, <1>2, <1>5, TypedRead DEF PrintHead, Goto, Typed
<1>6. CASE PrintIndex
  BY <1>1, <1>2, <1>6, TypedRead DEF PrintIndex, Goto, Typed
<1>7. CASE PrintFile
  <2>1. Path \in Places
    BY <1>7, NextPath, Constants DEF PrintFile, Typed
  <2>2. CASE Path \notin view.changed
    BY <1>7, <2>2, TypedRead DEF PrintFile, Stay, Typed, Digested
  <2>3. CASE Path \in view.changed /\ repo.disk[Path] = None
    BY <1>7, <2>3, TypedRefuse DEF PrintFile
  <2>4. CASE Path \in view.changed /\ repo.disk[Path] # None
    BY <1>1, <1>7, <2>1, <2>4, TypedRead DEF PrintFile, Stay, Typed, Printing
  <2> QED BY <2>2, <2>3, <2>4
<1>8. CASE Printed
  <2>1. CASE pass = "reprint" /\ ~SamePrint(view.rows)
    BY <1>8, <2>1, TypedRefuse DEF Printed, results
  <2>2. CASE pass = "print" \/ SamePrint(view.rows)
    <3>1. /\ view' = Blind /\ pass' = Following /\ step' = FirstRead[pass'] /\ at' = 1
          /\ print' \in {print, view.rows} /\ step = "files"
          /\ UNCHANGED <<command, approved, git, captured, made, history>>
      BY <1>8, <2>2 DEF Printed, Begin
    <3>2. pass \in {"print", "reprint"} /\ command = "credit"
      BY <1>8 DEF Printed, Printing, Typed
    <3>3. /\ pass' = (IF pass = "print" THEN "capture" ELSE "recorded")
          /\ step' = (IF pass = "print" THEN "head" ELSE "end")
      BY <3>1, <3>2, NextPass DEF FirstRead
    <3>4. at' \in 1..Len(Order) + 1
      BY <3>1, NextPath DEF Typed
    <3>5. Digested(view)' /\ Digested(captured)'
      BY <3>1, BlindTyped DEF Typed, Digested
    <3>6. print' \in [Places -> Nat \cup {Unread}]
      BY <3>1 DEF Typed, View
    <3> QED BY <3>1, <3>2, <3>3, <3>4, <3>5, <3>6, BlindTyped
            DEF Typed, git, history, Reader
  <2> QED BY <1>8, <2>1, <2>2 DEF Printed, Printing
<1> QED BY <1>3, <1>4, <1>5, <1>6, <1>7, <1>8 DEF Fingerprinting

LEMMA TypedCopying ==
    ASSUME Typed, Copying
    PROVE  Typed'
<1> USE DEF Position, Kept, Discovering, DiscoverySteps
<1>1. ASSUME NEW s \in {"files", "rest"}, NEW paths, CopyPhase(s, paths)
      PROVE  Typed'
  <2>1. pass = "copy" /\ step = s /\ Left /\ Stay /\ UNCHANGED <<git, view, captured, print, history>>
        /\ made' = IF Path \in paths THEN [made EXCEPT ![Path] = repo.disk[Path]] ELSE made
    BY <1>1 DEF CopyPhase
  <2>2. ~Reader /\ ~Reader'
    BY <2>1 DEF Typed, Reader, Stay
  <2>3. Path \in Paths /\ at' \in 1..Len(Order) + 1
    BY <2>1, NextPath DEF Typed, Stay
  <2>4. made' \in [Paths -> {Unread} \cup Contained]
    BY <2>1, <2>2, <2>3, RepoTyped DEF Typed
  <2> QED BY <2>1, <2>2, <2>3, <2>4 DEF Typed, Stay, Digested, git, history
<1>2. CASE CopyFile
  BY <1>1, <1>2 DEF CopyFile
<1>3. CASE CopyOn
  BY <1>3, TypedRead DEF CopyOn, Goto, Typed, Digested
<1>4. CASE Copied
  <2>1. Digested(view)'
    BY <1>4, BlindTyped DEF Copied, Begin, Digested
  <2> QED BY <1>4, <2>1, TypedRead, BlindTyped DEF Copied, Begin, FirstRead, Typed
<1> QED BY <1>2, <1>3, <1>4 DEF Copying

\* What a change of others leaves and what it does: places are what it touches.
Edited(places) ==
    /\ Running /\ Changes < Edits /\ repo' # repo
    /\ repo' \in [head : Commits, index : [Paths -> Contained], disk : [Paths -> Contained]]
    /\ IsRepository(repo') /\ seen' = seen \cup {repo'}
    /\ stamp' = [p \in Places |-> IF p \in places THEN Changes + 1 ELSE stamp[p]]
    /\ torn' = (torn \/ Recurs(repo') \/ IgnoreAppears(repo'))
    /\ UNCHANGED <<progress, view, results>>
    /\ places \subseteq Places /\ places # {}
    /\ \A p \in Paths \cap places : None \in {repo.disk[p], repo'.disk[p]} => "dir" \in places
    /\ \A p \in Paths \ places : repo'.disk[p] = repo.disk[p]

LEMMA EditorChanges ==
    ASSUME Typed, Editor
    PROVE  \E places \in SUBSET Places : Edited(places)
<1>1. ASSUME NEW r, NEW places, Change(r, places), places \subseteq Places, places # {},
             r \in [head : Commits, index : [Paths -> Contained], disk : [Paths -> Contained]],
             IsRepository(r),
             \A p \in Paths \cap places : None \in {repo.disk[p], r.disk[p]} => "dir" \in places,
             \A p \in Paths \ places : r.disk[p] = repo.disk[p]
      PROVE  Edited(places)
  BY <1>1 DEF Change, Edited
<1>2. ASSUME NEW p \in Paths, NEW c \in Contents[p] \cup {None}, WriteFile(p, c)
      PROVE  \E places \in SUBSET Places : Edited(places)
  <2> DEFINE r == [repo EXCEPT !.disk[p] = c]
             places == {p} \cup (IF None \in {c, repo.disk[p]} THEN {"dir"} ELSE {})
  <2>1. c \in Contained
    BY <1>2 DEF Contained
  <2>2. r \in [head : Commits, index : [Paths -> Contained], disk : [Paths -> Contained]]
        /\ r.disk = [repo.disk EXCEPT ![p] = c] /\ r.index = repo.index /\ r.head = repo.head
    BY <2>1, RepoTyped
  <2>3. IsRepository(r)
    BY <1>2, <2>2, RepoTyped DEF IsRepository
  <2>4. places \subseteq Places /\ places # {}
    BY Constants
  <2>5. \A q \in Paths \cap places : None \in {repo.disk[q], r.disk[q]} => "dir" \in places
    BY <2>2, RepoTyped, Constants
  <2>6. \A q \in Paths \ places : r.disk[q] = repo.disk[q]
    BY <2>2, RepoTyped
  <2>7. Change(r, places)
    BY <1>2 DEF WriteFile
  <2> HIDE DEF r, places
  <2> QED BY <1>1, <2>2, <2>3, <2>4, <2>5, <2>6, <2>7
<1>3. ASSUME NEW p \in Paths, NEW c \in {repo.disk[p], Tree[repo.head][p]}, StagePath(p, c)
      PROVE  \E places \in SUBSET Places : Edited(places)
  <2> DEFINE r == [repo EXCEPT !.index[p] = c]
  <2>1. c \in Contained /\ c \in Contents[p] \cup {None}
    BY <1>3, RepoTyped, Constants, CaptureAssumption DEF IsRepository
  <2>2. r \in [head : Commits, index : [Paths -> Contained], disk : [Paths -> Contained]]
        /\ r.index = [repo.index EXCEPT ![p] = c] /\ r.disk = repo.disk /\ r.head = repo.head
    BY <2>1, RepoTyped
  <2>3. IsRepository(r)
    BY <2>1, <2>2, RepoTyped DEF IsRepository
  <2>4. Change(r, {"index"})
    BY <1>3 DEF StagePath
  <2> HIDE DEF r
  <2> QED BY <1>1, <2>2, <2>3, <2>4, Constants
<1>4. ASSUME NEW c \in Commits, MoveHead(c)
      PROVE  \E places \in SUBSET Places : Edited(places)
  <2> DEFINE r == [repo EXCEPT !.head = c]
  <2>1. r \in [head : Commits, index : [Paths -> Contained], disk : [Paths -> Contained]]
        /\ r.index = repo.index /\ r.disk = repo.disk
    BY <1>4, RepoTyped
  <2>2. IsRepository(r)
    BY <2>1, RepoTyped DEF IsRepository
  <2>3. Change(r, {"HEAD"})
    BY <1>4 DEF MoveHead
  <2>4. {"HEAD"} \subseteq Places /\ {"HEAD"} # {} /\ Paths \cap {"HEAD"} = {}
    BY Constants
  <2>5. \A q \in Paths : r.disk[q] = repo.disk[q]
    BY <2>1
  <2> HIDE DEF r
  <2>6. Edited({"HEAD"})
    BY <1>1, <2>1, <2>2, <2>3, <2>4, <2>5
  <2> QED BY <2>4, <2>6
<1> QED BY <1>2, <1>3, <1>4 DEF Editor

LEMMA TypedEditor ==
    ASSUME Typed, Editor
    PROVE  Typed'
<1>1. PICK places \in SUBSET Places : Edited(places)
  BY EditorChanges
<1>2. stamp' \in [Places -> 0..Edits]
  BY <1>1, ChangesIsMax, Constants DEF Edited, Typed
<1>3. seen' \subseteq {r \in [head : Commits, index : [Paths -> Contained],
                              disk : [Paths -> Contained]] : IsRepository(r)}
  BY <1>1 DEF Edited, Typed
<1>4. repo' \in seen' /\ torn' \in BOOLEAN
  BY <1>1 DEF Edited, Typed
<1>5. UNCHANGED <<command, approved, pass, step, at, view, captured, print, made>>
  BY <1>1 DEF Edited, progress, results
<1> QED BY <1>2, <1>3, <1>4, <1>5
        DEF Typed, Position, Kept, Discovering, Digested, Reader

\* Typed is an inductive invariant.
LEMMA TypedStep == Typed /\ [Next]_vars => Typed'
<1>1. SUFFICES ASSUME Typed, [Next]_vars PROVE Typed'
  OBVIOUS
<1>2. CASE UNCHANGED vars
  BY <1>1, <1>2 DEF vars, git, progress, results, history, Typed, Position, Kept,
                    Discovering, Digested, Reader
<1>3. CASE Next
  BY <1>1, <1>3, TypedDiscovery, TypedDigesting, TypedManifest, TypedFingerprinting,
     TypedCopying, TypedEditor DEF Next
<1> QED BY <1>1, <1>2, <1>3

LEMMA TypedAlways == Spec => []Typed
BY TypedInit, TypedStep, PTL DEF Spec

\* What repositories hold, where a command is in its passes and what it has
\* read are of their types, and a path digested is one found changed
\* (changedPaths and digestWorktree, src/internal/repostate/snapshot.go).
THEOREM TypesHold == Spec => []TypeOK
<1>1. Typed => TypeOK
  <2>1. SUFFICES ASSUME Typed PROVE TypeOK
    OBVIOUS
  <2>2. \A p \in Paths : {repo.index[p], repo.disk[p]} \subseteq Contents[p] \cup {None}
    BY <2>1, RepoTyped DEF IsRepository
  <2>3. pass \in {Passes[command][i] : i \in DOMAIN Passes[command]} \cup {"refused"}
    <3>1. CASE command = "packet"
      <4> DEFINE ps == <<"capture", "observe", "recapture", "written">>
      <4>1. Passes[command] = ps
        BY <3>1 DEF Passes
      <4>2. DOMAIN ps = 1..4 /\ ps[1] = "capture" /\ ps[2] = "observe"
            /\ ps[3] = "recapture" /\ ps[4] = "written"
        OBVIOUS
      <4>3. pass \in {"capture", "observe", "recapture", "written", "refused"}
        BY <2>1, <3>1 DEF Typed, Position
      <4> HIDE DEF ps
      <4> QED BY <4>1, <4>2, <4>3
    <3>2. CASE command = "credit"
      <4> DEFINE ps == <<"print", "capture", "copy", "recapture", "reprint", "recorded">>
      <4>1. Passes[command] = ps
        BY <3>2 DEF Passes
      <4>2. DOMAIN ps = 1..6 /\ ps[1] = "print" /\ ps[2] = "capture" /\ ps[3] = "copy"
            /\ ps[4] = "recapture" /\ ps[5] = "reprint" /\ ps[6] = "recorded"
        OBVIOUS
      <4>3. pass \in {"print", "capture", "copy", "recapture", "reprint", "recorded", "refused"}
        BY <2>1, <3>2 DEF Typed, Position
      <4> HIDE DEF ps
      <4> QED BY <4>1, <4>2, <4>3
    <3> QED BY <2>1, <3>1, <3>2 DEF Typed
  <2> QED BY <2>1, <2>2, <2>3, RepoTyped, NextPass DEF TypeOK, Typed, View, Digested
<1> QED BY <1>1, TypedAlways, PTL

-----------------------------------------------------------------------------
(* What is read for a packet.                                              *)

LEMMA ViewReadsDiscovery ==
    ASSUME Typed, Typed', ViewReads, Discovery, Reader, pass \in {"capture", "recapture"}
    PROVE  ViewReads'
<1> USE DEF Goto, Stay
<1>1. Reader' /\ UNCHANGED <<repo, made>>
  BY DEF Discovery, ReadHead, ReadHeadAgain, ReadTracked, ReadStaged, ReadOthers, ReadIgnored,
         Refuse, Begin, git, results, Reader
<1>2. SUFFICES ASSUME pass' = pass
               PROVE  /\ step' # "head" /\ Read(view', step')
                      /\ ReadSoFar(view)'
  <2>1. pass' \in {pass, "refused"}
    BY DEF Discovery, ReadHead, ReadHeadAgain, ReadTracked, ReadStaged, ReadOthers, ReadIgnored,
           Refuse, Begin
  <2> QED BY <1>1, <2>1 DEF ViewReads
<1>3. CASE ReadHead
  <2>1. view' = [view EXCEPT !.head = repo.head] /\ view = Blind /\ step' = "tracked" /\ at' = 1
        /\ step = "head"
    BY <1>3 DEF ReadHead, Typed
  <2>2. view' \in View /\ view'.entries = Nothing /\ view'.digest = Nothing /\ view'.index = Nothing
        /\ view'.changed = {}
    BY <2>1, BlindTyped DEF View, Typed
  <2>3. InTree(view'.head) \subseteq Paths
    BY DEF InTree
  <2>4. Done' = {}
    BY <2>1, NextPath DEF Typed
  <2> HIDE DEF Goto, Stay
  <2>5. Read(view', step')
    BY <2>1, <2>2, <2>3, BlindTyped DEF Read, AfterTracked, AfterStaged, AfterOthers, AfterIgnored
  <2>6. ReadSoFar(view)'
    BY <2>1, <2>2, <2>4 DEF ReadSoFar
  <2> QED BY <2>1, <2>5, <2>6
<1>4. CASE ReadHeadAgain
  BY <1>4 DEF ReadHeadAgain, Typed, Position, DiscoverySteps, Reader
<1>5. CASE ReadTracked
  <2>1. step = "tracked" /\ view.head \in Commits /\ Read(view, step) /\ ReadSoFar(view)
    BY <1>5 DEF ReadTracked, Typed, Discovering, ViewReads
  <2>2. CASE Left /\ Path \in InTree(view.head)
    <3> DEFINE more == IF repo.disk[Path] # Tree[view.head][Path]
                       THEN view.changed \cup {Path} ELSE view.changed
    <3>1. Path \in Paths /\ Done' = Done \cup {Path}
      BY <1>5, <2>2, NextPath DEF Typed, ReadTracked
    <3>2. view' = [view EXCEPT !.entries[Path] = repo.disk[Path], !.changed = more]
      BY <1>5, <2>2 DEF ReadTracked, Typed, View
    <3>3. /\ view'.head = view.head /\ view'.changed = more /\ view'.others = view.others
          /\ view'.entries = [view.entries EXCEPT ![Path] = repo.disk[Path]]
          /\ view'.index = view.index /\ view'.digest = view.digest
      BY <3>2 DEF Typed, View
    <3>4. view.entries \in [Paths -> Contained \cup {Unread}] /\ repo.disk[Path] # Unread
          /\ InTree(view.head) \subseteq Paths
      BY <2>1, <3>1, RepoTyped, Constants DEF Typed, View
    <3>5. view.digest = Nothing
      BY <2>1 DEF Typed
    <3>6. step' = "tracked" /\ step' \notin AfterTracked \cup AfterIgnored
      BY <1>5, <2>2 DEF ReadTracked, AfterTracked, AfterStaged, AfterOthers, AfterIgnored
    <3>10. view.changed \subseteq more /\ (repo.disk[Path] # Tree[view.head][Path] => Path \in more)
      OBVIOUS
    <3> HIDE DEF Stay, Goto, more
    <3>7. Read(view', step')
      BY <2>1, <2>2, <3>3, <3>4, <3>5, <3>6, <3>10, BlindTyped DEF Read
    <3>8. more \subseteq Done \cup {Path}
      BY <2>1 DEF ReadSoFar, more
    <3>9. ReadSoFar(view)'
      BY <2>1, <3>1, <3>3, <3>4, <3>6, <3>8 DEF ReadSoFar
    <3> QED BY <3>6, <3>7, <3>9
  <2>3. CASE Left /\ Path \notin InTree(view.head)
    <3>1. Done' = Done \cup {Path} /\ UNCHANGED <<view, step>>
      BY <1>5, <2>3, NextPath DEF Typed, ReadTracked
    <3> QED BY <2>1, <2>3, <3>1 DEF Read, ReadSoFar
  <2>4. CASE ~Left
    <3>1. Done = Paths /\ UNCHANGED view /\ step' = "staged" /\ InTree(view.head) \subseteq Paths
      BY <1>5, <2>1, <2>4, NextPath, Constants DEF Typed, ReadTracked
    <3>2. \A p \in InTree(view.head) : view.entries[p] # Unread
      BY <2>1, <3>1 DEF ReadSoFar
    <3> QED BY <2>1, <3>1, <3>2 DEF Read, ReadSoFar, AfterIgnored
  <2> QED BY <2>2, <2>3, <2>4
<1>6. CASE ReadStaged
  <2> DEFINE more == view.changed \cup {p \in Paths : repo.index[p] # Tree[view.head][p]}
  <2>1. step = "staged" /\ Read(view, step) /\ ReadSoFar(view)
    BY <1>6 DEF ReadStaged, ViewReads
  <2>2. view' = [view EXCEPT !.changed = more] /\ step' = "others"
    BY <1>6 DEF ReadStaged
  <2>3. /\ view'.head = view.head /\ view'.changed = more /\ view'.others = view.others
        /\ view'.entries = view.entries /\ view'.index = view.index /\ view'.digest = view.digest
    BY <2>2 DEF Typed, View
  <2>4. view.changed \subseteq more
    OBVIOUS
  <2> HIDE DEF more, Stay, Goto
  <2>5. Read(view', step')
    BY <2>1, <2>2, <2>3, <2>4
       DEF Read, AfterTracked, AfterStaged, AfterOthers, AfterIgnored
  <2> QED BY <2>1, <2>2, <2>3, <2>5 DEF ReadSoFar
<1>7. CASE ReadOthers
  <2>1. step = "others" /\ Read(view, step) /\ ReadSoFar(view)
    BY <1>7 DEF ReadOthers, ViewReads
  <2>2. /\ view' = [view EXCEPT !.others = Untracked(repo)]
        /\ step' = (IF view'.others = {} THEN "listed" ELSE "ignored")
    BY <1>7 DEF ReadOthers, Typed, View
  <2>3. /\ view'.head = view.head /\ view'.changed = view.changed
        /\ view'.others = Untracked(repo)
        /\ view'.entries = view.entries /\ view'.index = view.index /\ view'.digest = view.digest
    BY <2>2 DEF Typed, View
  <2> HIDE DEF Stay, Goto
  <2>4. Read(view', step')
    BY <2>1, <2>2, <2>3
       DEF Read, AfterTracked, AfterStaged, AfterOthers, AfterIgnored
  <2> QED BY <2>1, <2>2, <2>3, <2>4 DEF ReadSoFar
<1>8. CASE ReadIgnored
  <2> DEFINE listed == WithUntracked(view, view.others, view.others \ HiddenBy(repo.disk[Ignore]))
             read == [view.entries EXCEPT ![Ignore] = repo.disk[Ignore]]
  <2>1. step = "ignored" /\ Read(view, step) /\ ReadSoFar(view)
    BY <1>8 DEF ReadIgnored, ViewReads
  <2>2. /\ view' = [view EXCEPT !.entries = read, !.changed = listed] /\ step' = "listed"
        /\ Consistent(Ignore)
    BY <1>8, <1>2 DEF ReadIgnored, Refuse, Begin, Typed, View
  <2>3. /\ view'.head = view.head /\ view'.changed = listed /\ view'.others = view.others
        /\ view'.entries = read /\ view'.index = view.index /\ view'.digest = view.digest
    BY <2>2 DEF Typed, View
  <2>4. view.changed \subseteq listed
    BY DEF WithUntracked
  <2>5. /\ Ignore \in Paths /\ repo.disk[Ignore] # Unread
        /\ view.entries \in [Paths -> Contained \cup {Unread}]
        /\ InTree(view.head) \subseteq Paths
    BY <2>1, Constants, RepoTyped DEF Typed, View, InTree
  <2>6. \A p \in view.others \ (listed \cup InTree(view.head)) :
           p # Ignore /\ Ignore \notin listed /\ p \in HiddenBy(repo.disk[Ignore])
    BY DEF WithUntracked
  <2>7. \A p \in InTree(view.head) : read[p] \in {view.entries[p], repo.disk[p]}
                                     /\ (read[p] = view.entries[p] \/ view.entries[p] = Unread)
    BY <2>2, <2>5 DEF Consistent
  <2>8. \A p \in InTree(view.head) : view.entries[p] # Unread
    BY <2>1 DEF Read, AfterTracked, AfterStaged, AfterOthers
  <2>9. read[Ignore] = repo.disk[Ignore] /\ \A p \in Paths : p # Ignore => read[p] = view.entries[p]
    BY <2>5
  <2>10. view.digest = Nothing
    BY <2>1 DEF Typed
  <2> HIDE DEF listed, read, Stay, Goto
  <2>11. Read(view', step')
    <3>1. \A p \in Paths : view.entries[p] # Unread => p \in InTree(view.head)
      BY <2>1 DEF Read, AfterIgnored
    <3>2. \A p \in InTree(view.head) :
             view.entries[p] \notin {Unread, Tree[view.head][p]} => p \in view.changed
      BY <2>1 DEF Read
    <3> QED BY <2>2, <2>3, <2>4, <2>5, <2>6, <2>7, <2>8, <2>9, <2>10, <3>1, <3>2, BlindTyped
            DEF Read, AfterIgnored
  <2> QED BY <2>1, <2>2, <2>3, <2>11 DEF ReadSoFar
<1> QED BY <1>3, <1>4, <1>5, <1>6, <1>7, <1>8 DEF Discovery

LEMMA ViewReadsDigesting ==
    ASSUME Typed, Typed', ViewReads, Digesting, Reader
    PROVE  ViewReads'
<1>1. Reader' /\ UNCHANGED <<repo, made>>
  BY DEF Digesting, Listed, ReadIndex, ReadDigest, Captured, Refuse, Begin, Goto, Stay, git,
         results, Reader
<1>2. step \in {"listed", "index", "digest"} /\ pass \in {"capture", "recapture"}
  BY DEF Digesting, Listed, ReadIndex, ReadDigest, Captured, Typed, Position, Reader, DiscoverySteps
<1>3. CASE Captured
  <2>1. pass' \in {"observe", "written", "refused"}
    BY <1>2, <1>3, NextPass DEF Captured, Begin, Refuse, Reader
  <2> QED BY <2>1 DEF ViewReads
<1>4. SUFFICES ASSUME pass' = pass, ~Captured
               PROVE  /\ step' # "head" /\ Read(view', step')
                      /\ ReadSoFar(view)'
  <2>1. CASE ~Captured
    <3>1. pass' \in {pass, "refused"}
      BY <2>1 DEF Digesting, Listed, ReadIndex, ReadDigest, Refuse, Begin, Goto, Stay
    <3> QED BY <1>1, <1>4, <2>1, <3>1 DEF ViewReads
  <2> QED BY <1>3, <2>1
<1>5. Read(view, step) /\ ReadSoFar(view)
  BY <1>2 DEF ViewReads
<1>6. CASE Listed
  <2>1. /\ UNCHANGED <<view, approved>> /\ step = "listed" /\ step' = "index"
        /\ view.changed = {} \/ approved
    BY <1>2, <1>4, <1>6 DEF Listed, Goto, Refuse, Begin
  <2> QED BY <1>5, <2>1 DEF Read, ReadSoFar, AfterTracked, AfterStaged, AfterOthers, AfterIgnored
<1>7. CASE ReadIndex
  <2>1. /\ view' = [view EXCEPT !.index = repo.index, !.staged = repo.index # Tree[view.head]]
        /\ step = "index" /\ step' = "digest" /\ at' = 1 /\ UNCHANGED approved
    BY <1>7 DEF ReadIndex, Goto
  <2>2. /\ view'.head = view.head /\ view'.changed = view.changed /\ view'.others = view.others
        /\ view'.entries = view.entries /\ view'.digest = view.digest
    BY <2>1 DEF Typed, View
  <2>3. view.digest = Nothing /\ Done' = {}
    BY <2>1, NextPath DEF Typed
  <2>4. Read(view', step')
    BY <1>5, <2>1, <2>2, <2>3, BlindTyped
       DEF Read, AfterTracked, AfterStaged, AfterOthers, AfterIgnored
  <2> QED BY <1>5, <2>1, <2>2, <2>3, <2>4 DEF ReadSoFar
<1>8. CASE ReadDigest
  <2>1. step = "digest" /\ Left /\ Path \in Paths /\ repo.disk[Path] # Unread
    BY <1>8, NextPath, RepoTyped, Constants DEF ReadDigest, Typed
  <2>2. Stay /\ Done' = Done \cup {Path} /\ step' = "digest" /\ UNCHANGED approved
    BY <1>2, <1>4, <1>8, <2>1, NextPath DEF ReadDigest, Typed, Refuse, Begin, Stay
  <2>3. CASE Path \notin view.changed
    <3>1. UNCHANGED view
      BY <1>8, <2>3 DEF ReadDigest
    <3> QED BY <1>5, <2>1, <2>2, <2>3, <3>1 DEF Read, ReadSoFar
  <2>4. CASE Path \in view.changed
    <3> DEFINE read == [view.entries EXCEPT ![Path] = repo.disk[Path]]
               digested == [view.digest EXCEPT ![Path] = <<view.index[Path], repo.disk[Path]>>]
    <3>1. Consistent(Path) /\ view' = [view EXCEPT !.entries = read, !.digest = digested]
      BY <1>2, <1>4, <1>8, <2>1, <2>4 DEF ReadDigest, Typed, View, Refuse, Begin
    <3>2. /\ view'.head = view.head /\ view'.changed = view.changed /\ view'.others = view.others
          /\ view'.entries = read /\ view'.index = view.index /\ view'.digest = digested
      BY <3>1 DEF Typed, View
    <3>3. /\ view.entries \in [Paths -> Contained \cup {Unread}]
          /\ view.digest \in [Paths -> (Contained \X Contained) \cup {Unread}]
          /\ view.index \in [Paths -> Contained]
          /\ Ignore \in Paths /\ InTree(view.head) \subseteq Paths
      BY <2>1, Constants DEF Typed, View, InTree
    <3>4. \A p \in Paths : /\ p # Path => read[p] = view.entries[p] /\ digested[p] = view.digest[p]
                           /\ view.entries[p] # Unread => read[p] = view.entries[p]
      BY <3>1, <3>3 DEF Consistent
    <3>5. read[Path] = repo.disk[Path] /\ digested[Path] = <<view.index[Path], repo.disk[Path]>>
      BY <2>1, <3>3
    <3>6. digested[Path] # Unread
      BY <2>1, <3>3, <3>5, RepoTyped, Constants
    <3> HIDE DEF read, digested
    <3>7. Read(view', step')
      BY <1>5, <2>1, <2>2, <2>4, <3>2, <3>3, <3>4, <3>5 DEF Read, AfterIgnored
    <3>8. view.changed \subseteq Paths
      BY DEF Typed, View
    <3>9. ReadSoFar(view)'
      BY <1>5, <2>1, <2>2, <2>4, <3>2, <3>4, <3>6, <3>8
         DEF ReadSoFar, AfterStaged, AfterOthers, AfterIgnored
    <3> QED BY <2>2, <3>7, <3>9
  <2> QED BY <2>3, <2>4
<1> QED BY <1>3, <1>4, <1>6, <1>7, <1>8 DEF Digesting

LEMMA CommandKept == [Next]_vars => UNCHANGED <<command, approved>>
BY DEF Next, vars, progress, Discovery, ReadHead, ReadHeadAgain, ReadTracked,
   ReadStaged, ReadOthers, ReadIgnored, Digesting, Listed, ReadIndex, ReadDigest, Captured,
   Manifest, ReadLaunchHead, ReadObservedHead, Observe, Observed, Fingerprinting,
   PrintDirectory, PrintNames, PrintHead, PrintIndex, PrintFile, Printed, Copying,
   CopyFile, CopyPhase, CopyOn, Copied, Editor, WriteFile, StagePath, MoveHead, Change,
   Refuse, Begin, Goto, Stay

\* Fingerprints and copies are of credit, manifests of packets.
LEMMA OfCommand ==
    ASSUME Typed
    PROVE  /\ Fingerprinting \/ Copying => ~Reader
           /\ Manifest => Reader /\ pass = "observe" /\ step \in {"launch", "observed", "observing"}
           /\ Discovery => Discovering /\ step \in DiscoverySteps \cup {"headAgain"}
           /\ Digesting => Discovering /\ step \in {"listed", "index", "digest"}
           /\ (Discovery \/ Digesting) /\ Reader => pass \in {"capture", "recapture"}
<1> USE DEF Typed, Position, DiscoverySteps, Reader, Discovering
<1>1. Fingerprinting \/ Copying => ~Reader
  BY DEF Fingerprinting, PrintDirectory, PrintNames, PrintHead, PrintIndex, PrintFile, Printed,
         Printing, Copying, CopyFile, CopyPhase, CopyOn, Copied
<1>2. Manifest => Reader /\ pass = "observe" /\ step \in {"launch", "observed", "observing"}
  BY DEF Manifest, ReadLaunchHead, ReadObservedHead, Observe, Observed
<1>3. Discovery => Discovering /\ step \in DiscoverySteps \cup {"headAgain"}
  BY DEF Discovery, ReadHead, ReadHeadAgain, ReadTracked, ReadStaged, ReadOthers, ReadIgnored
<1>4. Digesting => Discovering /\ step \in {"listed", "index", "digest"}
  BY DEF Digesting, Listed, ReadIndex, ReadDigest, Captured
<1> QED BY <1>1, <1>2, <1>3, <1>4

LEMMA ViewReadsStep ==
    ASSUME Typed, Typed', ViewReads, [Next]_vars
    PROVE  ViewReads'
<1>1. SUFFICES ASSUME Reader', pass' \in {"capture", "recapture"}
               PROVE  ViewReads'
  BY DEF ViewReads
<1>2. UNCHANGED command /\ Reader
  BY <1>1, CommandKept DEF Reader
<1>3. CASE Discovery
  BY <1>2, <1>3, ViewReadsDiscovery, OfCommand
<1>4. CASE Digesting
  BY <1>2, <1>4, ViewReadsDigesting
<1>5. CASE Manifest
  <2>1. pass' \in {pass, "refused"} \/ Observed
    BY <1>5 DEF Manifest, ReadLaunchHead, ReadObservedHead, Observe, Goto, Stay, Refuse, Begin
  <2>2. Observed
    BY <1>1, <1>5, <2>1, OfCommand
  <2>3. view' = Blind /\ step' = "head" /\ pass' = "recapture"
    BY <2>2 DEF Observed, Begin, FirstRead
  <2> QED BY <2>3, BlindTyped DEF ViewReads, ReadSoFar
<1>6. CASE Editor
  <2>1. UNCHANGED <<pass, step, at, view, made, command, approved>>
    BY <1>6, EditorChanges DEF Edited, progress, results
  <2> QED BY <2>1 DEF ViewReads, Read, ReadSoFar, Done, Reader
<1>7. CASE UNCHANGED vars
  BY <1>7 DEF vars, progress, results, ViewReads, Read, ReadSoFar, Done, Reader
<1> QED BY <1>2, <1>3, <1>4, <1>5, <1>6, <1>7, OfCommand DEF Next

\* The manifest tells what the digests bind of a path, when it is as the
\* capture read it, or is not read again.
LEMMA TellsPath ==
    ASSUME NEW p \in Paths, captured.head \in Commits, Read(captured, "digest"),
           captured.digest[p] # Unread <=> p \in captured.changed,
           captured.changed = {} \/ approved, NEW m,
           NEW now, now = IF approved THEN repo.disk[p] ELSE Tree[captured.head][p],
           \/ p \notin ManifestPaths /\ m = Unread
           \/ /\ p \in ManifestPaths /\ (approved => checkObserved(p, now))
              /\ IF now = None /\ Tree[Base][p] = None THEN m = Unread
                 ELSE m # Unread /\ m[2] = now
    PROVE  Tells(m, p)
<1>1. /\ p \in InTree(captured.head) =>
           /\ captured.entries[p] # Unread
           /\ p \notin captured.changed => captured.entries[p] = Tree[captured.head][p]
      /\ p \notin InTree(captured.head) /\ p \notin captured.changed /\ captured.entries[p] # Unread
           => p = Ignore
      /\ p \in captured.changed =>
           captured.entries[p] # Unread /\ captured.digest[p][2] = captured.entries[p]
  BY DEF Read, AfterTracked, AfterStaged, AfterOthers, AfterIgnored
<1>2. p \notin InTree(captured.head) => Tree[captured.head][p] = None
  BY DEF InTree
<1>3. CASE p \notin ManifestPaths
  <2>1. Tree[Base][p] = Tree[captured.head][p] /\ p \notin captured.changed
    BY <1>3 DEF ManifestPaths
  <2> QED BY <1>3, <2>1 DEF Tells, Binds
<1>4. CASE p \in ManifestPaths /\ ~approved
  BY <1>4 DEF Tells, Binds
<1>5. CASE p \in ManifestPaths /\ approved
  <2>1. IF captured.entries[p] = Unread THEN now = None ELSE captured.entries[p] = now
    BY <1>5 DEF checkObserved
  <2>2. (IF m = Unread THEN Tree[Base][p] ELSE m[2]) = now
    BY <1>5
  <2> QED BY <1>1, <1>2, <2>1, <2>2 DEF Tells, Binds
<1> QED BY <1>3, <1>4, <1>5

\* The first capture keeps what it read.
LEMMA KeptReadsCaptured ==
    ASSUME Typed, Typed', ViewReads, Captured, Reader, pass = "capture"
    PROVE  KeptReads'
<1>1. /\ captured' = view /\ pass' = "observe" /\ step' = "launch" /\ at' = 1
      /\ UNCHANGED <<made, approved>> /\ step = "digest" /\ ~Left
  <2>1. /\ captured' = view /\ pass' = Following /\ step' = FirstRead[pass'] /\ at' = 1
        /\ UNCHANGED <<made, approved>> /\ step = "digest" /\ ~Left
    BY DEF Captured, Begin
  <2> QED BY <2>1, NextPass DEF Reader, FirstRead
<1>2. Read(view, "digest") /\ ReadSoFar(view) /\ made = Nothing
  BY <1>1 DEF ViewReads
<1>3. Done = Paths /\ view.changed \subseteq Paths
  BY <1>1, NextPath DEF Typed, View
<1>4. (\A p \in view.changed : view.digest[p] # Unread) /\ (view.changed = {} \/ approved)
  BY <1>1, <1>2, <1>3 DEF ReadSoFar
<1>5. view.index \in [Paths -> Contained]
  BY <1>1 DEF Typed
<1>6. ManifestSoFar'
  <2>1. made' = Nothing /\ Done' \subseteq Paths
    BY <1>1, <1>2, NextPath DEF Typed
  <2>2. \A p \in Paths : made'[p] = Unread
    BY <2>1, BlindTyped
  <2> QED BY <1>1, <2>2 DEF ManifestSoFar
<1> QED BY <1>1, <1>2, <1>4, <1>5, <1>6 DEF KeptReads

LEMMA KeptReadsManifest ==
    ASSUME Typed, Typed', KeptReads, Manifest
    PROVE  KeptReads'
<1>1. /\ Reader /\ pass = "observe" /\ Kept /\ captured.head \in Commits
      /\ step \in {"launch", "observed", "observing"}
  BY OfCommand DEF Kept, Typed
<1>2. /\ Read(captured, "digest") /\ captured.index \in [Paths -> Contained]
      /\ \A p \in captured.changed : captured.digest[p] # Unread
      /\ captured.changed = {} \/ approved
      /\ ManifestSoFar
  BY <1>1 DEF KeptReads
<1>3. Digested(captured) /\ captured.changed \subseteq Paths
  BY DEF Typed, View
<1>4. UNCHANGED <<captured, approved, command, repo>>
  BY CommandKept DEF Manifest, ReadLaunchHead, ReadObservedHead, Observe, Observed, results, git, Next, vars
<1>5. SUFFICES ASSUME pass' # "refused"
               PROVE  ManifestSoFar'
  BY <1>2, <1>4 DEF KeptReads, Kept
<1>6. CASE ReadLaunchHead \/ ReadObservedHead
  <2>1. UNCHANGED <<made, captured, pass>> /\ step' \in {"observed", "observing"} /\ at' = 1
    BY <1>5, <1>6 DEF ReadLaunchHead, ReadObservedHead, Goto, Refuse, Begin, results
  <2>2. step \in {"launch", "observed"}
    BY <1>6 DEF ReadLaunchHead, ReadObservedHead
  <2>3. Done' = {}
    BY <2>1, NextPath DEF Typed
  <2>4. pass = "observe" /\ pass' = "observe" /\ \A p \in Paths : made[p] = Unread
    BY <1>1, <1>2, <2>1, <2>2 DEF ManifestSoFar
  <2> QED BY <2>1, <2>3, <2>4 DEF ManifestSoFar
<1>7. CASE Observe
  <2> DEFINE now == IF approved THEN repo.disk[Path] ELSE Tree[captured.head][Path]
             flag == captured.index[Path] # Tree[captured.head][Path]
  <2>1. step = "observing" /\ Left
    BY <1>7 DEF Observe
  <2>2. Path \in Paths /\ Path \notin Done /\ Done \subseteq Paths
    BY <2>1, NextPath DEF Typed
  <2>3. /\ Stay /\ UNCHANGED captured
        /\ \/ Path \notin ManifestPaths /\ made' = made
           \/ /\ Path \in ManifestPaths /\ (approved => checkObserved(Path, now))
              /\ made' = IF now = None /\ Tree[Base][Path] = None THEN made
                         ELSE [made EXCEPT ![Path] = <<flag, now>>]
    BY <1>5, <1>7 DEF Observe, Refuse, Begin
  <2>4. Done' = Done \cup {Path} /\ pass' = pass /\ step' = step
    BY <2>1, <2>3, NextPath DEF Typed, Stay
  <2>5. /\ made[Path] = Unread /\ \A p \in Paths \ Done : made[p] = Unread
        /\ \A p \in Done : Tells(made[p], p)
        /\ \A p \in Paths : made[p] # Unread
                            => made[p][1] = (captured.index[p] # Tree[captured.head][p])
    BY <1>1, <1>2, <2>1, <2>2 DEF ManifestSoFar
  <2>6. now \in Contained /\ flag \in BOOLEAN
    BY <1>1, <2>2, RepoTyped, Constants
  <2>7. <<flag, now>> # Unread
    <3>1. <<flag, now>> \in BOOLEAN \X Contained
      BY <2>6
    <3> QED BY <3>1, Constants
  <2>8. \A p \in Paths : p # Path => made'[p] = made[p]
    BY <2>3 DEF Typed
  <2>9. \/ Path \notin ManifestPaths /\ made'[Path] = Unread
        \/ /\ Path \in ManifestPaths /\ (approved => checkObserved(Path, now))
           /\ IF now = None /\ Tree[Base][Path] = None THEN made'[Path] = Unread
              ELSE made'[Path] = <<flag, now>>
    <3> HIDE DEF now, flag
    <3> QED BY <2>2, <2>3, <2>5 DEF Typed
  <2>10. \A p \in Done : Tells(made'[p], p)
    BY <2>2, <2>5, <2>8
  <2>11. Tells(made'[Path], Path)
    <3>1. captured.digest[Path] # Unread <=> Path \in captured.changed
      BY <1>2, <1>3, <2>2 DEF Digested
    <3>2. \/ Path \notin ManifestPaths /\ made'[Path] = Unread
          \/ /\ Path \in ManifestPaths /\ (approved => checkObserved(Path, now))
             /\ IF now = None /\ Tree[Base][Path] = None THEN made'[Path] = Unread
                ELSE made'[Path] # Unread /\ made'[Path][2] = now
      <4> HIDE DEF now, flag
      <4> QED BY <2>7, <2>9
    <3> HIDE DEF now, flag
    <3> DEFINE same == IF approved THEN repo.disk[Path] ELSE Tree[captured.head][Path]
    <3>3. now = same
      BY DEF now
    <3> QED BY <1>1, <1>2, <2>2, <3>1, <3>2, <3>3, TellsPath
  <2>12. \A p \in Paths : made'[p] # Unread
                         => made'[p][1] = (captured.index[p] # Tree[captured.head][p])
    <3>1. made'[Path] # Unread => made'[Path][1] = flag
      <4> HIDE DEF now, flag
      <4> QED BY <2>9
    <3> QED BY <2>5, <2>8, <3>1
  <2>13. \A p \in Paths \ Done' : made'[p] = Unread
    BY <2>2, <2>4, <2>5, <2>8
  <2>14. \A p \in Done' : Tells(made[p], p)'
    <3>1. \A p \in Paths : Tells(made[p], p)' <=> Tells(made'[p], p)
      BY <2>3 DEF Tells, Binds
    <3> QED BY <2>2, <2>4, <2>10, <2>11, <3>1
  <2>15. pass' = "observe" /\ step' = "observing"
    BY <1>1, <2>1, <2>4
  <2>16. (\A p \in Paths : made[p] # Unread
                          => made[p][1] = (captured.index[p] # Tree[captured.head][p]))'
    BY <2>3, <2>12
  <2>17. (\A p \in Paths : pass = "observe" /\ (step = "observing" => p \notin Done)
                          => made[p] = Unread)'
    BY <2>13, <2>15
  <2>18. (\A p \in Done : Tells(made[p], p))'
    BY <2>14
  <2> QED BY <2>15, <2>16, <2>17, <2>18 DEF ManifestSoFar
<1>8. CASE Observed
  <2>1. UNCHANGED <<made, captured>> /\ pass' = "recapture" /\ step = "observing" /\ ~Left
    BY <1>8 DEF Observed, Begin, results
  <2>2. Done = Paths
    BY <2>1, NextPath DEF Typed
  <2>3. \A p \in Paths : Tells(made[p], p)' <=> Tells(made[p], p)
    BY <2>1 DEF Tells, Binds
  <2>4. /\ \A p \in Paths : Tells(made[p], p)
        /\ \A p \in Paths : made[p] # Unread
                            => made[p][1] = (captured.index[p] # Tree[captured.head][p])
    BY <1>1, <1>2, <2>1, <2>2 DEF ManifestSoFar
  <2>5. \A p \in Paths : Tells(made[p], p)'
    BY <2>3, <2>4
  <2>6. ManifestSoFar'
    <3>1. \A p \in Paths : Tells(made[p], p)'
      BY <2>5
    <3>2. \A p \in Paths : (made[p] # Unread
                            => made[p][1] = (captured.index[p] # Tree[captured.head][p]))'
      BY <2>1, <2>4
    <3>3. pass' # "observe"
      BY <2>1
    <3> QED BY <3>1, <3>2, <3>3 DEF ManifestSoFar
  <2> QED BY <2>6
<1> QED BY <1>6, <1>7, <1>8 DEF Manifest

LEMMA KeptReadsStep ==
    ASSUME Typed, Typed', ViewReads, KeptReads, [Next]_vars
    PROVE  KeptReads'
<1>1. SUFFICES ASSUME Reader', Kept'
               PROVE  KeptReads'
  BY DEF KeptReads
<1>2. UNCHANGED <<command, approved>> /\ Reader
  BY <1>1, CommandKept DEF Reader
<1>3. ASSUME UNCHANGED <<captured, made>>, Kept, pass' # "observe",
             pass' = pass \/ pass = "recapture"
      PROVE  KeptReads'
  <2>1. /\ \A p \in Paths : Tells(made[p], p)' <=> Tells(made[p], p)
        /\ ManifestSoFar
    BY <1>2, <1>3 DEF Tells, Binds, KeptReads
  <2>2. ManifestSoFar'
    <3>1. pass' \in {"recapture", "written"} => \A p \in Paths : Tells(made[p], p)'
      BY <1>2, <1>3, <2>1 DEF ManifestSoFar
    <3>2. \A p \in Paths : (made[p] # Unread
                            => made[p][1] = (captured.index[p] # Tree[captured.head][p]))'
      BY <1>3, <2>1 DEF ManifestSoFar
    <3>3. pass' # "observe"
      BY <1>3
    <3> QED BY <3>1, <3>2, <3>3 DEF ManifestSoFar
  <2> QED BY <1>2, <1>3, <2>2 DEF KeptReads, Reader
<1>4. ASSUME UNCHANGED <<captured, made, pass, step, at>>
      PROVE  KeptReads'
  <2>1. /\ \A p \in Paths : Tells(made[p], p)' <=> Tells(made[p], p)
        /\ ManifestSoFar /\ Done' = Done /\ Kept /\ Done \subseteq Paths
    BY <1>1, <1>2, <1>4, NextPath DEF Tells, Binds, KeptReads, Kept, Done, Typed
  <2>2. ManifestSoFar'
    <3>1. (\A p \in Paths : made[p] # Unread
                           => made[p][1] = (captured.index[p] # Tree[captured.head][p]))'
      BY <1>4, <2>1 DEF ManifestSoFar
    <3>2. (\A p \in Paths : pass = "observe" /\ (step = "observing" => p \notin Done)
                           => made[p] = Unread)'
      BY <1>4, <2>1 DEF ManifestSoFar
    <3>3. pass' = "observe" /\ step' = "observing" => (\A p \in Done : Tells(made[p], p))'
      <4>1. pass' = "observe" /\ step' = "observing" => \A p \in Done' : Tells(made[p], p)'
        BY <1>4, <2>1 DEF ManifestSoFar
      <4> QED BY <4>1
    <3>4. pass' \in {"recapture", "written"} => (\A p \in Paths : Tells(made[p], p))'
      <4>1. pass' \in {"recapture", "written"} => \A p \in Paths : Tells(made[p], p)'
        BY <1>4, <2>1 DEF ManifestSoFar
      <4> QED BY <4>1
    <3> QED BY <3>1, <3>2, <3>3, <3>4 DEF ManifestSoFar
  <2> QED BY <1>2, <1>4, <2>1, <2>2 DEF KeptReads, Reader
<1>5. CASE Captured /\ pass = "capture"
  BY <1>2, <1>5, KeptReadsCaptured
<1>6. CASE Discovery \/ (Digesting /\ ~(Captured /\ pass = "capture"))
  <2>1. pass \in {"capture", "recapture"}
    BY <1>2, <1>6, OfCommand
  <2>2. UNCHANGED <<captured, made>>
    BY <1>6, <2>1 DEF Discovery, ReadHead, ReadHeadAgain, ReadTracked, ReadStaged, ReadOthers,
       ReadIgnored, Digesting, Listed, ReadIndex, ReadDigest, Captured, results
  <2>3. pass' \in {pass, "refused"} \/ (pass = "recapture" /\ pass' = Following)
    BY <1>6, <2>1 DEF Discovery, ReadHead, ReadHeadAgain, ReadTracked, ReadStaged, ReadOthers,
       ReadIgnored, Digesting, Listed, ReadIndex, ReadDigest, Captured, Goto, Stay, Refuse, Begin,
       Typed, Position
  <2>4. pass = "recapture" /\ pass' \in {"recapture", "written"}
    BY <1>1, <1>2, <2>1, <2>3, NextPass DEF Kept, Reader
  <2> QED BY <1>3, <2>2, <2>4 DEF Kept
<1>7. CASE Manifest
  BY <1>7, KeptReadsManifest
<1>8. CASE Editor
  BY <1>4, <1>8, EditorChanges DEF Edited, progress, results
<1>9. CASE UNCHANGED vars
  BY <1>4, <1>9 DEF vars, progress, results
<1> QED BY <1>2, <1>5, <1>6, <1>7, <1>8, <1>9, OfCommand DEF Next, Digesting

LEMMA ReadsInit == Init => ViewReads /\ KeptReads
<1>1. SUFFICES ASSUME Init, Reader
               PROVE  ViewReads /\ KeptReads
  BY DEF ViewReads, KeptReads
<1>2. pass = "capture" /\ step = "head" /\ view = Blind /\ made = Nothing
  BY <1>1, NextPass DEF Init, FirstRead, Reader
<1> QED BY <1>2, BlindTyped DEF ViewReads, KeptReads, ReadSoFar, Kept

-----------------------------------------------------------------------------
(* What a repository holds, and what was found.                            *)

LEMMA HoldsItem ==
    ASSUME NEW r, NEW p \in Paths, NEW x
    PROVE  /\ <<"HEAD", "HEAD", x>> \in Holds(r) <=> r.head = x
           /\ <<p, "index", x>> \in Holds(r) <=> r.index[p] = x
           /\ <<p, "disk", x>> \in Holds(r) <=> r.disk[p] = x
BY DEF Holds, Untracked

LEMMA HoldsUntracked ==
    ASSUME NEW r, NEW p \in Paths
    PROVE  <<p, "untracked", FALSE>> \in Holds(r) <=> p \notin Untracked(r)
BY DEF Holds

LEMMA WitnessItem ==
    ASSUME NEW v, NEW s, NEW p \in Paths, NEW x
    PROVE  /\ <<"HEAD", "HEAD", x>> \in Witness(v, s) <=> s # "head" /\ x = v.head
           /\ <<p, "disk", x>> \in Witness(v, s) <=> v.entries[p] # Unread /\ x = v.entries[p]
           /\ <<p, "index", x>> \in Witness(v, s) <=>
                 \/ v.index[p] # Unread /\ x = v.index[p]
                 \/ s \in AfterStaged /\ p \notin v.changed /\ x = Tree[v.head][p]
           /\ <<p, "untracked", x>> \in Witness(v, s) <=>
                 x = FALSE /\ s \in AfterOthers /\ p \notin v.others
BY DEF Witness

LEMMA WitnessIndex ==
    ASSUME NEW v, NEW s \in AfterStaged, NEW p \in Paths \ v.changed
    PROVE  <<p, "index", Tree[v.head][p]>> \in Witness(v, s)
BY DEF Witness

LEMMA WitnessForms ==
    ASSUME NEW v, NEW s, NEW k \in Witness(v, s)
    PROVE  \/ k = <<"HEAD", "HEAD", v.head>> /\ s # "head"
           \/ \E p \in Paths : k = <<p, "disk", v.entries[p]>> /\ v.entries[p] # Unread
           \/ \E p \in Paths : k = <<p, "index", v.index[p]>> /\ v.index[p] # Unread
           \/ \E p \in Paths : /\ k = <<p, "index", Tree[v.head][p]>>
                               /\ s \in AfterStaged /\ p \notin v.changed
           \/ \E p \in Paths : /\ k = <<p, "untracked", FALSE>>
                               /\ s \in AfterOthers /\ p \notin v.others
BY DEF Witness

LEMMA HeldWasHad ==
    ASSUME Typed, NEW k \in Holds(repo)
    PROVE  Had(k)
BY DEF Had, Typed

\* While others do not tear it, what is gone stays gone, and an ignore file
\* that is not there does not come.
LEMMA EditorUntorn ==
    ASSUME Typed, Editor
    PROVE  /\ ~torn' => ~torn
           /\ \A k : Had(k) => Had(k)'
           /\ \A k : Had(k) /\ k \notin Holds(repo) /\ ~torn' => k \notin Holds(repo)'
           /\ ~torn' /\ repo.disk[Ignore] = None => repo'.disk[Ignore] = None
           /\ seen' = seen \cup {repo'}
           /\ UNCHANGED <<command, approved, pass, step, at, view, captured, print, made>>
<1>1. PICK places \in SUBSET Places : Edited(places)
  BY EditorChanges
<1>2. /\ torn' = (torn \/ Recurs(repo') \/ IgnoreAppears(repo')) /\ seen' = seen \cup {repo'}
      /\ UNCHANGED <<progress, view, results>>
  BY <1>1 DEF Edited
<1>3. ~torn' => ~torn /\ ~Recurs(repo') /\ ~IgnoreAppears(repo')
  BY <1>2
<1>4. \A k : Had(k) => Had(k)'
  BY <1>2 DEF Had
<1>5. \A k : Had(k) /\ k \notin Holds(repo) /\ ~torn' => k \notin Holds(repo)'
  <2>1. SUFFICES ASSUME NEW k, Had(k), k \notin Holds(repo), k \in Holds(repo')
                 PROVE  Recurs(repo')
    BY <1>3 DEF Holds, Untracked
  <2>2. PICK s \in seen : k \in Holds(s)
    BY <2>1 DEF Had
  <2>3. k \in (Holds(repo') \ Holds(repo)) \cap UNION {Holds(r) : r \in seen}
    BY <2>1, <2>2
  <2> QED BY <2>3 DEF Recurs
<1>6. ~torn' /\ repo.disk[Ignore] = None => repo'.disk[Ignore] = None
  BY <1>3 DEF IgnoreAppears
<1> QED BY <1>2, <1>3, <1>4, <1>5, <1>6 DEF progress, results

\* From view v at step s to view w at step t, the repository was read once.
OneRead(v, s, w, t) ==
    /\ t # "head" => (s # "head" /\ w.head = v.head) \/ w.head = repo.head
    /\ \A p \in Paths : w.entries[p] = v.entries[p] \/ w.entries[p] = repo.disk[p]
    /\ \A p \in Paths : w.index[p] = v.index[p] \/ w.index[p] = repo.index[p]
    /\ \A p \in Paths : t \in AfterStaged /\ p \notin w.changed =>
          \/ s \in AfterStaged /\ p \notin v.changed /\ w.head = v.head
          \/ repo.index[p] = Tree[w.head][p]
    /\ \A p \in Paths : t \in AfterOthers /\ p \notin w.others =>
          (s \in AfterOthers /\ p \notin v.others) \/ p \notin Untracked(repo)

LEMMA WitnessGrows ==
    ASSUME NEW v, NEW s, NEW w, NEW t, OneRead(v, s, w, t)
    PROVE  \A k \in Witness(w, t) : k \in Witness(v, s) \/ k \in Holds(repo)
<1>1. SUFFICES ASSUME NEW k \in Witness(w, t)
               PROVE  k \in Witness(v, s) \/ k \in Holds(repo)
  OBVIOUS
<1>2. CASE k = <<"HEAD", "HEAD", w.head>> /\ t # "head"
  BY <1>2, Constants DEF OneRead, Witness, Holds
<1>3. ASSUME NEW p \in Paths, k = <<p, "disk", w.entries[p]>>, w.entries[p] # Unread
      PROVE  k \in Witness(v, s) \/ k \in Holds(repo)
  <2>1. w.entries[p] = v.entries[p] \/ w.entries[p] = repo.disk[p]
    BY DEF OneRead
  <2>2. w.entries[p] = repo.disk[p] => k \in Holds(repo)
    BY <1>3 DEF Holds
  <2>3. w.entries[p] = v.entries[p] => k \in Witness(v, s)
    BY <1>3 DEF Witness
  <2> QED BY <2>1, <2>2, <2>3
<1>4. ASSUME NEW p \in Paths, k = <<p, "index", w.index[p]>>, w.index[p] # Unread
      PROVE  k \in Witness(v, s) \/ k \in Holds(repo)
  <2>1. w.index[p] = v.index[p] \/ w.index[p] = repo.index[p]
    BY DEF OneRead
  <2>2. w.index[p] = repo.index[p] => k \in Holds(repo)
    BY <1>4 DEF Holds
  <2>3. w.index[p] = v.index[p] => k \in Witness(v, s)
    BY <1>4 DEF Witness
  <2> QED BY <2>1, <2>2, <2>3
<1>5. ASSUME NEW p \in Paths, k = <<p, "index", Tree[w.head][p]>>,
             t \in AfterStaged, p \notin w.changed
      PROVE  k \in Witness(v, s) \/ k \in Holds(repo)
  <2>1. \/ s \in AfterStaged /\ p \notin v.changed /\ w.head = v.head
        \/ repo.index[p] = Tree[w.head][p]
    BY <1>5 DEF OneRead
  <2>2. repo.index[p] = Tree[w.head][p] => k \in Holds(repo)
    BY <1>5 DEF Holds
  <2>3. s \in AfterStaged /\ p \notin v.changed /\ w.head = v.head => k \in Witness(v, s)
    BY <1>5 DEF Witness
  <2> QED BY <2>1, <2>2, <2>3
<1>6. ASSUME NEW p \in Paths, k = <<p, "untracked", FALSE>>, t \in AfterOthers, p \notin w.others
      PROVE  k \in Witness(v, s) \/ k \in Holds(repo)
  <2>1. (s \in AfterOthers /\ p \notin v.others) \/ p \notin Untracked(repo)
    BY <1>6 DEF OneRead
  <2> QED BY <1>6, <2>1 DEF Witness, Holds
<1> QED BY <1>2, <1>3, <1>4, <1>5, <1>6, WitnessForms

\* What a pass has found after a read it had found before, or is there.
LEMMA ReadsHold ==
    ASSUME Typed, Typed', Reader, Discovery \/ (Digesting /\ ~Captured), pass' = pass
    PROVE  \A k \in Witness(view', step') : k \in Witness(view, step) \/ k \in Holds(repo)
<1>0. SUFFICES OneRead(view, step, view', step')
  BY WitnessGrows
<1> USE DEF Goto, Stay
<1>1. pass \in {"capture", "recapture"} /\ view \in View /\ view' \in View
  BY OfCommand DEF Typed
<1>2. CASE ReadHead
  <2>1. view' = [view EXCEPT !.head = repo.head] /\ step = "head" /\ step' = "tracked"
    BY <1>2 DEF ReadHead, Reader
  <2>2. /\ view'.head = repo.head /\ view'.entries = view.entries /\ view'.index = view.index
    BY <1>1, <2>1 DEF View
  <2> QED BY <2>1, <2>2, Constants DEF OneRead, AfterStaged, AfterOthers, AfterIgnored
<1>3. CASE ReadHeadAgain
  BY <1>3 DEF ReadHeadAgain, Typed, Position, DiscoverySteps, Reader
<1>4. CASE ReadTracked
  <2>1. step = "tracked" /\ step' \in {"tracked", "staged"} /\ view'.head = view.head
        /\ view'.index = view.index /\ view'.others = view.others
    BY <1>1, <1>4 DEF ReadTracked, View
  <2>2. \A p \in Paths : view'.entries[p] = view.entries[p] \/ view'.entries[p] = repo.disk[p]
    <3>1. view.entries \in [Paths -> Contained \cup {Unread}]
      BY <1>1 DEF View
    <3>2. view'.entries \in {view.entries, [view.entries EXCEPT ![Path] = repo.disk[Path]]}
      BY <1>1, <1>4 DEF ReadTracked, View
    <3> QED BY <3>1, <3>2
  <2> QED BY <2>1, <2>2, Constants DEF OneRead, AfterStaged, AfterOthers, AfterIgnored
<1>5. CASE ReadStaged
  <2>1. /\ view' = [view EXCEPT
                      !.changed = @ \cup {p \in Paths : repo.index[p] # Tree[view.head][p]}]
        /\ step = "staged" /\ step' = "others"
    BY <1>5 DEF ReadStaged
  <2>2. /\ view'.head = view.head /\ view'.entries = view.entries /\ view'.index = view.index
        /\ view'.changed = view.changed \cup {p \in Paths : repo.index[p] # Tree[view.head][p]}
    BY <1>1, <2>1 DEF View
  <2> QED BY <2>1, <2>2, Constants DEF OneRead, AfterStaged, AfterOthers, AfterIgnored
<1>6. CASE ReadOthers
  <2>1. /\ view' = [view EXCEPT !.others = Untracked(repo)]
        /\ step = "others" /\ step' \in {"listed", "ignored"}
    BY <1>6 DEF ReadOthers, Typed, View, Reader
  <2>2. /\ view'.head = view.head /\ view'.entries = view.entries /\ view'.index = view.index
        /\ view'.changed = view.changed /\ view'.others = Untracked(repo)
    BY <1>1, <2>1 DEF View
  <2> QED BY <2>1, <2>2, Constants DEF OneRead, AfterStaged, AfterOthers, AfterIgnored
<1>7. CASE ReadIgnored
  <2> DEFINE listed == WithUntracked(view, view.others, view.others \ HiddenBy(repo.disk[Ignore]))
             read == [view.entries EXCEPT ![Ignore] = repo.disk[Ignore]]
  <2>1. /\ view' = [view EXCEPT !.entries = read, !.changed = listed] /\ step' = "listed"
        /\ step = "ignored"
    BY <1>1, <1>7 DEF ReadIgnored, Refuse, Begin, Typed, View
  <2>2. /\ view'.head = view.head /\ view'.changed = listed /\ view'.others = view.others
        /\ view'.entries = read /\ view'.index = view.index
    BY <1>1, <2>1 DEF View
  <2>3. view.changed \subseteq listed
    BY DEF WithUntracked
  <2>4. \A p \in Paths : read[p] = view.entries[p] \/ read[p] = repo.disk[p]
    BY <1>1, Constants DEF View
  <2> HIDE DEF listed, read, Goto, Stay
  <2> QED BY <2>1, <2>2, <2>3, <2>4, Constants DEF OneRead, AfterStaged, AfterOthers, AfterIgnored
<1>8. CASE Listed
  <2>1. UNCHANGED view /\ step = "listed" /\ step' = "index"
    BY <1>1, <1>8 DEF Listed, Refuse, Begin
  <2> QED BY <2>1, Constants DEF OneRead, AfterStaged, AfterOthers, AfterIgnored
<1>9. CASE ReadIndex
  <2>1. /\ view' = [view EXCEPT !.index = repo.index, !.staged = repo.index # Tree[view.head]]
        /\ step = "index" /\ step' = "digest"
    BY <1>9 DEF ReadIndex
  <2>2. /\ view'.head = view.head /\ view'.changed = view.changed /\ view'.others = view.others
        /\ view'.entries = view.entries /\ view'.index = repo.index
    BY <1>1, <2>1 DEF View
  <2> QED BY <2>1, <2>2, Constants DEF OneRead, AfterStaged, AfterOthers, AfterIgnored
<1>10. CASE ReadDigest
  <2>1. step = "digest" /\ step' = "digest"
    BY <1>1, <1>10 DEF ReadDigest, Refuse, Begin
  <2>2. /\ view'.head = view.head /\ view'.changed = view.changed /\ view'.others = view.others
        /\ view'.index = view.index
    BY <1>1, <1>10 DEF ReadDigest, Refuse, Begin, View
  <2>3. \A p \in Paths : view'.entries[p] = view.entries[p] \/ view'.entries[p] = repo.disk[p]
    <3>1. view.entries \in [Paths -> Contained \cup {Unread}]
      BY <1>1 DEF View
    <3>2. view'.entries \in {view.entries, [view.entries EXCEPT ![Path] = repo.disk[Path]]}
      BY <1>1, <1>10 DEF ReadDigest, Refuse, Begin, View
    <3> QED BY <3>1, <3>2
  <2> QED BY <2>1, <2>2, <2>3, Constants DEF OneRead, AfterStaged, AfterOthers, AfterIgnored
<1> QED BY <1>2, <1>3, <1>4, <1>5, <1>6, <1>7, <1>8, <1>9, <1>10 DEF Discovery, Digesting

LEMMA WitnessBlind == \A k : k \notin Witness(Blind, "head")
BY BlindTyped DEF Witness, AfterStaged, AfterOthers, AfterIgnored

\* What every step does to what a packet's captures found: a read, the end of
\* a capture, a step of the manifest, a change of others, or nothing.
LEMMA PacketSteps ==
    ASSUME Typed, Typed', Reader, [Next]_vars
    PROVE  /\ Reader' /\ UNCHANGED <<command, approved>>
           /\ \/ /\ Discovery \/ (Digesting /\ ~Captured)
                 /\ pass' \in {pass, "refused"} /\ pass \in {"capture", "recapture"}
                 /\ UNCHANGED <<repo, seen, torn, captured, made>>
              \/ /\ Captured /\ pass = "capture" /\ pass' = "observe" /\ captured' = view
                 /\ step = "digest" /\ ~Left /\ UNCHANGED <<repo, seen, torn, made>>
              \/ /\ Captured /\ pass = "recapture" /\ SameCapture(view) /\ pass' = "written"
                 /\ step = "digest" /\ ~Left /\ UNCHANGED <<repo, seen, torn, captured, made>>
              \/ pass' = "refused"
              \/ /\ Manifest /\ pass = "observe" /\ UNCHANGED <<repo, seen, torn, captured>>
                 /\ \/ pass' = "observe"
                    \/ pass' = "recapture" /\ view' = Blind /\ step' = "head"
              \/ Editor
              \/ UNCHANGED vars
<1>1. Reader' /\ UNCHANGED <<command, approved>>
  BY CommandKept DEF Reader
<1>2. CASE Discovery \/ (Digesting /\ ~Captured)
  <2>1. pass' \in {pass, "refused"} /\ UNCHANGED <<git, results, history>>
    BY <1>2 DEF Discovery, ReadHead, ReadHeadAgain, ReadTracked, ReadStaged, ReadOthers,
       ReadIgnored, Digesting, Listed, ReadIndex, ReadDigest, Goto, Stay, Refuse, Begin
  <2> QED BY <1>1, <1>2, <2>1, OfCommand DEF git, results, history
<1>3. CASE Captured
  <2>1. pass \in {"capture", "recapture"} /\ step = "digest" /\ ~Left
    BY <1>3 DEF Captured, Typed, Position, Reader, DiscoverySteps
  <2>2. UNCHANGED <<repo, seen, torn, made>>
    BY <1>3 DEF Captured, git, history
  <2>3. CASE pass = "capture"
    <3>1. captured' = view /\ pass' = Following
      BY <1>3, <2>3 DEF Captured, Begin
    <3> QED BY <1>1, <1>3, <2>1, <2>2, <2>3, <3>1, NextPass DEF Reader
  <2>4. CASE pass = "recapture" /\ SameCapture(view)
    <3>1. UNCHANGED captured /\ pass' = Following
      BY <1>3, <2>4 DEF Captured, Begin
    <3> QED BY <1>1, <1>3, <2>1, <2>2, <2>4, <3>1, NextPass DEF Reader
  <2>5. CASE pass = "recapture" /\ ~SameCapture(view)
    BY <1>1, <1>3, <2>5 DEF Captured, Refuse, Begin
  <2> QED BY <2>1, <2>3, <2>4, <2>5
<1>4. CASE Manifest
  BY <1>1, <1>4, OfCommand DEF Manifest, ReadLaunchHead, ReadObservedHead, Observe, Observed,
     Goto, Stay, Refuse, Begin, FirstRead, git, history, results
<1> QED BY <1>1, <1>2, <1>3, <1>4, OfCommand DEF Next, Digesting

LEMMA FoundsStep ==
    ASSUME Typed, Typed', Founds, [Next]_vars
    PROVE  Founds'
<1>1. SUFFICES ASSUME Reader', Reader PROVE Founds'
  BY CommandKept DEF Founds, Reader
<1>2. ASSUME UNCHANGED <<repo, seen>>
      PROVE  \A k : Had(k)' <=> Had(k)
  BY <1>2 DEF Had
<1>3. CASE /\ Discovery \/ (Digesting /\ ~Captured)
           /\ pass' \in {pass, "refused"} /\ pass \in {"capture", "recapture"}
           /\ UNCHANGED <<repo, seen, captured>>
  <2>1. pass' = pass => \A k \in Witness(view', step') : Had(k)'
    BY <1>1, <1>2, <1>3, ReadsHold, HeldWasHad DEF Founds
  <2>2. Kept' => \A k \in Witness(captured', "digest") : Had(k)'
    BY <1>1, <1>2, <1>3 DEF Founds, Kept
  <2> QED BY <1>3, <2>1, <2>2 DEF Founds
<1>4. CASE /\ Captured /\ pass = "capture" /\ pass' = "observe" /\ captured' = view
           /\ step = "digest" /\ UNCHANGED <<repo, seen>>
  BY <1>1, <1>2, <1>4 DEF Founds
<1>5. CASE /\ Kept /\ pass' \in {"observe", "written"} /\ UNCHANGED <<repo, seen, captured>>
  BY <1>1, <1>2, <1>5 DEF Founds
<1>6. CASE /\ Kept /\ pass' = "recapture" /\ view' = Blind /\ step' = "head"
           /\ UNCHANGED <<repo, seen, captured>>
  <2>1. \A k : k \notin Witness(view', step')
    BY <1>6, WitnessBlind
  <2> QED BY <1>1, <1>2, <1>6, <2>1 DEF Founds
<1>7. CASE pass' = "refused"
  BY <1>7 DEF Founds, Kept
<1>8. CASE Editor
  BY <1>1, <1>8, EditorUntorn DEF Founds, Kept
<1>9. CASE UNCHANGED vars
  BY <1>1, <1>9 DEF Founds, Kept, Had, vars, progress, git, results, history
<1> QED BY <1>1, <1>3, <1>4, <1>5, <1>6, <1>7, <1>8, <1>9, PacketSteps DEF Kept

LEMMA IgnoreStaysStep ==
    ASSUME Typed, Typed', IgnoreStays, [Next]_vars
    PROVE  IgnoreStays'
<1>1. CASE Editor
  BY <1>1, EditorUntorn DEF IgnoreStays
<1>2. CASE UNCHANGED <<repo, seen, torn>>
  BY <1>2 DEF IgnoreStays
<1>3. Editor \/ UNCHANGED <<repo, seen, torn>>
  BY DEF Next, vars, history, git, Discovery, ReadHead, ReadHeadAgain, ReadTracked,
     ReadStaged, ReadOthers, ReadIgnored, Digesting, Listed, ReadIndex, ReadDigest, Captured,
     Manifest, ReadLaunchHead, ReadObservedHead, Observe, Observed, Fingerprinting,
     PrintDirectory, PrintNames, PrintHead, PrintIndex, PrintFile, Printed, Copying,
     CopyFile, CopyPhase, CopyOn, Copied
<1> QED BY <1>1, <1>2, <1>3

\* The view lost the committed index entry of q.
Loses(v, q) ==
    /\ q \notin v.changed
    /\ \/ v.index[q] \notin {Unread, Tree[v.head][q]}
       \/ q = Ignore /\ q \notin InTree(v.head) /\ v.entries[q] \notin {Unread, None}

LEMMA LostForms ==
    ASSUME NEW v
    PROVE  /\ \A k \in Lost(v) : \E q \in Paths : Loses(v, q) /\ k = <<q, "index", Tree[v.head][q]>>
           /\ \A q \in Paths : Loses(v, q) => <<q, "index", Tree[v.head][q]>> \in Lost(v)
BY DEF Lost, Loses

LEMMA GoneKept ==
    ASSUME UNCHANGED <<repo, seen>>
    PROVE  \A k : Gone(k)' <=> Gone(k)
BY DEF Gone, Had, Holds, Untracked

LEMMA GoneByEditor ==
    ASSUME Typed, Editor, ~torn'
    PROVE  \A k : Gone(k) => Gone(k)'
BY EditorUntorn DEF Gone

\* What was found as committed and is not so any more is gone.
LEMMA GoneWhenFound ==
    ASSUME Founds, Reader, pass \in {"capture", "recapture"},
           NEW k \in Witness(view, step), k \notin Holds(repo)
    PROVE  Gone(k)
BY DEF Founds, Gone

LEMMA ViewLostStep ==
    ASSUME Typed, Typed', ViewReads, Founds, ViewLost, [Next]_vars
    PROVE  ViewLost'
<1>1. SUFFICES ASSUME Reader', Reader, ~torn', pass' \in {"capture", "recapture"}
               PROVE  ViewLost'
  BY CommandKept DEF ViewLost, Reader
<1>2. CASE Editor
  <2>1. UNCHANGED <<pass, step, view>> /\ ~torn
        /\ (repo.disk[Ignore] = None => repo'.disk[Ignore] = None)
    BY <1>1, <1>2, EditorUntorn
  <2>2. Lost(view)' = Lost(view)
    BY <2>1 DEF Lost, InTree
  <2>3. \A k : Gone(k) => Gone(k)'
    BY <1>1, <1>2, GoneByEditor
  <2>4. /\ step = "ignored" =>
             \/ Ignore \in InTree(view.head) \cup view.changed \cup view.others
             \/ Gone(<<Ignore, "index", None>>) \/ repo.disk[Ignore] = None
        /\ step \in AfterIgnored => \A k \in Lost(view) : Gone(k)
    BY <1>1, <2>1 DEF ViewLost
  <2> QED BY <2>1, <2>2, <2>3, <2>4 DEF ViewLost
<1>3. CASE UNCHANGED vars
  <2>1. UNCHANGED <<repo, seen, torn, pass, step, view, command>>
    BY <1>3 DEF vars, git, progress, history
  <2>2. \A k : Gone(k)' <=> Gone(k)
    BY <2>1, GoneKept
  <2>3. Lost(view)' = Lost(view)
    BY <2>1 DEF Lost, InTree
  <2> QED BY <2>1, <2>2, <2>3 DEF ViewLost, Reader
<1>4. CASE view' = Blind /\ step' = "head"
  BY <1>4 DEF ViewLost, AfterIgnored
<1>5. ASSUME Discovery \/ (Digesting /\ ~Captured), pass' = pass, pass \in {"capture", "recapture"},
             UNCHANGED <<repo, seen, torn>>
      PROVE  ViewLost'
  <2>1. \A k : Gone(k)' <=> Gone(k)
    BY <1>5, GoneKept
  <2>2. /\ step = "ignored" =>
             \/ Ignore \in InTree(view.head) \cup view.changed \cup view.others
             \/ Gone(<<Ignore, "index", None>>) \/ repo.disk[Ignore] = None
        /\ step \in AfterIgnored => \A k \in Lost(view) : Gone(k)
        /\ step # "head" => Read(view, step)
        /\ ReadSoFar(view)
        /\ view \in View
    BY <1>1, <1>5 DEF ViewLost, ViewReads, Typed
  <2>3. CASE step' \notin {"ignored"} \cup AfterIgnored
    BY <2>3 DEF ViewLost
  <2>4. CASE ReadOthers
    <3>1. /\ view' = [view EXCEPT !.others = Untracked(repo)] /\ step = "others"
          /\ step' \in {"ignored", "listed"} /\ view'.head = view.head
          /\ view'.changed = view.changed /\ view'.others = Untracked(repo)
          /\ view'.index = view.index /\ view'.entries = view.entries
      BY <1>1, <2>2, <2>4 DEF ReadOthers, View, Goto
    <3>2. ASSUME Ignore \notin InTree(view.head) \cup view.changed \cup Untracked(repo)
          PROVE  Gone(<<Ignore, "index", None>>) \/ repo.disk[Ignore] = None
      <4>1. Tree[view.head][Ignore] = None
        BY <3>2, Constants DEF InTree
      <4>2. <<Ignore, "index", None>> \in Witness(view, step)
        <5>1. step \in AfterStaged /\ Ignore \in Paths \ view.changed
          BY <3>1, <3>2, Constants DEF AfterStaged
        <5> QED BY <4>1, <5>1, WitnessIndex
      <4>3. repo.disk[Ignore] # None => repo.index[Ignore] # None
        BY <3>2, Constants DEF Untracked
      <4> QED BY <1>1, <1>5, <4>2, <4>3, GoneWhenFound, HoldsItem, Constants
    <3>3. \A q \in Paths : ~Loses(view', q)
      <4>1. \A q \in Paths : view.index[q] = Unread
        BY <2>2, <3>1, BlindTyped DEF ReadSoFar
      <4>2. view.entries[Ignore] # Unread => Ignore \in InTree(view.head)
        BY <2>2, <3>1, Constants DEF Read, AfterIgnored
      <4> QED BY <3>1, <4>1, <4>2 DEF Loses
    <3>4. \A k : k \notin Lost(view')
      BY <3>3, LostForms
    <3> QED BY <1>5, <2>1, <3>1, <3>2, <3>4 DEF ViewLost
  <2>5. CASE ReadIgnored
    <3> DEFINE listed == WithUntracked(view, view.others, view.others \ HiddenBy(repo.disk[Ignore]))
               read == [view.entries EXCEPT ![Ignore] = repo.disk[Ignore]]
    <3>1. /\ step' = "listed" /\ step = "ignored"
          /\ view'.head = view.head /\ view'.changed = listed /\ view'.index = view.index
          /\ view'.entries[Ignore] = repo.disk[Ignore]
      <4>1. /\ view' = [view EXCEPT !.entries = read, !.changed = listed] /\ step' = "listed"
            /\ step = "ignored"
        BY <1>1, <1>5, <2>2, <2>5 DEF ReadIgnored, Refuse, Begin, View, Goto
      <4>2. read[Ignore] = repo.disk[Ignore]
        BY <2>2, Constants DEF View
      <4> HIDE DEF read, listed
      <4> QED BY <2>2, <4>1, <4>2 DEF View
    <3>2. view.changed \subseteq listed
          /\ (Ignore \in view.others \ InTree(view.head) => Ignore \in listed)
      BY DEF WithUntracked
    <3>3. ASSUME NEW q \in Paths, Loses(view', q)
          PROVE  Gone(<<q, "index", Tree[view.head][q]>>)
      <4>1. view.index[q] = Unread
        BY <2>2, <3>1, BlindTyped DEF ReadSoFar
      <4>2. q = Ignore /\ q \notin InTree(view.head) /\ repo.disk[q] # None /\ q \notin listed
        BY <3>1, <3>3, <4>1 DEF Loses
      <4>3. Tree[view.head][q] = None
        BY <4>2 DEF InTree
      <4> QED BY <2>2, <3>1, <3>2, <4>2, <4>3
    <3>4. \A k \in Lost(view') : Gone(k)
      BY <3>1, <3>3, LostForms
    <3> QED BY <2>1, <3>1, <3>4 DEF ViewLost
  <2>6. CASE Listed
    <3>1. UNCHANGED view /\ step = "listed" /\ step' = "index"
      BY <1>1, <1>5, <2>6 DEF Listed, Refuse, Begin, Goto
    <3> QED BY <2>1, <2>2, <3>1 DEF ViewLost, AfterIgnored
  <2>7. CASE ReadIndex
    <3>1. /\ step = "index" /\ step' = "digest"
          /\ view'.head = view.head /\ view'.changed = view.changed
          /\ view'.entries = view.entries /\ view'.index = repo.index
      BY <2>2, <2>7 DEF ReadIndex, Goto, View
    <3>2. ASSUME NEW q \in Paths, Loses(view', q)
          PROVE  Gone(<<q, "index", Tree[view.head][q]>>)
      <4>1. CASE repo.index[q] # Tree[view.head][q]
        <5>1. <<q, "index", Tree[view.head][q]>> \in Witness(view, step)
          <6>1. step \in AfterStaged /\ q \in Paths \ view.changed
            BY <3>1, <3>2 DEF Loses, AfterStaged, AfterOthers, AfterIgnored
          <6> QED BY <6>1, WitnessIndex
        <5> QED BY <1>1, <1>5, <4>1, <5>1, GoneWhenFound, HoldsItem, ZenonT(30)
      <4>2. CASE repo.index[q] = Tree[view.head][q]
        <5>1. Loses(view, q)
          BY <3>1, <3>2, <4>2 DEF Loses
        <5> QED BY <2>2, <3>1, <5>1, LostForms DEF AfterIgnored
      <4> QED BY <4>1, <4>2
    <3>3. \A k \in Lost(view') : Gone(k)
      BY <3>1, <3>2, LostForms
    <3> QED BY <2>1, <3>1, <3>3 DEF ViewLost
  <2>8. CASE ReadDigest
    <3>1. /\ step = "digest" /\ step' = "digest"
          /\ view'.head = view.head /\ view'.changed = view.changed /\ view'.index = view.index
          /\ \A q \in Paths \ view.changed : view'.entries[q] = view.entries[q]
      <4>1. step = "digest" /\ step' = "digest"
            /\ view'.head = view.head /\ view'.changed = view.changed /\ view'.index = view.index
        BY <1>1, <1>5, <2>2, <2>8 DEF ReadDigest, Refuse, Begin, Stay, View
      <4>2. CASE Path \notin view.changed
        BY <2>8, <4>1, <4>2 DEF ReadDigest
      <4>3. CASE Path \in view.changed
        <5>1. view'.entries = [view.entries EXCEPT ![Path] = repo.disk[Path]]
          BY <1>1, <1>5, <2>2, <2>8, <4>3 DEF ReadDigest, Refuse, Begin, Stay, View
        <5> QED BY <2>2, <4>1, <4>3, <5>1 DEF View
      <4> QED BY <4>1, <4>2, <4>3
    <3>2. \A q \in Paths : Loses(view', q) => Loses(view, q)
      BY <3>1 DEF Loses
    <3>3. \A k \in Lost(view') : Gone(k)
      BY <2>2, <3>1, <3>2, LostForms DEF AfterIgnored
    <3> QED BY <2>1, <3>1, <3>3 DEF ViewLost
  <2>9. CASE ReadHead \/ ReadHeadAgain \/ ReadTracked \/ ReadStaged
    <3>1. step' \in {"headAgain", "tracked", "staged", "others"}
      BY <1>1, <1>5, <2>9 DEF ReadHead, ReadHeadAgain, ReadTracked, ReadStaged, Goto, Stay,
         Refuse, Begin
    <3> QED BY <2>3, <3>1 DEF AfterIgnored
  <2> QED BY <1>5, <2>4, <2>5, <2>6, <2>7, <2>8, <2>9 DEF Discovery, Digesting
<1> QED BY <1>1, <1>2, <1>3, <1>4, <1>5, PacketSteps

LEMMA AnchoredStep ==
    ASSUME Typed, Typed', Founds, ViewLost, Anchored, [Next]_vars
    PROVE  Anchored'
<1>1. SUFFICES ASSUME Reader', Reader, ~torn', pass' \in {"observe", "recapture"}
               PROVE  Anchored'
  BY CommandKept DEF Anchored, Reader
<1>2. CASE Captured /\ pass = "capture" /\ pass' = "observe" /\ captured' = view
           /\ step = "digest" /\ UNCHANGED <<repo, seen, torn>>
  <2>1. \A k : Gone(k)' <=> Gone(k)
    BY <1>2, GoneKept
  <2>2. PICK r : r = repo
    OBVIOUS
  <2>5. r \in seen' /\ Anchor(r)'
    BY <1>2, <2>2 DEF Anchor, Typed, Holds, Untracked
  <2>3. \A k \in Lost(view) : Gone(k)
    BY <1>1, <1>2 DEF ViewLost, AfterIgnored
  <2>4. Lost(captured)' = Lost(view)
    BY <1>2 DEF Lost, InTree
  <2> QED BY <1>2, <2>1, <2>3, <2>4, <2>5 DEF Anchored
<1>3. ASSUME pass \in {"observe", "recapture"}, UNCHANGED <<repo, seen, torn, captured>>,
             pass' = "recapture" => \A k \in Witness(view', step') :
                (pass = "recapture" /\ k \in Witness(view, step)) \/ k \in Holds(repo)
      PROVE  Anchored'
  <2>1. \A k : Gone(k)' <=> Gone(k)
    BY <1>3, GoneKept
  <2>2. PICK r \in seen : Anchor(r)
    BY <1>1, <1>3 DEF Anchored
  <2>3. \A k \in Witness(captured, "digest") :
           \/ k \in Holds(r)
           \/ k \notin Holds(repo) /\ (pass = "recapture" => k \notin Witness(view, step))
    BY <2>2 DEF Anchor
  <2>4. \A k \in Witness(captured, "digest") :
           \/ k \in Holds(r)
           \/ k \notin Holds(repo) /\ (pass' = "recapture" => k \notin Witness(view', step'))
    BY <1>3, <2>3
  <2>5. Anchor(r)'
    BY <1>3, <2>4 DEF Anchor
  <2>6. Lost(captured)' = Lost(captured)
    BY <1>3 DEF Lost, InTree
  <2>7. \A k \in Lost(captured) :
           Gone(k) /\ (pass = "recapture" => k \notin Witness(view, step))
    BY <1>1, <1>3 DEF Anchored
  <2>8. \A k \in Lost(captured) : Gone(k) /\ (pass' = "recapture" => k \notin Witness(view', step'))
    BY <1>3, <2>7 DEF Gone
  <2>9. \A k \in Lost(captured)' :
           Gone(k)' /\ (pass' = "recapture" => k \notin Witness(view', step'))
    BY <2>1, <2>6, <2>8
  <2> QED BY <1>3, <2>5, <2>9 DEF Anchored
<1>4. CASE Editor
  <2>1. /\ UNCHANGED <<pass, step, view, captured>> /\ seen \subseteq seen' /\ ~torn
        /\ \A k : Had(k) /\ k \notin Holds(repo) => k \notin Holds(repo)'
    BY <1>1, <1>4, EditorUntorn
  <2>2. PICK r \in seen : Anchor(r)
    BY <1>1, <2>1 DEF Anchored
  <2>3. \A k \in Witness(captured, "digest") :
           \/ k \in Holds(r)
           \/ k \notin Holds(repo) /\ (pass = "recapture" => k \notin Witness(view, step))
    BY <2>2 DEF Anchor
  <2>4. \A k \in Witness(captured, "digest") : Had(k)
    BY <1>1, <2>1 DEF Founds, Kept
  <2>5. \A k \in Witness(captured, "digest") :
           \/ k \in Holds(r)
           \/ k \notin Holds(repo)' /\ (pass = "recapture" => k \notin Witness(view, step))
    BY <2>1, <2>3, <2>4
  <2>6. Anchor(r)'
    BY <2>1, <2>5 DEF Anchor, Holds
  <2>7. Lost(captured)' = Lost(captured)
    BY <2>1 DEF Lost, InTree
  <2>8. \A k : Gone(k) => Gone(k)'
    BY <1>1, <1>4, GoneByEditor
  <2>9. \A k \in Lost(captured) :
           Gone(k) /\ (pass = "recapture" => k \notin Witness(view, step))
    BY <1>1, <2>1 DEF Anchored
  <2>10. \A k \in Lost(captured)' :
           Gone(k)' /\ (pass' = "recapture" => k \notin Witness(view', step'))
    BY <2>1, <2>7, <2>8, <2>9
  <2> QED BY <2>1, <2>6, <2>10 DEF Anchored
<1>5. CASE UNCHANGED vars
  <2>1. UNCHANGED <<repo, seen, torn, captured, pass, step, view>>
    BY <1>5 DEF vars, git, progress, history, results
  <2> QED BY <1>1, <1>3, <2>1
<1>6. CASE /\ Discovery \/ (Digesting /\ ~Captured)
           /\ pass' \in {pass, "refused"} /\ pass \in {"capture", "recapture"}
           /\ UNCHANGED <<repo, seen, torn, captured>>
  <2>1. pass = "recapture" /\ pass' = pass
    BY <1>1, <1>6
  <2>2. \A k \in Witness(view', step') : k \in Witness(view, step) \/ k \in Holds(repo)
    BY <1>1, <1>6, <2>1, ReadsHold
  <2> QED BY <1>3, <1>6, <2>1, <2>2
<1>7. CASE /\ pass = "observe" /\ UNCHANGED <<repo, seen, torn, captured>>
           /\ \/ pass' = "observe"
              \/ pass' = "recapture" /\ view' = Blind /\ step' = "head"
  BY <1>3, <1>7, WitnessBlind
<1> QED BY <1>1, <1>2, <1>4, <1>5, <1>6, <1>7, PacketSteps

\* A read leaves path p a reason to be listed.
LEMMA ReasonKept ==
    ASSUME Typed, NEW p \in Paths, Reason(p), UNCHANGED <<repo, seen, captured>>,
           view'.head = view.head, view.changed \subseteq view'.changed,
           view.entries[p] # Unread => view'.entries[p] = view.entries[p],
           view'.index[p] = view.index[p] \/ view'.index[p] = repo.index[p],
           step \in AfterIgnored =>
              /\ step' \in AfterIgnored /\ view'.others = view.others
              /\ view'.entries[Ignore] = view.entries[Ignore] \/ Ignore \in view'.changed
    PROVE  Reason(p)'
<1>1. CASE p \in InTree(view.head) /\ view.entries[p] \notin {Unread, Tree[view.head][p]}
  BY <1>1 DEF Reason, InTree
<1>2. CASE captured.index[p] # Tree[view.head][p]
  BY <1>2 DEF Reason
<1>3. CASE Gone(<<p, "index", Tree[view.head][p]>>) /\ view.index[p] # Tree[view.head][p]
  <2>1. Gone(<<p, "index", Tree[view.head][p]>>)'
    BY <1>3, GoneKept DEF Gone, Had, Holds, Untracked
  <2>2. repo.index[p] # Tree[view.head][p]
    BY <1>3, HoldsItem DEF Gone
  <2> QED BY <1>3, <2>1, <2>2 DEF Reason
<1>4. CASE /\ step \in AfterIgnored /\ p \in view.others \ InTree(view.head)
           /\ Ignore \in view.changed \/ p \notin HiddenBy(view.entries[Ignore])
  BY <1>4 DEF Reason, InTree
<1> QED BY <1>1, <1>2, <1>3, <1>4 DEF Reason

LEMMA ReasonsRead ==
    ASSUME Typed, Typed', Reader, ViewReads, KeptReads, Founds, Reasons, ~torn,
           Discovery \/ (Digesting /\ ~Captured), pass = "recapture", pass' = "recapture",
           UNCHANGED <<repo, seen, torn, captured, command>>, view'.head = captured.head
    PROVE  Reasons'
<1> USE DEF Goto, Stay
<1>1. view \in View /\ view' \in View /\ captured \in View
  BY DEF Typed
<1>2. ReadSoFar(view) /\ (step # "head" => Read(view, step))
  BY DEF ViewReads
<1>3. /\ repo.index \in [Paths -> Contained] /\ repo.disk \in [Paths -> Contained]
      /\ repo.head \in Commits
  BY RepoTyped
<1>4. \A k \in Witness(captured, "digest") : k \notin Holds(repo) => Gone(k)
  BY DEF Founds, Kept, Gone
<1>5. \A k : Gone(k)' <=> Gone(k)
  BY GoneKept
<1>6. CASE ReadHead
  <2>1. view = Blind /\ view' = [view EXCEPT !.head = repo.head] /\ step' = "tracked"
    BY <1>6 DEF ReadHead, Typed
  <2>2. view'.changed = {}
    BY <2>1 DEF Blind
  <2> QED BY <2>1, <2>2 DEF Reasons, AfterOthers, AfterIgnored
<1>7. CASE ReadHeadAgain
  BY <1>7 DEF ReadHeadAgain, Typed, Position, DiscoverySteps
<1>8. ASSUME step # "head", view'.head = view.head
      PROVE  \A p \in view.changed : p \in Paths /\ Reason(p)
  BY <1>1, <1>8 DEF Reasons, View
<1>9. CASE ReadTracked
  <2>1. /\ step = "tracked" /\ step' \in {"tracked", "staged"}
        /\ view'.head = view.head /\ view'.index = view.index /\ view'.others = view.others
    BY <1>1, <1>9 DEF ReadTracked, View
  <2>2. CASE view' = view
    <3>1. \A p \in view.changed : Reason(p)'
      BY <1>8, <2>1, <2>2, ReasonKept DEF AfterIgnored
    <3> QED BY <2>1, <2>2, <3>1 DEF Reasons, AfterOthers, AfterIgnored
  <2>3. CASE view' # view
    <3>1. /\ Left /\ Path \in InTree(view.head)
          /\ view' = [view EXCEPT
                        !.entries[Path] = repo.disk[Path],
                        !.changed = IF repo.disk[Path] # Tree[view.head][Path]
                                    THEN @ \cup {Path} ELSE @]
      BY <1>9, <2>3 DEF ReadTracked
    <3>2. /\ view'.entries = [view.entries EXCEPT ![Path] = repo.disk[Path]]
          /\ view'.changed = IF repo.disk[Path] # Tree[view.head][Path]
                             THEN view.changed \cup {Path} ELSE view.changed
      BY <1>1, <3>1 DEF View
    <3>3. Path \in Paths /\ Path \notin view.changed
      BY <1>2, <2>1, <3>1, NextPath DEF ReadSoFar, Typed
    <3>4. \A p \in view.changed : Reason(p)'
      <4>1. \A p \in view.changed : view'.entries[p] = view.entries[p]
        BY <1>1, <3>2, <3>3 DEF View
      <4>2. view.changed \subseteq view'.changed
        BY <3>2
      <4> QED BY <1>8, <2>1, <4>1, <4>2, ReasonKept DEF AfterIgnored
    <3>5. ASSUME NEW q \in view'.changed, q \notin view.changed
          PROVE  Reason(q)'
      <4>1. q = Path /\ repo.disk[q] # Tree[view.head][q]
        BY <3>2, <3>5
      <4>2. view'.entries[q] = repo.disk[q] /\ repo.disk[q] # Unread
        BY <1>1, <1>3, <3>2, <3>3, <4>1, Constants DEF View
      <4> QED BY <2>1, <3>1, <4>1, <4>2 DEF Reason, InTree
    <3> QED BY <2>1, <3>4, <3>5 DEF Reasons, AfterOthers, AfterIgnored
  <2> QED BY <2>2, <2>3
<1>10. CASE ReadStaged
  <2>1. /\ view' = [view EXCEPT
                      !.changed = @ \cup {p \in Paths : repo.index[p] # Tree[view.head][p]}]
        /\ step = "staged" /\ step' = "others"
    BY <1>10 DEF ReadStaged
  <2>2. /\ view'.head = view.head /\ view'.entries = view.entries /\ view'.index = view.index
        /\ view'.changed = view.changed \cup {p \in Paths : repo.index[p] # Tree[view.head][p]}
        /\ view'.others = view.others
    BY <1>1, <2>1 DEF View
  <2>3. \A p \in view.changed : Reason(p)'
    BY <1>8, <2>1, <2>2, ReasonKept DEF AfterIgnored
  <2>4. ASSUME NEW p \in Paths, repo.index[p] # Tree[view.head][p]
        PROVE  Reason(p)'
    <3>1. CASE captured.index[p] # Tree[view.head][p]
      BY <2>2, <3>1 DEF Reason
    <3>2. CASE captured.index[p] = Tree[view.head][p]
      <4>1. captured.index[p] # Unread
        BY Constants DEF KeptReads, Kept
      <4>2. PICK k : k = <<p, "index", Tree[view.head][p]>>
        OBVIOUS
      <4>3. k \in Witness(captured, "digest")
        BY <3>2, <4>1, <4>2 DEF Witness
      <4>4. k \notin Holds(repo)
        BY <2>4, <4>2 DEF Holds
      <4>5. Gone(k)'
        BY <1>4, <1>5, <4>3, <4>4
      <4>6. Gone(<<p, "index", Tree[view.head][p]>>)'
        BY <2>2, <4>2, <4>5
      <4>7. view'.index[p] = Unread
        BY <1>2, <2>1, <2>2, BlindTyped DEF ReadSoFar
      <4> QED BY <2>2, <3>2, <4>1, <4>6, <4>7 DEF Reason
    <3> QED BY <3>1, <3>2
  <2>5. \A p \in view'.changed : Reason(p)'
    BY <2>2, <2>3, <2>4
  <2>6. step' \in AfterOthers => FALSE
    BY <2>1 DEF AfterOthers, AfterIgnored
  <2> QED BY <2>5, <2>6 DEF Reasons
<1>11. CASE ReadOthers
  <2>1. /\ view' = [view EXCEPT !.others = Untracked(repo)]
        /\ step = "others" /\ step' \in {"listed", "ignored"}
    BY <1>1, <1>11 DEF ReadOthers, View, Reader
  <2>2. /\ view'.head = view.head /\ view'.entries = view.entries /\ view'.index = view.index
        /\ view'.changed = view.changed /\ view'.others = Untracked(repo)
    BY <1>1, <2>1 DEF View
  <2>3. \A p \in view.changed : Reason(p)'
    BY <1>8, <2>1, <2>2, ReasonKept DEF AfterIgnored
  <2>4. ASSUME NEW p \in Untracked(repo) \ InTree(view.head), captured.entries[p] = None
        PROVE  Gone(<<p, "disk", None>>)' /\ view'.entries[p] # None
    <3>1. p \in Paths /\ repo.disk[p] # None
      BY <2>4 DEF Untracked
    <3>2. <<p, "disk", None>> \in Witness(captured, "digest")
      BY <2>4, <3>1, Constants DEF Witness
    <3>3. Gone(<<p, "disk", None>>)'
      BY <1>4, <1>5, <3>1, <3>2, HoldsItem
    <3>4. view.entries[p] = Unread
      BY <1>2, <2>1, <2>4, <3>1 DEF Read, AfterIgnored
    <3> QED BY <2>2, <3>3, <3>4, Constants
  <2>5. \A p \in view'.others \ InTree(view'.head) :
           \/ captured'.entries[p] # None
           \/ Gone(<<p, "disk", None>>)' /\ view'.entries[p] # None
    BY <2>2, <2>4
  <2> QED BY <2>2, <2>3, <2>5 DEF Reasons, InTree
<1>12. ASSUME step \in AfterOthers, view'.head = view.head, view'.others = view.others,
              \A p \in Paths : view'.entries[p] = view.entries[p] \/ view'.entries[p] = repo.disk[p]
       PROVE  \A p \in view'.others \ InTree(view'.head) :
                 \/ captured'.entries[p] # None
                 \/ Gone(<<p, "disk", None>>)' /\ view'.entries[p] # None
  <2>1. SUFFICES ASSUME NEW p \in view.others \ InTree(view.head), captured.entries[p] = None
                 PROVE  Gone(<<p, "disk", None>>)' /\ view'.entries[p] # None
    BY <1>12
  <2>2. Gone(<<p, "disk", None>>) /\ view.entries[p] # None
    BY <1>12, <2>1 DEF Reasons
  <2>3. p \in Paths
    BY <1>1 DEF View
  <2>4. repo.disk[p] # None
    BY <2>2, <2>3, HoldsItem DEF Gone
  <2> QED BY <1>5, <1>12, <2>2, <2>3, <2>4
<1>13. CASE ReadIgnored
  <2> DEFINE listed == WithUntracked(view, view.others, view.others \ HiddenBy(repo.disk[Ignore]))
             read == [view.entries EXCEPT ![Ignore] = repo.disk[Ignore]]
  <2>1. /\ view' = [view EXCEPT !.entries = read, !.changed = listed]
        /\ step = "ignored" /\ step' = "listed" /\ Consistent(Ignore)
    BY <1>1, <1>13 DEF ReadIgnored, Refuse, Begin, View
  <2>2. /\ view.changed \subseteq listed
        /\ \A p \in listed \ view.changed :
              /\ p \in view.others \ InTree(view.head)
              /\ Ignore \in listed \/ p \notin HiddenBy(repo.disk[Ignore])
    BY DEF WithUntracked
  <2>3. /\ read[Ignore] = repo.disk[Ignore]
        /\ \A p \in Paths : read[p] = view.entries[p] \/ read[p] = repo.disk[p]
        /\ \A p \in Paths : view.entries[p] # Unread => read[p] = view.entries[p]
    BY <1>1, <2>1, Constants DEF View, Consistent
  <2> HIDE DEF listed, read, Goto, Stay
  <2>4. /\ view'.head = view.head /\ view'.changed = listed /\ view'.others = view.others
        /\ view'.entries = read /\ view'.index = view.index
    BY <1>1, <2>1 DEF View
  <2>5. \A p \in view.changed : Reason(p)'
    BY <1>8, <2>1, <2>2, <2>3, <2>4, ReasonKept DEF AfterIgnored
  <2>6. ASSUME NEW p \in listed, p \notin view.changed
        PROVE  Reason(p)'
    BY <2>1, <2>2, <2>3, <2>4, <2>6 DEF Reason, AfterIgnored, InTree
  <2> QED BY <1>12, <2>1, <2>3, <2>4, <2>5, <2>6 DEF Reasons, InTree, AfterOthers
<1>14. ASSUME step \in AfterIgnored, step' \in AfterIgnored,
              view'.head = view.head, view'.others = view.others, view'.changed = view.changed,
              \A p \in Paths : view'.entries[p] = view.entries[p] \/ view'.entries[p] = repo.disk[p],
              \A p \in Paths : view.entries[p] # Unread => view'.entries[p] = view.entries[p],
              view'.entries[Ignore] = view.entries[Ignore] \/ Ignore \in view.changed,
              \A p \in Paths : view'.index[p] = view.index[p] \/ view'.index[p] = repo.index[p]
       PROVE  Reasons'
  <2>1. \A p \in view.changed : Reason(p)'
    <3>1. step # "head"
      BY <1>14 DEF AfterIgnored
    <3> QED BY <1>8, <1>14, <3>1, ReasonKept
  <2>2. step \in AfterOthers
    BY <1>14 DEF AfterOthers
  <2> QED BY <1>12, <1>14, <2>1, <2>2 DEF Reasons, InTree
<1>15. CASE Listed
  <2>1. UNCHANGED view /\ step = "listed" /\ step' = "index"
    BY <1>15 DEF Listed, Refuse, Begin
  <2> QED BY <1>14, <2>1 DEF AfterIgnored
<1>16. CASE ReadIndex
  <2>1. /\ view' = [view EXCEPT !.index = repo.index, !.staged = repo.index # Tree[view.head]]
        /\ step = "index" /\ step' = "digest"
    BY <1>16 DEF ReadIndex
  <2>2. /\ view'.head = view.head /\ view'.changed = view.changed /\ view'.others = view.others
        /\ view'.entries = view.entries /\ view'.index = repo.index
    BY <1>1, <2>1 DEF View
  <2> QED BY <1>14, <2>1, <2>2 DEF AfterIgnored
<1>17. CASE ReadDigest
  <2>1. /\ step = "digest" /\ step' = "digest" /\ Left
        /\ view'.head = view.head /\ view'.changed = view.changed /\ view'.others = view.others
        /\ view'.index = view.index
    BY <1>1, <1>17 DEF ReadDigest, Refuse, Begin, View
  <2>2. CASE Path \notin view.changed
    <3>1. view' = view
      BY <1>17, <2>2 DEF ReadDigest
    <3> QED BY <1>14, <2>1, <3>1 DEF AfterIgnored
  <2>3. CASE Path \in view.changed
    <3>1. Consistent(Path) /\ view'.entries = [view.entries EXCEPT ![Path] = repo.disk[Path]]
      BY <1>1, <1>17, <2>3 DEF ReadDigest, Refuse, Begin, View
    <3>2. /\ \A p \in Paths : view'.entries[p] = view.entries[p] \/ view'.entries[p] = repo.disk[p]
          /\ \A p \in Paths : view.entries[p] # Unread => view'.entries[p] = view.entries[p]
          /\ view'.entries[Ignore] = view.entries[Ignore] \/ Ignore \in view.changed
      BY <1>1, <2>3, <3>1, Constants DEF View, Consistent
    <3> QED BY <1>14, <2>1, <3>2 DEF AfterIgnored
  <2> QED BY <2>2, <2>3
<1> QED BY <1>6, <1>7, <1>9, <1>10, <1>11, <1>13, <1>15, <1>16, <1>17 DEF Discovery, Digesting

LEMMA ReasonsStep ==
    ASSUME Typed, Typed', ViewReads, KeptReads, Founds, Reasons, [Next]_vars
    PROVE  Reasons'
<1>1. SUFFICES ASSUME Reader', Reader, ~torn', pass' = "recapture", view'.head = captured'.head
               PROVE  Reasons'
  BY CommandKept DEF Reasons, Reader
<1>2. CASE Editor
  <2>1. UNCHANGED <<pass, step, view, captured>> /\ ~torn
    BY <1>1, <1>2, EditorUntorn
  <2>2. \A k : Gone(k) => Gone(k)'
    BY <1>1, <1>2, GoneByEditor
  <2>3. /\ \A p \in view.changed : Reason(p)
        /\ step \in AfterOthers => \A p \in view.others \ InTree(view.head) :
             \/ captured.entries[p] # None
             \/ Gone(<<p, "disk", None>>) /\ view.entries[p] # None
    BY <1>1, <2>1 DEF Reasons
  <2>4. \A p : Reason(p) => Reason(p)'
    BY <2>1, <2>2 DEF Reason, InTree
  <2> QED BY <2>1, <2>2, <2>3, <2>4 DEF Reasons, InTree
<1>3. CASE UNCHANGED vars
  <2>1. UNCHANGED <<repo, seen, torn, captured, pass, step, view, command>>
    BY <1>3 DEF vars, git, progress, history, results
  <2>2. \A k : Gone(k)' <=> Gone(k)
    BY <2>1, GoneKept
  <2>3. \A p : Reason(p) => Reason(p)'
    BY <2>1, <2>2 DEF Reason, InTree
  <2> QED BY <1>1, <2>1, <2>2, <2>3 DEF Reasons, InTree
<1>4. CASE view' = Blind /\ step' = "head"
  BY <1>4 DEF Reasons, AfterOthers, AfterIgnored, Blind
<1>5. CASE /\ Discovery \/ (Digesting /\ ~Captured)
           /\ pass' \in {pass, "refused"} /\ pass \in {"capture", "recapture"}
           /\ UNCHANGED <<repo, seen, torn, captured>>
  BY <1>1, <1>5, CommandKept, ReasonsRead
<1> QED BY <1>1, <1>2, <1>3, <1>4, <1>5, PacketSteps

LEMMA IgnoreFoundStep ==
    ASSUME Typed, Typed', ViewReads, IgnoreStays, ViewLost, IgnoreFound, [Next]_vars
    PROVE  IgnoreFound'
<1>1. SUFFICES ASSUME Reader', Reader, ~torn', pass' \in {"capture", "recapture"},
                      step' \in AfterIgnored,
                      Ignore \notin InTree(view'.head) \cup view'.changed,
                      view'.entries[Ignore] \notin {Unread, None}
               PROVE  \A s \in seen' : s.disk[Ignore] # None \/ s.index[Ignore] # None
  BY CommandKept DEF IgnoreFound, Reader, InTree
<1>2. CASE Editor
  <2>1. /\ UNCHANGED <<pass, step, view>> /\ ~torn /\ seen' = seen \cup {repo'}
        /\ \A k : Gone(k) => k \notin Holds(repo')
    BY <1>1, <1>2, EditorUntorn DEF Gone, Holds, Untracked
  <2>2. \A s \in seen : s.disk[Ignore] # None \/ s.index[Ignore] # None
    BY <1>1, <2>1 DEF IgnoreFound
  <2>3. Loses(view, Ignore) /\ Tree[view.head][Ignore] = None
    BY <1>1, <2>1, Constants DEF Loses, InTree
  <2>4. <<Ignore, "index", None>> \in Lost(view)
    BY <2>3, LostForms, Constants
  <2>5. Gone(<<Ignore, "index", None>>)
    BY <1>1, <2>1, <2>4 DEF ViewLost
  <2>6. repo'.index[Ignore] # None
    <3>1. PICK r : r = repo'
      OBVIOUS
    <3>2. <<Ignore, "index", None>> \notin Holds(r)
      BY <2>1, <2>5, <3>1
    <3> QED BY <3>1, <3>2, Constants DEF Holds
  <2> QED BY <2>1, <2>2, <2>6
<1>3. ASSUME UNCHANGED <<seen, torn, view, pass>>, step \in AfterIgnored
      PROVE  \A s \in seen' : s.disk[Ignore] # None \/ s.index[Ignore] # None
  BY <1>1, <1>3 DEF IgnoreFound
<1>4. CASE UNCHANGED vars
  BY <1>1, <1>3, <1>4 DEF vars, history, progress
<1>5. CASE view' = Blind /\ step' = "head"
  BY <1>1, <1>5 DEF AfterIgnored
<1>6. ASSUME Discovery \/ (Digesting /\ ~Captured), pass' = pass, pass \in {"capture", "recapture"},
             UNCHANGED <<repo, seen, torn>>
      PROVE  \A s \in seen' : s.disk[Ignore] # None \/ s.index[Ignore] # None
  <2> USE DEF Goto, Stay
  <2>1. view \in View /\ (step # "head" => Read(view, step))
    BY <1>1, <1>6 DEF ViewReads, Typed
  <2>2. CASE ReadOthers
    <3>1. step = "others" /\ view'.head = view.head /\ view'.entries = view.entries
      BY <2>1, <2>2 DEF ReadOthers, View
    <3> QED BY <1>1, <2>1, <3>1, Constants DEF Read, AfterIgnored
  <2>3. CASE ReadIgnored
    <3>1. view'.entries = [view.entries EXCEPT ![Ignore] = repo.disk[Ignore]]
      BY <1>1, <1>6, <2>1, <2>3 DEF ReadIgnored, Refuse, Begin, View
    <3>2. view'.entries[Ignore] = repo.disk[Ignore]
      BY <2>1, <3>1, Constants DEF View
    <3> QED BY <1>1, <1>6, <3>2 DEF IgnoreStays
  <2>4. CASE Listed
    <3>1. UNCHANGED view /\ step = "listed"
      BY <1>1, <1>6, <2>4 DEF Listed, Refuse, Begin
    <3> QED BY <1>3, <1>6, <3>1 DEF AfterIgnored
  <2>5. CASE ReadIndex
    <3>1. /\ step = "index" /\ view'.head = view.head /\ view'.changed = view.changed
          /\ view'.entries = view.entries
      BY <2>1, <2>5 DEF ReadIndex, View
    <3> QED BY <1>1, <1>6, <3>1 DEF IgnoreFound, AfterIgnored
  <2>6. CASE ReadDigest
    <3>1. step = "digest" /\ view'.head = view.head /\ view'.changed = view.changed
      BY <1>1, <1>6, <2>1, <2>6 DEF ReadDigest, Refuse, Begin, View
    <3>2. view'.entries \in {view.entries, [view.entries EXCEPT ![Path] = repo.disk[Path]]}
          /\ (Path \notin view.changed => view'.entries = view.entries)
      BY <1>1, <1>6, <2>1, <2>6 DEF ReadDigest, Refuse, Begin, View
    <3>3. view'.entries[Ignore] = view.entries[Ignore]
      BY <1>1, <2>1, <3>1, <3>2, Constants DEF View
    <3> QED BY <1>1, <1>6, <3>1, <3>3 DEF IgnoreFound, AfterIgnored
  <2>7. CASE ReadHead \/ ReadHeadAgain \/ ReadTracked \/ ReadStaged
    <3>1. step' \in {"headAgain", "tracked", "staged", "others"}
      BY <1>1, <1>6, <2>7 DEF ReadHead, ReadHeadAgain, ReadTracked, ReadStaged, Refuse, Begin
    <3> QED BY <1>1, <3>1 DEF AfterIgnored
  <2> QED BY <1>6, <2>2, <2>3, <2>4, <2>5, <2>6, <2>7 DEF Discovery, Digesting
<1> QED BY <1>1, <1>2, <1>4, <1>5, <1>6, PacketSteps

-----------------------------------------------------------------------------
(* Two equal captures bind one repository.                                 *)

\* All that is known when the second capture of a packet is complete.
TwoCaptures ==
    /\ Typed /\ Reader /\ ~torn /\ pass = "recapture" /\ step = "digest" /\ ~Left
    /\ SameCapture(view)
    /\ ViewReads /\ KeptReads /\ IgnoreFound /\ Anchored /\ Reasons

\* The two captures agree on what they list, and r holds what both found.
BothFound(r) ==
    /\ view.head = captured.head /\ view.changed = captured.changed
    /\ r.head = captured.head
    /\ \A p \in Paths \ captured.changed : r.index[p] = Tree[captured.head][p]
    /\ \A p \in captured.changed :
          /\ view.index[p] = captured.index[p] /\ r.index[p] = captured.index[p]
          /\ view.entries[p] = captured.entries[p] /\ r.disk[p] = captured.entries[p]
          /\ captured.digest[p] = <<r.index[p], r.disk[p]>>
    /\ \A p \in InTree(captured.head) \ captured.changed :
          /\ captured.entries[p] = Tree[captured.head][p] /\ view.entries[p] = Tree[captured.head][p]
          /\ r.disk[p] = Tree[captured.head][p]
    /\ \A p \in Paths \ (captured.others \cup view.others) : p \notin Untracked(r)
    /\ \A q \in Paths : ~Loses(captured, q)

LEMMA CapturesAgree ==
    ASSUME TwoCaptures
    PROVE  /\ view.head = captured.head /\ view.changed = captured.changed
           /\ \A p \in captured.changed :
                 /\ captured.digest[p] = <<captured.index[p], captured.entries[p]>>
                 /\ view.index[p] = captured.index[p]
                 /\ view.entries[p] = captured.entries[p] /\ captured.entries[p] # Unread
                 /\ captured.index[p] # Unread
<1>1. view.head = captured.head /\ view.digest = captured.digest
  BY DEF TwoCaptures, SameCapture
<1>2. /\ \A p \in Paths : captured.digest[p] # Unread <=> p \in captured.changed
      /\ \A p \in Paths : captured.digest[p] # Unread =>
            captured.entries[p] # Unread /\ captured.digest[p] = <<captured.index[p], captured.entries[p]>>
      /\ \A p \in Paths : captured.index[p] # Unread
  BY Constants DEF TwoCaptures, KeptReads, Kept, Typed, Digested, Read
<1>3. /\ \A p \in Paths : view.digest[p] # Unread <=> p \in view.changed
      /\ \A p \in Paths : view.digest[p] # Unread =>
            view.digest[p] = <<view.index[p], view.entries[p]>>
  <2>1. Done = Paths
    BY NextPath DEF TwoCaptures, Typed
  <2>2. Read(view, step) /\ ReadSoFar(view) /\ step = "digest" /\ Digested(view)
    BY DEF TwoCaptures, ViewReads, Typed
  <2> QED BY <2>1, <2>2 DEF Read, ReadSoFar, Digested
<1>4. view.changed \subseteq Paths /\ captured.changed \subseteq Paths
  BY DEF TwoCaptures, Typed, View
<1>5. view.changed = captured.changed
  BY <1>1, <1>2, <1>3, <1>4
<1>6. ASSUME NEW p \in captured.changed
      PROVE  /\ captured.digest[p] = <<captured.index[p], captured.entries[p]>>
             /\ view.index[p] = captured.index[p]
             /\ view.entries[p] = captured.entries[p] /\ captured.entries[p] # Unread
             /\ captured.index[p] # Unread
  <2>1. /\ captured.digest[p] = <<captured.index[p], captured.entries[p]>>
        /\ captured.entries[p] # Unread /\ captured.index[p] # Unread
    BY <1>2, <1>4
  <2>2. captured.digest[p] = <<view.index[p], view.entries[p]>>
    BY <1>1, <1>3, <1>4, <1>5
  <2> QED BY <2>1, <2>2
<1> QED BY <1>1, <1>5, <1>6
LEMMA CapturesBothFound ==
    ASSUME TwoCaptures
    PROVE  \E r \in seen : BothFound(r)
<1>1. PICK r \in seen : Anchor(r)
  BY DEF TwoCaptures, Anchored
<1>2. \A k \in Witness(captured, "digest") : k \in Witness(view, "digest") => k \in Holds(r)
  BY <1>1 DEF TwoCaptures, Anchor
<1>3. /\ view.head = captured.head /\ view.changed = captured.changed
      /\ view.changed \subseteq Paths
  BY CapturesAgree DEF TwoCaptures, Typed, View
<1>4. r.head = captured.head
  <2>1. <<"HEAD", "HEAD", captured.head>> \in Holds(r)
    BY <1>2, <1>3 DEF Witness
  <2> QED BY <2>1, Constants DEF Holds
<1>5. ASSUME NEW p \in Paths \ captured.changed
      PROVE  /\ <<p, "index", Tree[captured.head][p]>> \in Witness(view, "digest")
             /\ r.index[p] = Tree[captured.head][p]
  <2>1. /\ <<p, "index", Tree[captured.head][p]>> \in Witness(view, "digest")
        /\ <<p, "index", Tree[captured.head][p]>> \in Witness(captured, "digest")
    <3>1. "digest" \in AfterStaged
      BY DEF AfterStaged, AfterOthers, AfterIgnored
    <3> QED BY <1>3, <3>1, WitnessIndex
  <2>2. <<p, "index", Tree[captured.head][p]>> \in Holds(r)
    BY <1>2, <2>1
  <2> QED BY <2>1, <2>2 DEF Holds
<1>6. ASSUME NEW p \in captured.changed
      PROVE  /\ view.index[p] = captured.index[p] /\ r.index[p] = captured.index[p]
             /\ view.entries[p] = captured.entries[p] /\ r.disk[p] = captured.entries[p]
             /\ captured.digest[p] = <<r.index[p], r.disk[p]>>
  <2>1. p \in Paths
    BY <1>3
  <2>2. /\ captured.digest[p] = <<captured.index[p], captured.entries[p]>>
        /\ view.index[p] = captured.index[p]
        /\ view.entries[p] = captured.entries[p] /\ captured.entries[p] # Unread
        /\ captured.index[p] # Unread
    BY CapturesAgree
  <2>3. /\ <<p, "index", captured.index[p]>> \in Witness(captured, "digest")
        /\ <<p, "index", captured.index[p]>> \in Witness(view, "digest")
        /\ <<p, "disk", captured.entries[p]>> \in Witness(captured, "digest")
        /\ <<p, "disk", captured.entries[p]>> \in Witness(view, "digest")
    BY <2>1, <2>2 DEF Witness
  <2>4. r.index[p] = captured.index[p] /\ r.disk[p] = captured.entries[p]
    <3>1. /\ <<p, "index", captured.index[p]>> \in Holds(r)
          /\ <<p, "disk", captured.entries[p]>> \in Holds(r)
      BY <1>2, <2>3
    <3> QED BY <3>1 DEF Holds
  <2> QED BY <2>2, <2>4
<1>7. Read(captured, "digest") /\ Read(view, "digest")
  BY DEF TwoCaptures, KeptReads, Kept, ViewReads
<1>8. ASSUME NEW p \in InTree(captured.head) \ captured.changed
      PROVE  /\ captured.entries[p] = Tree[captured.head][p]
             /\ view.entries[p] = Tree[captured.head][p]
             /\ r.disk[p] = Tree[captured.head][p]
  <2>1. p \in Paths /\ Tree[captured.head][p] # Unread
    <3>1. captured.head \in Commits
      BY DEF TwoCaptures, Typed, Kept
    <3> QED BY <3>1, Constants DEF InTree
  <2>2. captured.entries[p] = Tree[captured.head][p] /\ view.entries[p] = Tree[captured.head][p]
    BY <1>3, <1>7 DEF Read, AfterTracked, AfterStaged, AfterOthers, AfterIgnored
  <2>3. /\ <<p, "disk", Tree[captured.head][p]>> \in Witness(captured, "digest")
        /\ <<p, "disk", Tree[captured.head][p]>> \in Witness(view, "digest")
    BY <2>1, <2>2 DEF Witness
  <2>4. r.disk[p] = Tree[captured.head][p]
    <3>1. <<p, "disk", Tree[captured.head][p]>> \in Holds(r)
      BY <1>2, <2>3
    <3> QED BY <3>1 DEF Holds
  <2> QED BY <2>2, <2>4
<1>9. ASSUME NEW p \in Paths \ (captured.others \cup view.others)
      PROVE  p \notin Untracked(r)
  <2>1. /\ <<p, "untracked", FALSE>> \in Witness(captured, "digest")
        /\ <<p, "untracked", FALSE>> \in Witness(view, "digest")
    BY DEF Witness, AfterOthers, AfterIgnored
  <2> QED BY <1>2, <2>1, HoldsUntracked
<1>10. ASSUME NEW q \in Paths, Loses(captured, q)
       PROVE  FALSE
  <2>1. <<q, "index", Tree[captured.head][q]>> \in Lost(captured)
    BY <1>10, LostForms
  <2>2. <<q, "index", Tree[captured.head][q]>> \notin Witness(view, "digest")
    BY <2>1 DEF TwoCaptures, Anchored
  <2> QED BY <1>5, <1>10, <2>2 DEF Loses
<1>11. BothFound(r)
  BY <1>3, <1>4, <1>5, <1>6, <1>8, <1>9, <1>10 DEF BothFound
<1> QED BY <1>11

\* What both captures list differs in r.
LEMMA ListedDiffers ==
    ASSUME TwoCaptures, NEW r, BothFound(r), NEW p \in captured.changed
    PROVE  p \in Differences(r)
<1> DEFINE tree == Tree[captured.head]
           new  == Untracked(r) \ InTree(captured.head)
           diff == {q \in Paths : r.index[q] # tree[q]}
                   \cup {q \in InTree(captured.head) : r.disk[q] # tree[q]}
<1>1. /\ Differences(r) = diff \cup (IF Ignore \in diff \cup new THEN new
                                     ELSE new \ HiddenBy(tree[Ignore]))
      /\ view.head = captured.head /\ view.changed = captured.changed
      /\ captured.changed \subseteq Paths
  BY DEF Differences, BothFound, TwoCaptures, Typed, View
<1>2. ASSUME NEW q \in captured.changed
      PROVE  q \in diff \cup new /\ Reason(q)
  <2>1. /\ Reason(q) /\ q \in Paths /\ view.index[q] = captured.index[q]
        /\ r.index[q] = captured.index[q]
        /\ view.entries[q] = captured.entries[q] /\ r.disk[q] = captured.entries[q]
    BY <1>1 DEF BothFound, TwoCaptures, Reasons
  <2>2. CASE q \in InTree(view.head) /\ view.entries[q] \notin {Unread, Tree[view.head][q]}
    BY <1>1, <2>1, <2>2
  <2>3. CASE r.index[q] # Tree[view.head][q]
    BY <1>1, <2>1, <2>3
  <2>4. CASE r.index[q] = Tree[view.head][q] /\ q \in view.others \ InTree(view.head)
    <3>1. captured.entries[q] # None
      BY <2>1, <2>4, <1>1 DEF TwoCaptures, Reasons, AfterOthers, AfterIgnored
    <3>2. r.index[q] = None
      BY <1>1, <2>1, <2>4 DEF InTree
    <3> QED BY <1>1, <2>1, <2>4, <3>1, <3>2 DEF Untracked
  <2> QED BY <2>1, <2>2, <2>3, <2>4 DEF Reason
<1>3. CASE p \in diff \/ Ignore \in captured.changed
  BY <1>1, <1>2, <1>3
<1>4. CASE p \notin diff /\ Ignore \notin captured.changed
  <2>1. /\ p \in new /\ p \in Paths /\ view.index[p] = captured.index[p]
        /\ r.index[p] = captured.index[p]
        /\ view.entries[p] = captured.entries[p] /\ r.disk[p] = captured.entries[p]
    BY <1>1, <1>2, <1>4 DEF BothFound
  <2>2. p \notin HiddenBy(view.entries[Ignore])
    <3>1. ~(p \in InTree(view.head) /\ view.entries[p] \notin {Unread, Tree[view.head][p]})
      BY <1>1, <1>4, <2>1
    <3>2. captured.index[p] = Tree[view.head][p] /\ view.index[p] = Tree[view.head][p]
      BY <1>1, <1>4, <2>1
    <3> QED BY <1>1, <1>2, <1>4, <3>1, <3>2 DEF Reason
  <2>3. p \notin HiddenBy(tree[Ignore])
    <3>1. CASE Ignore \in InTree(captured.head)
      BY <1>4, <2>2, <3>1 DEF BothFound
    <3>2. CASE Ignore \notin InTree(captured.head)
      BY <3>2, Constants, CaptureAssumption DEF InTree, HiddenBy
    <3> QED BY <3>1, <3>2
  <2> QED BY <1>1, <2>1, <2>3
<1> QED BY <1>3, <1>4

\* What neither lists does not.
LEMMA UnlistedSame ==
    ASSUME TwoCaptures, NEW r \in seen, BothFound(r), NEW p \in Paths \ captured.changed
    PROVE  p \notin Differences(r)
<1> DEFINE tree == Tree[captured.head]
           new  == Untracked(r) \ InTree(captured.head)
           diff == {q \in Paths : r.index[q] # tree[q]}
                   \cup {q \in InTree(captured.head) : r.disk[q] # tree[q]}
<1>1. /\ Differences(r) = diff \cup (IF Ignore \in diff \cup new THEN new
                                     ELSE new \ HiddenBy(tree[Ignore]))
      /\ view.head = captured.head /\ view.changed = captured.changed
  BY DEF Differences, BothFound
<1>2. \A q \in Paths \ captured.changed : q \notin diff /\ r.index[q] = tree[q]
  BY DEF BothFound
<1>3. SUFFICES ASSUME p \in new,
                      Ignore \in diff \cup new \/ p \notin HiddenBy(tree[Ignore])
               PROVE  FALSE
  BY <1>1, <1>2
<1>4. Read(captured, "digest") /\ Read(view, "digest")
  BY DEF TwoCaptures, KeptReads, Kept, ViewReads
<1>5. /\ \A q \in captured.others \ (captured.changed \cup InTree(captured.head)) :
           /\ q # Ignore /\ Ignore \notin captured.changed /\ captured.entries[Ignore] # Unread
           /\ q \in HiddenBy(captured.entries[Ignore])
      /\ \A q \in view.others \ (captured.changed \cup InTree(captured.head)) :
           /\ q # Ignore /\ Ignore \notin captured.changed /\ view.entries[Ignore] # Unread
           /\ q \in HiddenBy(view.entries[Ignore])
  BY <1>1, <1>4 DEF Read, AfterIgnored
<1>6. p \in captured.others \cup view.others /\ p \notin InTree(captured.head)
  BY <1>3 DEF BothFound, Untracked
<1>7. Ignore \notin captured.changed /\ Ignore \in Paths
  BY <1>5, <1>6, Constants
<1>8. CASE Ignore \in InTree(captured.head)
  <2>1. Ignore \notin diff \cup new
    BY <1>2, <1>7, <1>8
  <2>2. p \in HiddenBy(tree[Ignore])
    BY <1>5, <1>6, <1>7, <1>8 DEF BothFound
  <2> QED BY <1>3, <2>1, <2>2
<1>9. CASE Ignore \notin InTree(captured.head)
  <2>1. HiddenBy(None) = {}
    BY CaptureAssumption DEF HiddenBy
  <2>2. captured.entries[Ignore] \in {Unread, None}
    BY <1>7, <1>9 DEF BothFound, Loses
  <2>3. view.entries[Ignore] \notin {Unread, None}
    BY <1>5, <1>6, <2>1, <2>2
  <2>4. r.disk[Ignore] # None \/ r.index[Ignore] # None
    BY <1>1, <1>7, <1>9, <2>3 DEF TwoCaptures, IgnoreFound, AfterIgnored
  <2>5. r.index[Ignore] = None
    BY <1>2, <1>7, <1>9 DEF InTree
  <2>6. Ignore \in Untracked(r)
    BY <1>7, <2>4, <2>5 DEF Untracked
  <2>7. Ignore \in captured.others \cup view.others
    BY <1>7, <2>6 DEF BothFound
  <2> QED BY <1>5, <1>7, <1>9, <2>7
<1> QED BY <1>8, <1>9

LEMMA BoundFromCaptures ==
    ASSUME TwoCaptures
    PROVE  (\E r \in seen : Bound(r)) /\ Lost(captured) = {}
<1>1. PICK r \in seen : BothFound(r)
  BY CapturesBothFound
<1>2. captured.changed = Differences(r)
  <2>1. captured.changed \subseteq Paths /\ Differences(r) \subseteq Paths
    BY DEF TwoCaptures, Typed, View, Differences, InTree, Untracked
  <2> QED BY <1>1, <2>1, ListedDiffers, UnlistedSame
<1>3. captured.digest = [p \in Paths |-> IF p \in Differences(r)
                                         THEN <<r.index[p], r.disk[p]>> ELSE Unread]
  <2>1. captured.digest \in [Paths -> (Contained \X Contained) \cup {Unread}]
        /\ \A p \in Paths : captured.digest[p] # Unread => p \in captured.changed
    BY DEF TwoCaptures, Typed, View, Digested
  <2>2. \A p \in captured.changed : captured.digest[p] = <<r.index[p], r.disk[p]>>
    BY <1>1 DEF BothFound
  <2> QED BY <1>2, <2>1, <2>2
<1>4. ASSUME NEW p \in Paths
      PROVE  captured.index[p] # Tree[captured.head][p] <=> r.index[p] # Tree[r.head][p]
  <2>1. CASE p \in captured.changed
    BY <1>1, <2>1 DEF BothFound
  <2>2. CASE p \notin captured.changed
    <3>1. captured.index[p] # Unread
      BY Constants DEF TwoCaptures, KeptReads, Kept
    <3> QED BY <1>1, <2>2, <3>1 DEF BothFound, Loses
  <2> QED BY <2>1, <2>2
<1>5. Bound(r)
  BY <1>1, <1>3, <1>4 DEF Bound, Describes, BothFound
<1>6. Lost(captured) = {}
  BY <1>1, LostForms DEF BothFound
<1> QED BY <1>1, <1>5, <1>6

LEMMA WrittenBoundStep ==
    ASSUME Typed, Typed', ViewReads, KeptReads, IgnoreFound, Anchored, Reasons,
           WrittenBound, [Next]_vars
    PROVE  WrittenBound'
<1>1. SUFFICES ASSUME Reader', Reader, ~torn', pass' = "written"
               PROVE  WrittenBound'
  BY CommandKept DEF WrittenBound, Reader
<1>2. ASSUME UNCHANGED <<seen, captured>>, (\E r \in seen : Bound(r)) /\ Lost(captured) = {}
      PROVE  WrittenBound'
  <2>1. PICK r \in seen : Bound(r)
    BY <1>2
  <2>2. Bound(r)'
    BY <1>2, <2>1 DEF Bound, Describes, Differences, Untracked, InTree
  <2>3. Lost(captured)' = {}
    BY <1>2 DEF Lost, InTree
  <2> QED BY <1>2, <2>2, <2>3 DEF WrittenBound
<1>3. CASE UNCHANGED vars
  <2>1. UNCHANGED <<seen, captured, pass, torn>>
    BY <1>3 DEF vars, history, results, progress
  <2> QED BY <1>1, <1>2, <2>1 DEF WrittenBound
<1>4. CASE /\ Captured /\ pass = "recapture" /\ SameCapture(view) /\ step = "digest" /\ ~Left
           /\ UNCHANGED <<repo, seen, torn, captured, made>>
  <2>1. TwoCaptures
    BY <1>1, <1>4 DEF TwoCaptures
  <2> QED BY <1>2, <1>4, <2>1, BoundFromCaptures
<1>5. CASE Editor
  <2>1. Running /\ pass = "written"
    BY <1>1, <1>5, EditorUntorn, EditorChanges DEF Edited
  <2> QED BY <2>1 DEF Running
<1> QED BY <1>1, <1>3, <1>4, <1>5, PacketSteps

-----------------------------------------------------------------------------
\* All that is known of a packet.
PacketInv ==
    /\ Typed /\ ViewReads /\ KeptReads
    /\ Founds /\ IgnoreStays /\ ViewLost /\ IgnoreFound /\ Anchored /\ Reasons /\ WrittenBound

LEMMA PacketInit == Init => PacketInv
<1>1. SUFFICES ASSUME Init PROVE PacketInv
  OBVIOUS
<1>2. Typed /\ ViewReads /\ KeptReads
  BY <1>1, TypedInit, ReadsInit
<1>3. /\ pass \in {"capture", "print"} /\ seen = {repo} /\ view = Blind
      /\ step \notin AfterOthers /\ (pass = "capture" => step = "head")
  BY <1>1 DEF Init, Passes, FirstRead, AfterOthers, AfterIgnored
<1>4. Founds
  BY <1>3, WitnessBlind DEF Founds, Kept
<1>5. IgnoreStays /\ ViewLost /\ IgnoreFound /\ Anchored /\ Reasons /\ WrittenBound
  BY <1>3 DEF IgnoreStays, ViewLost, IgnoreFound, Anchored, Reasons, WrittenBound, AfterOthers,
     AfterIgnored
<1> QED BY <1>2, <1>4, <1>5 DEF PacketInv

LEMMA PacketStep == PacketInv /\ [Next]_vars => PacketInv'
<1>1. SUFFICES ASSUME PacketInv, [Next]_vars PROVE PacketInv'
  OBVIOUS
<1>2. Typed' /\ ViewReads' /\ KeptReads'
  BY <1>1, TypedStep, ViewReadsStep, KeptReadsStep DEF PacketInv
<1>3. Founds' /\ IgnoreStays' /\ ViewLost' /\ IgnoreFound'
  BY <1>1, <1>2, FoundsStep, IgnoreStaysStep, ViewLostStep, IgnoreFoundStep DEF PacketInv
<1>4. Anchored' /\ Reasons' /\ WrittenBound'
  BY <1>1, <1>2, AnchoredStep, ReasonsStep, WrittenBoundStep DEF PacketInv
<1> QED BY <1>2, <1>3, <1>4 DEF PacketInv

LEMMA SnapshotFromInv == PacketInv => PacketIsSnapshot
<1>1. SUFFICES ASSUME PacketInv, pass = "written" PROVE PacketIsSnapshot
  BY DEF PacketIsSnapshot, ManifestBound, BoundAtOnce
<1>2. Reader /\ ManifestSoFar
  BY <1>1 DEF PacketInv, Typed, Position, Reader, KeptReads, Kept
<1>3. ManifestBound
  <2>1. SUFFICES ASSUME NEW p \in Paths
                 PROVE  \/ (IF made[p] = Unread THEN Tree[Base][p] ELSE made[p][2])
                              = Binds(captured, p)
                        \/ torn /\ p = Ignore /\ p \notin InTree(captured.head) \cup captured.changed
    BY DEF ManifestBound
  <2>2. Tells(made[p], p)
    BY <1>1, <1>2 DEF ManifestSoFar
  <2>3. ASSUME p = Ignore, p \notin InTree(captured.head) \cup captured.changed,
               captured.entries[p] \notin {Unread, None}
        PROVE  torn
    <3>1. Loses(captured, p)
      BY <2>3 DEF Loses
    <3>2. Lost(captured) # {}
      BY <3>1, LostForms
    <3> QED BY <1>1, <1>2, <3>2 DEF PacketInv, WrittenBound
  <2> QED BY <2>2, <2>3 DEF Tells
<1>4. BoundAtOnce
  <2>1. SUFFICES ASSUME ~torn
                 PROVE  \E r \in seen :
                           /\ Describes(captured, r)
                           /\ \A p \in Paths : made[p] # Unread =>
                                 (made[p][1] <=> r.index[p] # Tree[r.head][p])
    BY DEF BoundAtOnce
  <2>2. PICK r \in seen : Bound(r)
    BY <1>1, <1>2, <2>1 DEF PacketInv, WrittenBound
  <2>3. \A p \in Paths :
          made[p] # Unread => made[p][1] = (captured.index[p] # Tree[captured.head][p])
    BY <1>2 DEF ManifestSoFar
  <2> QED BY <2>2, <2>3 DEF Bound
<1> QED BY <1>3, <1>4 DEF PacketIsSnapshot

LEMMA PacketAlways == Spec => []PacketInv
BY PacketInit, PacketStep, PTL DEF Spec

\* However others change HEAD, the index and the files while a review packet
\* is made, and for any number of paths, contents and changes: its manifest
\* tells of every path what the recorded digests cover, and if nothing came
\* back to what it had been and no ignore file came to be, its digests and
\* staged flags are of the repository at one moment since the command began
\* (hma review-packet captures it before and after the observation and compares).
THEOREM PacketsAreSnapshots == Spec => []PacketIsSnapshot
BY PacketAlways, SnapshotFromInv, PTL

-----------------------------------------------------------------------------
(* The repository at rest, and the copy of it.                             *)

LastChange == Changes \in 0..Edits /\ \A p \in Places : stamp[p] <= Changes

LEMMA ChangesMax == Typed => LastChange
BY ChangesIsMax DEF Typed, LastChange

LEMMA ChangesMaxNext == Typed' => LastChange'
BY ChangesMax, PTL

\* A change is seen by its status-change times: the repository does not rest,
\* and a fingerprint taken before is of another time.
LEMMA EditorMoves ==
    ASSUME Typed, Typed', Fingerprint, Editor
    PROVE  /\ Changes' # 0 /\ ~Still'
           /\ \A p \in Places : stamp[p] <= stamp'[p]
           /\ stamp'["dir"] = stamp["dir"] =>
                 \A p \in Paths : repo'.disk[p] = None <=> repo.disk[p] = None
           /\ seen \subseteq seen'
           /\ UNCHANGED <<command, approved, pass, step, at, view, captured, print, made>>
<1>1. PICK places \in SUBSET Places : Edited(places)
  BY EditorChanges
<1>2. Changes \in 0..Edits /\ \A p \in Places : stamp[p] \in Nat /\ stamp[p] <= Changes
  BY ChangesIsMax, CaptureAssumption DEF Typed
<1>3. /\ \A p \in places : stamp'[p] = Changes + 1
      /\ \A p \in Places \ places : stamp'[p] = stamp[p]
      /\ places # {}
  BY <1>1 DEF Edited
<1>4. UNCHANGED <<command, approved, pass, step, at, view, captured, print, made>>
      /\ seen \subseteq seen'
  BY <1>1 DEF Edited, progress, results
<1>5. \A p \in Places : stamp[p] <= stamp'[p] /\ (p \in places => stamp[p] < stamp'[p])
  BY <1>2, <1>3
<1>6. Changes' # 0
  <2>1. Changes' \in 0..Edits /\ \A p \in Places : stamp'[p] <= Changes'
    BY ChangesMaxNext DEF LastChange
  <2> QED BY <1>2, <1>3, <2>1, CaptureAssumption
<1>7. stamp'["dir"] = stamp["dir"] => "dir" \notin places
  BY <1>2, <1>5, Constants
<1>8. stamp'["dir"] = stamp["dir"] =>
         \A p \in Paths : repo'.disk[p] = None <=> repo.disk[p] = None
  BY <1>1, <1>7 DEF Edited
<1>9. ASSUME Printed1, Unmoved'
      PROVE  FALSE
  <2>1. \A p \in Places : print[p] # Unread => print[p] = stamp[p] /\ p \notin places
    <3>1. \A p \in Places : print[p] # Unread => print[p] \in Nat /\ print[p] <= stamp[p]
      BY DEF Fingerprint, Rowed, Typed
    <3> QED BY <1>2, <1>3, <1>4, <1>5, <1>9, <3>1 DEF Unmoved
  <2>2. {"dir", "HEAD", "index"} \cap places = {} /\ Present(print)
    BY <1>9, <2>1, Constants DEF Fingerprint
  <2>3. PICK p \in places : p \in Paths
    BY <1>3, <2>2, Constants DEF Places
  <2>4. repo.disk[p] = None
    BY <2>1, <2>2, <2>3, Constants DEF Present
  <2> QED BY <1>1, <2>2, <2>3, <2>4 DEF Edited
<1>10. Printed1' <=> Printed1
  BY <1>4 DEF Printed1
<1> QED BY <1>4, <1>5, <1>6, <1>8, <1>9, <1>10 DEF Still

\* Only others change the repository.
LEMMA OnlyEditor ==
    ASSUME [Next]_vars
    PROVE  Editor \/ UNCHANGED <<repo, stamp, seen, torn>>
BY DEF Next, vars, history, git, Discovery, ReadHead, ReadHeadAgain, ReadTracked,
   ReadStaged, ReadOthers, ReadIgnored, Digesting, Listed, ReadIndex, ReadDigest, Captured,
   Manifest, ReadLaunchHead, ReadObservedHead, Observe, Observed, Fingerprinting,
   PrintDirectory, PrintNames, PrintHead, PrintIndex, PrintFile, Printed, Copying,
   CopyFile, CopyPhase, CopyOn, Copied

\* The rows of a fingerprint are read by Fingerprinting alone.
LEMMA RowsKept ==
    ASSUME Typed, Discovery \/ Digesting \/ Manifest \/ Copying
    PROVE  /\ view'.rows = view.rows \/ view' = Blind \/ view'.rows = Blind.rows
           /\ UNCHANGED <<repo, stamp, seen, torn, command, approved, print>>
           /\ pass \in {"capture", "recapture", "copy", "observe"}
           /\ pass' = pass \/ pass' = "refused" \/ pass' = "recapture" \/ Captured
<1> USE DEF Goto, Stay, Refuse, Begin
<1>1. view \in View /\ pass \in {"capture", "recapture", "copy", "observe"}
  BY OfCommand DEF Typed, Position, Copying, CopyFile, CopyPhase, CopyOn, Copied, Discovering
<1>2. CASE Discovery
  <2>1. view' = Blind \/ view'.rows = view.rows
    BY <1>1, <1>2 DEF Discovery, ReadHead, ReadHeadAgain, ReadTracked, ReadStaged, ReadOthers,
       ReadIgnored, View
  <2>2. pass' \in {pass, "refused"} /\ UNCHANGED <<git, results, history, command, approved>>
    BY <1>2 DEF Discovery, ReadHead, ReadHeadAgain, ReadTracked, ReadStaged, ReadOthers, ReadIgnored
  <2> QED BY <1>1, <2>1, <2>2 DEF git, results, history
<1>3. CASE Listed \/ ReadIndex \/ ReadDigest
  <2>1. view' = Blind \/ view'.rows = view.rows
    BY <1>1, <1>3 DEF Listed, ReadIndex, ReadDigest, View
  <2>2. pass' \in {pass, "refused"} /\ UNCHANGED <<git, results, history, command, approved>>
    BY <1>3 DEF Listed, ReadIndex, ReadDigest
  <2> QED BY <1>1, <2>1, <2>2 DEF git, results, history
<1>4. CASE Captured
  <2>1. view' = Blind \/ view' = [Blind EXCEPT !.head = view.head]
    BY <1>4 DEF Captured
  <2>2. view' = Blind \/ view'.rows = Blind.rows
    BY <2>1 DEF Blind
  <2>3. UNCHANGED <<git, history, print, command, approved>>
    BY <1>4 DEF Captured
  <2> QED BY <1>1, <1>4, <2>2, <2>3 DEF git, history
<1>5. CASE Manifest
  <2>1. view' = Blind \/ view' = view
    BY <1>5 DEF Manifest, ReadLaunchHead, ReadObservedHead, Observe, Observed
  <2>2. pass' \in {pass, "refused", "recapture"} /\ UNCHANGED <<git, history, print, command, approved>>
    BY <1>5 DEF Manifest, ReadLaunchHead, ReadObservedHead, Observe, Observed, results
  <2> QED BY <1>1, <2>1, <2>2 DEF git, history
<1>6. CASE Copying
  <2>1. view' = Blind \/ view' = view
    BY <1>6 DEF Copying, CopyFile, CopyPhase, CopyOn, Copied
  <2>2. pass' \in {pass, "recapture"} /\ UNCHANGED <<git, history, print, command, approved>>
    BY <1>6 DEF Copying, CopyFile, CopyPhase, CopyOn, Copied, results
  <2> QED BY <1>1, <2>1, <2>2 DEF git, history
<1> QED BY <1>2, <1>3, <1>4, <1>5, <1>6 DEF Digesting

\* Where a capture that is complete leads.
LEMMA CapturedTo ==
    ASSUME Typed, Captured
    PROVE  /\ step = "digest" /\ ~Left /\ pass \in {"capture", "recapture"}
           /\ pass = "capture" =>
                 /\ captured' = view /\ pass' = (IF Reader THEN "observe" ELSE "copy")
                 /\ step' = (IF Reader THEN "launch" ELSE "tracked") /\ at' = 1
                 /\ view' = [Blind EXCEPT !.head = view.head]
           /\ pass = "recapture" =>
                 /\ UNCHANGED captured /\ view' = Blind
                 /\ \/ ~SameCapture(view) /\ pass' = "refused"
                    \/ /\ SameCapture(view)
                       /\ pass' = (IF Reader THEN "written" ELSE "reprint")
           /\ UNCHANGED <<print, made>>
<1>1. step = "digest" /\ ~Left /\ pass \in {"capture", "recapture"}
      /\ UNCHANGED <<print, made>>
  BY OfCommand DEF Captured, Typed, Position, DiscoverySteps
<1>2. CASE pass = "capture"
  <2>1. captured' = view /\ Begin(Following, [Blind EXCEPT !.head = view.head])
    BY <1>2 DEF Captured
  <2>2. Following = (IF Reader THEN "observe" ELSE "copy")
    BY <1>2, NextPass DEF Typed, Reader
  <2> QED BY <1>1, <1>2, <2>1, <2>2 DEF Begin, FirstRead
<1>3. CASE pass = "recapture"
  <2>1. (IF SameCapture(view) THEN Begin(Following, Blind) ELSE Refuse) /\ UNCHANGED captured
    BY <1>3 DEF Captured
  <2>2. Following = (IF Reader THEN "written" ELSE "reprint")
    BY <1>3, NextPass DEF Typed, Reader
  <2> QED BY <1>1, <1>3, <2>1, <2>2 DEF Begin, Refuse
<1> QED BY <1>1, <1>2, <1>3

\* Where a fingerprint that is complete leads.
LEMMA PrintedTo ==
    ASSUME Typed, Printed
    PROVE  /\ step = "files" /\ ~Left /\ pass \in {"print", "reprint"} /\ view' = Blind
           /\ pass = "print" => print' = view.rows /\ pass' = "capture" /\ step' = "head"
           /\ pass = "reprint" =>
                 /\ UNCHANGED print
                 /\ \/ ~SamePrint(view.rows) /\ pass' = "refused"
                    \/ SamePrint(view.rows) /\ pass' = "recorded"
           /\ UNCHANGED <<repo, stamp, seen, torn, command, approved, captured, made>>
<1>1. step = "files" /\ ~Left /\ pass \in {"print", "reprint"} /\ command = "credit"
      /\ UNCHANGED <<repo, stamp, seen, torn, captured, made>>
  BY DEF Printed, Printing, Typed, Position, git, history
<1>2. CASE pass = "print"
  <2>1. print' = view.rows /\ Begin(Following, Blind)
    BY <1>2 DEF Printed
  <2>2. Following = "capture"
    BY <1>1, <1>2, NextPass
  <2> QED BY <1>1, <1>2, <2>1, <2>2 DEF Begin, FirstRead
<1>3. CASE pass = "reprint"
  <2>1. (IF SamePrint(view.rows) THEN Begin(Following, Blind) ELSE Refuse) /\ UNCHANGED print
    BY <1>3 DEF Printed
  <2>2. Following = "recorded"
    BY <1>1, <1>3, NextPass
  <2> QED BY <1>1, <1>3, <2>1, <2>2 DEF Begin, Refuse
<1> QED BY <1>1, <1>2, <1>3

LEMMA FingerprintPrinting ==
    ASSUME Typed, Typed', Fingerprint,
           PrintDirectory \/ PrintNames \/ PrintHead \/ PrintIndex \/ PrintFile
    PROVE  Fingerprint'
<1> USE DEF Goto, Stay
<1>1. /\ view \in View /\ pass \in {"print", "reprint"} /\ command = "credit"
      /\ UNCHANGED <<repo, stamp, print, command>>
      /\ pass' = pass \/ (pass' = "refused" /\ view' = Blind)
  BY DEF PrintDirectory, PrintNames, PrintHead, PrintIndex, PrintFile, Printing, Refuse, Begin,
     Typed, Position, DiscoverySteps, git, results
<1>2. /\ \A p \in Places : stamp[p] \in Nat
      /\ view.rows \in [Places -> Nat \cup {Unread}] /\ view.changed \subseteq Paths
  BY <1>1, Constants DEF Typed, View
<1>3. /\ Rowed(view.rows) /\ Rowed(print)
      /\ pass = "print" =>
           /\ step # "dir" => view.rows["dir"] # Unread
           /\ step \in {"gitIndex", "files"} => view.rows["HEAD"] # Unread
           /\ step = "files" => view.rows["index"] # Unread
           /\ step \notin {"dir", "names"} /\ view.rows["dir"] = stamp["dir"] =>
                 view.changed = {p \in Paths : repo.disk[p] # None}
           /\ step = "files" => \A p \in view.changed \cap Done : view.rows[p] # Unread
  BY DEF Fingerprint
<1>4. /\ Rowed(print)'
      /\ Printed1' =>
           /\ \A p \in {"dir", "HEAD", "index"} : print'[p] # Unread
           /\ print'["dir"] = stamp'["dir"] => Present(print)'
  <2>1. Rowed(print)'
    BY <1>1, <1>3 DEF Rowed
  <2>2. Printed1' => Printed1
    BY <1>1 DEF Printed1
  <2>3. Printed1 => /\ \A p \in {"dir", "HEAD", "index"} : print[p] # Unread
                    /\ print["dir"] = stamp["dir"] => Present(print)
    BY DEF Fingerprint
  <2> QED BY <1>1, <2>1, <2>2, <2>3 DEF Present
<1>5. CASE pass' = "refused" /\ view' = Blind
  BY <1>4, <1>5, BlindTyped DEF Fingerprint, Rowed
<1>6. ASSUME NEW q \in Places, view'.rows = [view.rows EXCEPT ![q] = stamp[q]]
      PROVE  /\ Rowed(view.rows)' /\ view'.rows[q] # Unread
             /\ \A p \in Places : p # q => view'.rows[p] = view.rows[p]
             /\ \A p \in Places : view.rows[p] # Unread => view'.rows[p] # Unread
  <2>1. view'.rows[q] = stamp[q] /\ \A p \in Places : p # q => view'.rows[p] = view.rows[p]
    BY <1>2, <1>6
  <2> QED BY <1>1, <1>2, <1>3, <2>1, Constants DEF Rowed
<1>7. CASE PrintDirectory
  <2>1. view' = [view EXCEPT !.rows["dir"] = stamp["dir"]] /\ step = "dir" /\ step' = "names"
    BY <1>7 DEF PrintDirectory
  <2>2. view'.rows = [view.rows EXCEPT !["dir"] = stamp["dir"]]
    BY <1>1, <2>1 DEF View
  <2>3. Rowed(view.rows)' /\ view'.rows["dir"] # Unread
    BY <1>6, <2>2, Constants
  <2> QED BY <1>1, <1>4, <2>1, <2>3 DEF Fingerprint
<1>8. CASE PrintNames
  <2>1. /\ view' = [view EXCEPT !.changed = {p \in Paths : repo.disk[p] # None}]
        /\ step = "names" /\ step' = "gitHead" /\ pass' = pass
    BY <1>8 DEF PrintNames
  <2>2. view'.rows = view.rows /\ view'.changed = {p \in Paths : repo.disk[p] # None}
    BY <1>1, <2>1 DEF View
  <2>3. Rowed(view.rows)'
    BY <1>1, <1>3, <2>2 DEF Rowed
  <2> QED BY <1>1, <1>3, <1>4, <2>1, <2>2, <2>3 DEF Fingerprint
<1>9. CASE PrintHead
  <2>1. view' = [view EXCEPT !.rows["HEAD"] = stamp["HEAD"]] /\ step = "gitHead"
        /\ step' = "gitIndex" /\ pass' = pass
    BY <1>9 DEF PrintHead
  <2>2. view'.rows = [view.rows EXCEPT !["HEAD"] = stamp["HEAD"]] /\ view'.changed = view.changed
    BY <1>1, <2>1 DEF View
  <2>3. /\ Rowed(view.rows)' /\ view'.rows["HEAD"] # Unread
        /\ view'.rows["dir"] = view.rows["dir"]
    BY <1>6, <2>2, Constants
  <2> QED BY <1>1, <1>3, <1>4, <2>1, <2>2, <2>3 DEF Fingerprint
<1>10. CASE PrintIndex
  <2>1. view' = [view EXCEPT !.rows["index"] = stamp["index"]] /\ step = "gitIndex"
        /\ step' = "files" /\ at' = 1 /\ pass' = pass
    BY <1>10 DEF PrintIndex
  <2>2. view'.rows = [view.rows EXCEPT !["index"] = stamp["index"]] /\ view'.changed = view.changed
    BY <1>1, <2>1 DEF View
  <2>3. /\ Rowed(view.rows)' /\ view'.rows["index"] # Unread
        /\ view'.rows["dir"] = view.rows["dir"] /\ view'.rows["HEAD"] = view.rows["HEAD"]
    BY <1>6, <2>2, Constants
  <2>4. Done' = {}
    BY <2>1, NextPath DEF Typed
  <2> QED BY <1>1, <1>3, <1>4, <2>1, <2>2, <2>3, <2>4 DEF Fingerprint
<1>11. CASE PrintFile /\ pass' = pass
  <2>1. Left /\ step = "files" /\ step' = "files" /\ at' = at + 1
        /\ (Path \notin view.changed => view' = view)
        /\ (Path \in view.changed => view' = [view EXCEPT !.rows[Path] = stamp[Path]])
    BY <1>1, <1>11 DEF PrintFile, Refuse, Begin
  <2>2. Done' = Done \cup {Path} /\ Path \in Paths
    BY <2>1, NextPath DEF Typed
  <2>3. CASE Path \notin view.changed
    <3>1. view' = view /\ Rowed(view.rows)'
      BY <1>1, <1>3, <2>1, <2>3 DEF Rowed
    <3> QED BY <1>1, <1>3, <1>4, <2>1, <2>2, <2>3, <3>1 DEF Fingerprint
  <2>4. CASE Path \in view.changed
    <3>1. view'.rows = [view.rows EXCEPT ![Path] = stamp[Path]] /\ view'.changed = view.changed
      BY <1>1, <2>1, <2>4 DEF View
    <3>2. Path \in Places /\ Path \notin {"dir", "HEAD", "index"}
      BY <2>2, Constants
    <3>3. /\ Rowed(view.rows)' /\ view'.rows[Path] # Unread
          /\ \A p \in Places : p # Path => view'.rows[p] = view.rows[p]
      BY <1>6, <3>1, <3>2
    <3>4. /\ view'.rows["dir"] = view.rows["dir"] /\ view'.rows["HEAD"] = view.rows["HEAD"]
          /\ view'.rows["index"] = view.rows["index"]
      BY <3>2, <3>3, Constants
    <3>5. pass = "print" => \A p \in view'.changed \cap Done' : view'.rows[p] # Unread
      BY <1>2, <1>3, <2>1, <2>2, <3>1, <3>3, Constants
    <3> QED BY <1>1, <1>3, <1>4, <2>1, <3>1, <3>3, <3>4, <3>5 DEF Fingerprint
  <2> QED BY <2>3, <2>4
<1> QED BY <1>1, <1>5, <1>7, <1>8, <1>9, <1>10, <1>11

LEMMA FingerprintStep ==
    ASSUME Typed, Typed', Fingerprint, [Next]_vars
    PROVE  Fingerprint'
<1>1. CASE Editor
  <2>0. \A p \in Places : stamp[p] \in Nat /\ stamp'[p] \in Nat
    BY Constants DEF Typed
  <2>1. /\ \A p \in Places : stamp[p] <= stamp'[p] /\ stamp[p] \in Nat /\ stamp'[p] \in Nat
        /\ UNCHANGED <<command, pass, step, at, view, print>>
        /\ stamp'["dir"] = stamp["dir"] =>
              \A p \in Paths : repo'.disk[p] = None <=> repo.disk[p] = None
    BY <1>1, <2>0, EditorMoves
  <2>2. /\ Rowed(view.rows) /\ Rowed(print)
        /\ \A p \in Places : print[p] \in Nat \cup {Unread} /\ view.rows[p] \in Nat \cup {Unread}
    BY DEF Fingerprint, Typed, View
  <2>3. Rowed(view.rows)' /\ Rowed(print)'
    BY <2>1, <2>2 DEF Rowed
  <2>4. "dir" \in Places
    BY Constants
  <2>5. view.rows["dir"] # Unread /\ view.rows["dir"] = stamp'["dir"] => stamp'["dir"] = stamp["dir"]
    BY <2>1, <2>2, <2>4 DEF Rowed
  <2>6. print["dir"] # Unread /\ print["dir"] = stamp'["dir"] => stamp'["dir"] = stamp["dir"]
    BY <2>1, <2>2, <2>4 DEF Rowed
  <2>7. pass = "print" /\ step \notin {"dir", "names"} /\ view.rows["dir"] = stamp'["dir"] =>
           view.changed = {p \in Paths : repo'.disk[p] # None}
    BY <2>1, <2>5 DEF Fingerprint
  <2>8. Printed1 /\ print["dir"] = stamp'["dir"] => Present(print)'
    BY <2>1, <2>6 DEF Fingerprint, Present
  <2>9. pass = "print" =>
           /\ step # "dir" => view.rows["dir"] # Unread
           /\ step \in {"gitIndex", "files"} => view.rows["HEAD"] # Unread
           /\ step = "files" => view.rows["index"] # Unread
           /\ step = "files" => \A p \in view.changed \cap Done : view.rows[p] # Unread
    BY DEF Fingerprint
  <2>10. Printed1 => \A p \in {"dir", "HEAD", "index"} : print[p] # Unread
    BY DEF Fingerprint
  <2>11. Done' = Done /\ (Printed1' <=> Printed1)
    BY <2>1 DEF Done, Printed1
  <2> QED BY <2>1, <2>3, <2>7, <2>8, <2>9, <2>10, <2>11 DEF Fingerprint
<1>2. CASE UNCHANGED vars
  BY <1>2 DEF Fingerprint, Rowed, Present, Printed1, Done, vars, git, progress, results
<1>3. ASSUME UNCHANGED <<repo, stamp, print, command>>, pass' # "print",
             view'.rows = view.rows \/ view' = Blind \/ view'.rows = Blind.rows,
             Printed1' => Printed1
      PROVE  Fingerprint'
  <2>1. Rowed(view.rows)' /\ Rowed(print)'
    BY <1>3, BlindTyped DEF Fingerprint, Rowed
  <2>2. Printed1 => /\ \A p \in {"dir", "HEAD", "index"} : print[p] # Unread
                    /\ print["dir"] = stamp["dir"] => Present(print)'
    BY <1>3 DEF Fingerprint, Present
  <2> QED BY <1>3, <2>1, <2>2 DEF Fingerprint
<1>4. CASE Discovery \/ Digesting \/ Manifest \/ Copying
  <2>1. pass' # "print"
    BY <1>4, RowsKept, CapturedTo
  <2>2. Printed1' => Printed1
    BY <1>4, RowsKept DEF Printed1, Typed, Position
  <2> QED BY <1>3, <1>4, <2>1, <2>2, RowsKept
<1>5. CASE Printed
  <2>1. CASE pass = "reprint"
    <3>1. Printed1
      BY <1>5, <2>1 DEF Printed1, Typed, Position
    <3> QED BY <1>3, <1>5, <2>1, <3>1, PrintedTo
  <2>2. CASE pass = "print"
    <3>1. /\ step = "files" /\ ~Left /\ view' = Blind /\ print' = view.rows /\ pass' = "capture"
          /\ UNCHANGED <<repo, stamp>>
      BY <1>5, <2>2, PrintedTo
    <3>2. Done = Paths /\ view.changed \subseteq Paths
      BY <3>1, NextPath DEF Typed, View
    <3>3. /\ Rowed(view.rows) /\ \A p \in {"dir", "HEAD", "index"} : view.rows[p] # Unread
          /\ \A p \in view.changed : view.rows[p] # Unread
          /\ view.rows["dir"] = stamp["dir"] => view.changed = {p \in Paths : repo.disk[p] # None}
      BY <2>2, <3>1, <3>2 DEF Fingerprint
    <3>4. print'["dir"] = stamp'["dir"] => Present(print)'
      BY <3>1, <3>3 DEF Present
    <3>5. Rowed(view.rows)' /\ Rowed(print)'
      BY <3>1, <3>3, BlindTyped DEF Rowed
    <3> QED BY <3>1, <3>3, <3>4, <3>5 DEF Fingerprint
  <2> QED BY <1>5, <2>1, <2>2, PrintedTo
<1> QED BY <1>1, <1>2, <1>4, <1>5, FingerprintPrinting DEF Next, Fingerprinting

LEMMA RestKept ==
    ASSUME UNCHANGED repo
    PROVE  /\ UNCHANGED <<Modified, Diff, Rows>>
           /\ Differences(repo)' = Differences(repo) /\ Untracked(repo)' = Untracked(repo)
           /\ InTree(repo.head)' = InTree(repo.head)
           /\ \A p : CopyOf(p)' = CopyOf(p)
BY DEF Modified, Diff, Rows, Differences, Untracked, InTree, CopyOf

LEMMA RestPaths ==
    ASSUME Typed
    PROVE  /\ Modified \subseteq Diff /\ Diff \subseteq Differences(repo)
           /\ Differences(repo) \subseteq Paths /\ InTree(repo.head) \subseteq Paths
           /\ Untracked(repo) = {} => Differences(repo) = Diff
           /\ \A p \in InTree(repo.head) \ Differences(repo) : repo.disk[p] = Tree[repo.head][p]
           /\ \A p \in Paths : /\ repo.disk[p] # Unread /\ repo.index[p] # Unread
                               /\ repo.disk[p] \in Contained
BY RepoTyped, Constants DEF Modified, Diff, Differences, Untracked, InTree

\* What is listed of a repository at rest is what differs in it.
LEMMA ListedAtRest ==
    ASSUME Typed, NEW v, v.head = repo.head, v.changed = Diff
    PROVE  WithUntracked(v, Untracked(repo), Untracked(repo) \ HiddenBy(repo.disk[Ignore]))
             = Differences(repo)
<1> DEFINE all  == Untracked(repo)
           some == all \ HiddenBy(repo.disk[Ignore])
           new  == all \ InTree(repo.head)
           tree == Tree[repo.head]
           found == Diff \cup ((some \cup (all \cap {Ignore})) \ InTree(repo.head))
<1>1. WithUntracked(v, all, some) = IF Ignore \in found THEN found \cup new ELSE found
  BY DEF WithUntracked
<1>2. Differences(repo) = Diff \cup (IF Ignore \in Diff \cup new THEN new ELSE new \ HiddenBy(tree[Ignore]))
  BY DEF Differences, Diff, Modified
<1>3. Ignore \in found <=> Ignore \in Diff \cup new
  OBVIOUS
<1>4. CASE Ignore \in Diff \cup new
  BY <1>1, <1>2, <1>3, <1>4
<1>5. CASE Ignore \notin Diff \cup new
  <2>1. repo.disk[Ignore] = tree[Ignore]
    <3>1. Ignore \in Paths /\ repo.index[Ignore] = tree[Ignore]
      BY <1>5, Constants DEF Diff
    <3>2. CASE Ignore \in InTree(repo.head)
      BY <1>5, <3>2 DEF Diff, Modified
    <3>3. CASE Ignore \notin InTree(repo.head)
      BY <1>5, <3>1, <3>3 DEF Untracked, InTree
    <3> QED BY <3>2, <3>3
  <2>2. found = Diff \cup (new \ HiddenBy(tree[Ignore]))
    BY <1>5, <2>1
  <2> QED BY <1>1, <1>2, <1>3, <1>5, <2>2
<1> QED BY <1>4, <1>5

\* A read of a repository at rest goes on, and says what is there.
LEMMA ExactDiscovery ==
    ASSUME Typed, Typed', ExactView, Discovery
    PROVE  ExactView' /\ pass' = pass /\ step' \notin {"files", "rest"}
<1> USE DEF Goto, Stay
<1>1. /\ view \in View /\ Discovering /\ step \in DiscoverySteps \cup {"headAgain"}
      /\ UNCHANGED <<repo, command>>
  BY OfCommand, RowsKept DEF Typed
<1>2. /\ step # "head" => view.head = repo.head
      /\ step = "headAgain" => view.changed = {}
      /\ step = "tracked" => view.changed = Modified \cap Done
      /\ step = "staged" => view.changed = Modified
      /\ step \in {"others", "ignored"} => view.changed = Diff
      /\ step = "ignored" => view.others = Untracked(repo) \ (IF Reader THEN {} ELSE HiddenBy(repo.disk[Ignore]))
      /\ step \in AfterIgnored => view.changed = Differences(repo)
      /\ \A p \in Paths : view.entries[p] \in {Unread, repo.disk[p]}
      /\ Reader /\ step = "tracked" =>
            \A p \in InTree(view.head) \cap Done : view.entries[p] # Unread
      /\ Reader /\ step \in AfterTracked => \A p \in InTree(view.head) : view.entries[p] # Unread
  BY <1>1 DEF ExactView
<1>3. /\ UNCHANGED <<Modified, Diff>> /\ Differences(repo)' = Differences(repo)
      /\ Untracked(repo)' = Untracked(repo) /\ (Reader' <=> Reader)
      /\ InTree(repo.head)' = InTree(repo.head) /\ repo' = repo
  BY <1>1, RestKept DEF Reader
<1>4. CASE ReadHead
  <2>1. /\ view' = [view EXCEPT !.head = repo.head] /\ step = "head" /\ at' = 1
        /\ step' \in {"headAgain", "tracked"} /\ pass' = pass
    BY <1>4 DEF ReadHead
  <2>2. view'.head = repo.head /\ view'.changed = {} /\ view'.entries = Nothing
    <3>1. view = Blind
      BY <2>1 DEF Typed
    <3> QED BY <2>1, <3>1 DEF Blind
  <2>3. Done' = {} /\ \A p \in Paths : Nothing[p] = Unread
    BY <2>1, NextPath DEF Typed, Nothing
  <2> QED BY <1>3, <2>1, <2>2, <2>3 DEF ExactView, AfterTracked, AfterStaged, AfterOthers, AfterIgnored
<1>5. CASE ReadHeadAgain
  <2>1. step = "headAgain" /\ step' = "tracked" /\ pass' = pass /\ at' = 1 /\ view' = view
    BY <1>2, <1>5 DEF ReadHeadAgain
  <2>2. Done' = {}
    BY <2>1, NextPath DEF Typed
  <2> QED BY <1>2, <1>3, <2>1, <2>2 DEF ExactView, AfterTracked, AfterStaged, AfterOthers, AfterIgnored
<1>6. CASE ReadTracked
  <2>1. /\ step = "tracked" /\ step' \in {"tracked", "staged"} /\ pass' = pass
        /\ view'.head = view.head
    BY <1>1, <1>6 DEF ReadTracked, View
  <2>2. CASE ~Left
    <3>1. step' = "staged" /\ view' = view /\ Done = Paths
      BY <1>6, <2>2, NextPath DEF ReadTracked, Typed
    <3>2. view.changed = Modified
      BY <1>2, <2>1, <3>1, RestPaths
    <3>3. Reader => \A p \in InTree(view.head) : view.entries[p] # Unread
      BY <1>2, <2>1, <3>1, RestPaths
    <3> QED BY <1>2, <1>3, <2>1, <3>1, <3>2, <3>3
            DEF ExactView, AfterTracked, AfterStaged, AfterOthers, AfterIgnored
  <2>3. CASE Left
    <3>1. step' = "tracked" /\ Done' = Done \cup {Path} /\ Path \in Paths
      BY <1>6, <2>1, <2>3, NextPath DEF ReadTracked, Typed
    <3>2. CASE Path \notin InTree(view.head)
      <4>1. view' = view
        BY <1>6, <2>3, <3>2 DEF ReadTracked
      <4>2. view.changed = Modified \cap Done'
        BY <1>2, <2>1, <3>1, <3>2 DEF Modified
      <4>3. Reader => \A p \in InTree(view.head) \cap Done' : view.entries[p] # Unread
        BY <1>2, <2>1, <3>1, <3>2
      <4> QED BY <1>2, <1>3, <2>1, <3>1, <4>1, <4>2, <4>3
              DEF ExactView, AfterTracked, AfterStaged, AfterOthers, AfterIgnored
    <3>3. CASE Path \in InTree(view.head)
      <4> DEFINE read == [view.entries EXCEPT ![Path] = IF Reader THEN repo.disk[Path] ELSE @]
                 listed == IF repo.disk[Path] # Tree[view.head][Path]
                           THEN view.changed \cup {Path} ELSE view.changed
      <4>1. view' = [view EXCEPT !.entries = read, !.changed = listed]
        BY <1>1, <1>6, <2>3, <3>3 DEF ReadTracked, View
      <4>2. /\ \A p \in Paths : read[p] \in {view.entries[p], repo.disk[p]}
            /\ \A p \in Paths : p # Path => read[p] = view.entries[p]
            /\ Reader => read[Path] = repo.disk[Path]
        BY <1>1, <3>1 DEF View
      <4>3. listed = Modified \cap Done'
        BY <1>2, <2>1, <3>1, <3>3 DEF Modified
      <4> HIDE DEF read, listed, Goto, Stay
      <4>4. view'.entries = read /\ view'.changed = listed
        BY <1>1, <4>1 DEF View
      <4>5. \A p \in Paths : view'.entries[p] \in {Unread, repo.disk[p]}
        BY <1>2, <4>2, <4>4
      <4>6. Reader => \A p \in InTree(view.head) \cap Done' : view'.entries[p] # Unread
        BY <1>2, <2>1, <3>1, <4>2, <4>4, RestPaths
      <4> QED BY <1>2, <1>3, <2>1, <3>1, <4>3, <4>4, <4>5, <4>6
              DEF ExactView, AfterTracked, AfterStaged, AfterOthers, AfterIgnored
    <3> QED BY <3>2, <3>3
  <2> QED BY <2>2, <2>3
<1>7. CASE ReadStaged
  <2>1. /\ view' = [view EXCEPT
                      !.changed = @ \cup {p \in Paths : repo.index[p] # Tree[view.head][p]}]
        /\ step = "staged" /\ step' = "others" /\ pass' = pass
    BY <1>7 DEF ReadStaged
  <2>2. /\ view'.head = view.head /\ view'.entries = view.entries
        /\ view'.changed = view.changed \cup {p \in Paths : repo.index[p] # Tree[view.head][p]}
    BY <1>1, <2>1 DEF View
  <2>3. view'.changed = Diff
    BY <1>2, <2>1, <2>2 DEF Diff
  <2> QED BY <1>2, <1>3, <2>1, <2>2, <2>3
          DEF ExactView, AfterTracked, AfterStaged, AfterOthers, AfterIgnored
<1>8. CASE ReadOthers
  <2> DEFINE some == Untracked(repo) \ (IF Reader THEN {} ELSE HiddenBy(repo.disk[Ignore]))
  <2>1. /\ view' = [view EXCEPT !.others = some] /\ step = "others" /\ pass' = pass
        /\ step' = (IF Reader /\ view'.others = {} THEN "listed" ELSE "ignored")
    BY <1>8 DEF ReadOthers
  <2>2. /\ view'.head = view.head /\ view'.entries = view.entries
        /\ view'.changed = view.changed /\ view'.others = some
    BY <1>1, <2>1 DEF View
  <2>3. step' = "listed" => view.changed = Differences(repo)
    BY <1>2, <2>1, <2>2, RestPaths
  <2> QED BY <1>2, <1>3, <2>1, <2>2, <2>3
          DEF ExactView, AfterTracked, AfterStaged, AfterOthers, AfterIgnored
<1>9. CASE ReadIgnored
  <2> DEFINE read == [view.entries EXCEPT ![Ignore] = repo.disk[Ignore]]
             listed == Differences(repo)
  <2>1. step = "ignored" /\ view.head = repo.head /\ view.changed = Diff
    BY <1>2, <1>9 DEF ReadIgnored
  <2>2. WithUntracked(view, Untracked(repo), Untracked(repo) \ HiddenBy(repo.disk[Ignore])) = listed
    BY <2>1, ListedAtRest
  <2>3. Consistent(Ignore)
    BY <1>2, Constants DEF Consistent
  <2>4. /\ pass' = pass /\ step' = "listed"
        /\ \/ view' = [view EXCEPT !.entries = read, !.changed = listed]
           \/ view' = [view EXCEPT !.changed = listed]
    BY <1>1, <1>2, <1>9, <2>1, <2>2, <2>3, ZenonT(30) DEF ReadIgnored, View
  <2>5. /\ \A p \in Paths : read[p] \in {view.entries[p], repo.disk[p]}
    BY <1>1, Constants DEF View
  <2>6. view' = [view EXCEPT !.changed = listed] => view'.entries = view.entries
    BY <1>1 DEF View
  <2> HIDE DEF read, listed, Goto, Stay
  <2>7. /\ view'.head = view.head /\ view'.changed = listed
        /\ view'.entries = read \/ view'.entries = view.entries
    BY <1>1, <2>4, <2>6 DEF View
  <2>8. \A p \in Paths : view'.entries[p] \in {Unread, repo.disk[p]}
    BY <1>2, <2>5, <2>7
  <2>9. Reader => \A p \in InTree(view.head) : view'.entries[p] # Unread
    BY <1>2, <2>1, <2>5, <2>7, RestPaths DEF AfterTracked, AfterStaged, AfterOthers
  <2>10. listed = Differences(repo)
    BY DEF listed
  <2> QED BY <1>2, <1>3, <2>1, <2>4, <2>7, <2>8, <2>9, <2>10
          DEF ExactView, AfterTracked, AfterStaged, AfterOthers, AfterIgnored
<1> QED BY <1>4, <1>5, <1>6, <1>7, <1>8, <1>9 DEF Discovery

LEMMA ExactReading ==
    ASSUME Typed, Typed', ExactView, Listed \/ ReadIndex \/ ReadDigest
    PROVE  /\ ExactView'
           /\ pass' = pass \/ (pass' = "refused" /\ Differences(repo) # {} /\ ~approved)
           /\ step' \in {"files", "rest"} =>
                 pass' = "copy" /\ step' = "files" /\ at' = 1 /\ step = "listed"
<1> USE DEF Goto, Stay
<1>1. /\ view \in View /\ Discovering /\ step \in {"listed", "index", "digest"}
      /\ UNCHANGED <<repo, command, approved>>
  BY OfCommand, RowsKept DEF Typed, Digesting
<1>2. /\ view.head = repo.head /\ view.changed = Differences(repo)
      /\ \A p \in Paths : view.entries[p] \in {Unread, repo.disk[p]}
      /\ Reader => \A p \in InTree(view.head) : view.entries[p] # Unread
  BY <1>1 DEF ExactView, AfterTracked, AfterStaged, AfterOthers, AfterIgnored
<1>3. /\ Differences(repo)' = Differences(repo) /\ (Reader' <=> Reader)
      /\ InTree(repo.head)' = InTree(repo.head) /\ repo' = repo
  BY <1>1, RestKept DEF Reader
<1>4. CASE Listed
  <2>1. CASE pass' = "refused"
    BY <1>2, <1>4, <2>1 DEF Listed, Refuse, Begin, ExactView, Discovering, FirstRead
  <2>2. CASE pass' # "refused"
    <3>1. pass' = pass /\ view' = view /\ step' \in {"files", "index"} /\ at' = 1 /\ step = "listed"
          /\ (step' = "files" => pass = "copy")
      BY <1>4, <2>2 DEF Listed, Refuse, Begin
    <3> QED BY <1>2, <1>3, <3>1 DEF ExactView, AfterTracked, AfterStaged, AfterOthers, AfterIgnored
  <2> QED BY <2>1, <2>2
<1>5. CASE ReadIndex
  <2>1. /\ view' = [view EXCEPT !.index = repo.index, !.staged = repo.index # Tree[view.head]]
        /\ step = "index" /\ step' = "digest" /\ pass' = pass /\ at' = 1
    BY <1>5 DEF ReadIndex
  <2>2. /\ view'.head = view.head /\ view'.changed = view.changed /\ view'.others = view.others
        /\ view'.entries = view.entries /\ view'.index = repo.index
        /\ view'.staged = (repo.index # Tree[view.head]) /\ view'.digest = view.digest
    BY <1>1, <2>1 DEF View
  <2>3. Done' = {} /\ view.digest = [p \in Paths |-> Unread]
    BY <2>1, NextPath DEF Typed, Nothing
  <2> QED BY <1>2, <1>3, <2>1, <2>2, <2>3
          DEF ExactView, AfterTracked, AfterStaged, AfterOthers, AfterIgnored
<1>6. CASE ReadDigest
  <2> DEFINE D == Differences(repo)
  <2>1. /\ view.index = repo.index /\ view.staged = (repo.index # Tree[repo.head])
        /\ view.digest = [p \in Paths |-> IF p \in D \cap Done
                                           THEN <<repo.index[p], repo.disk[p]>> ELSE Unread]
        /\ Reader => \A p \in D \cap Done : view.entries[p] # Unread
    BY <1>1, <1>2, <1>6 DEF ExactView, ReadDigest
  <2>2. Consistent(Path)
    BY <1>2, <1>6, NextPath DEF ReadDigest, Consistent, Typed
  <2>3. /\ step = "digest" /\ step' = "digest" /\ pass' = pass /\ Left
        /\ Path \in Paths /\ Path \notin Done /\ Done' = Done \cup {Path}
    BY <1>6, <2>2, NextPath DEF ReadDigest, Typed
  <2>4. CASE Path \notin D
    <3>1. view' = view
      BY <1>2, <1>6, <2>4 DEF ReadDigest
    <3>2. D \cap Done' = D \cap Done
      BY <2>3, <2>4
    <3> HIDE DEF D
    <3>3. view.digest = [p \in Paths |-> IF p \in D \cap Done'
                                           THEN <<repo.index[p], repo.disk[p]>> ELSE Unread]
      BY <2>1, <3>2
    <3>4. D = Differences(repo)
      BY DEF D
    <3> QED BY <1>2, <1>3, <2>1, <2>3, <3>1, <3>2, <3>3, <3>4
            DEF ExactView, AfterTracked, AfterStaged, AfterOthers, AfterIgnored
  <2>5. CASE Path \in D
    <3> DEFINE read == [view.entries EXCEPT ![Path] = IF Reader THEN repo.disk[Path] ELSE @]
               digest == [view.digest EXCEPT ![Path] = <<view.index[Path], repo.disk[Path]>>]
    <3>1. view' = [view EXCEPT !.entries = read, !.digest = digest]
      BY <1>1, <1>2, <1>6, <2>2, <2>5 DEF ReadDigest, View
    <3>2. /\ \A p \in Paths : read[p] \in {view.entries[p], repo.disk[p]}
          /\ \A p \in Paths : p # Path => read[p] = view.entries[p]
          /\ Reader => read[Path] = repo.disk[Path]
      BY <1>1, <2>3 DEF View
    <3> HIDE DEF D, read
    <3>3. digest = [p \in Paths |-> IF p \in D \cap Done'
                                     THEN <<repo.index[p], repo.disk[p]>> ELSE Unread]
      BY <2>1, <2>3, <2>5
    <3> HIDE DEF digest, Goto, Stay
    <3>4. /\ view'.head = view.head /\ view'.changed = view.changed /\ view'.index = view.index
          /\ view'.staged = view.staged /\ view'.entries = read /\ view'.digest = digest
      BY <1>1, <3>1 DEF View
    <3>5. \A p \in Paths : view'.entries[p] \in {Unread, repo.disk[p]}
      BY <1>2, <3>2, <3>4
    <3>6. D = Differences(repo) /\ D \subseteq Paths
      BY RestPaths DEF D
    <3>7. Reader => /\ \A p \in InTree(view.head) : view'.entries[p] # Unread
                    /\ \A p \in D \cap Done' : view'.entries[p] # Unread
      BY <1>2, <2>1, <2>3, <3>2, <3>4, <3>6, RestPaths
    <3> QED BY <1>2, <1>3, <2>1, <2>3, <3>3, <3>4, <3>5, <3>6, <3>7
            DEF ExactView, AfterTracked, AfterStaged, AfterOthers, AfterIgnored
  <2> QED BY <2>4, <2>5
<1> QED BY <1>4, <1>5, <1>6

\* A capture of a repository at rest describes it.
LEMMA ExactCaptured ==
    ASSUME Typed, Typed', ExactView, ExactCapture, Captured
    PROVE  ExactView' /\ ExactCapture' /\ pass' # "refused"
<1>1. /\ step = "digest" /\ pass \in {"capture", "recapture"} /\ Done = Paths /\ view \in View
      /\ UNCHANGED <<repo, command>>
  BY CapturedTo, RowsKept, NextPath DEF Typed, Digesting
<1>2. /\ Differences(repo)' = Differences(repo) /\ (Reader' <=> Reader)
      /\ InTree(repo.head)' = InTree(repo.head) /\ repo' = repo
      /\ UNCHANGED Modified
  BY <1>1, RestKept DEF Reader
<1>3. /\ Describes(view, repo) /\ view.changed = Differences(repo)
      /\ view.staged = (repo.index # Tree[repo.head])
      /\ \A p \in Paths : view.entries[p] \in {Unread, repo.disk[p]}
      /\ Reader => \A p \in InTree(repo.head) \cup Differences(repo) : view.entries[p] # Unread
  <2>1. /\ view.head = repo.head /\ view.changed = Differences(repo)
        /\ view.staged = (repo.index # Tree[repo.head])
        /\ view.digest = [p \in Paths |-> IF p \in Differences(repo) \cap Paths
                                           THEN <<repo.index[p], repo.disk[p]>> ELSE Unread]
        /\ \A p \in Paths : view.entries[p] \in {Unread, repo.disk[p]}
        /\ Reader => \A p \in InTree(repo.head) : view.entries[p] # Unread
        /\ Reader => \A p \in Differences(repo) \cap Paths : view.entries[p] # Unread
    BY <1>1 DEF ExactView, Discovering, AfterTracked, AfterStaged, AfterOthers, AfterIgnored
  <2>2. Differences(repo) \cap Paths = Differences(repo)
    BY RestPaths
  <2> QED BY <2>1, <2>2 DEF Describes
<1>4. CASE pass = "capture"
  <2>1. /\ captured' = view /\ pass' = (IF Reader THEN "observe" ELSE "copy")
        /\ step' = (IF Reader THEN "launch" ELSE "tracked") /\ at' = 1
        /\ view' = [Blind EXCEPT !.head = view.head]
    BY <1>4, CapturedTo
  <2>2. ExactCapture'
    BY <1>2, <1>3, <2>1 DEF ExactCapture, Describes
  <2>3. /\ view'.head = repo.head /\ view'.changed = {} /\ view'.entries = Nothing /\ Done' = {}
    BY <1>3, <2>1, NextPath DEF Blind, Describes, Typed
  <2>4. \A p \in Paths : Nothing[p] = Unread
    BY DEF Nothing
  <2>5. ExactView'
    BY <1>2, <2>1, <2>3, <2>4 DEF ExactView, Discovering, AfterTracked, AfterStaged, AfterOthers,
       AfterIgnored, Reader
  <2> QED BY <2>1, <2>2, <2>5
<1>5. CASE pass = "recapture"
  <2>1. SameCapture(view)
    <3>1. Describes(captured, repo) /\ captured.staged = (repo.index # Tree[repo.head])
      BY <1>5 DEF ExactCapture, Kept
    <3> QED BY <1>3, <3>1 DEF Describes, SameCapture
  <2>2. UNCHANGED captured /\ pass' \in {"written", "reprint"}
    BY <1>5, <2>1, CapturedTo
  <2>3. ExactCapture'
    <3>1. Kept
      BY <1>5 DEF Kept
    <3> QED BY <1>2, <2>2, <3>1 DEF ExactCapture, Describes
  <2> QED BY <2>2, <2>3 DEF ExactView, Discovering
<1> QED BY <1>1, <1>4, <1>5

\* A path the capture did not read and the base has: all that the manifest of
\* a repository at rest refuses.
HiddenAgain ==
    \E p \in Paths \ (InTree(repo.head) \cup Differences(repo)) :
        Tree[Base][p] # None /\ repo.disk[p] # None

LEMMA ExactManifest ==
    ASSUME Typed, Typed', ExactCapture, Manifest
    PROVE  ExactCapture' /\ ExactView' /\ (pass' = "refused" => HiddenAgain)
<1> USE DEF Goto, Stay
<1>1. /\ pass = "observe" /\ Reader /\ UNCHANGED <<repo, captured, command>>
      /\ pass' \in {"observe", "recapture", "refused"}
  BY OfCommand, RowsKept DEF Manifest, ReadLaunchHead, ReadObservedHead, Observe, Observed,
     results, Refuse, Begin
<1>2. /\ Differences(repo)' = Differences(repo) /\ (Reader' <=> Reader)
      /\ InTree(repo.head)' = InTree(repo.head) /\ repo' = repo
  BY <1>1, RestKept DEF Reader
<1>3. /\ captured.head = repo.head /\ captured.changed = Differences(repo)
      /\ captured.staged = (repo.index # Tree[repo.head])
      /\ \A p \in Paths : captured.entries[p] \in {Unread, repo.disk[p]}
      /\ \A p \in InTree(repo.head) \cup Differences(repo) : captured.entries[p] # Unread
      /\ Describes(captured, repo)
  BY <1>1 DEF ExactCapture, Kept, Describes
<1>4. ExactCapture'
  BY <1>1, <1>2, <1>3 DEF ExactCapture, Describes
<1>5. ExactView'
  <2>1. CASE pass' = "recapture"
    <3>1. view' = Blind /\ step' = "head"
      BY <1>1, <2>1 DEF Manifest, ReadLaunchHead, ReadObservedHead, Observe, Observed, Refuse,
         Begin, FirstRead
    <3> QED BY <3>1, BlindTyped DEF ExactView, AfterTracked, AfterStaged, AfterOthers,
            AfterIgnored, Nothing
  <2> QED BY <1>1, <2>1 DEF ExactView, Discovering
<1>6. CASE ReadLaunchHead \/ ReadObservedHead
  <2>1. pass' = pass
    BY <1>3, <1>6 DEF ReadLaunchHead, ReadObservedHead
  <2> QED BY <1>1, <1>4, <1>5, <2>1
<1>7. CASE Observe
  <2>1. ASSUME pass' = "refused"
        PROVE  HiddenAgain
    <3>1. /\ Left /\ Path \in ManifestPaths /\ approved
          /\ ~checkObserved(Path, repo.disk[Path])
      BY <1>1, <1>7, <2>1 DEF Observe
    <3>2. Path \in Paths
      BY <3>1, NextPath DEF Typed
    <3>3. captured.entries[Path] = Unread /\ repo.disk[Path] # None
      BY <1>3, <3>1, <3>2 DEF checkObserved
    <3>4. Path \notin InTree(repo.head) \cup Differences(repo)
      BY <1>3, <3>3
    <3>5. Tree[Base][Path] # None
      BY <1>3, <3>1, <3>2, <3>4 DEF ManifestPaths, InTree
    <3> QED BY <3>2, <3>3, <3>4, <3>5 DEF HiddenAgain
  <2> QED BY <1>4, <1>5, <2>1
<1>8. CASE Observed
  BY <1>1, <1>4, <1>5, <1>8 DEF Observed, Begin
<1> QED BY <1>6, <1>7, <1>8 DEF Manifest

LEMMA ExactCopying ==
    ASSUME Typed, Typed', ExactView, ExactCapture, ExactCopy, Copying
    PROVE  ExactView' /\ ExactCapture' /\ ExactCopy' /\ pass' # "refused"
<1> USE DEF Goto, Stay
<1>1. /\ pass = "copy" /\ command = "credit" /\ step \in {"files", "rest"}
      /\ UNCHANGED <<repo, captured, command>> /\ pass' \in {"copy", "recapture"}
      /\ made \in [Paths -> {Unread} \cup Contained] /\ ~Reader
  BY OfCommand, RowsKept DEF Copying, CopyFile, CopyPhase, CopyOn, Copied, Typed, Position,
     results, Begin, Reader
<1>2. /\ Differences(repo)' = Differences(repo) /\ (Reader' <=> Reader)
      /\ InTree(repo.head)' = InTree(repo.head) /\ repo' = repo
      /\ \A p : CopyOf(p)' = CopyOf(p)
  BY <1>1, RestKept DEF Reader
<1>3. /\ view.head = repo.head /\ view.changed = Differences(repo)
      /\ \A p \in Paths : view.entries[p] \in {Unread, repo.disk[p]}
  BY <1>1 DEF ExactView, Discovering
<1>4. ExactCapture'
  BY <1>1, <1>2 DEF ExactCapture, Describes, Kept
<1>5. CASE CopyPhase("files", InTree(view.head))
  <2>1. /\ step = "files" /\ step' = "files" /\ pass' = pass /\ view' = view /\ Left
        /\ made' = IF Path \in InTree(repo.head) THEN [made EXCEPT ![Path] = repo.disk[Path]]
                   ELSE made
        /\ at' = at + 1
    BY <1>3, <1>5 DEF CopyPhase
  <2>2. Path \in Paths /\ Done' = Done \cup {Path}
    BY <2>1, NextPath DEF Typed
  <2>3. made = [p \in Paths |-> IF p \in InTree(repo.head) \cap Done THEN CopyOf(p) ELSE Unread]
    BY <1>1, <2>1 DEF ExactCopy
  <2>4. Path \in InTree(repo.head) => CopyOf(Path) = repo.disk[Path]
    BY DEF CopyOf
  <2>5. made' = [p \in Paths |-> IF p \in InTree(repo.head) \cap Done' THEN CopyOf(p) ELSE Unread]
    BY <1>1, <2>1, <2>2, <2>3, <2>4
  <2>6. ExactView'
    BY <1>1, <1>2, <1>3, <2>1 DEF ExactView, AfterTracked, AfterStaged, AfterOthers, AfterIgnored
  <2> QED BY <1>1, <1>2, <1>4, <2>1, <2>5, <2>6 DEF ExactCopy
<1>6. CASE CopyPhase("rest", view.changed \ InTree(view.head))
  <2>1. /\ step = "rest" /\ step' = "rest" /\ pass' = pass /\ view' = view /\ Left
        /\ made' = IF Path \in Differences(repo) \ InTree(repo.head)
                   THEN [made EXCEPT ![Path] = repo.disk[Path]] ELSE made
        /\ at' = at + 1
    BY <1>3, <1>6 DEF CopyPhase
  <2>2. Path \in Paths /\ Done' = Done \cup {Path}
    BY <2>1, NextPath DEF Typed
  <2>3. made = [p \in Paths |-> IF p \in InTree(repo.head) \cup Done THEN CopyOf(p) ELSE Unread]
    BY <1>1, <2>1 DEF ExactCopy
  <2>4. CopyOf(Path) = IF Path \in InTree(repo.head) \cup Differences(repo) THEN repo.disk[Path]
                       ELSE Unread
    BY DEF CopyOf
  <2>5. made' = [p \in Paths |-> IF p \in InTree(repo.head) \cup Done' THEN CopyOf(p) ELSE Unread]
    BY <1>1, <2>1, <2>2, <2>3, <2>4
  <2>6. ExactView'
    BY <1>1, <1>2, <1>3, <2>1 DEF ExactView, AfterTracked, AfterStaged, AfterOthers, AfterIgnored
  <2> QED BY <1>1, <1>2, <1>4, <2>1, <2>5, <2>6 DEF ExactCopy
<1>7. CASE CopyOn
  <2>1. /\ step = "files" /\ step' = "rest" /\ pass' = pass /\ view' = view /\ ~Left
        /\ made' = made /\ at' = 1
    BY <1>7 DEF CopyOn, results
  <2>2. Done = Paths /\ Done' = {} /\ InTree(repo.head) \subseteq Paths
    BY <2>1, NextPath, RestPaths DEF Typed
  <2>3. made = [p \in Paths |-> IF p \in InTree(repo.head) \cap Done THEN CopyOf(p) ELSE Unread]
    BY <1>1, <2>1 DEF ExactCopy
  <2>4. made' = [p \in Paths |-> IF p \in InTree(repo.head) \cup Done' THEN CopyOf(p) ELSE Unread]
    BY <2>1, <2>2, <2>3
  <2>5. ExactView'
    BY <1>1, <1>2, <1>3, <2>1 DEF ExactView, AfterTracked, AfterStaged, AfterOthers, AfterIgnored
  <2> QED BY <1>1, <1>2, <1>4, <2>1, <2>4, <2>5 DEF ExactCopy
<1>8. CASE Copied
  <2>1. step = "rest" /\ step' = "head" /\ pass' = "recapture" /\ view' = Blind /\ ~Left
        /\ made' = made
    BY <1>8 DEF Copied, results, Begin, FirstRead
  <2>2. Done = Paths
    BY <2>1, NextPath DEF Typed
  <2>3. made = [p \in Paths |-> IF p \in InTree(repo.head) \cup Done THEN CopyOf(p) ELSE Unread]
    BY <1>1, <2>1 DEF ExactCopy
  <2>4. made' = [p \in Paths |-> CopyOf(p)]
    BY <2>1, <2>2, <2>3
  <2>5. ExactView'
    BY <2>1, BlindTyped DEF ExactView, AfterTracked, AfterStaged, AfterOthers, AfterIgnored, Nothing
  <2> QED BY <1>1, <1>2, <1>4, <2>1, <2>4, <2>5 DEF ExactCopy
<1> QED BY <1>5, <1>6, <1>7, <1>8 DEF Copying, CopyFile

\* What is fingerprinted of a repository that never changed.
LEMMA ExactPrinting ==
    ASSUME Typed, Typed', Changes = 0, ExactPrint,
           PrintDirectory \/ PrintNames \/ PrintHead \/ PrintIndex \/ PrintFile
    PROVE  ExactPrint' /\ pass' = pass
<1> USE DEF Goto, Stay
<1>1. /\ view \in View /\ pass \in {"print", "reprint"} /\ command = "credit"
      /\ UNCHANGED <<repo, stamp, print, command>>
      /\ step \in {"dir", "names", "gitHead", "gitIndex", "files"}
  BY DEF PrintDirectory, PrintNames, PrintHead, PrintIndex, PrintFile, Printing,
     Typed, Position, DiscoverySteps, git, results, Refuse, Begin
<1>2. \A p \in Places : stamp[p] = 0
  BY ChangesIsMax, Constants DEF Typed
<1>3. UNCHANGED Rows /\ repo' = repo /\ (Printed1' => Printed1 \/ pass' # pass)
  BY <1>1, RestKept DEF Printed1
<1>4. /\ step \in {"gitHead", "gitIndex", "files"} => view.changed = {p \in Paths : repo.disk[p] # None}
      /\ view.rows = [p \in Places |->
            IF \/ p = "dir" /\ step # "dir"
               \/ p = "HEAD" /\ step \in {"gitIndex", "files"}
               \/ p = "index" /\ step = "files"
               \/ step = "files" /\ p \in Done
            THEN Rows[p] ELSE Unread]
      /\ Printed1 => print = Rows
  BY <1>1 DEF ExactPrint
<1>5. /\ Rows = [p \in Places |-> IF p \in Paths /\ repo.disk[p] = None THEN Unread ELSE 0]
      /\ Rows["dir"] = 0 /\ Rows["HEAD"] = 0 /\ Rows["index"] = 0
  BY Constants DEF Rows
<1>6. CASE PrintDirectory
  <2>1. view' = [view EXCEPT !.rows["dir"] = stamp["dir"]] /\ step = "dir" /\ step' = "names"
        /\ pass' = pass
    BY <1>6 DEF PrintDirectory
  <2>2. view'.rows = [view.rows EXCEPT !["dir"] = stamp["dir"]]
    BY <1>1, <2>1 DEF View
  <2>3. view'.rows = [p \in Places |-> IF p = "dir" THEN Rows[p] ELSE Unread]
    BY <1>2, <1>4, <1>5, <2>1, <2>2, Constants
  <2> QED BY <1>1, <1>3, <1>4, <2>1, <2>3 DEF ExactPrint
<1>7. CASE PrintNames
  <2>1. /\ view' = [view EXCEPT !.changed = {p \in Paths : repo.disk[p] # None}]
        /\ step = "names" /\ step' = "gitHead" /\ pass' = pass
    BY <1>7 DEF PrintNames
  <2>2. view'.rows = view.rows /\ view'.changed = {p \in Paths : repo.disk[p] # None}
    BY <1>1, <2>1 DEF View
  <2>3. view'.rows = [p \in Places |-> IF p = "dir" THEN Rows[p] ELSE Unread]
    BY <1>4, <2>1, <2>2
  <2> QED BY <1>1, <1>3, <1>4, <2>1, <2>2, <2>3 DEF ExactPrint
<1>8. CASE PrintHead
  <2>1. view' = [view EXCEPT !.rows["HEAD"] = stamp["HEAD"]] /\ step = "gitHead"
        /\ step' = "gitIndex" /\ pass' = pass
    BY <1>8 DEF PrintHead
  <2>2. view'.rows = [view.rows EXCEPT !["HEAD"] = stamp["HEAD"]] /\ view'.changed = view.changed
    BY <1>1, <2>1 DEF View
  <2>3. view.rows = [p \in Places |-> IF p = "dir" THEN Rows[p] ELSE Unread]
    BY <1>4, <2>1
  <2>4. stamp["HEAD"] = Rows["HEAD"]
    BY <1>2, <1>5, Constants
  <2>5. view'.rows = [p \in Places |-> IF p \in {"dir", "HEAD"} THEN Rows[p] ELSE Unread]
    BY <2>2, <2>3, <2>4
  <2> QED BY <1>1, <1>3, <1>4, <2>1, <2>2, <2>5 DEF ExactPrint
<1>9. CASE PrintIndex
  <2>1. view' = [view EXCEPT !.rows["index"] = stamp["index"]] /\ step = "gitIndex"
        /\ step' = "files" /\ at' = 1 /\ pass' = pass
    BY <1>9 DEF PrintIndex
  <2>2. view'.rows = [view.rows EXCEPT !["index"] = stamp["index"]] /\ view'.changed = view.changed
    BY <1>1, <2>1 DEF View
  <2>3. Done' = {}
    BY <2>1, NextPath DEF Typed
  <2>4. view.rows = [p \in Places |-> IF p \in {"dir", "HEAD"} THEN Rows[p] ELSE Unread]
    BY <1>4, <2>1
  <2>5. stamp["index"] = Rows["index"]
    BY <1>2, <1>5, Constants
  <2>6. view'.rows = [p \in Places |-> IF p \in {"dir", "HEAD", "index"} THEN Rows[p] ELSE Unread]
    BY <2>2, <2>4, <2>5
  <2> QED BY <1>1, <1>3, <1>4, <2>1, <2>2, <2>3, <2>6 DEF ExactPrint
<1>10. CASE PrintFile
  <2>1. Left /\ step = "files"
    BY <1>10 DEF PrintFile
  <2>2. Path \in Paths /\ Path \notin Done
    BY <2>1, NextPath DEF Typed
  <2>3. view.changed = {p \in Paths : repo.disk[p] # None}
    BY <1>4, <2>1
  <2>4. /\ step' = "files" /\ at' = at + 1 /\ pass' = pass
        /\ Path \notin view.changed => view' = view
        /\ Path \in view.changed => view' = [view EXCEPT !.rows[Path] = stamp[Path]]
    BY <1>10, <2>2, <2>3 DEF PrintFile
  <2>5. Done' = Done \cup {Path}
    BY <2>1, <2>4, NextPath DEF Typed
  <2>6. view'.rows = (IF Path \in view.changed THEN [view.rows EXCEPT ![Path] = 0] ELSE view.rows)
        /\ view'.changed = view.changed
    BY <1>1, <1>2, <2>2, <2>4, Constants DEF View
  <2>7. view.rows = [p \in Places |-> IF p \in {"dir", "HEAD", "index"} \cup Done
                                       THEN Rows[p] ELSE Unread]
    BY <1>4, <2>1
  <2>8. Rows[Path] = IF Path \in view.changed THEN 0 ELSE Unread
    BY <1>5, <2>2, <2>3, Constants
  <2>9. view'.rows = [p \in Places |-> IF p \in {"dir", "HEAD", "index"} \cup Done'
                                        THEN Rows[p] ELSE Unread]
    BY <2>2, <2>5, <2>6, <2>7, <2>8, Constants
  <2> QED BY <1>1, <1>3, <1>4, <2>1, <2>4, <2>6, <2>9 DEF ExactPrint
<1> QED BY <1>6, <1>7, <1>8, <1>9, <1>10

LEMMA ExactPrinted ==
    ASSUME Typed, Typed', Changes = 0, ExactPrint, Printed
    PROVE  ExactPrint' /\ pass' # "refused"
<1>1. /\ step = "files" /\ ~Left /\ pass \in {"print", "reprint"} /\ view' = Blind
      /\ command = "credit" /\ UNCHANGED <<repo, stamp, command>>
  BY PrintedTo DEF Typed, Position
<1>2. UNCHANGED Rows /\ Done = Paths
  BY <1>1, RestKept, NextPath DEF Typed
<1>3. view.rows = Rows /\ (Printed1 => print = Rows)
  <2>1. view.rows = [p \in Places |-> IF p \in {"dir", "HEAD", "index"} \cup Paths
                                      THEN Rows[p] ELSE Unread]
    BY <1>1, <1>2 DEF ExactPrint
  <2>2. view.rows = [p \in Places |-> Rows[p]]
    BY <2>1, Constants
  <2> QED BY <1>1, <2>2 DEF ExactPrint, Rows
<1>4. CASE pass = "print"
  BY <1>1, <1>2, <1>3, <1>4, PrintedTo DEF ExactPrint
<1>5. CASE pass = "reprint"
  <2>1. print = Rows
    BY <1>1, <1>3, <1>5 DEF Printed1
  <2>2. UNCHANGED print /\ pass' = "recorded"
    BY <1>3, <1>5, <2>1, PrintedTo DEF SamePrint
  <2> QED BY <1>2, <2>1, <2>2 DEF ExactPrint
<1> QED BY <1>1, <1>4, <1>5

\* The repository that did not change stays as it was, and what is not of the
\* fingerprint leaves it.
LEMMA ExactPrintKept ==
    ASSUME Typed, Typed', ExactPrint, Discovery \/ Digesting \/ Manifest \/ Copying
    PROVE  ExactPrint'
<1>1. /\ UNCHANGED <<repo, stamp, print, command>>
      /\ pass \in {"capture", "recapture", "copy", "observe"}
      /\ pass' \in {"print", "reprint"} => Captured
  BY RowsKept
<1>2. UNCHANGED Rows /\ Changes' = Changes
  BY <1>1, RestKept DEF Changes
<1>3. command = "credit" => Printed1
  BY <1>1 DEF Printed1, Typed, Position
<1>4. pass' # "print"
  BY <1>1, CapturedTo
<1>5. CASE pass' = "reprint"
  <2>1. view' = Blind /\ step' = "dir"
    <3>1. Captured /\ pass = "recapture" /\ SameCapture(view)
      BY <1>1, <1>5, CapturedTo
    <3>2. Begin(Following, Blind) /\ Following = "reprint"
      BY <1>5, <3>1 DEF Captured, Begin
    <3> QED BY <3>2 DEF Begin, FirstRead
  <2>2. Blind.rows = [p \in Places |-> Unread]
    BY BlindTyped
  <2>3. view'.rows = [p \in Places |->
            IF \/ p = "dir" /\ step' # "dir"
               \/ p = "HEAD" /\ step' \in {"gitIndex", "files"}
               \/ p = "index" /\ step' = "files"
               \/ step' = "files" /\ p \in Done'
            THEN Rows'[p] ELSE Unread]
    BY <2>1, <2>2
  <2> QED BY <1>1, <1>2, <1>3, <2>1, <2>3 DEF ExactPrint
<1>6. CASE pass' # "reprint"
  BY <1>1, <1>2, <1>3, <1>4, <1>6 DEF ExactPrint
<1> QED BY <1>5, <1>6

LEMMA StillKept ==
    ASSUME UNCHANGED <<stamp, print, command>>, Printed1' => Printed1
    PROVE  Changes' = Changes /\ (Still' => Still)
BY DEF Changes, Still, Unmoved

LEMMA ExactStep ==
    ASSUME Typed, Typed', Fingerprint, Exact, [Next]_vars
    PROVE  Exact'
<1>1. CASE Editor
  <2>1. Changes' # 0 /\ ~Still' /\ UNCHANGED <<pass, made>>
    BY <1>1, EditorMoves
  <2>2. (pass \in {"print", "capture"} => made = Nothing)'
    BY <2>1 DEF Exact, Nothing
  <2> QED BY <2>1, <2>2 DEF Exact, ExactPrint, RefusedFor
<1>2. CASE UNCHANGED vars
  <2>1. UNCHANGED <<repo, stamp, command, approved, pass, step, at, view, captured, print, made>>
    BY <1>2 DEF vars, git, progress, results
  <2>2. /\ UNCHANGED <<Modified, Diff, Rows>>
        /\ Differences(repo)' = Differences(repo) /\ Untracked(repo)' = Untracked(repo)
        /\ \A p : CopyOf(p)' = CopyOf(p)
    BY <2>1, RestKept
  <2>3. (Still' <=> Still) /\ Changes' = Changes /\ Done' = Done /\ (Printed1' <=> Printed1)
    BY <2>1 DEF Still, Changes, Printed1, Unmoved, Done
  <2>4. Still' => ExactView'
    BY <2>1, <2>2, <2>3 DEF Exact, ExactView, Discovering, InTree, Reader
  <2>5. Still' => ExactCapture'
    BY <2>1, <2>2, <2>3 DEF Exact, ExactCapture, Describes, Kept, InTree, Reader
  <2>6. Still' => ExactCopy'
    BY <2>1, <2>2, <2>3 DEF Exact, ExactCopy, InTree, Nothing
  <2>7. ExactPrint'
    BY <2>1, <2>2, <2>3 DEF Exact, ExactPrint
  <2>8. RefusedFor'
    BY <2>1, <2>2, <2>3 DEF Exact, RefusedFor, InTree
  <2> QED BY <2>1, <2>4, <2>5, <2>6, <2>7, <2>8 DEF Exact, Nothing
<1>3. CASE Discovery \/ Digesting \/ Manifest \/ Copying
  <2>1. /\ UNCHANGED <<repo, stamp, seen, torn, command, approved, print>>
        /\ pass \in {"capture", "recapture", "copy", "observe"}
        /\ pass' = pass \/ pass' = "refused" \/ pass' = "recapture" \/ Captured
    BY <1>3, RowsKept
  <2>2. Printed1' => Printed1
    BY <2>1 DEF Printed1, Typed, Position
  <2>3. Changes' = Changes /\ (Still' => Still)
    BY <2>1, <2>2, StillKept
  <2>4. ExactPrint'
    BY <1>3, ExactPrintKept DEF Exact
  <2>5. (Captured => pass' \in {"observe", "copy", "refused", "written", "reprint"})
        /\ (~Captured => pass' \in {pass, "refused", "recapture"})
    BY <2>1, CapturedTo
  <2>6. pass' # "print" /\ (pass' = "capture" => made' = Nothing)
    <3>1. pass' = "capture" => pass = "capture" /\ ~Captured
      BY <2>1, <2>5
    <3>2. pass' = "capture" => UNCHANGED made
      BY <1>3, <3>1, OfCommand DEF Discovery, ReadHead, ReadHeadAgain, ReadTracked, ReadStaged,
         ReadOthers, ReadIgnored, Digesting, Listed, ReadIndex, ReadDigest, results, Manifest,
         Copying, CopyFile, CopyPhase, CopyOn, Copied, Typed, Position
    <3> QED BY <2>1, <2>5, <3>1, <3>2 DEF Exact
  <2>7. Nothing' = Nothing
    BY DEF Nothing
  <2>8. CASE Discovery
    <3>1. Still => ExactView' /\ pass' = pass /\ step' \notin {"files", "rest"}
      BY <2>8, ExactDiscovery DEF Exact
    <3>2. step \notin {"files", "rest"} /\ UNCHANGED <<captured, made>>
      BY <2>8 DEF Discovery, ReadHead, ReadHeadAgain, ReadTracked, ReadStaged, ReadOthers,
         ReadIgnored, results
    <3>3. Still => ExactCapture'
      <4>1. Describes(captured, repo)' <=> Describes(captured, repo)
        BY <2>1, <3>2, RestKept DEF Describes
      <4> QED BY <2>1, <3>1, <3>2, <4>1, RestKept DEF Exact, ExactCapture, Kept, Reader
    <3>4. Still => ExactCopy'
      BY <2>1, <3>1, <3>2, RestKept DEF Exact, ExactCopy
    <3>5. RefusedFor'
      <4>1. Changes = 0 => pass' = pass
        BY <3>1 DEF Still
      <4> QED BY <2>1, <2>3, <4>1 DEF RefusedFor
    <3> QED BY <2>3, <2>4, <2>6, <3>1, <3>3, <3>4, <3>5 DEF Exact
  <2>9. CASE Listed \/ ReadIndex \/ ReadDigest
    <3>1. Still =>
             /\ ExactView'
             /\ pass' = pass \/ (pass' = "refused" /\ Differences(repo) # {} /\ ~approved)
             /\ step' \in {"files", "rest"} =>
                   pass' = "copy" /\ step' = "files" /\ at' = 1 /\ step = "listed"
      BY <2>9, ExactReading DEF Exact
    <3>2. step \notin {"files", "rest"} /\ UNCHANGED <<captured, made>>
      BY <2>9 DEF Listed, ReadIndex, ReadDigest, results
    <3>3. Still => ExactCapture'
      <4>1. Describes(captured, repo)' <=> Describes(captured, repo)
        BY <2>1, <3>2, RestKept DEF Describes
      <4> QED BY <2>1, <3>1, <3>2, <4>1, RestKept DEF Exact, ExactCapture, Kept, Reader
    <3>4. Still => ExactCopy'
      <4>1. at' = 1 => Done' = {}
        BY NextPath DEF Typed
      <4>2. CASE Still /\ step' \in {"files", "rest"} /\ command = "credit"
        <5>1. made = Nothing /\ pass = "copy"
          BY <2>1, <3>1, <3>2, <4>2 DEF Exact, ExactCopy
        <5>2. made' = [p \in Paths |-> IF p \in InTree(repo.head) \cap {} THEN CopyOf(p) ELSE Unread]
          BY <3>2, <5>1 DEF Nothing
        <5> QED BY <2>1, <3>1, <3>2, <4>1, <4>2, <5>1, <5>2, RestKept DEF ExactCopy
      <4>3. CASE ~(step' \in {"files", "rest"} /\ command = "credit")
        BY <2>1, <2>7, <3>1, <3>2, <4>3, RestKept DEF Exact, ExactCopy
      <4> QED BY <4>2, <4>3
    <3>5. RefusedFor'
      <4>1. Changes = 0 => pass' = pass \/ (Differences(repo) # {} /\ ~approved)
        BY <3>1 DEF Still
      <4> QED BY <2>1, <2>3, <4>1, RestKept DEF RefusedFor
    <3> QED BY <2>3, <2>4, <2>6, <3>1, <3>3, <3>4, <3>5 DEF Exact
  <2>10. CASE Captured
    <3>1. Still => ExactView' /\ ExactCapture' /\ pass' # "refused"
      BY <2>10, ExactCaptured DEF Exact
    <3>2. UNCHANGED made /\ (pass = "capture" => step' \in {"launch", "tracked"})
          /\ (pass = "capture" \/ pass = "recapture")
      BY <2>10, CapturedTo
    <3>3. Still => ExactCopy'
      <4>1. CASE pass = "capture"
        <5>1. made' = Nothing' /\ pass' \in {"observe", "copy"}
          BY <2>7, <2>10, <3>2, <4>1, CapturedTo DEF Exact
        <5> QED BY <3>2, <4>1, <5>1 DEF ExactCopy
      <4>2. CASE pass = "recapture"
        <5>1. pass' \in {"refused", "written", "reprint"}
          BY <2>10, <4>2, CapturedTo
        <5> QED BY <2>1, <3>2, <4>2, <5>1, RestKept DEF Exact, ExactCopy
      <4> QED BY <3>2, <4>1, <4>2
    <3>4. RefusedFor'
      <4>1. Changes = 0 => pass' # "refused"
        BY <3>1 DEF Still
      <4> QED BY <2>3, <4>1 DEF RefusedFor
    <3> QED BY <2>3, <2>4, <2>6, <3>1, <3>3, <3>4 DEF Exact
  <2>11. CASE Manifest
    <3>1. Still => ExactCapture' /\ ExactView' /\ (pass' = "refused" => HiddenAgain)
      BY <2>11, ExactManifest DEF Exact
    <3>2. command = "packet"
      BY <2>11, OfCommand DEF Reader
    <3>3. RefusedFor'
      <4>1. Changes = 0 /\ pass' = "refused" => HiddenAgain
        BY <3>1 DEF Still
      <4>2. HiddenAgain' <=> HiddenAgain
        BY <2>1, RestKept DEF HiddenAgain
      <4> QED BY <2>1, <2>3, <3>2, <4>1, <4>2 DEF RefusedFor, HiddenAgain
    <3> QED BY <2>1, <2>3, <2>4, <2>6, <3>1, <3>2, <3>3 DEF Exact, ExactCopy
  <2>12. CASE Copying
    <3>1. Still => ExactView' /\ ExactCapture' /\ ExactCopy' /\ pass' # "refused"
      BY <2>12, ExactCopying DEF Exact
    <3>2. RefusedFor'
      <4>1. Changes = 0 => pass' # "refused"
        BY <3>1 DEF Still
      <4> QED BY <2>3, <4>1 DEF RefusedFor
    <3> QED BY <2>3, <2>4, <2>6, <3>1, <3>2 DEF Exact
  <2> QED BY <1>3, <2>8, <2>9, <2>10, <2>11, <2>12 DEF Digesting
<1>4. CASE PrintDirectory \/ PrintNames \/ PrintHead \/ PrintIndex \/ PrintFile
  <2>1. /\ pass \in {"print", "reprint"} /\ command = "credit" /\ pass' \in {pass, "refused"}
        /\ UNCHANGED <<repo, stamp, command, approved, captured, print, made>>
    BY <1>4 DEF PrintDirectory, PrintNames, PrintHead, PrintIndex, PrintFile, Printing, Typed,
       Position, DiscoverySteps, git, results, Goto, Stay, Refuse, Begin
  <2>2. Changes' = Changes /\ (Still' => Still)
    BY <2>1, StillKept DEF Printed1
  <2>3. Changes = 0 => ExactPrint' /\ pass' = pass
    BY <1>4, ExactPrinting DEF Exact
  <2>4. ExactPrint' /\ RefusedFor'
    BY <2>1, <2>2, <2>3 DEF ExactPrint, RefusedFor
  <2>5. Still => ExactCapture'
    <3>1. Describes(captured, repo)' <=> Describes(captured, repo)
      BY <2>1, RestKept DEF Describes
    <3> QED BY <2>1, <3>1, RestKept DEF Exact, ExactCapture, Kept, Reader
  <2>6. Still => ExactCopy'
    BY <2>1, RestKept DEF Exact, ExactCopy
  <2>7. ExactView'
    BY <2>1 DEF ExactView, Discovering
  <2>8. (pass \in {"print", "capture"} => made = Nothing)'
    BY <2>1 DEF Exact, Nothing
  <2> QED BY <2>2, <2>4, <2>5, <2>6, <2>7, <2>8 DEF Exact
<1>5. CASE Printed
  <2>1. /\ step = "files" /\ ~Left /\ pass \in {"print", "reprint"} /\ view' = Blind
        /\ UNCHANGED <<repo, stamp, command, approved, captured, made>>
    BY <1>5, PrintedTo
  <2>2. Changes' = Changes
    BY <2>1 DEF Changes
  <2>3. Changes = 0 => ExactPrint' /\ pass' # "refused"
    BY <1>5, ExactPrinted DEF Exact
  <2>4. ExactPrint' /\ RefusedFor'
    BY <2>2, <2>3 DEF ExactPrint, RefusedFor
  <2>5. CASE pass = "print"
    <3>1. pass' = "capture" /\ step' = "head" /\ made' = Nothing'
      BY <1>5, <2>1, <2>5, PrintedTo DEF Exact, Nothing
    <3>2. ExactView'
      BY <2>1, <3>1, BlindTyped DEF ExactView, AfterTracked, AfterStaged, AfterOthers,
         AfterIgnored, Nothing
    <3> QED BY <2>4, <3>1, <3>2 DEF Exact, ExactCapture, ExactCopy, Kept
  <2>6. CASE pass = "reprint"
    <3>1. UNCHANGED print /\ pass' \in {"refused", "recorded"}
      BY <1>5, <2>6, PrintedTo
    <3>2. Still' => Still
      BY <2>1, <2>6, <3>1, StillKept DEF Printed1
    <3>3. Still => ExactCapture'
      <4>1. Describes(captured, repo)' <=> Describes(captured, repo)
        BY <2>1, RestKept DEF Describes
      <4> QED BY <2>1, <2>6, <3>1, <4>1, RestKept DEF Exact, ExactCapture, Kept, Reader
    <3>4. Still => ExactCopy'
      BY <2>1, <2>6, <3>1, RestKept DEF Exact, ExactCopy
    <3> QED BY <2>4, <3>1, <3>2, <3>3, <3>4 DEF Exact, ExactView, Discovering
  <2> QED BY <2>1, <2>5, <2>6
<1> QED BY <1>1, <1>2, <1>3, <1>4, <1>5 DEF Next, Fingerprinting

\* What is captured and copied of a repository that was not touched since the
\* fingerprint is that repository.
LEMMA StillGood ==
    ASSUME Typed, ExactCapture, ExactCopy, pass = "recapture", command = "credit"
    PROVE  Good(repo)
<1>1. /\ Describes(captured, repo) /\ captured.changed = Differences(repo)
      /\ captured.staged = (repo.index # Tree[repo.head])
      /\ made = [p \in Paths |-> CopyOf(p)]
  BY DEF ExactCapture, ExactCopy, Kept
<1>2. ASSUME NEW p \in Paths
      PROVE  (IF made[p] = Unread THEN None ELSE made[p]) = Binds(captured, p)
  <2>1. made[p] = CopyOf(p) /\ repo.disk[p] # Unread
    BY <1>1, RestPaths
  <2>2. CASE p \in Differences(repo)
    <3>1. captured.digest[p] = <<repo.index[p], repo.disk[p]>>
      BY <1>1, <2>2 DEF Describes
    <3> QED BY <1>1, <2>1, <2>2, <3>1 DEF CopyOf, Binds
  <2>3. CASE p \in InTree(repo.head) \ Differences(repo)
    BY <1>1, <2>1, <2>3, RestPaths DEF CopyOf, Binds, Describes
  <2>4. CASE p \notin InTree(repo.head) \cup Differences(repo)
    BY <1>1, <2>1, <2>4 DEF CopyOf, Binds, Describes, InTree
  <2> QED BY <2>2, <2>3, <2>4
<1> QED BY <1>1, <1>2 DEF Good

LEMMA CheckedStep ==
    ASSUME Typed, Typed', Fingerprint, Exact, Checked, [Next]_vars
    PROVE  Checked'
<1>1. ASSUME UNCHANGED <<captured, made>>, seen \subseteq seen', \E r \in seen : Good(r)
      PROVE  (\E r \in seen : Good(r))'
  <2>1. PICK r \in seen : Good(r)
    BY <1>1
  <2>2. Good(r)'
    BY <1>1, <2>1 DEF Good, Describes, Binds, Differences, Untracked, InTree
  <2> QED BY <1>1, <2>2
<1>2. CASE Editor
  <2>1. /\ UNCHANGED <<pass, view, captured, print, made>> /\ seen \subseteq seen'
        /\ \A p \in Places : stamp[p] <= stamp'[p] /\ stamp[p] \in Nat
        /\ \A p \in Places : stamp'[p] \in Nat
        /\ \A p \in Places : print[p] \in Nat \cup {Unread}
    <3>1. /\ \A p \in Places : stamp[p] \in Nat /\ stamp'[p] \in Nat
          /\ \A p \in Places : print[p] \in Nat \cup {Unread}
      BY Constants DEF Typed
    <3> QED BY <1>2, <3>1, EditorMoves
  <2>2. Doomed => Doomed'
    BY <2>1 DEF Doomed
  <2> QED BY <1>1, <2>1, <2>2 DEF Checked
<1>3. CASE UNCHANGED vars
  <2>1. UNCHANGED <<stamp, pass, view, captured, print, made, seen>>
    BY <1>3 DEF vars, git, progress, results, history
  <2> QED BY <1>1, <2>1 DEF Checked, Doomed
<1>4. CASE Discovery \/ Digesting \/ Manifest \/ Copying
  <2>1. /\ UNCHANGED <<repo, stamp, seen, command, print>>
        /\ pass \in {"capture", "recapture", "copy", "observe"}
        /\ pass' = pass \/ pass' = "refused" \/ pass' = "recapture" \/ Captured
    BY <1>4, RowsKept
  <2>2. pass' # "recorded" /\ (pass' = "reprint" => Captured)
    BY <2>1, CapturedTo
  <2>3. ASSUME pass' = "reprint"
        PROVE  (\E r \in seen : Good(r))' \/ Doomed'
    <3>1. /\ Captured /\ pass = "recapture" /\ ~Reader /\ view' = Blind
          /\ UNCHANGED <<captured, made>>
      BY <2>1, <2>2, <2>3, CapturedTo
    <3>2. command = "credit" /\ Printed1
      BY <3>1 DEF Typed, Reader, Printed1
    <3>3. CASE Unmoved
      <4>1. Good(repo) /\ repo \in seen
        BY <3>1, <3>2, <3>3, StillGood DEF Exact, Still, Typed
      <4> QED BY <1>1, <2>1, <3>1, <4>1
    <3>4. CASE ~Unmoved
      <4>1. PICK p \in Places : print[p] # Unread /\ print[p] # stamp[p]
        BY <3>4 DEF Unmoved
      <4>2. print[p] < stamp[p]
        BY <4>1, Constants DEF Fingerprint, Rowed, Typed
      <4>3. view'.rows[p] = Unread
        BY <3>1, BlindTyped
      <4> QED BY <2>1, <4>1, <4>2, <4>3 DEF Doomed
    <3> QED BY <3>3, <3>4
  <2> QED BY <2>2, <2>3 DEF Checked
<1>5. CASE PrintDirectory \/ PrintNames \/ PrintHead \/ PrintIndex \/ PrintFile
  <2>1. /\ pass \in {"print", "reprint"} /\ pass' \in {pass, "refused"}
        /\ UNCHANGED <<repo, stamp, captured, print, made, seen>> /\ view \in View
    BY <1>5 DEF PrintDirectory, PrintNames, PrintHead, PrintIndex, PrintFile, Printing, Typed,
       Position, DiscoverySteps, git, results, history, Goto, Stay, Refuse, Begin
  <2>2. ASSUME pass' = "reprint", Doomed
        PROVE  Doomed'
    <3>1. PICK p \in Places : /\ print[p] # Unread /\ print[p] < stamp[p]
                              /\ view.rows[p] = Unread \/ view.rows[p] > print[p]
      BY <2>2 DEF Doomed
    <3>2. view'.rows[p] \in {view.rows[p], stamp[p]}
      <4>1. \/ view'.rows = view.rows
            \/ \E q \in Places : view'.rows = [view.rows EXCEPT ![q] = stamp[q]]
        <5>1. pass' # "refused" /\ {"dir", "HEAD", "index"} \subseteq Places
          BY <2>2, Constants
        <5>2. PrintFile /\ Left => Path \in Places
          BY NextPath, Constants DEF Typed
        <5>3. CASE PrintDirectory
          BY <2>1, <5>1, <5>3 DEF PrintDirectory, View
        <5>4. CASE PrintNames
          BY <2>1, <5>4 DEF PrintNames, View
        <5>5. CASE PrintHead
          BY <2>1, <5>1, <5>5 DEF PrintHead, View
        <5>6. CASE PrintIndex
          BY <2>1, <5>1, <5>6 DEF PrintIndex, View
        <5>7. CASE PrintFile
          BY <2>1, <5>1, <5>2, <5>7 DEF PrintFile, Refuse, Begin, View
        <5> QED BY <1>5, <5>3, <5>4, <5>5, <5>6, <5>7
      <4>2. view.rows \in [Places -> Nat \cup {Unread}]
        BY <2>1 DEF View
      <4> QED BY <4>1, <4>2
    <3> QED BY <2>1, <3>1, <3>2 DEF Doomed
  <2>3. pass' = "reprint" => pass = "reprint"
    BY <2>1
  <2> QED BY <1>1, <2>1, <2>2, <2>3 DEF Checked
<1>6. CASE Printed
  <2>1. /\ view' = Blind /\ pass \in {"print", "reprint"}
        /\ UNCHANGED <<repo, stamp, seen, captured, made>>
        /\ pass = "print" => pass' = "capture"
        /\ pass = "reprint" => pass' = "refused" \/ (SamePrint(view.rows) /\ pass' = "recorded")
    BY <1>6, PrintedTo
  <2>2. SamePrint(view.rows) => ~Doomed
    <3>1. \A p \in Places : print[p] \in Nat \cup {Unread}
      BY DEF Typed
    <3> QED BY <3>1 DEF SamePrint, Doomed
  <2>3. pass' = "recorded" => \E r \in seen : Good(r)
    BY <2>1, <2>2 DEF Checked
  <2> QED BY <1>1, <2>1, <2>3 DEF Checked
<1> QED BY <1>2, <1>3, <1>4, <1>5, <1>6 DEF Next, Fingerprinting

\* All that is known of a credited check, and of a repository at rest.
RestInv == Typed /\ Fingerprint /\ Exact /\ Checked

LEMMA RestInit == Init => RestInv
<1>1. SUFFICES ASSUME Init PROVE RestInv
  OBVIOUS
<1>2. Typed
  BY <1>1, TypedInit
<1>3. /\ view = Blind /\ print = Blind.rows /\ made = Nothing
      /\ \/ command = "packet" /\ pass = "capture" /\ step = "head"
         \/ command = "credit" /\ pass = "print" /\ step = "dir"
  BY <1>1, NextPass DEF Init, FirstRead
<1>4. Blind.rows = [p \in Places |-> Unread] /\ \A p \in Paths : Nothing[p] = Unread
  BY BlindTyped DEF Nothing
<1>5. Fingerprint
  BY <1>3, <1>4 DEF Fingerprint, Rowed, Printed1
<1>6. ExactView /\ ExactCapture /\ ExactCopy
  BY <1>3, <1>4, BlindTyped DEF ExactView, ExactCapture, ExactCopy, Discovering, Kept,
     AfterTracked, AfterStaged, AfterOthers, AfterIgnored
<1>7. ExactPrint /\ RefusedFor /\ Checked
  BY <1>3, <1>4 DEF ExactPrint, RefusedFor, Checked, Printed1
<1> QED BY <1>2, <1>3, <1>5, <1>6, <1>7 DEF RestInv, Exact

LEMMA RestStep == RestInv /\ [Next]_vars => RestInv'
BY TypedStep, FingerprintStep, ExactStep, CheckedStep DEF RestInv

LEMMA RestAlways == Spec => []RestInv
BY RestInit, RestStep, PTL DEF Spec

LEMMA SawFromInv == RestInv => CheckSawReviewed
BY DEF RestInv, Checked, Good, CheckSawReviewed

LEMMA QuietFromInv == RestInv => QuietRefused
BY DEF RestInv, Exact, RefusedFor, QuietRefused

\* However others change HEAD, the index and the files while a criterion is
\* checked, and even if what was swapped in is put back before the target is
\* captured again: a result that is recorded is of a copy that holds of every
\* path what the reviewed digest binds, and digest and staged flag are of the
\* target at one moment.  The two fingerprints are why: a change moves the
\* status-change time of something the first one saw (hma credit,
\* Fingerprint).
THEOREM ChecksSawReviewed == Spec => []CheckSawReviewed
BY RestAlways, SawFromInv, PTL

\* A command refuses a repository that nobody changes only if it is dirty and
\* was not approved so, or the manifest must describe a file that is there
\* again and the capture did not read, as the commit does not have it and the
\* committed ignore file hides it.
THEOREM QuietAccepted == Spec => []QuietRefused
BY RestAlways, QuietFromInv, PTL
===============================================================================
