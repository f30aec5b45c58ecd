-------------------------------- MODULE Capture --------------------------------
(***************************************************************************)
(* How hma sees a repository while others work in it: the capture of a     *)
(* target (src/internal/repostate), the review packet described from one   *)
(* (host review-packet), and the private copy a criterion is checked on    *)
(* (host credit).                                                          *)
(*                                                                         *)
(* A capture is many reads: each git command is one, each worktree file    *)
(* read one, in the order of the code; between any two the repository may  *)
(* change.  A command is a sequence of passes (Passes), each a sequence of *)
(* reads.  The paths lie in one directory and are read in the order Order; *)
(* a content stands for bytes, kind and mode, None for nothing there.      *)
(* Nested repositories, links out of the tree, flags in the index, limits  *)
(* and unreadable files only refuse and are left out, and so is the launch *)
(* digest, which agent-dispatch and not hma vouches for.  The packet is of *)
(* a run bound to a contract: of any other there is one capture and no     *)
(* manifest.  The artifact a review bound, which credit compares its first *)
(* capture with, is whatever that capture saw.                             *)
(***************************************************************************)
EXTENDS Naturals, Sequences

CONSTANTS
    Order,     \* the paths, in the order they are read
    Commits,   \* commits HEAD may name
    Tree,      \* of each commit: the content of each path
    Base,      \* the approved base commit
    Ignore,    \* the path that is .gitignore
    Hides,     \* of each content: the paths it hides as an ignore file
    Contents,  \* of each path: contents it may have besides None
    Starts,    \* repositories commands start at
    Edits,     \* bound: changes to the repository while a command runs
    None,      \* no content
    Unread     \* not looked at

VARIABLES
    repo,      \* the repository: HEAD, index and worktree (disk)
    stamp,     \* the status-change time of HEAD, the index, the directory
               \* and each path
    approved,  \* whether the host approved a dirty worktree
    command,   \* the command that runs
    pass,      \* the pass it is in
    step,      \* the read it does next in that pass
    at,        \* the position in Order of the path it reads next
    view,      \* what the pass has seen so far
    captured,  \* the first capture
    print,     \* the first fingerprint
    made,      \* the manifest of the packet, or the copy
    seen,      \* history: the repositories since the command began
    torn       \* history: whether HEAD, an index entry, a file or its being
               \* untracked was again what it had been before, or an ignore
               \* file came to be

git == <<repo, stamp>>
progress == <<command, approved, pass, step, at>>
results == <<captured, print, made>>
history == <<seen, torn>>
vars == <<git, progress, view, results, history>>

Paths == {Order[i] : i \in DOMAIN Order}
Places == Paths \cup {"HEAD", "index", "dir"}

Passes ==
    [packet |-> <<"capture", "observe", "recapture", "written">>,
     credit |-> <<"print", "capture", "copy", "recapture", "reprint", "recorded">>]
FirstRead ==
    [capture |-> "head", observe |-> "launch", recapture |-> "head", print |-> "dir",
     copy |-> "tracked", reprint |-> "dir", written |-> "end", recorded |-> "end",
     refused |-> "end"]

\* review-packet reads the worktree through anchoredReader and keeps what it
\* read; the snapshots of credit do not.
Reader == command = "packet"

Nothing == [p \in Paths |-> Unread]
Blind ==
    [head |-> None, changed |-> {}, entries |-> Nothing, others |-> {}, index |-> Nothing,
     staged |-> FALSE, digest |-> Nothing, rows |-> [p \in Places |-> Unread]]

InTree(c) == {p \in Paths : Tree[c][p] # None}

-----------------------------------------------------------------------------
Init ==
    /\ repo \in Starts
    /\ stamp = [p \in Places |-> 0]
    /\ approved \in BOOLEAN
    /\ command \in DOMAIN Passes
    /\ pass = Passes[command][1]
    /\ step = FirstRead[pass]
    /\ at = 1
    /\ view = Blind
    /\ captured = Blind
    /\ print = Blind.rows
    /\ made = Nothing
    /\ seen = {repo}
    /\ torn = FALSE

Running == pass \notin {"written", "recorded", "refused"}

Goto(s) == step' = s /\ at' = 1 /\ UNCHANGED <<command, approved, pass>>
Stay == UNCHANGED <<command, approved, pass, step>> /\ at' = at + 1

\* The pass p begins, with nothing seen but v.
Begin(p, v) ==
    /\ pass' = p /\ step' = FirstRead[p] /\ at' = 1
    /\ view' = v
    /\ UNCHANGED <<command, approved>>

Refuse == Begin("refused", Blind)

Following == LET ps == Passes[command] IN ps[1 + CHOOSE i \in DOMAIN ps : ps[i] = pass]

\* The path read next, if any is left.
Left == at <= Len(Order)
Path == Order[at]

-----------------------------------------------------------------------------
(* changedPaths, changedPathsWith and unignoredPaths.                      *)

ReadHead ==
    /\ step = "head"
    /\ IF pass = "capture" /\ ~Reader
       THEN \* credit has named the live HEAD before its snapshot
            view' = [view EXCEPT !.head = repo.head] /\ Goto("headAgain")
       ELSE view' = [view EXCEPT !.head = repo.head] /\ Goto("tracked")
    /\ UNCHANGED <<git, results, history>>

ReadHeadAgain ==
    /\ step = "headAgain"
    /\ IF repo.head = view.head THEN Goto("tracked") /\ UNCHANGED view ELSE Refuse
    /\ UNCHANGED <<git, results, history>>

\* Every path of the HEAD tree is read and compared with the tree.
ReadTracked ==
    /\ step = "tracked"
    /\ IF ~Left THEN Goto("staged") /\ UNCHANGED view
       ELSE /\ Stay
            /\ view' =
                IF Path \notin InTree(view.head) THEN view
                ELSE [view EXCEPT
                        !.entries[Path] = IF Reader THEN repo.disk[Path] ELSE @,
                        !.changed = IF repo.disk[Path] # Tree[view.head][Path]
                                    THEN @ \cup {Path} ELSE @]
    /\ UNCHANGED <<git, results, history>>

\* git diff-index --cached.
ReadStaged ==
    /\ step = "staged"
    /\ view' = [view EXCEPT
                  !.changed = @ \cup {p \in Paths : repo.index[p] # Tree[view.head][p]}]
    /\ Goto("others")
    /\ UNCHANGED <<git, results, history>>

HiddenBy(v) == IF v \in DOMAIN Hides THEN Hides[v] ELSE {}
Untracked(r) == {p \in Paths : r.disk[p] # None /\ r.index[p] = None}

\* The changed paths, when all are untracked and others of them not ignored:
\* an ignore file that is not as committed hides nothing.
WithUntracked(v, all, others) ==
    LET found == v.changed \cup ((others \cup (all \cap {Ignore})) \ InTree(v.head))
    IN  IF Ignore \in found THEN found \cup (all \ InTree(v.head)) ELSE found

\* git ls-files --others: with a reader all of them, else those the ignore
\* file does not hide at that time.
ReadOthers ==
    /\ step = "others"
    /\ view' = [view EXCEPT
                  !.others = Untracked(repo)
                             \ (IF Reader THEN {} ELSE HiddenBy(repo.disk[Ignore]))]
    /\ Goto(IF Reader /\ view'.others = {} THEN "listed" ELSE "ignored")
    /\ UNCHANGED <<git, results, history>>

\* Mutant: a path not read before counts as read otherwise.
StrictRead(p) == view.entries[p] = repo.disk[p]

\* A path read earlier in the pass must read the same.
Consistent(p) == view.entries[p] \in {Unread, repo.disk[p]}

\* With a reader, the ignore file is read now and evaluated in private; else
\* git lists all untracked paths once more.
ReadIgnored ==
    /\ step = "ignored"
    /\ IF Reader
       THEN IF ~Consistent(Ignore) THEN Refuse
            ELSE /\ view' = [view EXCEPT
                        !.entries[Ignore] = repo.disk[Ignore],
                        !.changed = WithUntracked(view, view.others,
                                        view.others \ HiddenBy(repo.disk[Ignore]))]
                 /\ Goto("listed")
       ELSE /\ view' = [view EXCEPT
                          !.changed = WithUntracked(view, Untracked(repo), view.others)]
            /\ Goto("listed")
    /\ UNCHANGED <<git, results, history>>

-----------------------------------------------------------------------------
(* capture and digestWorktree.                                             *)

\* The list is complete: a capture goes on to the index, unless the worktree
\* is dirty without approval, and the copy to its files.
Listed ==
    /\ step = "listed"
    /\ IF pass = "copy" THEN Goto("files") /\ UNCHANGED view
       ELSE IF view.changed # {} /\ ~approved THEN Refuse
       ELSE Goto("index") /\ UNCHANGED view
    /\ UNCHANGED <<git, results, history>>

\* git ls-files --stage: the digest's index entries and the staged flag.
ReadIndex ==
    /\ step = "index"
    /\ view' = [view EXCEPT !.index = repo.index,
                            !.staged = repo.index # Tree[view.head]]
    /\ Goto("digest")
    /\ UNCHANGED <<git, results, history>>

\* Mutant: unchanged paths are digested too.
DigestAll ==
    /\ step = "digest" /\ Left
    /\ Stay
    /\ view' = [view EXCEPT !.digest[Path] = <<view.index[Path], repo.disk[Path]>>]
    /\ UNCHANGED <<git, results, history>>

\* Every changed path is read, once more if the discovery had read it.
ReadDigest ==
    /\ step = "digest" /\ Left
    /\ IF Path \notin view.changed THEN Stay /\ UNCHANGED view
       ELSE IF Reader /\ ~Consistent(Path) THEN Refuse
       ELSE /\ Stay
            /\ view' = [view EXCEPT
                          !.entries[Path] = IF Reader THEN repo.disk[Path] ELSE @,
                          !.digest[Path] = <<view.index[Path], repo.disk[Path]>>]
    /\ UNCHANGED <<git, results, history>>

\* Mutant: the second capture is taken and not compared.
AnyCapture(v) == TRUE

\* The snapshots agree: head, worktree digest and, for credit, staged flag.
\* The diff is determined by base and head.
SameCapture(v) ==
    /\ v.head = captured.head /\ v.digest = captured.digest
    /\ ~Reader => v.staged = captured.staged

\* The first capture is kept; the second must equal it.
Captured ==
    /\ step = "digest" /\ ~Left
    /\ IF pass = "capture"
       THEN /\ captured' = view
            /\ Begin(Following, [Blind EXCEPT !.head = view.head])
       ELSE /\ IF SameCapture(view) THEN Begin(Following, Blind) ELSE Refuse
            /\ UNCHANGED captured
    /\ UNCHANGED <<git, print, made, history>>

-----------------------------------------------------------------------------
(* The manifest: LaunchDigests, observeCaptured and checkObserved.         *)

\* LaunchDigests and observeCaptured each read HEAD and refuse another one.
ReadLaunchHead ==
    /\ step = "launch"
    /\ IF repo.head = captured.head THEN Goto("observed") /\ UNCHANGED view ELSE Refuse
    /\ UNCHANGED <<git, results, history>>

ReadObservedHead ==
    /\ step = "observed"
    /\ IF repo.head = captured.head THEN Goto("observing") /\ UNCHANGED view ELSE Refuse
    /\ UNCHANGED <<git, results, history>>

\* Mutant: what is read now is described, whatever the capture read.
AnyObserved(p, now) == TRUE

\* A path the capture never read must not be there.
checkObserved(p, now) ==
    IF captured.entries[p] = Unread THEN now = None ELSE captured.entries[p] = now

ManifestPaths ==
    {p \in Paths : Tree[Base][p] # Tree[captured.head][p]}
    \cup (IF approved THEN captured.changed ELSE {})

\* Of a dirty target the worktree is described, else the HEAD tree; a path that
\* is neither there nor in the base is not listed.
Observe ==
    /\ step = "observing" /\ Left
    /\ LET now == IF approved THEN repo.disk[Path] ELSE Tree[captured.head][Path] IN
       IF Path \notin ManifestPaths THEN Stay /\ UNCHANGED <<view, made>>
       ELSE IF approved /\ ~checkObserved(Path, now) THEN Refuse /\ UNCHANGED made
       ELSE /\ Stay
            /\ made' = IF now = None /\ Tree[Base][Path] = None THEN made
                       ELSE [made EXCEPT ![Path] =
                               <<captured.index[Path] # Tree[captured.head][Path], now>>]
            /\ UNCHANGED view
    /\ UNCHANGED <<git, captured, print, history>>

Observed ==
    /\ step = "observing" /\ ~Left
    /\ Begin("recapture", Blind)
    /\ UNCHANGED <<git, results, history>>

-----------------------------------------------------------------------------
(* The copy: Fingerprint, Materialize and captureOnTarget.                 *)

\* The metadata of the directory, the names in it, and what is under .git.
PrintDirectory ==
    /\ step = "dir"
    /\ view' = [view EXCEPT !.rows["dir"] = stamp["dir"]]
    /\ Goto("names")
    /\ UNCHANGED <<git, results, history>>

PrintNames ==
    /\ step = "names"
    /\ view' = [view EXCEPT !.changed = {p \in Paths : repo.disk[p] # None}]
    /\ Goto("gitHead")
    /\ UNCHANGED <<git, results, history>>

PrintHead ==
    /\ step = "gitHead"
    /\ view' = [view EXCEPT !.rows["HEAD"] = stamp["HEAD"]]
    /\ Goto("gitIndex")
    /\ UNCHANGED <<git, results, history>>

PrintIndex ==
    /\ step = "gitIndex"
    /\ view' = [view EXCEPT !.rows["index"] = stamp["index"]]
    /\ Goto("files")
    /\ UNCHANGED <<git, results, history>>

Printing == pass \in {"print", "reprint"}

\* The metadata of every name; one that is gone refuses.
PrintFile ==
    /\ Printing /\ step = "files" /\ Left
    /\ IF Path \notin view.changed THEN Stay /\ UNCHANGED view
       ELSE IF repo.disk[Path] = None THEN Refuse
       ELSE Stay /\ view' = [view EXCEPT !.rows[Path] = stamp[Path]]
    /\ UNCHANGED <<git, results, history>>

\* Mutant: equal snapshots are enough.
AnyPrint(rows) == TRUE

SamePrint(rows) == rows = print

Printed ==
    /\ Printing /\ step = "files" /\ ~Left
    /\ IF pass = "print" THEN print' = view.rows /\ Begin(Following, Blind)
       ELSE /\ IF SamePrint(view.rows) THEN Begin(Following, Blind) ELSE Refuse
            /\ UNCHANGED print
    /\ UNCHANGED <<git, captured, made, history>>

\* The paths of the HEAD tree, then the other changed ones, as they are now.
CopyPhase(s, paths) ==
    /\ pass = "copy" /\ step = s /\ Left
    /\ made' = IF Path \in paths THEN [made EXCEPT ![Path] = repo.disk[Path]] ELSE made
    /\ Stay
    /\ UNCHANGED <<git, view, captured, print, history>>

CopyFile ==
    \/ CopyPhase("files", InTree(view.head))
    \/ CopyPhase("rest", view.changed \ InTree(view.head))

CopyOn ==
    /\ pass = "copy" /\ step = "files" /\ ~Left
    /\ Goto("rest")
    /\ UNCHANGED <<git, view, results, history>>

\* The check runs in the copy, and the target is captured again.
Copied ==
    /\ pass = "copy" /\ step = "rest" /\ ~Left
    /\ Begin("recapture", Blind)
    /\ UNCHANGED <<git, results, history>>

-----------------------------------------------------------------------------
(* Everyone else: editors and git commands, while the command runs.        *)

Changes == CHOOSE n \in 0..Edits : n \in {stamp[p] : p \in Places}
                                   /\ \A p \in Places : stamp[p] <= n

\* What HEAD, each index entry and each file hold, and which are untracked.
Holds(r) ==
    {<<"HEAD", "HEAD", r.head>>}
    \cup {<<p, "index", r.index[p]>> : p \in Paths}
    \cup {<<p, "disk", r.disk[p]>> : p \in Paths}
    \cup {<<p, "untracked", TRUE>> : p \in Untracked(r)}
    \cup {<<p, "untracked", FALSE>> : p \in Paths \ Untracked(r)}

\* What changes when the repository becomes r is partly as it was before.
Recurs(r) == (Holds(r) \ Holds(repo)) \cap UNION {Holds(s) : s \in seen} # {}

IgnoreAppears(r) == repo.disk[Ignore] = None /\ r.disk[Ignore] # None

\* The repository becomes r, and the places get a new status-change time,
\* which no one can set.
Change(r, places) ==
    /\ Running
    /\ Changes < Edits
    /\ r # repo
    /\ repo' = r
    /\ stamp' = [p \in Places |-> IF p \in places THEN Changes + 1 ELSE stamp[p]]
    /\ seen' = seen \cup {r}
    /\ torn' = (torn \/ Recurs(r) \/ IgnoreAppears(r))
    /\ UNCHANGED <<progress, view, results>>

WriteFile(p, c) ==
    Change([repo EXCEPT !.disk[p] = c],
           {p} \cup (IF None \in {c, repo.disk[p]} THEN {"dir"} ELSE {}))

\* git add, and git reset of the path.
StagePath(p, c) == Change([repo EXCEPT !.index[p] = c], {"index"})

MoveHead(c) == Change([repo EXCEPT !.head = c], {"HEAD"})

Editor ==
    \/ \E p \in Paths : \E c \in Contents[p] \cup {None} : WriteFile(p, c)
    \/ \E p \in Paths : \E c \in {repo.disk[p], Tree[repo.head][p]} : StagePath(p, c)
    \/ \E c \in Commits : MoveHead(c)

Discovery ==
    ReadHead \/ ReadHeadAgain \/ ReadTracked \/ ReadStaged \/ ReadOthers \/ ReadIgnored
Digesting == Listed \/ ReadIndex \/ ReadDigest \/ Captured
Manifest == ReadLaunchHead \/ ReadObservedHead \/ Observe \/ Observed
Fingerprinting == PrintDirectory \/ PrintNames \/ PrintHead \/ PrintIndex \/ PrintFile \/ Printed
Copying == CopyFile \/ CopyOn \/ Copied

Next == Discovery \/ Digesting \/ Manifest \/ Fingerprinting \/ Copying \/ Editor

Spec == Init /\ [][Next]_vars

-----------------------------------------------------------------------------
(* Properties.                                                             *)

\* What must be bound of repository r: the tracked and staged differences from
\* the HEAD tree and the untracked files, of which the committed ignore file
\* may hide some while it is as committed.
Differences(r) ==
    LET tree == Tree[r.head]
        new  == Untracked(r) \ InTree(r.head)
        diff == {p \in Paths : r.index[p] # tree[p]}
                \cup {p \in InTree(r.head) : r.disk[p] # tree[p]}
    IN  diff \cup (IF Ignore \in diff \cup new THEN new ELSE new \ HiddenBy(tree[Ignore]))

\* The capture v is one of the repository r.
Describes(v, r) ==
    /\ v.head = r.head
    /\ v.digest = [p \in Paths |-> IF p \in Differences(r)
                                     THEN <<r.index[p], r.disk[p]>> ELSE Unread]

TypeOK ==
    /\ repo.head \in Commits
    /\ \A p \in Paths : {repo.index[p], repo.disk[p]} \subseteq Contents[p] \cup {None}
    /\ stamp \in [Places -> 0..Edits]
    /\ approved \in BOOLEAN /\ torn \in BOOLEAN
    /\ command \in DOMAIN Passes
    /\ pass \in {Passes[command][i] : i \in DOMAIN Passes[command]} \cup {"refused"}
    /\ at \in 1..Len(Order) + 1
    /\ view.changed \subseteq Paths /\ captured.changed \subseteq Paths
    /\ \A p \in Paths : captured.digest[p] # Unread => p \in captured.changed

\* What capture v binds of path p: the digest of a changed path, the commit of
\* any other.
Binds(v, p) == IF p \in v.changed THEN v.digest[p][2] ELSE Tree[v.head][p]

\* The reviewer reads what the host recorded.  Whatever others did to the
\* repository while the packet was made, its manifest tells of every path the
\* content that the recorded digests cover: the base content of a path it does
\* not list, the content it describes of any other.  The exception is an
\* ignore file that came and went: it is read for its rules, and described,
\* though it is neither of the HEAD tree nor listed as changed.
ManifestBound ==
    pass = "written" =>
        \A p \in Paths :
            \/ (IF made[p] = Unread THEN Tree[Base][p] ELSE made[p][2]) = Binds(captured, p)
            \/ torn /\ p = Ignore /\ p \notin InTree(captured.head) \cup captured.changed

\* Two equal captures make a snapshot.  Each read alone may fall anywhere
\* between the edits of others; but unless something came back to what it had
\* been (a file that is created and then added was untracked only in between)
\* or an ignore file came to be (it may hide what was created before it), a
\* packet that is written binds the repository of one moment since the command
\* began: every tracked, staged and untracked difference of it and nothing
\* else, and its staged flags are of that moment.
BoundAtOnce ==
    pass = "written" /\ ~torn =>
        \E r \in seen :
            /\ Describes(captured, r)
            /\ \A p \in Paths : made[p] # Unread =>
                  (made[p][1] <=> r.index[p] # Tree[r.head][p])

\* What a reviewer is given describes what was bound, and that was once there.
PacketIsSnapshot == ManifestBound /\ BoundAtOnce

\* A credited check ran on what was reviewed: the copy holds of every path what
\* the reviewed digest binds, and digest and staged flag are of the repository
\* of one moment, even if a file was swapped in and put back while it was
\* copied.
CheckSawReviewed ==
    pass = "recorded" =>
        /\ \E r \in seen : Describes(captured, r) /\ captured.staged = (r.index # Tree[r.head])
        /\ \A p \in Paths :
              (IF made[p] = Unread THEN None ELSE made[p]) = Binds(captured, p)

\* A repository nobody changes is refused only when it is dirty without
\* approval, or when a file is there that HEAD no longer has and the committed
\* ignore file hides: the capture does not read it and the manifest must.
QuietRefused ==
    pass = "refused" /\ Changes = 0 =>
        \/ Differences(repo) # {} /\ ~approved
        \/ command = "packet" /\ \E p \in Paths \ (InTree(repo.head) \cup Differences(repo)) :
              Tree[Base][p] # None /\ repo.disk[p] # None

-----------------------------------------------------------------------------
\* What a path may be found to hold.
Contained == {None} \cup UNION {Contents[p] : p \in Paths}

\* A repository commands may start at.
IsRepository(r) ==
    /\ r \in [head : Commits, index : [Paths -> Contained], disk : [Paths -> Contained]]
    /\ \A p \in Paths : {r.index[p], r.disk[p]} \subseteq Contents[p] \cup {None}

ASSUME CaptureAssumption ==
    /\ Order \in Seq(Paths) /\ Ignore \in Paths
    /\ \A i, j \in DOMAIN Order : Order[i] = Order[j] => i = j
    /\ Paths \cap {"HEAD", "index", "dir"} = {}
    /\ \A c \in Commits : /\ Tree[c] \in [Paths -> Contained]
                         /\ \A p \in Paths : Tree[c][p] \in Contents[p] \cup {None}
    /\ \A r \in Starts : IsRepository(r)
    /\ Edits \in Nat /\ None \notin DOMAIN Hides
    /\ Unread \notin Contained \cup Nat \cup (Contained \X Contained) \cup (BOOLEAN \X Contained)
===============================================================================
