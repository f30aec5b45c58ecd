------------------------------- MODULE MCCapture -------------------------------
(***************************************************************************)
(* A repository of three paths: the ignore file, which the base and c1     *)
(* have; a file f that only the base tracks; and a file m that c1 tracks.  *)
(* The ignore file hides f and m, of which c1 tracks m in spite of it.     *)
(***************************************************************************)
EXTENDS Capture, TLC

Order3 == <<".gitignore", "f", "m">>
Files(g, f, m) == (".gitignore" :> g) @@ ("f" :> f) @@ ("m" :> m)

Tree3 ==
    [c0 |-> Files("hide", "f1", None),
     c1 |-> Files("hide", None, "m1"),
     c2 |-> Files(None, None, None)]
HidesF == [hide |-> {"f", "m"}]
Contents3 == Files({"hide"}, {"f2", "f3"}, {"m1"})

\* A clean worktree with a hidden file beside it; a deleted file; an untracked
\* file.
At(head, disk) == [head |-> head, index |-> Tree3[head], disk |-> disk]
Starts3 ==
    {At("c1", Files("hide", "f2", "m1")),
     At("c1", Files("hide", None, None)),
     At("c2", Files(None, "f2", None))}
===============================================================================
