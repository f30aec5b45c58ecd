-------------------------------- MODULE RunLog --------------------------------
(***************************************************************************)
(* What the run store promises its callers, with no files, locks or        *)
(* crashes in sight: one append-only log per run.  A record joins the log  *)
(* at its end, one at a time.  A part of the log becomes sealed when its   *)
(* content has been reported to a caller (an acknowledged append, or a     *)
(* load that returned it); a machine crash may take back records that were *)
(* never sealed, and nothing may take back a sealed one.                   *)
(*                                                                         *)
(* Source: the package comment and the contracts of Append, Load and       *)
(* Transact in src/internal/store/jsonl.go.                                *)
(***************************************************************************)
EXTENDS Naturals, Sequences, SequencesExt

CONSTANT Vals      \* what a record may carry

VARIABLES log,     \* the records a reader would be given now
          sealed   \* the longest prefix of the log ever reported to a caller

logVars == <<log, sealed>>

LogInit == log = <<>> /\ sealed = <<>>

\* Append commits exactly one record after the committed ones.
Extend ==
    /\ \E v \in Vals : log' = Append(log, v)
    /\ UNCHANGED sealed

\* An append is acknowledged, or a load returns: the whole log is sealed.
Seal ==
    /\ sealed' = log
    /\ UNCHANGED log

\* A machine crash drops a suffix of the log that was never sealed.
Lose ==
    /\ IsPrefix(sealed, log')
    /\ IsPrefix(log', log)
    /\ UNCHANGED sealed

LogNext == Extend \/ Seal \/ Lose

LogSpec == LogInit /\ [][LogNext]_logVars
===============================================================================
