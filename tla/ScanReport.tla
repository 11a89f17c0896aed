----------------------------- MODULE ScanReport -----------------------------
(***************************************************************************)
(* What a tree scan promises to whoever reads its output: one report per   *)
(* folder the scan owes one, in merge-key order, each as soon as it can be *)
(* given; a run that dies has said a prefix of that.  Nothing here depends *)
(* on the number of workers or on the order in which they finish.          *)
(***************************************************************************)
EXTENDS ScanTree

VARIABLES
  report,  \* the folders reported so far, in order
  status   \* "running", "complete" or "cut"

vars == <<world, report, status>>

Owed == Reported \ {report[i] : i \in 1..Len(report)}

Init ==
  /\ world \in Worlds
  /\ report = << >>
  /\ status = "running"

\* The next report is that of the least folder still owed one.
Grow ==
  /\ status = "running"
  /\ \E f \in Owed : IsLeast(f, Owed) /\ report' = Append(report, f)
  /\ UNCHANGED <<world, status>>

Complete ==
  /\ status = "running"
  /\ Owed = {}
  /\ status' = "complete"
  /\ UNCHANGED <<world, report>>

Cut ==
  /\ status = "running"
  /\ status' = "cut"
  /\ UNCHANGED <<world, report>>

Next == Grow \/ Complete \/ Cut

Spec == Init /\ [][Next]_vars

=============================================================================
