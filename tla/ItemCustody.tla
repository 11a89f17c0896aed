---------------------------- MODULE ItemCustody ----------------------------
(***************************************************************************)
(* What a migration promises about one item's media: it has an original    *)
(* shape at every moment, its own originals are stated once, and the       *)
(* wrapped file goes only after the originals have taken its place.        *)
(* Nothing here depends on how often the migration dies and resumes.       *)
(***************************************************************************)

VARIABLES
  stated,  \* what the item's original shapes state: "wrapped", "both"
           \* or "originals"
  file     \* the wrapped file: "online", "offline", "elsewhere" or "gone"

vars == <<stated, file>>

Init ==
  /\ stated \in {"wrapped", "originals"}
  /\ file \in {"online", "elsewhere"}

StateOriginals ==
  /\ stated = "wrapped"
  /\ stated' = "both"
  /\ UNCHANGED file

RetireWrapped ==
  /\ stated = "both"
  /\ stated' = "originals"
  /\ UNCHANGED file

\* Portal's archiving takes the wrapped file off line, at any time.
GoesOffline ==
  /\ file = "online"
  /\ file' = "offline"
  /\ UNCHANGED stated

DeleteWrapped ==
  /\ stated = "originals"
  /\ file \in {"online", "offline"}
  /\ file' = "gone"
  /\ UNCHANGED stated

Next == StateOriginals \/ RetireWrapped \/ GoesOffline \/ DeleteWrapped

Spec == Init /\ [][Next]_vars

=============================================================================
