------------------------- MODULE MCComponentImport -------------------------
(***************************************************************************)
(* Instances of ComponentImport for TLC.                                   *)
(***************************************************************************)
EXTENDS ComponentImport

\* Every run sees every extra of the clip.
AllSeen == {Extras}

\* A run may see no extra at all (the index and the disk disagree): it takes
\* the single-component path.
AllOrNone == {Extras, {}}

=============================================================================
