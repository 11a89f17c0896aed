---------------------------- MODULE EntityCustody ----------------------------
(***************************************************************************)
(* What a relocation promises about the entities of one item's originals,  *)
(* however often it dies and resumes, and whoever meddles: the entity that *)
(* a component names is replaced once, is dropped only while it is open    *)
(* and its move is not yet recorded, and the row records a move only when  *)
(* the entity is archived and, for the first original, when the item's     *)
(* name and the Clip no longer say where it was.  Nothing is taken back.   *)
(***************************************************************************)

CONSTANTS
  Originals,
  First      \* the one that the item's name and the Clip go by

VARIABLES
  held,      \* [Originals -> what the component's entity is]: "planned",
             \* the one it had; "open" or "archived", the new one; "dropped"
  recorded,  \* the originals whose move the row records
  pointed    \* neither the name nor the Clip says the old place

vars == <<held, recorded, pointed>>

Init ==
  /\ held = [o \in Originals |-> "planned"]
  /\ recorded = {}
  /\ pointed \in BOOLEAN

Becomes(o, from, to) ==
  /\ held[o] = from
  /\ held' = [held EXCEPT ![o] = to]
  /\ UNCHANGED <<recorded, pointed>>

Replace(o) == Becomes(o, "planned", "open")
Archive(o) == Becomes(o, "open", "archived")
Drop(o) == Becomes(o, "open", "dropped")

Point ==
  /\ pointed' = TRUE
  /\ UNCHANGED <<held, recorded>>

Record(o) ==
  /\ held[o] = "archived"
  /\ o = First => pointed
  /\ recorded' = recorded \cup {o}
  /\ UNCHANGED <<held, pointed>>

Next == Point \/ \E o \in Originals : Replace(o) \/ Archive(o) \/ Drop(o) \/ Record(o)

Spec == Init /\ [][Next]_vars

=============================================================================
