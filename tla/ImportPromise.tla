--------------------------- MODULE ImportPromise ---------------------------
(***************************************************************************)
(* What the import of a clip promises to who looks at its row and at the   *)
(* item's media, never at placeholders, components or jobs: the media come *)
(* in one piece, to an item the row names, once; and a job is recorded on  *)
(* the row for good, as one whose end says what became of the media.       *)
(***************************************************************************)

CONSTANT Clip   \* the clip's media files

VARIABLES
  named,     \* the row holds the item's id
  recorded,  \* the row's job: "none", "coming", "delivered" or "lost"
  media      \* the files of the item's original shape

vars == <<named, recorded, media>>

Init ==
  /\ ~named
  /\ recorded = "none"
  /\ media = {}

Name ==
  /\ named' = TRUE
  /\ UNCHANGED <<recorded, media>>

\* The whole clip at once, by a job that may never be recorded.
Deliver ==
  /\ named
  /\ media = {}
  /\ media' = Clip
  /\ UNCHANGED <<named, recorded>>

\* A job that is recorded after it delivered did so.
Record ==
  /\ named
  /\ recorded = "none"
  /\ recorded' \in {"coming", "lost"} \cup IF media = Clip THEN {"delivered"} ELSE {}
  /\ UNCHANGED <<named, media>>

\* The end of the recorded job.
DeliverRecorded ==
  /\ recorded = "coming"
  /\ recorded' = "delivered"
  /\ media' = Clip
  /\ UNCHANGED named

Lose ==
  /\ recorded = "coming"
  /\ recorded' = "lost"
  /\ UNCHANGED <<named, media>>

Next == Name \/ Deliver \/ Record \/ DeliverRecorded \/ Lose

Spec == Init /\ [][Next]_vars

=============================================================================
