------------------------------- MODULE Parts -------------------------------
(***************************************************************************)
(* Five parts that share no state with one another, side by side: one of   *)
(* them is the subject of a behaviour, the others are parked.              *)
(***************************************************************************)
EXTENDS Naturals, Sequences, FiniteSets

CONSTANTS
  MaxMishaps,    \* of the scan, the gate and the document
  MoveMishaps, BatchMishaps

\* The scan of a folder.
CONSTANTS
  Files, Home, Here, Take, Number, Umids, NoUmid, Providers, Subpaths, Names,
  Unguarded, Grouped, Raw, Reads, PageSize, Known, Missing

\* The equivalence gate; Media are the files of one tree.
CONSTANTS
  Corpora, Nested, Media, MediaHome, WaiverRows

\* The relocation, the loops over the rows, the shape document.
CONSTANTS
  Originals, PlanRows,
  BatchRows, Limits, MaxFailures,
  Last

VARIABLES subject, pc, mishaps

VARIABLES request, umid, known, rows, disk, indexed, stayed, moved, lossy,
          cursor, fetched, hits, seen, total, more, listed, verified, records,
          matched, clips, kept, extras, orphans, wrong, unmade, errors, descent,
          consumed

scanVars == <<request, umid, known, rows, disk, indexed, stayed, moved, lossy,
              cursor, fetched, hits, seen, total, more, listed, verified, records,
              matched, clips, kept, extras, orphans, wrong, unmade, errors,
              descent, consumed>>

Scan == INSTANCE FolderScan

VARIABLES corpus, waivers, blind, tree, runs, drift, entries, charged, withheld,
          used, verdict, exit

gateVars == <<corpus, waivers, blind, tree, runs, drift, entries, charged,
              withheld, used, verdict, exit>>

Gate == INSTANCE EquivalenceGate WITH Files <- Media, Home <- MediaHome

VARIABLES row, plan, shape, entity, sound, field, clip, portal, todo, again,
          resumed, result

moveVars == <<row, plan, shape, entity, sound, field, clip, portal, todo, again,
              resumed, result>>

Move == INSTANCE Relocation WITH Rows <- PlanRows, MaxMishaps <- MoveMishaps

VARIABLES work, limit, hopeless, finished, queue, inARow, ended

batchVars == <<work, limit, hopeless, finished, queue, inARow, ended>>

Batch == INSTANCE MigrationBatch WITH
  Rows <- BatchRows, MaxMishaps <- BatchMishaps, runs <- ended

VARIABLES provider, anchor, filed, index, wav, camera, stored, timecode,
          beside, then, heard, document, shapes, outcome

documentVars == <<provider, anchor, filed, index, wav, camera, stored, timecode,
                  beside, then, heard, document, shapes, outcome>>

Document == INSTANCE ShapeDocument WITH
  extras <- beside, seen <- then, sound <- heard

\* The files are numbered in the order of their paths, from 1; a page has hits.
ASSUME ScanConstants ==
  /\ Files \subseteq Nat \ {0} /\ IsFiniteSet(Files)
  /\ PageSize \in Nat \ {0}

\* The originals are numbered in the order of the plan, from 1.
ASSUME MoveConstants ==
  /\ Originals \subseteq Nat /\ 1 \in Originals
  /\ MoveMishaps \in Nat

\* The rows are numbered in the order of their items; the command refuses
\* another --max-failures (Command.handle).
ASSUME BatchConstants ==
  /\ BatchRows \subseteq Nat /\ IsFiniteSet(BatchRows)
  /\ Limits \subseteq Nat /\ MaxFailures \in Nat \ {0}
  /\ BatchMishaps \in Nat

\* The segments of a take are numbered up to Last.
ASSUME DocumentConstants == Last \in Nat /\ MaxMishaps \in Nat

\* A file lies in one of the folders of its tree.
ASSUME GateConstants == MediaHome \in [Media -> Gate!Folders]

allButScan == <<gateVars, moveVars, batchVars, documentVars>>
allButGate == <<scanVars, moveVars, batchVars, documentVars>>
allButMove == <<scanVars, gateVars, batchVars, documentVars>>
allButBatch == <<scanVars, gateVars, moveVars, documentVars>>
allButDocument == <<scanVars, gateVars, moveVars, batchVars>>

Off == "parked"

ScanOff ==
  /\ request = Off /\ umid = Off /\ known = Off /\ rows = Off /\ disk = Off
  /\ indexed = Off /\ stayed = Off /\ moved = Off /\ lossy = Off
  /\ cursor = Off /\ fetched = Off /\ hits = Off /\ seen = Off /\ total = Off
  /\ more = Off /\ listed = Off /\ verified = Off /\ records = Off
  /\ matched = Off /\ clips = Off /\ kept = Off /\ extras = Off
  /\ orphans = Off /\ wrong = Off /\ unmade = Off /\ errors = Off
  /\ descent = Off /\ consumed = Off

GateOff ==
  /\ corpus = Off /\ waivers = Off /\ blind = Off /\ tree = Off /\ runs = Off
  /\ drift = Off /\ entries = Off /\ charged = Off /\ withheld = Off
  /\ used = Off /\ verdict = Off /\ exit = Off

MoveOff ==
  /\ row = Off /\ plan = Off /\ shape = Off /\ entity = Off /\ sound = Off
  /\ field = Off /\ clip = Off /\ portal = Off /\ todo = Off /\ again = Off
  /\ resumed = Off /\ result = Off

BatchOff ==
  /\ work = Off /\ limit = Off /\ hopeless = Off /\ finished = Off
  /\ queue = Off /\ inARow = Off /\ ended = Off

DocumentOff ==
  /\ provider = Off /\ anchor = Off /\ filed = Off /\ index = Off
  /\ wav = Off /\ camera = Off /\ stored = Off /\ timecode = Off
  /\ beside = Off /\ then = Off /\ heard = Off /\ document = Off
  /\ shapes = Off /\ outcome = Off

Init ==
  \/ /\ subject = "scan" /\ Scan!Init
     /\ GateOff /\ MoveOff /\ BatchOff /\ DocumentOff
  \/ /\ subject = "gate" /\ Gate!Init
     /\ ScanOff /\ MoveOff /\ BatchOff /\ DocumentOff
  \/ /\ subject = "move" /\ Move!Init
     /\ ScanOff /\ GateOff /\ BatchOff /\ DocumentOff
  \/ /\ subject = "batch" /\ Batch!Init
     /\ ScanOff /\ GateOff /\ MoveOff /\ DocumentOff
  \/ /\ subject = "document" /\ Document!Init
     /\ ScanOff /\ GateOff /\ MoveOff /\ BatchOff

Next ==
  /\ UNCHANGED subject
  /\ \/ subject = "scan" /\ Scan!Next /\ UNCHANGED allButScan
     \/ subject = "gate" /\ Gate!Next /\ UNCHANGED allButGate
     \/ subject = "move" /\ Move!Next /\ UNCHANGED allButMove
     \/ subject = "batch" /\ Batch!Next /\ UNCHANGED allButBatch
     \/ subject = "document" /\ Document!Next /\ UNCHANGED allButDocument

vars == <<subject, pc, mishaps, scanVars, allButScan>>
Spec == Init /\ [][Next]_vars

-----------------------------------------------------------------------------
\* The state of every part keeps to its shape.
TypeOK ==
  CASE subject = "scan" -> Scan!TypeOK
    [] subject = "gate" -> Gate!TypeOK
    [] subject = "move" -> Move!TypeOK
    [] subject = "batch" -> Batch!TypeOK
    [] subject = "document" -> Document!TypeOK

\* The tree walk is never sent into a child whose files became clips of the
\* folder above it (Folder._scan_pass and its consumed sub-directories).
DescentSound == subject = "scan" => Scan!DescentSound

\* A file that index and disk held all the time becomes a clip, stays with its
\* anchor's, or is reported (Folder._scan_pass).
NothingSilent == subject = "scan" => Scan!NothingSilent

\* No segment becomes a clip beside its anchor (segment_role, ListingCache).
SegmentsTogether == subject = "scan" => Scan!SegmentsTogether

\* A scan ends whatever it meets: every step leaves it less to do, so the pages
\* cannot repeat (fetch_index_hits, Folder._scan_pass).
ScanDwindles == [][subject = "scan" => Scan!Nearer]_vars

\* While the tree holds still, a file is charged to the index only when the index
\* misses that very file, or when both walks with the legacy query slipped past
\* it (compare_entry).
ChargedWithCause == subject = "gate" => Gate!ChargedWithCause

\* What the index misses is never called agreement, unless both walks with the
\* legacy query missed it too, its folder is withheld, or a waiver covers exactly
\* it (compare_entry).
AgreedIsTrue == subject = "gate" => Gate!AgreedIsTrue

\* What a run says of its row is so, however often the command was killed on
\* it: a row reported as relocated is whole, and one the command moved something
\* of is called its own failure and keeps no entity open (Relocator.run,
\* _preflight).
Settled == subject = "move" => Move!Settled /\ Move!OwnFailure

\* The rows that apply and its sister actions never reach are those that the
\* rows before them block (migrate_wrapped_items, the loops).
OnlyTheBlockedWait == subject = "batch" => Batch!OnlyTheBlockedWait

\* The shape posted for an item is its only one, states the whole take and
\* only what was measured (buildShapeDocument, _post_shape_document).
DocumentWhole == subject = "document" => Document!DocumentWhole

\* The relocation as it is seen from its entities; parked, none is touched.
Custody == INSTANCE EntityCustody WITH
  First <- Move!First,
  held <- IF subject = "move" THEN Move!Held ELSE [o \in Originals |-> "planned"],
  recorded <- IF subject = "move" THEN Move!Recorded ELSE {},
  pointed <- subject = "move" => Move!Pointed

\* Whatever dies or is meddled with, an original's entity is replaced once,
\* dropped only while it is open and unrecorded, and recorded only when it is
\* archived and nothing says the old place any more (Relocator.run).
EntitiesInCustody == Custody!Spec
=============================================================================
