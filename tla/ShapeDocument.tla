---------------------------- MODULE ShapeDocument ----------------------------
(***************************************************************************)
(* The shape that the RED and BRAW providers state for an item whose media *)
(* Vidispine can deduce nothing from: what the scan reads off the anchor   *)
(* and stores, what the import finds beside it, what is composed of the    *)
(* two, and what is posted.  A shape with a hole cannot be reconstructed,  *)
(* and shape/create never refuses a second shape.                          *)
(***************************************************************************)
EXTENDS Naturals, Sequences, FiniteSets

CONSTANTS
  Last,        \* the highest segment number of a take
  MaxMishaps

VARIABLES
  provider,
  anchor,      \* the segment that made the clip; 0 for a name without number
  filed,       \* the clip knows the Vidispine file of its anchor
  index,       \* the files that the storage knows beside it
  wav,         \* whether they include a .wav with the clip's REDline name
  camera,      \* the names under which the camera keeps metadata of its own
  stored,      \* the clip's metadata: by name, who said it
  timecode,    \* how REDline writes the clip's timecode
  pc,
  extras,      \* the segments found
  seen,        \* what the storage knew when they were looked for
  sound,       \* the audio file found
  document,
  shapes,      \* the original shapes of the item
  outcome,
  mishaps

clip == <<provider, anchor, filed, camera>>
storage == <<index, wav>>
metadata == <<stored, timecode>>
found == <<extras, seen, sound>>
vars == <<clip, storage, metadata, pc, found, document, shapes, outcome, mishaps>>

\* The names by which the import asks for what the scan stored.
Asked == {"picture", "channels", "audio format"}
Values == {"usable", "zero", "unusable", "none"}
By == {"probe", "camera", "nobody"}
Nothing == [n \in Asked |-> [by |-> "nobody", value |-> "none"]]

\* The files that the glob <stem>_*<extension> fits: the take's own segments
\* and those of a neighbour whose stem is longer.
Segment == [of : {"take", "neighbour"}, number : 1 .. Last]
Anchor == [of |-> "take", number |-> anchor]
NoDocument == [container |-> {}, video |-> << >>, sound |-> FALSE,
               said |-> {}, seen |-> {}, wav |-> FALSE]

Init ==
  /\ provider \in {"red", "braw"}
  /\ anchor \in 0 .. 2
  /\ filed \in BOOLEAN
  /\ index \in SUBSET Segment /\ (anchor > 0 => Anchor \in index)
  /\ wav \in BOOLEAN
  /\ camera \in SUBSET Asked
  /\ provider = "red" => camera = {}
  /\ provider = "braw" => index \subseteq {Anchor} /\ ~wav
  /\ stored = Nothing /\ timecode = "none"
  /\ pc = "read"
  /\ extras = {} /\ seen = {} /\ sound = FALSE
  /\ document = NoDocument /\ shapes = << >>
  /\ outcome = "none"
  /\ mishaps = 0

Mishap == mishaps < MaxMishaps /\ mishaps' = mishaps + 1
End(why) == pc' = "done" /\ outcome' = why

-----------------------------------------------------------------------------
(* The scan reads the anchor. *)

\* REDline or brawprobe is missing, times out, breaks, or prints no row.
ReadFails ==
  /\ pc = "read"
  /\ Mishap
  /\ End("unread")
  /\ UNCHANGED <<clip, storage, metadata, found, document, shapes>>

\* A column is there or the file is not read; what it holds is not looked at.
ReadRed ==
  /\ pc = "read" /\ provider = "red"
  /\ timecode' \in {"colons", "dots", "other"}
  /\ \E v \in {"usable", "unusable"} :
       stored' = [stored EXCEPT !["picture"] = [by |-> "probe", value |-> v]]
  /\ pc' = "route"
  /\ UNCHANGED <<clip, storage, found, document, shapes, outcome, mishaps>>

\* A name that is taken keeps its value; the other goes under another name.
Put(held, says, by) ==
  [n \in Asked |-> IF held[n].by = "nobody" /\ says[n] # "none"
                   THEN [by |-> by, value |-> says[n]] ELSE held[n]]

CameraSays == [n \in Asked |-> IF n \in camera THEN "usable" ELSE "none"]

\* What the probe says is put before the keys of the camera.
Stated(probe) == Put(Put(Nothing, probe, "probe"), CameraSays, "camera")

\* A clip is keyed by three parts, or not at all.
KeyParts == {"camera", "date", "number"}
Keyed(parts) == parts = KeyParts

\* A value that the import reads back is never cut: one that is too long
\* refuses the clip.
Fits(long) == long \cap Asked = {}

\* The picture's numbers must be usable when they are read; the audio's are
\* looked at when the shape is composed.
ReadBraw ==
  /\ pc = "read" /\ provider = "braw"
  /\ \E probe \in [Asked -> {"usable", "zero", "unusable"}],
        long \in SUBSET (Asked \ {"picture"}), parts \in SUBSET KeyParts :
       /\ probe["audio format"] # "zero"
       /\ IF Keyed(parts) /\ probe["picture"] = "usable" /\ Fits(long)
          THEN stored' = Stated(probe) /\ pc' = "route" /\ UNCHANGED outcome
          ELSE End("unread") /\ UNCHANGED stored
  /\ UNCHANGED <<clip, storage, timecode, found, document, shapes, mishaps>>

-----------------------------------------------------------------------------
(* The import. *)

\* A RED anchor fills a video slot of its own by the look of its timecode, and
\* what cannot be told is refused; a BRAW anchor never does.
YieldsVideo ==
  IF provider = "braw" THEN "no"
  ELSE CASE timecode = "colons" -> "yes"
         [] timecode = "dots" -> "no"
         [] timecode = "other" -> "unknown"

Route ==
  /\ pc = "route"
  /\ CASE YieldsVideo = "no" -> pc' = "segments" /\ UNCHANGED outcome
       [] YieldsVideo = "yes" -> End("deduced")
       [] YieldsVideo = "unknown" -> End("refused")
  /\ UNCHANGED <<clip, storage, metadata, found, document, shapes, mishaps>>

\* Broken: all that the glob fits is taken.
SelectsGlob(f) == TRUE

\* The pattern <stem>_<three digits><extension> holds the names to the stem.
Selects(f) == f.of = "take"

\* BRAW has no files beside its anchor, and nor has a name without a number.
FindSegments ==
  /\ pc = "segments"
  /\ extras' = IF provider = "red" /\ anchor > 0
               THEN {f \in index \ {Anchor} : Selects(f)} ELSE {}
  /\ seen' = index
  /\ pc' = "sound"
  /\ UNCHANGED <<clip, storage, metadata, sound, document, shapes, outcome, mishaps>>

\* By the name REDline gave the clip, not by the anchor's.
FindSound ==
  /\ pc = "sound"
  /\ sound' = wav
  /\ pc' = "compose"
  /\ UNCHANGED <<clip, storage, metadata, extras, seen, document, shapes, outcome, mishaps>>

QueryFails ==
  /\ pc \in {"segments", "sound", "ask"}
  /\ Mishap
  /\ End("failed")
  /\ UNCHANGED <<clip, storage, metadata, found, document, shapes>>

WholeTake == extras \cup {Anchor}

\* 001 first, no gap, and no number twice.
Gapless == anchor > 0 /\ {f.number : f \in WholeTake} = 1 .. Cardinality(WholeTake)

Usable(n) == stored[n].value = "usable"

\* The audio is described by the file's header, or by what the probe said.
RedComposable == filed /\ Gapless /\ Usable("picture")
BrawComposable ==
  /\ filed /\ Usable("picture")
  /\ stored["channels"].value \in {"usable", "zero"}
  /\ stored["channels"].value = "usable" => Usable("audio format")

Composable == IF provider = "red" THEN RedComposable ELSE BrawComposable

Compose ==
  /\ pc = "compose"
  /\ IF Composable
     THEN /\ document' =
               [container |-> {Anchor},
                video |-> IF provider = "red"
                          THEN [i \in 1 .. Cardinality(WholeTake) |->
                                  CHOOSE f \in WholeTake : f.number = i]
                          ELSE <<Anchor>>,
                sound |-> sound \/ (provider = "braw" /\ Usable("channels")),
                said |-> {stored[n].by : n \in {m \in Asked : Usable(m)}},
                seen |-> seen, wav |-> sound]
          /\ pc' = "ask" /\ UNCHANGED outcome
     ELSE End("refused") /\ UNCHANGED document
  /\ UNCHANGED <<clip, storage, metadata, found, shapes, mishaps>>

\* The .wav cannot be read, or is in no format that can be described.
SoundUnreadable ==
  /\ pc = "compose" /\ sound
  /\ Mishap
  /\ End("refused")
  /\ UNCHANGED <<clip, storage, metadata, found, document, shapes>>

Absent == shapes = << >>

\* shape/create adds a shape to whatever the item has; its answer may be lost.
Post ==
  /\ pc = "ask" /\ Absent
  /\ shapes' = Append(shapes, document)
  /\ \/ End("posted") /\ UNCHANGED mishaps
     \/ End("failed") /\ Mishap
  /\ UNCHANGED <<clip, storage, metadata, found, document>>

PostRefused ==
  /\ pc = "ask" /\ Absent
  /\ Mishap
  /\ End("failed")
  /\ UNCHANGED <<clip, storage, metadata, found, document, shapes>>

Skip ==
  /\ pc = "ask" /\ ~Absent
  /\ End("skipped")
  /\ UNCHANGED <<clip, storage, metadata, found, document, shapes, mishaps>>

\* The next scan or import takes the clip again, whatever became of it.
Again ==
  /\ pc = "done" /\ outcome \in {"failed", "unread", "refused"}
  /\ mishaps < MaxMishaps
  /\ pc' = IF outcome = "unread" THEN "read" ELSE "route"
  /\ outcome' = "none"
  /\ extras' = {} /\ seen' = {} /\ sound' = FALSE /\ document' = NoDocument
  /\ UNCHANGED <<clip, storage, metadata, shapes, mishaps>>

\* The storage learns of a file or forgets one.
IndexMoves(f) ==
  /\ provider = "red"
  /\ Mishap
  /\ index' = IF f \in index THEN index \ {f} ELSE index \cup {f}
  /\ UNCHANGED <<clip, wav, metadata, pc, found, document, shapes, outcome>>

Next ==
  \/ ReadFails \/ ReadRed \/ ReadBraw
  \/ Route \/ FindSegments \/ FindSound \/ QueryFails
  \/ Compose \/ SoundUnreadable
  \/ Post \/ PostRefused \/ Skip \/ Again
  \/ \E f \in Segment : IndexMoves(f)

Spec == Init /\ [][Next]_vars

-----------------------------------------------------------------------------
TypeOK ==
  /\ stored \in [Asked -> [by : By, value : Values]]
  /\ index \cup extras \cup seen \subseteq Segment
  /\ timecode \in {"none", "colons", "dots", "other"}
  /\ pc \in {"read", "route", "segments", "sound", "compose", "ask", "done"}
  /\ outcome \in {"none", "unread", "deduced", "refused", "failed", "posted", "skipped"}
  /\ mishaps \in 0 .. MaxMishaps

\* The item gets one shape at most, and that shape is the whole take: every
\* segment the storage knew when it was asked, in the order of the numbers and
\* no file of a neighbour; the sound that was found; and no number in it that
\* the camera said in the probe's name.
DocumentWhole ==
  /\ Len(shapes) <= 1
  /\ \A i \in 1 .. Len(shapes) :
       LET d == shapes[i]
           own == {f \in d.seen : f.of = "take"} \cup d.container
           named == {d.video[k] : k \in 1 .. Len(d.video)}
       IN  /\ provider = "red" => named = own
           /\ provider = "red" => \A k \in 1 .. Len(d.video) : d.video[k].number = k
           /\ d.wav => d.sound
           /\ d.said \subseteq {"probe"}
=============================================================================
