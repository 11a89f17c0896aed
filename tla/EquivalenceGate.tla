-------------------------- MODULE EquivalenceGate --------------------------
(***************************************************************************)
(* verify_discovery_equivalence: may index discovery replace the legacy    *)
(* query?  Every tree of a corpus is walked three times, twice with the    *)
(* legacy query and once with the index, and what the walks saw is         *)
(* compared.  The instrument is not exact: a legacy page may slip past a   *)
(* hit, which changes what the folder consumes and hence which folders are *)
(* walked; and files come and go between the walks.                        *)
(*                                                                         *)
(* Every tree of the corpus has the same shape: Root holds the folders     *)
(* Shoot and Other, and Shoot holds the card directory Card.  A file of    *)
(* the card belongs to a clip of Shoot, which consumes Card; when Shoot    *)
(* does not see it, Card is walked as a folder of its own.                 *)
(***************************************************************************)
EXTENDS Naturals, Sequences, FiniteSets

CONSTANTS
  Corpora,     \* the corpus files: [trees : a sequence of paths, ratified]
  Nested,      \* the pairs {p, q} of paths of which one holds the other
  Files,       \* the media of one tree
  Home,        \* [Files -> the directory that holds the file]
  WaiverRows,  \* the rows a waiver file may have: [side, folder, file, blanket]
  MaxMishaps

VARIABLES
  corpus, waivers,
  blind,       \* the files that the index path does not find
  tree,        \* the files of the tree under comparison
  pc,
  runs,        \* the walks of this entry: what each saw, and how it went
  drift,       \* the tree changed between its walks
  entries,     \* the verdicts on the entries so far
  charged,     \* the divergences this entry is charged with
  withheld,    \* the folders of this entry the reference cannot speak for
  used,        \* the waivers that matched something
  verdict, exit,
  mishaps

vars == <<corpus, waivers, blind, tree, pc, runs, drift, entries,
          charged, withheld, used, verdict, exit, mishaps>>

given == <<corpus, waivers, blind>>
conclusion == <<entries, charged, withheld, used, verdict, exit>>

Card == "root/shoot/card"
Shoot == "root/shoot"

\* The folders a walk hands to the collector: the root is only a container.
Folders == {Shoot, Card, "root/other"}
Parents(p) == IF p = Card THEN {Shoot} ELSE {}

Tuples == [file : Files, folder : Folders]
Sides == {"legacy_only", "index_only"}
Walks == [tuples : SUBSET Tuples, folders : SUBSET Folders,
          failed : BOOLEAN, errors : BOOLEAN, slipped : SUBSET Files]
Divergences == [side : Sides, file : Files, folder : Folders]
Statuses == {"agreed", "diverged", "unstable_reference", "errored"}

Init ==
  /\ corpus \in Corpora
  /\ waivers \in SUBSET WaiverRows
  /\ blind \in SUBSET Files
  /\ tree \in SUBSET Files
  /\ pc = "load"
  /\ runs = << >> /\ drift = FALSE
  /\ entries = << >> /\ charged = {} /\ withheld = {} /\ used = {}
  /\ verdict = "none" /\ exit = "none"
  /\ mishaps = 0

Mishap == mishaps < MaxMishaps /\ mishaps' = mishaps + 1

-----------------------------------------------------------------------------
(* The files that say what to compare. *)

Disjoint ==
  \A i, j \in 1 .. Len(corpus.trees) :
    i # j => /\ corpus.trees[i] # corpus.trees[j]
             /\ {corpus.trees[i], corpus.trees[j]} \notin Nested

\* Trees that share a folder would be counted twice.
CorpusLoads ==
  /\ corpus.trees # << >>
  /\ Disjoint

\* A row that waives everything would make the gate unable to fail.
WaiversLoad == \A w \in waivers : ~w.blanket

Usage ==
  /\ pc' = "done" /\ exit' = "usage"
  /\ UNCHANGED <<given, tree, runs, drift, entries, charged, withheld, used, verdict>>

\* A file is refused, or the context: no registry, or a storage without root.
Refuse ==
  /\ pc = "load"
  /\ \/ ~(CorpusLoads /\ WaiversLoad) /\ UNCHANGED mishaps
     \/ Mishap
  /\ Usage

Load ==
  /\ pc = "load"
  /\ CorpusLoads /\ WaiversLoad
  /\ pc' = "walk"
  /\ UNCHANGED <<given, tree, runs, drift, conclusion, mishaps>>

-----------------------------------------------------------------------------
(* The walks. *)

\* What a walk reads when its discovery of the folders misses some files: a
\* card file that Shoot misses is found when Card is walked.  The index misses
\* it there too.
Reading(missed, everywhere) ==
  LET here == {[file |-> f, folder |-> IF Home[f] = Card THEN Shoot ELSE Home[f]] :
                 f \in tree \ missed}
      consumes == \E f \in tree \ missed : Home[f] = Card
      below == {[file |-> f, folder |-> Card] :
                  f \in {g \in tree : Home[g] = Card /\ ~everywhere}}
  IN  IF consumes
      THEN [tuples |-> here, folders |-> Folders \ {Card}]
      ELSE [tuples |-> here \cup below, folders |-> Folders]

\* Legacy first and twice; the index last.  A walk may book a failed folder or
\* an error, and a legacy walk may slip.
Mode == IF Len(runs) < 2 THEN "legacy" ELSE "index"
Misses == IF Mode = "index" THEN blind ELSE {}

Walk(missed, failed, errors) ==
  LET read == Reading(missed, Mode = "index")
  IN  [tuples |-> read.tuples, folders |-> read.folders,
       failed |-> failed, errors |-> errors, slipped |-> missed]

WalkTree ==
  /\ pc = "walk"
  /\ Mode = "index" => tree \ blind # {}
  /\ \/ /\ runs' = Append(runs, Walk(Misses, FALSE, FALSE))
        /\ UNCHANGED mishaps
     \/ /\ \E failed, errors \in BOOLEAN : runs' = Append(runs, Walk(Misses, failed, errors))
        /\ Mishap
     \/ /\ Mode = "legacy"
        /\ \E f \in tree : runs' = Append(runs, Walk({f}, FALSE, FALSE))
        /\ Mishap
  /\ pc' = IF Len(runs) = 2 THEN "compare" ELSE "walk"
  /\ UNCHANGED <<given, tree, drift, conclusion>>

Book(status) == entries' = Append(entries, status)

\* The root is gone, the prefetch is short, a tuple cannot be read; or the
\* index has nothing for a tree that exists.
WalkRaises ==
  /\ pc = "walk"
  /\ \/ Mode = "index" /\ tree \subseteq blind /\ UNCHANGED mishaps
     \/ Mishap
  /\ Book("errored")
  /\ charged' = {} /\ withheld' = {}
  /\ pc' = "compared"
  /\ UNCHANGED <<given, tree, runs, drift, used, verdict, exit>>

\* A file comes or goes between two walks.
TreeMoves(f) ==
  /\ pc = "walk"
  /\ Mishap
  /\ tree' = IF f \in tree THEN tree \ {f} ELSE tree \cup {f}
  /\ drift' = (drift \/ runs # << >>)
  /\ UNCHANGED <<given, pc, runs, conclusion>>

-----------------------------------------------------------------------------
(* The comparison. *)

Differ(a, b) == (a \ b) \cup (b \ a)

\* The folders that the two reference walks read differently.
Tainted ==
  {t.folder : t \in Differ(runs[1].tuples, runs[2].tuples)}
  \cup Differ(runs[1].folders, runs[2].folders)

\* Broken: the reference is believed wherever it booked the same errors.
WithheldOnErrors == IF runs[1].errors # runs[2].errors THEN Folders ELSE {}

\* An error names no folder: all is withheld.
Withheld ==
  IF runs[1].errors # runs[2].errors THEN Folders
  ELSE {p \in Folders : Tainted \cap ({p} \cup Parents(p)) # {}}

Diverging ==
  {[side |-> "legacy_only", file |-> t.file, folder |-> t.folder] :
     t \in runs[1].tuples \ runs[3].tuples}
  \cup {[side |-> "index_only", file |-> t.file, folder |-> t.folder] :
          t \in runs[3].tuples \ runs[1].tuples}

\* A pattern fits the one path it names, or every path.
Globs(pattern, path) == pattern \in {"*", path}

Waives(w, d) ==
  /\ w.side \in {"any", d.side}
  /\ Globs(w.folder, d.folder)
  /\ Globs(w.file, d.file)

\* Broken: a waiver meant for one file silences its folder.
ChargedLoose ==
  {d \in Diverging :
     /\ d.folder \notin Withheld
     /\ ~\E w \in waivers, e \in Diverging : e.folder = d.folder /\ Waives(w, e)}

\* What may be charged to the index, and no waiver covers.
Charged ==
  {d \in Diverging : d.folder \notin Withheld /\ ~\E w \in waivers : Waives(w, d)}

\* A folder that only one side walked is charged too, and cannot be waived.
ChargedFolders == Differ(runs[1].folders, runs[3].folders) \ Withheld

\* Three ways to have no evidence come before any comparison.
NoEvidence ==
  (\E i \in 1 .. 3 : runs[i].failed) \/ (\A i \in 1 .. 3 : runs[i].tuples = {})

Status ==
  CASE NoEvidence -> "errored"
    [] ~NoEvidence /\ runs[1].folders \subseteq Withheld -> "unstable_reference"
    [] ~NoEvidence /\ ~(runs[1].folders \subseteq Withheld) ->
         IF Charged # {} \/ ChargedFolders # {} THEN "diverged" ELSE "agreed"

\* A waiver whose condition was seen, even where it suppresses nothing, is used.
Compare ==
  /\ pc = "compare"
  /\ Book(Status)
  /\ charged' = IF NoEvidence THEN {} ELSE Charged
  /\ withheld' = IF NoEvidence THEN {} ELSE Withheld
  /\ used' = IF NoEvidence THEN used
             ELSE used \cup {w \in waivers : \E d \in Diverging : Waives(w, d)}
  /\ pc' = "compared"
  /\ UNCHANGED <<given, tree, runs, drift, verdict, exit, mishaps>>

NextEntry ==
  /\ pc = "compared" /\ Len(entries) < Len(corpus.trees)
  /\ pc' = "walk"
  /\ runs' = << >> /\ drift' = FALSE
  /\ charged' = {} /\ withheld' = {}
  /\ tree' \in SUBSET Files
  /\ UNCHANGED <<given, entries, used, verdict, exit, mishaps>>

Some(status) == \E i \in 1 .. Len(entries) : entries[i] = status

\* A divergence wins; then an agreement; an entry that could not run counts
\* only when nothing concluded.
Overall ==
  CASE Some("diverged") -> "rejected"
    [] ~Some("diverged") /\ Some("agreed") -> "accepted"
    [] ~Some("diverged") /\ ~Some("agreed") ->
         IF Some("errored") THEN "errored" ELSE "unstable_reference"

\* A corpus that nobody ratified makes it a rehearsal.
Exit(status) ==
  CASE status = "accepted" -> IF corpus.ratified THEN "accepted" ELSE "withheld"
    [] status = "rejected" -> "rejected"
    [] status = "errored" -> "errored"
    [] status = "unstable_reference" -> "withheld"

Conclude ==
  /\ pc = "compared" /\ Len(entries) = Len(corpus.trees)
  /\ verdict' = Overall
  /\ exit' = Exit(Overall)
  /\ pc' = "done"
  /\ UNCHANGED <<given, tree, runs, drift, entries, charged, withheld, used, mishaps>>

Next ==
  \/ Load \/ Refuse
  \/ WalkTree \/ WalkRaises
  \/ \E f \in Files : TreeMoves(f)
  \/ Compare \/ NextEntry \/ Conclude

Spec == Init /\ [][Next]_vars

-----------------------------------------------------------------------------
TypeOK ==
  /\ tree \subseteq Files /\ blind \subseteq Files /\ waivers \subseteq WaiverRows
  /\ pc \in {"load", "walk", "compare", "compared", "done"}
  /\ \A i \in 1 .. Len(runs) : runs[i] \in Walks
  /\ Len(runs) <= 3
  /\ \A i \in 1 .. Len(entries) : entries[i] \in Statuses
  /\ charged \subseteq Divergences /\ withheld \subseteq Folders
  /\ used \subseteq waivers
  /\ verdict \in {"none", "accepted", "rejected", "errored", "unstable_reference"}
  /\ exit \in {"none", "usage", "accepted", "rejected", "withheld", "errored"}
  /\ mishaps \in 0 .. MaxMishaps

Compared == pc = "compared" /\ Len(runs) = 3

\* A fault of the instrument is not charged to the index: while the tree
\* holds still, a file is charged only when the index path misses it, or when
\* both reference walks slipped past it.
ChargedWithCause ==
  Compared /\ ~drift =>
    \A d \in charged :
      \/ d.file \in blind
      \/ d.file \in runs[1].slipped \cap runs[2].slipped

\* An entry agrees only over what was shown: while the tree holds still, a
\* file that the index path misses is missed by both reference walks too, lies
\* in a folder for which the reference cannot speak, or is waived.
AgreedIsTrue ==
  Compared /\ ~drift /\ entries[Len(entries)] = "agreed" =>
    \A f \in blind \cap tree :
      LET owner == IF Home[f] = Card THEN Shoot ELSE Home[f]
      IN  \/ f \in runs[1].slipped \cap runs[2].slipped
          \/ owner \in withheld
          \/ \E w \in waivers : Waives(w, [side |-> "legacy_only", file |-> f, folder |-> owner])
=============================================================================
