--------------------------- MODULE PartsTheorems ---------------------------
(***************************************************************************)
(* What the parts keep, for all values of the constants: the equivalence   *)
(* gate, the relocation of a row, the loops over the rows and the shape    *)
(* document.  Each has an invariant of its own (...Kept), which the other  *)
(* parts' steps leave alone; its properties follow from it.  The scan has  *)
(* a module to itself, ScanTheorems.                                       *)
(***************************************************************************)
EXTENDS Parts, FiniteSetTheorems, WellFoundedInduction, TLAPS

-----------------------------------------------------------------------------
(* A behaviour has one subject, whose steps are the component's.           *)

\* A behaviour starts as its subject does.
LEMMA SubjectStarts ==
  ASSUME Init
  PROVE  /\ subject = "scan" => Scan!Init
         /\ subject = "gate" => Gate!Init
         /\ subject = "move" => Move!Init
         /\ subject = "batch" => Batch!Init
         /\ subject = "document" => Document!Init
BY DEF Init

\* And goes on as its subject does.
LEMMA SubjectSteps ==
  ASSUME [Next]_vars
  PROVE  /\ subject' = subject
         /\ subject = "scan" => [Scan!Next]_(Scan!vars)
         /\ subject = "gate" => [Gate!Next]_(Gate!vars)
         /\ subject = "move" => [Move!Next]_(Move!vars)
         /\ subject = "batch" => [Batch!Next]_(Batch!vars)
         /\ subject = "document" => [Document!Next]_(Document!vars)
<1>1. CASE Next
  BY <1>1 DEF Next
<1>2. CASE UNCHANGED vars
  <2>1. UNCHANGED <<subject, pc, mishaps, scanVars, gateVars, moveVars, batchVars, documentVars>>
    BY <1>2 DEF vars, allButScan
  <2>2. UNCHANGED Scan!vars
    BY <2>1 DEF scanVars, Scan!vars, Scan!asked, Scan!index, Scan!store, Scan!paging,
                Scan!work, Scan!built, Scan!verdict
  <2>3. UNCHANGED Gate!vars
    BY <2>1 DEF gateVars, Gate!vars
  <2>4. UNCHANGED Move!vars
    BY <2>1 DEF moveVars, Move!vars, Move!item, Move!saved, Move!portalRows, Move!run
  <2>5. UNCHANGED Batch!vars
    BY <2>1 DEF batchVars, Batch!vars, Batch!options
  <2>6. UNCHANGED Document!vars
    BY <2>1 DEF documentVars, Document!vars, Document!clip, Document!storage,
                Document!metadata, Document!found
  <2>7. QED
    BY <2>1, <2>2, <2>3, <2>4, <2>5, <2>6
<1>3. QED
  BY <1>1, <1>2

\* A set of numbers that is not empty has a least member.
LEMMA LeastMember ==
  ASSUME NEW S \in SUBSET Nat, S # {}
  PROVE  /\ (CHOOSE x \in S : \A y \in S : x =< y) \in S
         /\ \A y \in S : (CHOOSE x \in S : \A z \in S : x =< z) =< y
<1> DEFINE Less == {p \in Nat \X Nat : p[1] < p[2]}
<1>1. IsWellFoundedOn(Less, Nat)
  BY NatLessThanWellFounded DEF OpToRel
<1>2. PICK m \in S : \A y \in S : <<y, m>> \notin Less
  <2> HIDE DEF Less
  <2>1. QED
    BY <1>1, WFMin
<1>3. ASSUME NEW y \in S
      PROVE  m =< y
  <2>1. y < m => <<y, m>> \in Less
    OBVIOUS
  <2>2. QED
    BY <1>2, <2>1
<1>4. QED
  BY <1>3

\* The parts count their sets as everyone does.
LEMMA SameCount ==
  ASSUME NEW S
  PROVE  /\ Batch!Cardinality(S) = Cardinality(S)
         /\ Gate!Cardinality(S) = Cardinality(S)
         /\ Scan!Cardinality(S) = Cardinality(S)
         /\ Document!Cardinality(S) = Cardinality(S)
BY DEF Batch!Cardinality, Gate!Cardinality, Scan!Cardinality, Document!Cardinality,
       Cardinality

-----------------------------------------------------------------------------
(* The equivalence gate.                                                   *)

\* Where a file is booked when its folder is read with what it consumes.
Owner(x) == IF MediaHome[x] = Gate!Card THEN Gate!Shoot ELSE MediaHome[x]

\* No file of the card is found but those in missed.
CardMissed(missed) == ~\E f \in tree \ missed : MediaHome[f] = Gate!Card

\* What the reference finds, and the index.
ReadOnDisk(missed) == Gate!Reading(missed, FALSE).tuples
ReadInIndex(missed) == Gate!Reading(missed, TRUE).tuples

\* What is in a reading: the files found, at their owner's; and, when the card
\* is not consumed, its files at the card, but for the index.
LEMMA ReadingsHave ==
  ASSUME NEW missed, NEW x, NEW p
  PROVE  /\ [file |-> x, folder |-> p] \in ReadOnDisk(missed) <=>
              \/ x \in tree \ missed /\ p = Owner(x)
              \/ /\ x \in tree /\ MediaHome[x] = Gate!Card /\ p = Gate!Card
                 /\ CardMissed(missed)
         /\ [file |-> x, folder |-> p] \in ReadInIndex(missed) <=>
              x \in tree \ missed /\ p = Owner(x)
<1> DEFINE here == {[file |-> f, folder |-> Owner(f)] : f \in tree \ missed}
           below == {[file |-> f, folder |-> Gate!Card] :
                       f \in {g \in tree : MediaHome[g] = Gate!Card}}
<1>1. [file |-> x, folder |-> p] \in here <=> x \in tree \ missed /\ p = Owner(x)
  <2>1. ASSUME [file |-> x, folder |-> p] \in here
        PROVE  x \in tree \ missed /\ p = Owner(x)
    <3>1. PICK f \in tree \ missed : [file |-> x, folder |-> p] = [file |-> f, folder |-> Owner(f)]
      BY <2>1
    <3>2. QED
      BY <3>1
  <2>2. QED
    BY <2>1
<1>2. [file |-> x, folder |-> p] \in below <=>
        x \in tree /\ MediaHome[x] = Gate!Card /\ p = Gate!Card
  <2>1. ASSUME [file |-> x, folder |-> p] \in below
        PROVE  x \in tree /\ MediaHome[x] = Gate!Card /\ p = Gate!Card
    <3>1. PICK f \in {g \in tree : MediaHome[g] = Gate!Card} :
            [file |-> x, folder |-> p] = [file |-> f, folder |-> Gate!Card]
      BY <2>1
    <3>2. QED
      BY <3>1
  <2>2. QED
    BY <2>1
<1>3. ReadOnDisk(missed) = IF CardMissed(missed) THEN here \cup below ELSE here
  BY DEF ReadOnDisk, Gate!Reading, CardMissed, Owner
<1>4. ReadInIndex(missed) = here
  BY DEF ReadInIndex, Gate!Reading, Owner
<1>5. QED
  <2> HIDE DEF here, below
  <2>1. QED
    BY <1>1, <1>2, <1>3, <1>4

\* The types of a reading.
LEMMA ReadingTyped ==
  ASSUME tree \subseteq Media, NEW missed, NEW everywhere \in BOOLEAN
  PROVE  /\ Gate!Reading(missed, everywhere).tuples \subseteq Gate!Tuples
         /\ Gate!Reading(missed, everywhere).folders \subseteq Gate!Folders
<1> DEFINE here == {[file |-> f, folder |-> Owner(f)] : f \in tree \ missed}
           below == {[file |-> f, folder |-> Gate!Card] :
                       f \in {g \in tree : MediaHome[g] = Gate!Card /\ ~everywhere}}
<1>1. \A f \in tree : Owner(f) \in Gate!Folders /\ f \in Media
  BY GateConstants DEF Owner, Gate!Folders, Gate!Card, Gate!Shoot
<1>2. Gate!Card \in Gate!Folders
  BY DEF Gate!Card, Gate!Folders
<1>3. here \subseteq Gate!Tuples /\ below \subseteq Gate!Tuples
  BY <1>1, <1>2 DEF Gate!Tuples
<1>4. Gate!Reading(missed, everywhere).tuples \in {here, here \cup below}
  BY DEF Gate!Reading, Owner
<1>5. Gate!Reading(missed, everywhere).folders \subseteq Gate!Folders
  BY DEF Gate!Reading
<1>6. QED
  <2> HIDE DEF here, below
  <2>1. QED
    BY <1>3, <1>4, <1>5

GateTyped ==
  /\ tree \subseteq Media /\ blind \subseteq Media /\ waivers \subseteq WaiverRows
  /\ runs \in Seq(Gate!Walks) /\ drift \in BOOLEAN
  /\ entries \in Seq(Gate!Statuses)
  /\ charged \subseteq Gate!Divergences /\ withheld \subseteq Gate!Folders
  /\ used \subseteq waivers

GateRunning ==
  /\ pc \in {"load", "walk", "compare", "compared", "done"}
  /\ verdict \in {"none", "accepted", "rejected", "errored", "unstable_reference"}
  /\ exit \in {"none", "usage", "accepted", "rejected", "withheld", "errored"}

\* A walk of the tree as it is saw what a reading of it sees.
SawAsRead(i) ==
  /\ i # 3 => runs[i].tuples = ReadOnDisk(runs[i].slipped)
  /\ i = 3 => runs[i].tuples = ReadInIndex(runs[i].slipped)

\* The walks so far are two of the reference and then one of the index, and
\* what was concluded is what they say.
GateKept ==
  /\ GateTyped /\ GateRunning /\ mishaps \in 0 .. MaxMishaps
  /\ Len(runs) =< 3
  /\ pc = "load" => runs = << >>
  /\ pc = "walk" => Len(runs) =< 2
  /\ pc = "compare" => Len(runs) = 3
  /\ Len(runs) = 3 => runs[3].slipped = blind
  /\ ~drift => \A i \in 1 .. Len(runs) : SawAsRead(i)
  /\ Gate!Compared =>
       /\ entries # << >> /\ entries[Len(entries)] = Gate!Status
       /\ charged = IF Gate!NoEvidence THEN {} ELSE Gate!Charged
       /\ withheld = IF Gate!NoEvidence THEN {} ELSE Gate!Withheld

\* A walk that stands still in a tree that stands still saw what is there.
LEMMA SightStands ==
  ASSUME UNCHANGED tree, NEW i, runs'[i] = runs[i], SawAsRead(i)
  PROVE  SawAsRead(i)'
<1>1. /\ ReadOnDisk(runs[i].slipped)' = ReadOnDisk(runs[i].slipped)
      /\ ReadInIndex(runs[i].slipped)' = ReadInIndex(runs[i].slipped)
  BY DEF Gate!Reading, ReadOnDisk, ReadInIndex
<1>2. QED
  BY <1>1 DEF SawAsRead

\* The walks of an entry that has three of them.
LEMMA ThreeWalks ==
  ASSUME GateTyped, Len(runs) = 3
  PROVE  runs[1] \in Gate!Walks /\ runs[2] \in Gate!Walks /\ runs[3] \in Gate!Walks
<1>1. runs \in Seq(Gate!Walks)
  BY DEF GateTyped
<1>2. QED
  BY <1>1

\* What the comparison concludes has its types.
LEMMA ConclusionTyped ==
  ASSUME GateKept, pc = "compare"
  PROVE  /\ Gate!Diverging \subseteq Gate!Divergences
         /\ Gate!Withheld \subseteq Gate!Folders
         /\ Gate!Status \in Gate!Statuses
<1>1. \A i \in {1, 3} : runs[i].tuples \subseteq Gate!Tuples
  <2>1. \A i \in {1, 3} : runs[i] \in Gate!Walks
    BY ThreeWalks DEF GateKept
  <2>2. \A w \in Gate!Walks : w.tuples \subseteq Gate!Tuples
    BY DEF Gate!Walks
  <2>3. QED
    BY <2>1, <2>2
<1>2. Gate!Diverging \subseteq Gate!Divergences
  <2>1. \A t \in Gate!Tuples : t.file \in Media /\ t.folder \in Gate!Folders
    BY DEF Gate!Tuples
  <2>2. ASSUME NEW d \in Gate!Diverging
        PROVE  d \in Gate!Divergences
    <3>1. PICK t \in Gate!Tuples, s \in {"legacy_only", "index_only"} :
            d = [side |-> s, file |-> t.file, folder |-> t.folder]
      BY <1>1 DEF Gate!Diverging
    <3>2. QED
      BY <3>1, <2>1 DEF Gate!Divergences, Gate!Sides
  <2>3. QED
    BY <2>2
<1>3. Gate!Withheld \subseteq Gate!Folders
  BY DEF Gate!Withheld
<1>4. Gate!Status \in Gate!Statuses
  BY DEF Gate!Status, Gate!Statuses
<1>5. QED
  BY <1>2, <1>3, <1>4

\* Every step of the gate keeps what the walks saw and what is said of them.
LEMMA GateKeeps ==
  ASSUME GateKept, [Gate!Next]_(Gate!vars)
  PROVE  GateKept'
<1>0. /\ GateTyped /\ GateRunning /\ Len(runs) =< 3 /\ Len(runs) \in Nat
      /\ pc = "load" => runs = << >>
      /\ pc = "walk" => Len(runs) =< 2
      /\ pc = "compare" => Len(runs) = 3
      /\ Len(runs) = 3 => runs[3].slipped = blind
      /\ ~drift => \A i \in 1 .. Len(runs) : SawAsRead(i)
  BY DEF GateKept, GateTyped
<1>m. ASSUME UNCHANGED mishaps \/ Gate!Mishap
      PROVE  mishaps' \in 0 .. MaxMishaps
  BY <1>m, DocumentConstants DEF GateKept, Gate!Mishap
<1>w. ASSUME UNCHANGED <<tree, runs, drift>>
      PROVE  ~drift' => \A i \in 1 .. Len(runs') : SawAsRead(i)'
  <2>1. ASSUME ~drift', NEW i \in 1 .. Len(runs')
        PROVE  SawAsRead(i)'
    <3>1. i \in 1 .. Len(runs) /\ runs'[i] = runs[i] /\ ~drift
      BY <1>w, <2>1
    <3>2. QED
      BY <1>0, <1>w, <3>1, SightStands
  <2>2. QED
    BY <2>1
<1>c. ASSUME UNCHANGED <<pc, runs, waivers, entries, charged, withheld>>
      PROVE  Gate!Compared' =>
               /\ entries' # << >> /\ entries'[Len(entries')] = Gate!Status'
               /\ charged' = IF Gate!NoEvidence' THEN {} ELSE Gate!Charged'
               /\ withheld' = IF Gate!NoEvidence' THEN {} ELSE Gate!Withheld'
  <2>1. /\ Gate!Status' = Gate!Status /\ Gate!NoEvidence' = Gate!NoEvidence
        /\ Gate!Charged' = Gate!Charged /\ Gate!Withheld' = Gate!Withheld
        /\ Gate!Compared' = Gate!Compared
    BY <1>c DEF Gate!Status, Gate!NoEvidence, Gate!Charged, Gate!Withheld, Gate!Compared,
                Gate!ChargedFolders, Gate!Diverging, Gate!Tainted
  <2>2. Gate!Compared =>
          /\ entries # << >> /\ entries[Len(entries)] = Gate!Status
          /\ charged = IF Gate!NoEvidence THEN {} ELSE Gate!Charged
          /\ withheld = IF Gate!NoEvidence THEN {} ELSE Gate!Withheld
    BY DEF GateKept
  <2>3. QED
    BY <1>c, <2>1, <2>2
<1>1. CASE Gate!Load
  <2>1. /\ UNCHANGED <<tree, blind, waivers, runs, drift, entries, charged, withheld, used,
                       verdict, exit, mishaps>>
        /\ pc = "load" /\ pc' = "walk"
    BY <1>1 DEF Gate!Load, Gate!given, Gate!conclusion
  <2>2. GateTyped' /\ GateRunning'
    BY <2>1, <1>0 DEF GateTyped, GateRunning
  <2>3. QED
    BY <2>1, <2>2, <1>0, <1>w, <1>m DEF GateKept, Gate!Compared
<1>2. CASE Gate!Refuse
  <2>1. /\ UNCHANGED <<tree, blind, waivers, runs, drift, entries, charged, withheld, used,
                       verdict>>
        /\ pc' = "done" /\ exit' = "usage" /\ (UNCHANGED mishaps \/ Gate!Mishap)
    BY <1>2 DEF Gate!Refuse, Gate!Usage, Gate!given
  <2>2. GateTyped' /\ GateRunning'
    BY <2>1, <1>0 DEF GateTyped, GateRunning
  <2>3. QED
    BY <2>1, <2>2, <1>0, <1>w, <1>m DEF GateKept, Gate!Compared
<1>3. CASE Gate!WalkTree
  <2> DEFINE n == Len(runs) + 1
  <2>1. /\ UNCHANGED <<tree, blind, waivers, drift, entries, charged, withheld, used,
                       verdict, exit>>
        /\ pc = "walk" /\ pc' = (IF Len(runs) = 2 THEN "compare" ELSE "walk")
        /\ UNCHANGED mishaps \/ Gate!Mishap
    BY <1>3 DEF Gate!WalkTree, Gate!given, Gate!conclusion
  <2>2. PICK missed \in SUBSET Media, failed \in BOOLEAN, erred \in BOOLEAN :
          /\ runs' = Append(runs, Gate!Walk(missed, failed, erred))
          /\ Gate!Mode = "index" => missed = blind
    <3>1. Gate!Misses \in SUBSET Media /\ (Gate!Mode = "index" => Gate!Misses = blind)
      BY <1>0 DEF Gate!Misses, GateTyped
    <3>2. \A f \in tree : {f} \in SUBSET Media
      BY <1>0 DEF GateTyped
    <3>3. \/ runs' = Append(runs, Gate!Walk(Gate!Misses, FALSE, FALSE))
          \/ \E failed, erred \in BOOLEAN :
               runs' = Append(runs, Gate!Walk(Gate!Misses, failed, erred))
          \/ Gate!Mode = "legacy" /\ \E f \in tree : runs' = Append(runs, Gate!Walk({f}, FALSE, FALSE))
      BY <1>3 DEF Gate!WalkTree
    <3>4. CASE \E failed, erred \in BOOLEAN :
                 runs' = Append(runs, Gate!Walk(Gate!Misses, failed, erred))
      BY <3>1, <3>4
    <3>5. CASE runs' = Append(runs, Gate!Walk(Gate!Misses, FALSE, FALSE))
      BY <3>1, <3>5
    <3>6. CASE Gate!Mode = "legacy" /\ \E f \in tree : runs' = Append(runs, Gate!Walk({f}, FALSE, FALSE))
      BY <3>2, <3>6
    <3>7. QED
      BY <3>3, <3>4, <3>5, <3>6
  <2> DEFINE walk == Gate!Walk(missed, failed, erred)
  <2>3. /\ (Gate!Mode = "index") <=> (n = 3)
        /\ n \in 1 .. 3 /\ Len(runs) \in Nat
    BY <2>1, <1>0 DEF Gate!Mode
  <2>4. /\ walk.tuples = Gate!Reading(missed, Gate!Mode = "index").tuples
        /\ walk.folders = Gate!Reading(missed, Gate!Mode = "index").folders
        /\ walk.slipped = missed /\ walk.failed = failed /\ walk.errors = erred
        /\ walk = [tuples |-> walk.tuples, folders |-> walk.folders, failed |-> walk.failed,
                   errors |-> walk.errors, slipped |-> walk.slipped]
    BY <2>3 DEF Gate!Walk
  <2>5. walk \in Gate!Walks
    <3>1. walk.tuples \subseteq Gate!Tuples /\ walk.folders \subseteq Gate!Folders
      BY <2>4, <1>0, ReadingTyped DEF GateTyped
    <3>2. QED
      <4> HIDE DEF walk
      <4>1. QED
        BY <2>2, <2>4, <3>1 DEF Gate!Walks
  <2> HIDE DEF walk
  <2>6. /\ runs' \in Seq(Gate!Walks) /\ Len(runs') = n /\ runs'[n] = walk
        /\ \A i \in 1 .. Len(runs) : runs'[i] = runs[i]
    BY <2>2, <2>5, <1>0 DEF GateTyped, walk
  <2>7. GateTyped' /\ GateRunning'
    BY <2>1, <2>6, <1>0 DEF GateTyped, GateRunning
  <2>8. ASSUME ~drift', NEW i \in 1 .. Len(runs')
        PROVE  SawAsRead(i)'
    <3>1. CASE i = n
      <4>1. /\ n # 3 => walk.tuples = ReadOnDisk(missed)
            /\ n = 3 => walk.tuples = ReadInIndex(missed)
        <5>1. CASE n = 3
          <6>1. (Gate!Mode = "index") = TRUE
            BY <5>1, <2>3
          <6>2. QED
            BY <2>4, <5>1, <6>1 DEF ReadInIndex
        <5>2. CASE n # 3
          <6>1. (Gate!Mode = "index") = FALSE
            BY <5>2, <2>3
          <6>2. QED
            BY <2>4, <5>2, <6>1 DEF ReadOnDisk
        <5>3. QED
          BY <5>1, <5>2
      <4>2. ReadOnDisk(missed)' = ReadOnDisk(missed) /\ ReadInIndex(missed)' = ReadInIndex(missed)
        BY <2>1 DEF Gate!Reading, ReadOnDisk, ReadInIndex
      <4>3. runs'[n] = walk /\ walk.slipped = missed
        BY <2>4, <2>6
      <4>4. QED
        BY <3>1, <4>1, <4>2, <4>3 DEF SawAsRead
    <3>2. CASE i # n
      <4>1. i \in 1 .. Len(runs) /\ SawAsRead(i) /\ runs'[i] = runs[i]
        BY <3>2, <2>1, <2>3, <2>6, <2>8, <1>0
      <4>2. QED
        BY <4>1, <2>1, SightStands
    <3>3. QED
      BY <3>1, <3>2
  <2>9. Len(runs') = 3 => runs'[3].slipped = blind'
    BY <2>1, <2>2, <2>3, <2>4, <2>6
  <2>10. ~Gate!Compared'
    BY <2>1 DEF Gate!Compared
  <2>11. /\ Len(runs') =< 3 /\ (pc' = "walk" => Len(runs') =< 2)
         /\ pc' # "load" /\ (pc' = "compare" => Len(runs') = 3)
    <3>1. Len(runs) =< 2 /\ Len(runs') = Len(runs) + 1 /\ Len(runs) \in Nat
      BY <2>1, <2>6, <1>0
    <3>2. CASE Len(runs) = 2
      <4>1. pc' = "compare" /\ Len(runs') = 3
        BY <2>1, <3>1, <3>2
      <4>2. QED
        BY <4>1
    <3>3. CASE Len(runs) # 2
      <4>1. pc' = "walk"
        BY <2>1, <3>3
      <4>2. Len(runs') =< 2
        <5> DEFINE a == Len(runs)
                   b == Len(runs')
        <5>1. a \in Nat /\ a =< 2 /\ a # 2 /\ b = a + 1
          BY <3>1, <3>3
        <5> HIDE DEF a, b
        <5>2. b =< 2
          BY <5>1
        <5>3. QED
          BY <5>2 DEF b
      <4>3. QED
        BY <4>1, <4>2
    <3>4. QED
      BY <3>2, <3>3
  <2>12. QED
    BY <2>1, <2>7, <2>8, <2>9, <2>10, <2>11, <1>m DEF GateKept
<1>4. CASE Gate!WalkRaises
  <2>1. /\ UNCHANGED <<tree, blind, waivers, runs, drift, used, verdict, exit>>
        /\ pc = "walk" /\ pc' = "compared" /\ (UNCHANGED mishaps \/ Gate!Mishap)
        /\ entries' = Append(entries, "errored") /\ charged' = {} /\ withheld' = {}
    BY <1>4 DEF Gate!WalkRaises, Gate!Book, Gate!given
  <2>2. entries' \in Seq(Gate!Statuses)
    BY <2>1, <1>0 DEF GateTyped, Gate!Statuses
  <2>3. GateTyped' /\ GateRunning'
    BY <2>1, <2>2, <1>0 DEF GateTyped, GateRunning
  <2>4. QED
    BY <2>1, <2>3, <1>0, <1>w, <1>m DEF GateKept, Gate!Compared
<1>5. ASSUME NEW f \in Media, Gate!TreeMoves(f)
      PROVE  GateKept'
  <2>1. /\ UNCHANGED <<blind, waivers, pc, runs, entries, charged, withheld, used, verdict, exit>>
        /\ pc = "walk" /\ Gate!Mishap /\ tree' \subseteq tree \cup {f}
        /\ drift' = (drift \/ runs # << >>)
    BY <1>5 DEF Gate!TreeMoves, Gate!given, Gate!conclusion
  <2>2. GateTyped' /\ GateRunning'
    BY <2>1, <1>0 DEF GateTyped, GateRunning
  <2>3. ~drift' => runs' = << >>
    BY <2>1
  <2>4. QED
    BY <2>1, <2>2, <2>3, <1>0, <1>m DEF GateKept, Gate!Compared
<1>6. CASE Gate!Compare
  <2>1. /\ UNCHANGED <<tree, blind, waivers, runs, drift, verdict, exit, mishaps>>
        /\ pc = "compare" /\ pc' = "compared"
        /\ entries' = Append(entries, Gate!Status)
        /\ charged' = IF Gate!NoEvidence THEN {} ELSE Gate!Charged
        /\ withheld' = IF Gate!NoEvidence THEN {} ELSE Gate!Withheld
        /\ used' \subseteq used \cup waivers
    BY <1>6 DEF Gate!Compare, Gate!Book, Gate!given
  <2>2. /\ Gate!Status' = Gate!Status /\ Gate!NoEvidence' = Gate!NoEvidence
        /\ Gate!Charged' = Gate!Charged /\ Gate!Withheld' = Gate!Withheld
    BY <2>1 DEF Gate!Status, Gate!NoEvidence, Gate!Charged, Gate!Withheld,
                Gate!ChargedFolders, Gate!Diverging, Gate!Tainted
  <2>3. /\ Gate!Charged \subseteq Gate!Divergences /\ Gate!Withheld \subseteq Gate!Folders
        /\ Gate!Status \in Gate!Statuses
    BY <2>1, ConclusionTyped DEF Gate!Charged
  <2>4. /\ entries' \in Seq(Gate!Statuses) /\ entries' # << >>
        /\ entries'[Len(entries')] = Gate!Status
    BY <2>1, <2>3, <1>0 DEF GateTyped
  <2>5. GateTyped' /\ GateRunning'
    BY <2>1, <2>3, <2>4, <1>0 DEF GateTyped, GateRunning
  <2>6. QED
    BY <2>1, <2>2, <2>4, <2>5, <1>0, <1>w, <1>m DEF GateKept
<1>7. CASE Gate!NextEntry
  <2>1. /\ UNCHANGED <<blind, waivers, entries, used, verdict, exit, mishaps>>
        /\ pc' = "walk" /\ runs' = << >> /\ drift' = FALSE
        /\ charged' = {} /\ withheld' = {} /\ tree' \subseteq Media
    BY <1>7 DEF Gate!NextEntry, Gate!given
  <2>a. runs' \in Seq(Gate!Walks)
    BY <2>1
  <2>2. GateTyped' /\ GateRunning'
    BY <2>1, <2>a, <1>0 DEF GateTyped, GateRunning
  <2>3. QED
    BY <2>1, <2>2, <1>m DEF GateKept, Gate!Compared
<1>8. CASE Gate!Conclude
  <2>1. /\ UNCHANGED <<tree, blind, waivers, runs, drift, entries, charged, withheld, used, mishaps>>
        /\ pc' = "done" /\ verdict' = Gate!Overall /\ exit' = Gate!Exit(Gate!Overall)
    BY <1>8 DEF Gate!Conclude, Gate!given
  <2>2. Gate!Overall \in {"accepted", "rejected", "errored", "unstable_reference"}
    BY DEF Gate!Overall
  <2>3. Gate!Exit(Gate!Overall) \in {"accepted", "rejected", "withheld", "errored"}
    BY <2>2 DEF Gate!Exit
  <2>4. GateTyped' /\ GateRunning'
    BY <2>1, <2>2, <2>3, <1>0 DEF GateTyped, GateRunning
  <2>5. QED
    BY <2>1, <2>4, <1>0, <1>w, <1>m DEF GateKept, Gate!Compared
<1>9. CASE UNCHANGED Gate!vars
  <2>1. UNCHANGED <<tree, blind, waivers, pc, runs, drift, entries, charged, withheld, used,
                    verdict, exit, mishaps>>
    BY <1>9 DEF Gate!vars
  <2>2. GateTyped' /\ GateRunning'
    BY <2>1, <1>0 DEF GateTyped, GateRunning
  <2>3. QED
    BY <2>1, <2>2, <1>0, <1>w, <1>c, <1>m DEF GateKept
<1>10. QED
  BY <1>1, <1>2, <1>3, <1>4, <1>5, <1>6, <1>7, <1>8, <1>9 DEF Gate!Next

\* The gate starts before its first walk.
LEMMA GateStarts ==
  ASSUME Gate!Init
  PROVE  GateKept
<1>1. GateTyped /\ GateRunning
  <2>1. runs \in Seq(Gate!Walks) /\ entries \in Seq(Gate!Statuses)
    BY DEF Gate!Init
  <2>2. QED
    BY <2>1 DEF Gate!Init, GateTyped, GateRunning
<1>2. mishaps \in 0 .. MaxMishaps
  BY DocumentConstants DEF Gate!Init
<1>3. QED
  BY <1>1, <1>2 DEF Gate!Init, GateKept, Gate!Compared

\* While the gate is the subject, its walks saw what they read.
LEMMA GateAlways == Spec => [](subject = "gate" => GateKept)
<1>1. Init => (subject = "gate" => GateKept)
  BY SubjectStarts, GateStarts
<1>2. (subject = "gate" => GateKept) /\ [Next]_vars => (subject = "gate" => GateKept)'
  BY SubjectSteps, GateKeeps
<1>3. QED
  BY <1>1, <1>2, PTL DEF Spec

\* A file that the index finds, and that at most one reference walk slipped past,
\* diverges only in a folder that is tainted.
LEMMA SlipTaints ==
  ASSUME GateKept, ~drift, Len(runs) = 3, NEW d \in Gate!Diverging,
         d.file \notin blind,
         d.file \notin runs[1].slipped \cap runs[2].slipped
  PROVE  d.folder \in Gate!Tainted
<1> DEFINE x == d.file
           p == d.folder
           In(i) == [file |-> x, folder |-> p] \in runs[i].tuples
           Has(i) == \/ x \in tree \ runs[i].slipped /\ p = Owner(x)
                     \/ /\ x \in tree /\ MediaHome[x] = Gate!Card /\ p = Gate!Card
                        /\ i # 3 /\ CardMissed(runs[i].slipped)
<1>1. ASSUME NEW i \in {1, 2, 3}
      PROVE  In(i) <=> Has(i)
  <2>1. SawAsRead(i)
    <3>1. i \in 1 .. Len(runs)
      OBVIOUS
    <3>2. QED
      BY <3>1 DEF GateKept
  <2>2. CASE i = 3
    <3>1. runs[i].tuples = ReadInIndex(runs[i].slipped)
      BY <2>1, <2>2 DEF SawAsRead
    <3>2. [file |-> x, folder |-> p] \in ReadInIndex(runs[i].slipped) <=>
            x \in tree \ runs[i].slipped /\ p = Owner(x)
      BY ReadingsHave
    <3>3. QED
      BY <2>2, <3>1, <3>2
  <2>3. CASE i # 3
    <3>1. runs[i].tuples = ReadOnDisk(runs[i].slipped)
      BY <2>1, <2>3 DEF SawAsRead
    <3>2. [file |-> x, folder |-> p] \in ReadOnDisk(runs[i].slipped) <=>
            \/ x \in tree \ runs[i].slipped /\ p = Owner(x)
            \/ /\ x \in tree /\ MediaHome[x] = Gate!Card /\ p = Gate!Card
               /\ CardMissed(runs[i].slipped)
      BY ReadingsHave
    <3>3. QED
      BY <2>3, <3>1, <3>2
  <2>4. QED
    BY <2>2, <2>3
<1>2. ~(In(1) <=> In(3))
  <2>1. PICK t \in Gate!Differ(runs[1].tuples, runs[3].tuples), s \in Gate!Sides :
          d = [side |-> s, file |-> t.file, folder |-> t.folder]
    <3>1. /\ \A t \in runs[1].tuples \ runs[3].tuples :
               t \in Gate!Differ(runs[1].tuples, runs[3].tuples)
          /\ \A t \in runs[3].tuples \ runs[1].tuples :
               t \in Gate!Differ(runs[1].tuples, runs[3].tuples)
      BY DEF Gate!Differ
    <3>2. "legacy_only" \in Gate!Sides /\ "index_only" \in Gate!Sides
      BY DEF Gate!Sides
    <3>3. \/ \E t \in runs[1].tuples \ runs[3].tuples :
               d = [side |-> "legacy_only", file |-> t.file, folder |-> t.folder]
          \/ \E t \in runs[3].tuples \ runs[1].tuples :
               d = [side |-> "index_only", file |-> t.file, folder |-> t.folder]
      BY DEF Gate!Diverging
    <3>4. QED
      BY <3>1, <3>2, <3>3
  <2>2. t = [file |-> t.file, folder |-> t.folder]
    <3>1. \A i \in {1, 3} : runs[i] \in Gate!Walks
      BY ThreeWalks DEF GateKept
    <3>2. t \in Gate!Tuples
      BY <2>1, <3>1 DEF Gate!Differ, Gate!Walks
    <3>3. QED
      BY <3>2 DEF Gate!Tuples
  <2>3. t = [file |-> x, folder |-> p]
    BY <2>1, <2>2
  <2>4. QED
    BY <2>1, <2>3 DEF Gate!Differ
<1>3. x \notin blind /\ runs[3].slipped = blind /\ Gate!Card # Gate!Shoot
  BY DEF GateKept, Gate!Card, Gate!Shoot
<1>4. ~(In(1) <=> In(2))
  <2>1. ~(Has(1) <=> Has(3))
    BY <1>1, <1>2
  <2>2. ~(Has(1) <=> Has(2))
    <3>1. CASE MediaHome[x] # Gate!Card
      BY <2>1, <3>1, <1>3
    <3>2. CASE MediaHome[x] = Gate!Card
      <4>1. Owner(x) = Gate!Shoot
        BY <3>2 DEF Owner
      <4>2. \A i \in {1, 2, 3} : x \in tree \ runs[i].slipped => ~CardMissed(runs[i].slipped)
        BY <3>2 DEF CardMissed
      <4>3. QED
        BY <2>1, <3>2, <4>1, <4>2, <1>3
    <3>3. QED
      BY <3>1, <3>2
  <2>3. QED
    BY <1>1, <2>2
<1>5. QED
  <2>1. [file |-> x, folder |-> p] \in Gate!Differ(runs[1].tuples, runs[2].tuples)
    BY <1>4 DEF Gate!Differ
  <2>2. QED
    BY <2>1 DEF Gate!Tainted

\* While the tree holds still, a file is charged only when the index misses that
\* very file, or when both reference walks slipped past it (compare_entry).
THEOREM SlipsAreNotCharged == Spec => []ChargedWithCause
<1>1. (subject = "gate" => GateKept) => ChargedWithCause
  <2>1. SUFFICES ASSUME GateKept, Gate!Compared, ~drift, NEW d \in charged,
                        d.file \notin blind,
                        d.file \notin runs[1].slipped \cap runs[2].slipped
                 PROVE  FALSE
    BY DEF ChargedWithCause, Gate!ChargedWithCause
  <2>2. d \in Gate!Charged /\ Len(runs) = 3
    BY <2>1 DEF GateKept, Gate!Compared
  <2>3. d \in Gate!Diverging /\ d.folder \notin Gate!Withheld
    BY <2>2 DEF Gate!Charged
  <2>4. d.folder \in Gate!Tainted /\ d.folder \in Gate!Folders
    <3>1. d \in Gate!Divergences
      BY <2>1 DEF GateKept, GateTyped
    <3>2. QED
      BY <2>1, <2>2, <2>3, <3>1, SlipTaints DEF Gate!Divergences
  <2>5. d.folder \in Gate!Withheld
    BY <2>4 DEF Gate!Withheld
  <2>6. QED
    BY <2>3, <2>5
<1>2. QED
  BY <1>1, GateAlways, PTL

\* What the index misses is never called agreement, unless both reference walks
\* missed it too, its folder is withheld, or a waiver covers exactly it
\* (compare_entry).
THEOREM AgreementIsTrue == Spec => []AgreedIsTrue
<1>1. (subject = "gate" => GateKept) => AgreedIsTrue
  <2>1. SUFFICES ASSUME GateKept, Gate!Compared, ~drift, entries[Len(entries)] = "agreed",
                        NEW f \in blind \cap tree,
                        f \notin runs[1].slipped \cap runs[2].slipped,
                        Owner(f) \notin withheld,
                        ~\E w \in waivers :
                           Gate!Waives(w, [side |-> "legacy_only", file |-> f, folder |-> Owner(f)])
                 PROVE  FALSE
    BY DEF AgreedIsTrue, Gate!AgreedIsTrue, Owner
  <2> DEFINE d == [side |-> "legacy_only", file |-> f, folder |-> Owner(f)]
             t == [file |-> f, folder |-> Owner(f)]
  <2>2. Gate!Status = "agreed" /\ Len(runs) = 3
    BY <2>1 DEF GateKept, Gate!Compared
  <2>3. ~Gate!NoEvidence /\ Gate!Charged = {}
    BY <2>2 DEF Gate!Status
  <2>4. withheld = Gate!Withheld
    BY <2>1, <2>3 DEF GateKept
  <2>a. ASSUME NEW i \in {1, 2}
        PROVE  t \in runs[i].tuples <=> f \notin runs[i].slipped
    <3>1. runs[i].tuples = ReadOnDisk(runs[i].slipped)
      <4>1. SawAsRead(i)
        <5>1. i \in 1 .. Len(runs)
          BY <2>2
        <5>2. QED
          BY <2>1, <5>1 DEF GateKept
      <4>2. QED
        BY <4>1 DEF SawAsRead
    <3>2. MediaHome[f] = Gate!Card => Owner(f) # Gate!Card
      BY DEF Owner, Gate!Card, Gate!Shoot
    <3>3. t \in ReadOnDisk(runs[i].slipped) <=> f \notin runs[i].slipped
      BY <3>2, ReadingsHave
    <3>4. QED
      BY <3>1, <3>3
  <2>b. Owner(f) \in Gate!Folders
    BY <2>1, GateConstants
       DEF GateKept, GateTyped, Owner, Gate!Folders, Gate!Card, Gate!Shoot
  <2>c. t.folder \notin Gate!Tainted
    BY <2>1, <2>4, <2>b DEF Gate!Withheld
  <2>5. t \in runs[1].tuples
    <3>1. t \notin Gate!Differ(runs[1].tuples, runs[2].tuples)
      BY <2>c DEF Gate!Tainted
    <3>2. t \in runs[1].tuples <=> t \in runs[2].tuples
      BY <3>1 DEF Gate!Differ
    <3>3. QED
      BY <2>1, <2>a, <3>2
  <2>6. t \notin runs[3].tuples
    <3>1. runs[3].tuples = ReadInIndex(blind)
      <4>1. SawAsRead(3) /\ runs[3].slipped = blind
        <5>1. 3 \in 1 .. Len(runs)
          BY <2>2
        <5>2. QED
          BY <2>1, <2>2, <5>1 DEF GateKept
      <4>2. QED
        BY <4>1 DEF SawAsRead
    <3>2. t \notin ReadInIndex(blind)
      BY <2>1, ReadingsHave
    <3>3. QED
      BY <3>1, <3>2
  <2>7. d \in Gate!Diverging
    BY <2>5, <2>6 DEF Gate!Diverging
  <2>8. d \in Gate!Charged
    BY <2>1, <2>4, <2>7 DEF Gate!Charged
  <2>9. QED
    BY <2>3, <2>8
<1>2. QED
  BY <1>1, GateAlways, PTL

-----------------------------------------------------------------------------
(* The relocation.                                                         *)

Planned == [kind |-> "planned", side |-> "old", from |-> FALSE]
Relocated == [kind |-> "moved", side |-> "new", from |-> TRUE]
Archived == [at |-> "new", state |-> "ARCHIVED"]

\* The copies of an original that Vidispine may have: the plan's at the old
\* path until the moved one takes its place in the shape, and never two at one
\* path.  What the plan calls moved is archived.
OneCopy(o) ==
  /\ plan[o] \in {Planned, Relocated}
  /\ plan[o] = Relocated => entity[o]["moved"] = Archived
  /\ entity[o]["planned"].at \in {"old", "gone"}
  /\ entity[o]["moved"].at \in {"new", "gone"}
  /\ entity[o]["stranger"].at \in {"old", "new", "gone"}
  /\ entity[o]["planned"].at = "old" => entity[o]["moved"].at = "gone"
  /\ entity[o]["moved"].at = "new" => entity[o]["stranger"].at # "new"
  /\ entity[o]["planned"].at = "old" => entity[o]["stranger"].at # "old"
  /\ shape[o] = IF entity[o]["planned"].at = "old" THEN "planned" ELSE "moved"

\* What a step leaves for the next one.
StepsLeave ==
  /\ pc # "idle" => portal = "new"
  /\ pc \in {"preflight", "close", "move", "check", "name", "clip", "save"} =>
       todo = Move!Pending
  /\ pc \in {"recheck", "verify"} => Move!Pending = {}
  /\ pc \in {"name", "clip", "save"} =>
       todo # {} /\ entity[Move!Current]["moved"] = Archived
  /\ pc \in {"name", "clip"} => Move!Current = 1
  /\ pc \in {"clip", "save"} /\ Move!Current = 1 => field # "old"
  /\ pc = "save" /\ Move!Current = 1 => clip # "planned"
  /\ plan[1] = Relocated => field # "old" /\ clip # "planned"

\* The original's entity was left open by a run that died, and this run knows.
Remembered(o) == o \in Move!Open => <<o, "moved">> \in resumed

Verdicts ==
  /\ result # "none" => pc = "over"
  /\ pc = "close" => \A o \in Originals : Remembered(o)
  /\ result = "relocated" => Move!Pending = {}
  /\ result = "preexisting" => \A o \in Originals : shape[o] = "planned"
  /\ result = "verify fails" => Move!Open = {}

MoveKept ==
  /\ Move!TypeOK
  /\ \A o \in Originals : OneCopy(o)
  /\ StepsLeave
  /\ Verdicts

\* The next original is one of the plan's.
LEMMA CurrentTyped ==
  ASSUME todo \subseteq Originals, todo # {}
  PROVE  /\ Move!Current \in todo /\ Move!Current \in Originals
BY LeastMember, MoveConstants DEF Move!Current, Move!Min

\* The mishaps stay within their bound.
LEMMA MoveMishapsBounded ==
  ASSUME mishaps \in 0 .. MoveMishaps, UNCHANGED mishaps \/ Move!Mishap
  PROVE  mishaps' \in 0 .. MoveMishaps
BY MoveConstants DEF Move!Mishap

\* An entity that is archived is an entity still.
LEMMA ArchivedTyped ==
  ASSUME NEW e \in [Originals -> [Move!Kinds -> Move!Entity]],
         NEW o \in Originals, NEW k \in Move!Kinds
  PROVE  [e EXCEPT ![o][k].state = "ARCHIVED"] \in [Originals -> [Move!Kinds -> Move!Entity]]
<1>1. [e[o][k] EXCEPT !.state = "ARCHIVED"] \in Move!Entity
  BY DEF Move!Entity
<1>2. [e[o] EXCEPT ![k].state = "ARCHIVED"] \in [Move!Kinds -> Move!Entity]
  BY <1>1
<1>3. QED
  BY <1>2

\* Every step of the relocation keeps the types.
LEMMA MoveTyped ==
  ASSUME Move!TypeOK, [Move!Next]_(Move!vars)
  PROVE  Move!TypeOK'
<1> DEFINE Typed == /\ row \in PlanRows
                   /\ plan \in [Originals -> [kind : Move!Kinds, side : Move!Sides, from : BOOLEAN]]
                   /\ shape \in [Originals -> Move!Kinds]
                   /\ entity \in [Originals -> [Move!Kinds -> Move!Entity]]
                   /\ field \in {"old", "new", "other"}
                   /\ clip \in Move!Kinds
                   /\ portal \in Move!Sides
                   /\ todo \subseteq Originals
                   /\ again \subseteq Originals
                   /\ resumed \subseteq Originals \X Move!Kinds
<1> DEFINE Running == pc \in Move!Steps /\ result \in Move!Results
<1>0. Typed /\ Running /\ mishaps \in 0 .. MoveMishaps
  BY DEF Move!TypeOK
<1>a. ASSUME Typed', Running', UNCHANGED mishaps \/ Move!Mishap
      PROVE  Move!TypeOK'
  BY <1>0, <1>a, MoveMishapsBounded DEF Move!TypeOK
<1>1. CASE Move!RewritePortal
  <2>1. Typed'
    BY <1>1, <1>0
       DEF Move!RewritePortal, Move!item, Move!saved, Move!portalRows, Move!run,
           Move!Kinds, Move!Sides, Move!Entity, Move!NoEntity
  <2>2. Running'
    BY <1>1, <1>0 DEF Move!RewritePortal, Move!Steps, Move!Results
  <2>3. UNCHANGED mishaps \/ Move!Mishap
    BY <1>1 DEF Move!RewritePortal
  <2>4. QED
    BY <1>a, <2>1, <2>2, <2>3
<1>2. CASE Move!Select
  <2>1. Typed'
    BY <1>2, <1>0
       DEF Move!Select, Move!Taken, Move!Relocated, Move!Pending, Move!item, Move!saved,
           Move!portalRows, Move!run, Move!Kinds, Move!Sides, Move!Entity, Move!NoEntity
  <2>2. Running'
    BY <1>2, <1>0 DEF Move!Select, Move!End, Move!Steps, Move!Results
  <2>3. UNCHANGED mishaps \/ Move!Mishap
    BY <1>2 DEF Move!Select
  <2>4. QED
    BY <1>a, <2>1, <2>2, <2>3
<1>3. CASE Move!Refuse
  <2>1. Typed'
    BY <1>3, <1>0
       DEF Move!Refuse, Move!Refused, Move!item, Move!saved, Move!portalRows, Move!run,
           Move!Kinds, Move!Sides, Move!Entity, Move!NoEntity
  <2>2. Running'
    BY <1>3, <1>0 DEF Move!Refuse, Move!End, Move!Steps, Move!Results
  <2>3. UNCHANGED mishaps \/ Move!Mishap
    BY <1>3 DEF Move!Refuse
  <2>4. QED
    BY <1>a, <2>1, <2>2, <2>3
<1>4. CASE Move!Preflight
  <2>1. \A o \in Move!Killed : o \in Originals /\ Move!Projected[o] \in Move!Kinds
    BY <1>4, <1>0 DEF Move!Preflight, Move!Killed, Move!Projected, Move!Refused, Move!Found
  <2>2. resumed' \subseteq Originals \X Move!Kinds
    BY <1>4, <1>0, <2>1 DEF Move!Preflight
  <2>3. Typed'
    BY <1>4, <1>0, <2>2 DEF Move!Preflight, Move!item, Move!saved, Move!portalRows
  <2>5. Running'
    BY <1>4, <1>0 DEF Move!Preflight, Move!End, Move!Steps, Move!Results
  <2>6. UNCHANGED mishaps \/ Move!Mishap
    BY <1>4 DEF Move!Preflight
  <2>7. QED
    BY <1>a, <2>3, <2>5, <2>6
<1>5. CASE Move!Close
  <2>1. ASSUME NEW r \in resumed
        PROVE  [entity EXCEPT ![r[1]][r[2]].state = "ARCHIVED"]
                 \in [Originals -> [Move!Kinds -> Move!Entity]]
    BY <1>0, ArchivedTyped
  <2>2. entity' \in [Originals -> [Move!Kinds -> Move!Entity]]
        /\ resumed' \subseteq Originals \X Move!Kinds
    BY <1>5, <1>0, <2>1 DEF Move!Close
  <2>3. Typed'
    BY <1>5, <1>0, <2>2 DEF Move!Close, Move!saved, Move!portalRows
  <2>5. Running'
    BY <1>5, <1>0 DEF Move!Close, Move!End, Move!Steps, Move!Results
  <2>6. UNCHANGED mishaps \/ Move!Mishap
    BY <1>5 DEF Move!Close
  <2>7. QED
    BY <1>a, <2>3, <2>5, <2>6
<1>6. CASE Move!PathTaken
  <2>1. Typed'
    BY <1>6, <1>0
       DEF Move!PathTaken, Move!At, Move!item, Move!saved, Move!portalRows, Move!run,
           Move!Kinds, Move!Sides, Move!Entity, Move!NoEntity
  <2>2. Running'
    BY <1>6, <1>0 DEF Move!PathTaken, Move!End, Move!Steps, Move!Results
  <2>3. UNCHANGED mishaps \/ Move!Mishap
    BY <1>6 DEF Move!PathTaken
  <2>4. QED
    BY <1>a, <2>1, <2>2, <2>3
<1>7. CASE Move!Move
  <2>a. /\ Move!Current \in Originals
        /\ UNCHANGED <<row, plan, field, clip, portal, todo, again, resumed>>
    BY <1>7, <1>0, CurrentTyped
       DEF Move!Move, Move!At, Move!saved, Move!portalRows, Move!run
  <2>b. /\ {"planned", "moved", "stranger"} = Move!Kinds
        /\ [at |-> "new", state |-> "OPEN"] \in Move!Entity
        /\ \A e \in Move!Entity : [e EXCEPT !.at = "gone"] \in Move!Entity
    BY DEF Move!Kinds, Move!Entity, Move!Sides
  <2>c. shape' \in [Originals -> Move!Kinds]
    BY <1>7, <1>0, <2>a, <2>b DEF Move!Move
  <2>d. entity' \in [Originals -> [Move!Kinds -> Move!Entity]]
    <3> DEFINE o == Move!Current
               new == [at |-> "new", state |-> "OPEN"]
    <3>1. CASE entity' = [entity EXCEPT ![o]["planned"].at = "gone", ![o]["moved"] = new]
      <4> DEFINE gone == [entity[o]["planned"] EXCEPT !.at = "gone"]
      <4>1. gone \in Move!Entity /\ new \in Move!Entity
        BY <1>0, <2>a, <2>b
      <4>2. entity' = [entity EXCEPT ![o] =
                         [entity[o] EXCEPT !["planned"] = gone, !["moved"] = new]]
        BY <3>1, <1>0, <2>a
      <4> HIDE DEF o, gone, new
      <4>3. [entity[o] EXCEPT !["planned"] = gone, !["moved"] = new]
              \in [Move!Kinds -> Move!Entity]
        BY <4>1, <1>0, <2>a DEF o
      <4>4. QED
        BY <4>2, <4>3, <1>0
    <3>2. CASE entity' = [entity EXCEPT ![o]["stranger"] = new]
      BY <3>2, <1>0, <2>a, <2>b
    <3>3. CASE UNCHANGED entity
      BY <3>3, <1>0
    <3>4. QED
      BY <1>7, <3>1, <3>2, <3>3 DEF Move!Move
  <2>1. Typed'
    BY <1>0, <2>a, <2>c, <2>d
  <2>2. Running'
    BY <1>7, <1>0 DEF Move!Move, Move!Steps, Move!Results
  <2>3. UNCHANGED mishaps \/ Move!Mishap
    BY <1>7 DEF Move!Move
  <2>4. QED
    BY <1>a, <2>1, <2>2, <2>3
<1>8. CASE Move!Archive
  <2>1. Move!Current \in Originals /\ "moved" \in Move!Kinds
    BY <1>8, <1>0, CurrentTyped DEF Move!Archive, Move!At, Move!Kinds
  <2>2. [entity EXCEPT ![Move!Current]["moved"].state = "ARCHIVED"]
          \in [Originals -> [Move!Kinds -> Move!Entity]]
    BY <1>0, <2>1, ArchivedTyped
  <2>3. \/ entity' = [entity EXCEPT ![Move!Current]["moved"].state = "ARCHIVED"]
        \/ UNCHANGED entity
    BY <1>8 DEF Move!Archive
  <2>4. Typed'
    BY <1>8, <1>0, <2>2, <2>3 DEF Move!Archive, Move!saved, Move!portalRows, Move!run
  <2>5. Running'
    BY <1>8, <1>0 DEF Move!Archive, Move!End, Move!Order, Move!Steps, Move!Results
  <2>6. UNCHANGED mishaps \/ Move!Mishap
    BY <1>8 DEF Move!Archive
  <2>7. QED
    BY <1>a, <2>4, <2>5, <2>6
<1>9. CASE Move!Name
  <2>1. Typed'
    BY <1>9, <1>0, CurrentTyped
       DEF Move!Name, Move!At, Move!Order, Move!item, Move!saved, Move!portalRows,
           Move!run, Move!Kinds, Move!Sides, Move!Entity, Move!NoEntity
  <2>2. Running'
    BY <1>9, <1>0 DEF Move!Name, Move!Order, Move!Steps, Move!Results
  <2>3. UNCHANGED mishaps \/ Move!Mishap
    BY <1>9 DEF Move!Name
  <2>4. QED
    BY <1>a, <2>1, <2>2, <2>3
<1>10. CASE Move!UpdateClip
  <2>1. Typed'
    BY <1>10, <1>0, CurrentTyped
       DEF Move!UpdateClip, Move!At, Move!Order, Move!Behind, Move!item, Move!saved,
           Move!portalRows, Move!run, Move!Kinds, Move!Sides, Move!Entity, Move!NoEntity
  <2>2. Running'
    BY <1>10, <1>0 DEF Move!UpdateClip, Move!Order, Move!End, Move!Steps, Move!Results
  <2>3. UNCHANGED mishaps \/ Move!Mishap
    BY <1>10 DEF Move!UpdateClip
  <2>4. QED
    BY <1>a, <2>1, <2>2, <2>3
<1>11. CASE Move!SavePlan
  <2>1. Typed'
    BY <1>11, <1>0, CurrentTyped
       DEF Move!SavePlan, Move!At, Move!Order, Move!Behind, Move!item, Move!saved,
           Move!portalRows, Move!run, Move!Kinds, Move!Sides, Move!Entity, Move!NoEntity
  <2>2. Running'
    BY <1>11, <1>0 DEF Move!SavePlan, Move!Order, Move!Steps, Move!Results
  <2>3. UNCHANGED mishaps \/ Move!Mishap
    BY <1>11 DEF Move!SavePlan
  <2>4. QED
    BY <1>a, <2>1, <2>2, <2>3
<1>12. CASE Move!Moved
  <2>1. Typed'
    BY <1>12, <1>0
       DEF Move!Moved, Move!item, Move!saved, Move!portalRows, Move!run, Move!Kinds,
           Move!Sides, Move!Entity, Move!NoEntity
  <2>2. Running'
    BY <1>12, <1>0 DEF Move!Moved, Move!Steps, Move!Results
  <2>3. UNCHANGED mishaps \/ Move!Mishap
    BY <1>12 DEF Move!Moved
  <2>4. QED
    BY <1>a, <2>1, <2>2, <2>3
<1>13. CASE Move!Recheck
  <2>1. ASSUME NEW o \in again
        PROVE  [entity EXCEPT ![o][plan[o].kind].state = "ARCHIVED"]
                 \in [Originals -> [Move!Kinds -> Move!Entity]]
    <3>1. o \in Originals /\ plan[o].kind \in Move!Kinds
      BY <1>0
    <3>2. QED
      BY <1>0, <3>1, ArchivedTyped
  <2>2. entity' \in [Originals -> [Move!Kinds -> Move!Entity]] /\ again' \subseteq Originals
    <3>1. CASE UNCHANGED <<entity, again>>
      BY <1>0, <3>1
    <3>2. CASE ~UNCHANGED <<entity, again>>
      <4>1. PICK o \in again :
              /\ entity' = [entity EXCEPT ![o][plan[o].kind].state = "ARCHIVED"]
              /\ again' = again \ {o}
        BY <1>13, <3>2 DEF Move!Recheck
      <4>2. QED
        BY <1>0, <2>1, <4>1
    <3>3. QED
      BY <3>1, <3>2
  <2>3. Typed'
    BY <1>13, <1>0, <2>2 DEF Move!Recheck, Move!saved, Move!portalRows
  <2>5. Running'
    BY <1>13, <1>0 DEF Move!Recheck, Move!End, Move!Steps, Move!Results
  <2>6. UNCHANGED mishaps \/ Move!Mishap
    BY <1>13 DEF Move!Recheck
  <2>7. QED
    BY <1>a, <2>3, <2>5, <2>6
<1>14. CASE Move!Verify
  <2>1. Typed'
    BY <1>14, <1>0
       DEF Move!Verify, Move!Verifies, Move!Planned, Move!item, Move!saved,
           Move!portalRows, Move!run, Move!Kinds, Move!Sides, Move!Entity, Move!NoEntity
  <2>2. Running'
    BY <1>14, <1>0 DEF Move!Verify, Move!End, Move!Steps, Move!Results
  <2>3. UNCHANGED mishaps \/ Move!Mishap
    BY <1>14 DEF Move!Verify
  <2>4. QED
    BY <1>a, <2>1, <2>2, <2>3
<1>15. CASE Move!Die
  <2>1. Typed'
    BY <1>15, <1>0
       DEF Move!Die, Move!item, Move!saved, Move!portalRows, Move!run, Move!Kinds,
           Move!Sides, Move!Entity, Move!NoEntity
  <2>2. Running'
    BY <1>15, <1>0 DEF Move!Die, Move!End, Move!Steps, Move!Results
  <2>3. UNCHANGED mishaps \/ Move!Mishap
    BY <1>15 DEF Move!Die
  <2>4. QED
    BY <1>a, <2>1, <2>2, <2>3
<1>16. CASE Move!Meddle
  <2>1. Typed'
    BY <1>16, <1>0
       DEF Move!Meddle, Move!item, Move!saved, Move!portalRows, Move!run, Move!Kinds,
           Move!Sides, Move!Entity, Move!NoEntity
  <2>2. Running'
    BY <1>16, <1>0 DEF Move!Meddle, Move!Steps, Move!Results
  <2>3. UNCHANGED mishaps \/ Move!Mishap
    BY <1>16 DEF Move!Meddle
  <2>4. QED
    BY <1>a, <2>1, <2>2, <2>3
<1>17. ASSUME NEW o \in Originals, Move!Squat(o)
      PROVE  Move!TypeOK'
  <2>1. /\ \A s \in Move!Sides : [at |-> s, state |-> "OPEN"] \in Move!Entity
        /\ Move!NoEntity \in Move!Entity
        /\ "stranger" \in Move!Kinds
    BY DEF Move!Entity, Move!NoEntity, Move!Sides, Move!Kinds
  <2>2. ASSUME NEW e \in Move!Entity
        PROVE  [entity EXCEPT ![o]["stranger"] = e] \in [Originals -> [Move!Kinds -> Move!Entity]]
    BY <1>17, <1>0, <2>1
  <2>3. PICK e \in Move!Entity : entity' = [entity EXCEPT ![o]["stranger"] = e]
    BY <1>17, <2>1 DEF Move!Squat
  <2>4. Typed'
    BY <1>17, <1>0, <2>2, <2>3 DEF Move!Squat, Move!saved, Move!portalRows, Move!run
  <2>5. Running'
    BY <1>17, <1>0 DEF Move!Squat, Move!Steps, Move!Results
  <2>6. UNCHANGED mishaps \/ Move!Mishap
    BY <1>17 DEF Move!Squat
  <2>7. QED
    BY <1>a, <2>4, <2>5, <2>6
<1>18. ASSUME NEW o \in Originals, Move!Lose(o)
      PROVE  Move!TypeOK'
  <2>1. Typed'
    BY <1>18, <1>0
       DEF Move!Lose, Move!item, Move!saved, Move!portalRows, Move!run, Move!Kinds,
           Move!Sides, Move!Entity, Move!NoEntity
  <2>2. Running'
    BY <1>18, <1>0 DEF Move!Lose, Move!Steps, Move!Results
  <2>3. UNCHANGED mishaps \/ Move!Mishap
    BY <1>18 DEF Move!Lose
  <2>4. QED
    BY <1>a, <2>1, <2>2, <2>3
<1>19. CASE UNCHANGED Move!vars
  BY <1>19, <1>0
     DEF Move!TypeOK, Move!vars, Move!item, Move!saved, Move!portalRows, Move!run
<1> QED
  BY <1>1, <1>2, <1>3, <1>4, <1>5, <1>6, <1>7, <1>8, <1>9, <1>10, <1>11, <1>12, <1>13,
     <1>14, <1>15, <1>16, <1>17, <1>18, <1>19
     DEF Move!Next

\* What changing one copy of one original does to the others: nothing.
LEMMA CopyChanged ==
  ASSUME NEW e \in [Originals -> [Move!Kinds -> Move!Entity]],
         NEW o \in Originals, NEW k \in Move!Kinds, NEW x \in Move!Entity,
         NEW p \in Originals, NEW j \in Move!Kinds
  PROVE  [e EXCEPT ![o][k] = x][p][j] = IF p = o /\ j = k THEN x ELSE e[p][j]
OBVIOUS

\* The places once the copy of kind k of the original o is archived.
Archiving(o, k) == [entity EXCEPT ![o][k].state = "ARCHIVED"]

\* What the step that archives one copy leaves in each place.
LEMMA ArchivedCopies ==
  ASSUME entity \in [Originals -> [Move!Kinds -> Move!Entity]],
         NEW o \in Originals, NEW k \in Move!Kinds,
         entity' = Archiving(o, k)
  PROVE  \A p \in Originals, j \in Move!Kinds :
           entity'[p][j] = IF p = o /\ j = k
                           THEN [at |-> entity[p][j].at, state |-> "ARCHIVED"]
                           ELSE entity[p][j]
<1>0. entity' = [entity EXCEPT ![o][k].state = "ARCHIVED"]
  BY DEF Archiving
<1>1. ASSUME NEW p \in Originals, NEW j \in Move!Kinds
      PROVE  entity'[p][j] = IF p = o /\ j = k
                             THEN [at |-> entity[p][j].at, state |-> "ARCHIVED"]
                             ELSE entity[p][j]
  <2>1. entity[o][k] \in Move!Entity
    OBVIOUS
  <2>2. [entity[o][k] EXCEPT !.state = "ARCHIVED"]
          = [at |-> entity[o][k].at, state |-> "ARCHIVED"]
    BY <2>1 DEF Move!Entity
  <2>3. entity'[p] = IF p = o
                     THEN [entity[o] EXCEPT ![k] = [entity[o][k] EXCEPT !.state = "ARCHIVED"]]
                     ELSE entity[p]
    BY <1>0
  <2> QED
    BY <2>2, <2>3
<1> QED
  BY <1>1

\* Archiving one copy keeps the copies in order and opens none.
LEMMA ArchivingKeepsCopies ==
  ASSUME entity \in [Originals -> [Move!Kinds -> Move!Entity]],
         \A p \in Originals : OneCopy(p),
         UNCHANGED <<plan, shape>>,
         NEW o \in Originals, NEW k \in Move!Kinds,
         \A p \in Originals, j \in Move!Kinds :
           entity'[p][j] = IF p = o /\ j = k
                           THEN [at |-> entity[p][j].at, state |-> "ARCHIVED"]
                           ELSE entity[p][j]
  PROVE  /\ \A p \in Originals : OneCopy(p)'
         /\ Move!Pending' = Move!Pending
         /\ Move!Open' \subseteq Move!Open
         /\ k = "moved" => o \notin Move!Open'
<1>1. ASSUME NEW p \in Originals, NEW j \in Move!Kinds
      PROVE  /\ entity'[p][j].at = entity[p][j].at
             /\ p # o \/ j # k => entity'[p][j] = entity[p][j]
             /\ p = o /\ j = k => entity'[p][j] = [at |-> entity[p][j].at, state |-> "ARCHIVED"]
  OBVIOUS
<1>2. {"planned", "moved", "stranger"} = Move!Kinds
  BY DEF Move!Kinds
<1>3. ASSUME NEW p \in Originals
      PROVE  OneCopy(p)'
  <2>1. entity[p]["moved"] = Archived => entity'[p]["moved"] = Archived
    <3>1. CASE p = o /\ k = "moved"
      BY <3>1, <1>1, <1>2 DEF Archived
    <3>2. CASE ~(p = o /\ k = "moved")
      BY <3>2, <1>1, <1>2
    <3>3. QED
      BY <3>1, <3>2
  <2>2. /\ entity'[p]["planned"].at = entity[p]["planned"].at
        /\ entity'[p]["moved"].at = entity[p]["moved"].at
        /\ entity'[p]["stranger"].at = entity[p]["stranger"].at
    BY <1>1, <1>2
  <2>3. OneCopy(p)
    OBVIOUS
  <2>4. QED
    BY <2>1, <2>2, <2>3 DEF OneCopy
<1>4. Move!Pending' = Move!Pending
  BY DEF Move!Pending
<1>5. ASSUME NEW p \in Move!Open'
      PROVE  p \in Move!Open /\ ~(p = o /\ k = "moved")
  <2>1. /\ p \in Originals /\ "moved" \in Move!Kinds
        /\ entity'[p]["moved"] = [at |-> "new", state |-> "OPEN"]
    BY <1>2 DEF Move!Open
  <2>2. ~(p = o /\ k = "moved")
    <3>1. entity'[p]["moved"].state = "OPEN"
      BY <2>1
    <3>2. p = o /\ k = "moved" => entity'[p]["moved"].state = "ARCHIVED"
      <4>1. p = o /\ k = "moved" =>
              entity'[p]["moved"] = [at |-> entity[p]["moved"].at, state |-> "ARCHIVED"]
        BY <1>1, <2>1
      <4>2. QED
        BY <4>1
    <3>3. QED
      BY <3>1, <3>2
  <2>3. entity'[p]["moved"] = entity[p]["moved"]
    BY <1>1, <2>1, <2>2
  <2>4. QED
    BY <2>1, <2>2, <2>3 DEF Move!Open
<1>6. QED
  BY <1>3, <1>4, <1>5

\* A stranger that comes to a free path, moves to one, or goes, touches none of
\* an original's own copies.
LEMMA StrangersKeepCopies ==
  ASSUME entity \in [Originals -> [Move!Kinds -> Move!Entity]],
         \A p \in Originals : OneCopy(p),
         UNCHANGED <<plan, shape>>,
         NEW o \in Originals, NEW e \in Move!Entity,
         entity' = [entity EXCEPT ![o]["stranger"] = e],
         e.at = "new" => entity[o]["moved"].at = "gone",
         e.at = "old" => entity[o]["planned"].at = "gone"
  PROVE  /\ \A p \in Originals : OneCopy(p)'
         /\ \A p \in Originals : /\ entity'[p]["planned"] = entity[p]["planned"]
                                 /\ entity'[p]["moved"] = entity[p]["moved"]
         /\ Move!Open' = Move!Open /\ Move!Pending' = Move!Pending
<1>1. {"planned", "moved", "stranger"} = Move!Kinds
  BY DEF Move!Kinds
<1>2. e.at \in {"old", "new", "gone"}
  BY DEF Move!Entity, Move!Sides
<1>3. \A p \in Originals, j \in Move!Kinds :
        entity'[p][j] = IF p = o /\ j = "stranger" THEN e ELSE entity[p][j]
  BY <1>1, CopyChanged
<1>4. \A p \in Originals : /\ entity'[p]["planned"] = entity[p]["planned"]
                           /\ entity'[p]["moved"] = entity[p]["moved"]
                           /\ p # o => entity'[p]["stranger"] = entity[p]["stranger"]
                           /\ p = o => entity'[p]["stranger"] = e
  BY <1>1, <1>3
<1>5. ASSUME NEW p \in Originals
      PROVE  OneCopy(p)'
  <2>1. OneCopy(p)
    OBVIOUS
  <2>2. QED
    BY <1>2, <1>4, <2>1 DEF OneCopy
<1>6. Move!Open' = Move!Open /\ Move!Pending' = Move!Pending
  BY <1>4 DEF Move!Open, Move!Pending
<1> QED
  BY <1>4, <1>5, <1>6

\* Every step of the relocation keeps what the plan, the shape, the entities
\* and the rows have to do with one another.
LEMMA MoveKeeps ==
  ASSUME MoveKept, [Move!Next]_(Move!vars)
  PROVE  MoveKept'
<1>0. /\ plan \in [Originals -> [kind : Move!Kinds, side : Move!Sides, from : BOOLEAN]]
      /\ shape \in [Originals -> Move!Kinds]
      /\ entity \in [Originals -> [Move!Kinds -> Move!Entity]]
      /\ todo \subseteq Originals /\ again \subseteq Originals
      /\ resumed \subseteq Originals \X Move!Kinds
      /\ \A o \in Originals : OneCopy(o)
      /\ StepsLeave /\ Verdicts
  BY DEF MoveKept, Move!TypeOK
<1>t. Move!TypeOK'
  BY MoveTyped DEF MoveKept
<1>k. /\ {"planned", "moved", "stranger"} = Move!Kinds
      /\ \A e \in Move!Entity : /\ e = [at |-> e.at, state |-> e.state]
                                /\ e.state \in {"ARCHIVED", "OPEN"}
      /\ 1 \in Originals
  BY MoveConstants DEF Move!Kinds, Move!Entity
<1>p. Move!Pending = {o \in Originals : plan[o] = Planned}
  <2>1. Planned.side = "old" /\ Relocated.side = "new"
    BY DEF Planned, Relocated
  <2>2. \A o \in Originals : plan[o] \in {Planned, Relocated}
    BY <1>0 DEF OneCopy
  <2>3. QED
    BY <2>1, <2>2 DEF Move!Pending
<1>c. ASSUME UNCHANGED <<plan, entity, shape>>
      PROVE  /\ \A o \in Originals : OneCopy(o)'
             /\ Move!Pending' = Move!Pending /\ Move!Open' = Move!Open
  BY <1>0, <1>c DEF OneCopy, Move!Pending, Move!Open
<1>d. UNCHANGED todo => Move!Current' = Move!Current
  BY DEF Move!Current
<1>1. CASE Move!RewritePortal
  <2>0. UNCHANGED <<plan, entity, shape>>
    BY <1>1 DEF Move!RewritePortal, Move!item, Move!saved
  <2>1. StepsLeave'
    BY <1>1, <2>0, <1>0, <1>c, <1>d
       DEF StepsLeave, Move!RewritePortal, Move!item, Move!saved, Move!portalRows, Move!run
  <2>2. Verdicts'
    BY <1>1, <2>0, <1>0, <1>c
       DEF Verdicts, Remembered, Move!RewritePortal, Move!item, Move!saved,
           Move!portalRows, Move!run
  <2>3. QED
    BY <1>t, <1>c, <2>0, <2>1, <2>2 DEF MoveKept
<1>2. CASE Move!Select
  <2>0. UNCHANGED <<plan, entity, shape>>
    BY <1>2 DEF Move!Select, Move!item, Move!saved
  <2>1. StepsLeave'
    BY <1>2, <2>0, <1>0, <1>c, <1>d
       DEF StepsLeave, Move!Select, Move!Taken, Move!End, Move!item, Move!saved,
           Move!portalRows, Move!run
  <2>2. Verdicts'
    BY <1>2, <2>0, <1>0, <1>c
       DEF Verdicts, Remembered, Move!Select, Move!Taken, Move!End, Move!item, Move!saved,
           Move!portalRows, Move!run
  <2>3. QED
    BY <1>t, <1>c, <2>0, <2>1, <2>2 DEF MoveKept
<1>3. CASE Move!Refuse
  <2>0. UNCHANGED <<plan, entity, shape>>
    BY <1>3 DEF Move!Refuse, Move!item, Move!saved
  <2>1. StepsLeave'
    BY <1>3, <2>0, <1>0, <1>c, <1>d
       DEF StepsLeave, Move!Refuse, Move!End, Move!item, Move!saved, Move!portalRows,
           Move!run
  <2>2. Verdicts'
    BY <1>3, <2>0, <1>0, <1>c
       DEF Verdicts, Remembered, Move!Refuse, Move!End, Move!item, Move!saved,
           Move!portalRows, Move!run
  <2>3. QED
    BY <1>t, <1>c, <2>0, <2>1, <2>2 DEF MoveKept
<1>4. CASE Move!Preflight
  <2>0. /\ UNCHANGED <<plan, entity, shape, portal, field, clip, todo>> /\ pc = "preflight"
        /\ todo = Move!Pending
        /\ resumed' = {<<o, Move!Projected[o]>> : o \in Move!Killed}
        /\ \A o \in todo : ~Move!Refused(o)
        /\ \/ pc' \in {"move", "close"} /\ result' = result
           \/ pc' = "over" /\ result' = "preexisting" /\ ~Move!Touched
    BY <1>4, <1>0
       DEF Move!Preflight, Move!item, Move!saved, Move!portalRows, Move!End, StepsLeave
  <2>1. ASSUME NEW o \in Move!Open
        PROVE  <<o, "moved">> \in resumed'
    <3>1. o \in Originals /\ plan[o] = Planned /\ entity[o]["moved"].at = "new"
      BY <1>0 DEF Move!Open, OneCopy, Archived
    <3>2. Move!Found(o, "old") = {} /\ Move!Found(o, "new") = {"moved"}
      <4>1. /\ entity[o]["planned"].at = "gone" /\ entity[o]["stranger"].at # "new"
        BY <3>1, <1>0 DEF OneCopy
      <4>2. \A k \in Move!Kinds : k = "planned" \/ k = "moved" \/ k = "stranger"
        BY <1>k
      <4>3. Move!Found(o, "new") = {"moved"}
        BY <3>1, <4>1, <4>2, <1>k DEF Move!Found
      <4>4. ~Move!Refused(o)
        BY <3>1, <2>0, <1>p
      <4>5. QED
        BY <4>3, <4>4 DEF Move!Refused
    <3>3. o \in Move!Killed
      BY <3>1, <3>2, <2>0, <1>p DEF Move!Killed
    <3>4. Move!Projected[o] = "moved"
      BY <3>1, <3>2, <3>3 DEF Move!Projected
    <3>5. QED
      BY <3>3, <3>4, <2>0
  <2>2. ASSUME ~Move!Touched, NEW o \in Originals
        PROVE  shape[o] = "planned"
    <3>1. plan[o] = Planned
      BY <2>2, <1>0 DEF Move!Touched, OneCopy, Relocated
    <3>2. "planned" \in Move!Found(o, "old")
      <4>1. Move!Found(o, "old") # {} /\ ~Move!Refused(o) /\ plan[o].kind = "planned"
        BY <3>1, <2>0, <2>2, <1>p DEF Move!Touched, Move!Killed, Planned
      <4>2. QED
        BY <4>1 DEF Move!Refused
    <3>3. entity[o]["planned"].at = "old"
      BY <3>2 DEF Move!Found
    <3>4. QED
      BY <3>3, <1>0 DEF OneCopy
  <2>3. StepsLeave'
    BY <2>0, <1>0, <1>c DEF StepsLeave
  <2>4. Verdicts'
    BY <2>0, <2>1, <2>2, <1>0, <1>c DEF Verdicts, Remembered
  <2>5. QED
    BY <1>t, <1>c, <2>0, <2>3, <2>4 DEF MoveKept
<1>5. CASE Move!Close
  <2>0. /\ UNCHANGED <<plan, shape, portal, field, clip, todo>> /\ pc = "close"
    BY <1>5 DEF Move!Close, Move!saved, Move!portalRows
  <2>1. CASE resumed = {} /\ UNCHANGED entity /\ pc' = "over" /\ result' = "verify fails"
    <3>1. Move!Open = {}
      BY <2>0, <2>1, <1>0 DEF Verdicts, Remembered, Move!Open
    <3>2. StepsLeave' /\ Verdicts'
      BY <3>1, <2>0, <2>1, <1>0, <1>c DEF StepsLeave, Verdicts
    <3>3. QED
      BY <1>t, <1>c, <2>0, <2>1, <3>2 DEF MoveKept
  <2>2. ASSUME NEW r \in resumed, UNCHANGED <<pc, result>>, resumed' = resumed \ {r},
               entity' = [entity EXCEPT ![r[1]][r[2]].state = "ARCHIVED"]
        PROVE  MoveKept'
    <3>1. PICK q \in Originals, i \in Move!Kinds : r = <<q, i>>
      BY <2>2, <1>0
    <3>2. entity' = [entity EXCEPT ![q][i].state = "ARCHIVED"]
      BY <2>2, <3>1
    <3>e. entity \in [Originals -> [Move!Kinds -> Move!Entity]]
      BY <1>0
    <3>f. entity' = Archiving(q, i)
      BY <3>2 DEF Archiving
    <3>a. \A p \in Originals, j \in Move!Kinds :
          entity'[p][j] = IF p = q /\ j = i
                          THEN [at |-> entity[p][j].at, state |-> "ARCHIVED"]
                          ELSE entity[p][j]
      BY <3>e, <3>f, ArchivedCopies
    <3>3. /\ \A p \in Originals : OneCopy(p)'
          /\ Move!Pending' = Move!Pending
          /\ Move!Open' \subseteq Move!Open
          /\ i = "moved" => q \notin Move!Open'
      BY <3>a, <2>0, <1>0, ArchivingKeepsCopies
    <3>4. ASSUME NEW p \in Move!Open'
          PROVE  p \in Move!Open /\ <<p, "moved">> # r
      BY <3>1, <3>3
    <3>5. StepsLeave'
      BY <3>3, <2>0, <2>2, <1>0 DEF StepsLeave
    <3>6. Verdicts'
      <4>1. \A p \in Originals : Remembered(p)'
        BY <3>4, <2>0, <2>2, <1>0 DEF Verdicts, Remembered, Move!Open
      <4>2. QED
        BY <4>1, <3>3, <2>0, <2>2, <1>0 DEF Verdicts
    <3>7. QED
      BY <1>t, <3>3, <3>5, <3>6 DEF MoveKept
  <2>3. QED
    BY <1>5, <2>1, <2>2 DEF Move!Close, Move!End
<1>6. CASE Move!PathTaken
  <2>0. UNCHANGED <<plan, entity, shape>>
    BY <1>6 DEF Move!PathTaken, Move!item, Move!saved
  <2>1. StepsLeave'
    BY <1>6, <2>0, <1>0, <1>c, <1>d
       DEF StepsLeave, Move!PathTaken, Move!At, Move!End, Move!item, Move!saved,
           Move!portalRows, Move!run
  <2>2. Verdicts'
    BY <1>6, <2>0, <1>0, <1>c
       DEF Verdicts, Remembered, Move!PathTaken, Move!At, Move!End, Move!item, Move!saved,
           Move!portalRows, Move!run
  <2>3. QED
    BY <1>t, <1>c, <2>0, <2>1, <2>2 DEF MoveKept
<1>7. CASE Move!Move
  <2>0. /\ UNCHANGED <<plan, portal, field, clip, todo, result>>
        /\ pc = "move" /\ pc' = "check" /\ todo = Move!Pending /\ todo # {}
        /\ Move!Current \in todo /\ Move!Current \in Originals
    BY <1>7, <1>0, CurrentTyped
       DEF Move!Move, Move!At, Move!saved, Move!portalRows, Move!run, StepsLeave
  <2>1. CASE UNCHANGED <<entity, shape>>
    <3>1. StepsLeave' /\ Verdicts'
      BY <2>0, <2>1, <1>0, <1>c DEF StepsLeave, Verdicts
    <3>2. QED
      BY <1>t, <1>c, <2>0, <2>1, <3>1 DEF MoveKept
  <2>2. CASE /\ "planned" \in Move!Found(Move!Current, "old")
             /\ Move!Found(Move!Current, "new") = {}
             /\ entity' = [entity EXCEPT ![Move!Current]["planned"].at = "gone",
                                         ![Move!Current]["moved"] = [at |-> "new", state |-> "OPEN"]]
             /\ shape' = [shape EXCEPT ![Move!Current] = "moved"]
    <3> DEFINE c == Move!Current
               taken == [entity[c] EXCEPT !["planned"].at = "gone",
                                          !["moved"] = [at |-> "new", state |-> "OPEN"]]
    <3>1. /\ "planned" \in Move!Found(c, "old") /\ Move!Found(c, "new") = {}
          /\ entity' = [entity EXCEPT ![c]["planned"].at = "gone",
                                      ![c]["moved"] = [at |-> "new", state |-> "OPEN"]]
          /\ shape' = [shape EXCEPT ![c] = "moved"]
      BY <2>2
    <3>2. /\ entity' = [entity EXCEPT ![c] = taken]
          /\ taken["planned"].at = "gone" /\ taken["moved"] = [at |-> "new", state |-> "OPEN"]
          /\ taken["stranger"] = entity[c]["stranger"]
      <4>1. entity[c]["planned"] \in Move!Entity
        BY <1>0, <1>k, <2>0
      <4>2. [entity[c]["planned"] EXCEPT !.at = "gone"].at = "gone"
        BY <4>1 DEF Move!Entity
      <4>3. entity' = [entity EXCEPT ![c] = taken]
        BY <3>1, <1>0, <2>0
      <4>4. QED
        BY <4>2, <4>3, <1>0, <1>k, <2>0
    <3>3. plan[c] = Planned /\ entity[c]["stranger"].at = "gone"
      BY <3>1, <2>0, <1>0, <1>k, <1>p DEF Move!Found, OneCopy
    <3>4. ASSUME NEW p \in Originals
          PROVE  OneCopy(p)'
      <4> HIDE DEF taken
      <4>1. CASE p = c
        <5>1. Planned # Relocated
          BY DEF Planned, Relocated
        <5>2. /\ plan'[p] = Planned /\ shape'[p] = "moved"
              /\ entity'[p]["planned"].at = "gone" /\ entity'[p]["moved"].at = "new"
              /\ entity'[p]["stranger"].at = "gone"
          <6>1. entity'[p] = taken /\ plan'[p] = plan[c] /\ shape'[p] = "moved"
            BY <4>1, <3>1, <3>2, <2>0, <1>0
          <6>2. [at |-> "new", state |-> "OPEN"].at = "new"
            OBVIOUS
          <6>3. QED
            BY <6>1, <6>2, <3>2, <3>3
        <5>3. QED
          BY <5>1, <5>2 DEF OneCopy
      <4>2. CASE p # c
        BY <4>2, <3>1, <3>2, <2>0, <1>0 DEF OneCopy
      <4>3. QED
        BY <4>1, <4>2
    <3>5. Move!Pending' = Move!Pending
      BY <2>0 DEF Move!Pending
    <3>6. StepsLeave'
      BY <3>5, <2>0, <1>0 DEF StepsLeave
    <3>7. Verdicts'
      BY <2>0, <1>0 DEF Verdicts
    <3>8. QED
      BY <1>t, <3>4, <3>6, <3>7 DEF MoveKept
  <2>3. CASE /\ Move!Found(Move!Current, "new") = {} /\ UNCHANGED shape
             /\ "stranger" \in Move!Found(Move!Current, "old")
             /\ entity' = [entity EXCEPT ![Move!Current]["stranger"] =
                                           [at |-> "new", state |-> "OPEN"]]
    <3> DEFINE e == [at |-> "new", state |-> "OPEN"]
    <3>1. e \in Move!Entity /\ e.at = "new"
      BY DEF Move!Entity, Move!Sides
    <3>2. entity[Move!Current]["moved"].at = "gone"
      BY <2>3, <2>0, <1>0, <1>k DEF Move!Found, OneCopy
    <3>3. entity' = [entity EXCEPT ![Move!Current]["stranger"] = e]
      BY <2>3
    <3> HIDE DEF e
    <3>4. (\A p \in Originals : OneCopy(p)') /\ Move!Pending' = Move!Pending
      BY <2>0, <2>3, <3>1, <3>2, <3>3, <1>0, StrangersKeepCopies
    <3>5. StepsLeave' /\ Verdicts'
      BY <3>4, <2>0, <1>0 DEF StepsLeave, Verdicts
    <3>6. QED
      BY <1>t, <3>4, <3>5 DEF MoveKept
  <2>4. \/ UNCHANGED <<entity, shape>>
        \/ Move!Found(Move!Current, "old") # {} /\ Move!Found(Move!Current, "new") = {}
    BY <1>7 DEF Move!Move
  <2>5. QED
    BY <1>7, <2>1, <2>2, <2>3, <2>4 DEF Move!Move
<1>8. CASE Move!Archive
  <2>0. /\ UNCHANGED <<plan, shape, portal, field, clip, todo>>
        /\ pc = "check" /\ todo = Move!Pending /\ todo # {} /\ result = "none"
        /\ Move!Current \in Originals /\ "moved" \in Move!Kinds
    BY <1>8, <1>0, <1>k, CurrentTyped
       DEF Move!Archive, Move!At, Move!saved, Move!portalRows, Move!run, StepsLeave,
           Verdicts
  <2>1. CASE pc' = "over" /\ result' = "unreferenced" /\ UNCHANGED entity
    <3>1. StepsLeave' /\ Verdicts'
      BY <2>0, <2>1, <1>0, <1>c DEF StepsLeave, Verdicts
    <3>2. QED
      BY <1>t, <1>c, <2>0, <2>1, <3>1 DEF MoveKept
  <2>2. CASE /\ "moved" \in Move!Found(Move!Current, "new") /\ UNCHANGED result
             /\ entity' = [entity EXCEPT ![Move!Current]["moved"].state = "ARCHIVED"]
             /\ pc' = Move!Order("check")
    <3>e. entity \in [Originals -> [Move!Kinds -> Move!Entity]]
      BY <1>0
    <3>f. entity' = Archiving(Move!Current, "moved")
      BY <2>2 DEF Archiving
    <3>1. \A p \in Originals, j \in Move!Kinds :
          entity'[p][j] = IF p = Move!Current /\ j = "moved"
                          THEN [at |-> entity[p][j].at, state |-> "ARCHIVED"]
                          ELSE entity[p][j]
      BY <2>0, <3>e, <3>f, ArchivedCopies
    <3>2. \A p \in Originals : OneCopy(p)'
      BY <2>0, <3>1, <1>0, ArchivingKeepsCopies
    <3>3. entity'[Move!Current]["moved"] = Archived
      BY <3>1, <2>0, <2>2 DEF Archived, Move!Found
    <3>4. Move!Pending' = Move!Pending
      BY <2>0 DEF Move!Pending
    <3>5. StepsLeave'
      BY <3>3, <3>4, <2>0, <2>2, <1>0, <1>d DEF StepsLeave, Move!Order, Move!First
    <3>6. Verdicts'
      BY <2>0, <2>2 DEF Verdicts, Move!Order
    <3>7. QED
      BY <1>t, <3>2, <3>5, <3>6 DEF MoveKept
  <2>3. QED
    BY <1>8, <2>1, <2>2 DEF Move!Archive, Move!End
<1>9. CASE Move!Name
  <2>0. UNCHANGED <<plan, entity, shape>>
    BY <1>9 DEF Move!Name, Move!item, Move!saved
  <2>1. StepsLeave'
    BY <1>9, <2>0, <1>0, <1>c, <1>d, CurrentTyped
       DEF StepsLeave, Move!Name, Move!At, Move!Order, Move!First, Move!item, Move!saved,
           Move!portalRows, Move!run
  <2>2. Verdicts'
    BY <1>9, <2>0, <1>0, <1>c
       DEF Verdicts, Remembered, Move!Name, Move!At, Move!Order, Move!First, Move!item,
           Move!saved, Move!portalRows, Move!run
  <2>3. QED
    BY <1>t, <1>c, <2>0, <2>1, <2>2 DEF MoveKept
<1>10. CASE Move!UpdateClip
  <2>0. UNCHANGED <<plan, entity, shape>>
    BY <1>10 DEF Move!UpdateClip, Move!item, Move!saved
  <2>1. StepsLeave'
    BY <1>10, <2>0, <1>0, <1>c, <1>d, CurrentTyped
       DEF StepsLeave, Move!UpdateClip, Move!At, Move!Order, Move!Behind, Move!First,
           Move!End, Move!item, Move!saved, Move!portalRows, Move!run
  <2>2. Verdicts'
    BY <1>10, <2>0, <1>0, <1>c
       DEF Verdicts, Remembered, Move!UpdateClip, Move!At, Move!Order, Move!Behind,
           Move!First, Move!End, Move!item, Move!saved, Move!portalRows, Move!run
  <2>3. QED
    BY <1>t, <1>c, <2>0, <2>1, <2>2 DEF MoveKept
<1>11. CASE Move!SavePlan
  <2>0. /\ UNCHANGED <<shape, entity, portal, field, clip, result>>
        /\ pc = "save" /\ pc' = "move" /\ todo = Move!Pending /\ todo # {}
        /\ Move!Current \in Originals /\ Move!Current \in todo
        /\ entity[Move!Current]["moved"] = Archived
        /\ plan' = [plan EXCEPT ![Move!Current] = Relocated]
        /\ todo' = todo \ {Move!Current}
    BY <1>11, <1>0, CurrentTyped
    DEF Move!SavePlan, Move!At, Move!item, Move!portalRows, StepsLeave, Relocated,
        Move!Order, Move!Behind
  <2>1. \A p \in Originals : plan'[p] = IF p = Move!Current THEN Relocated ELSE plan[p]
    BY <2>0, <1>0
  <2>2. \A p \in Originals : OneCopy(p)'
    BY <2>0, <2>1, <1>0 DEF OneCopy
  <2>3. Move!Pending' = todo'
    BY <2>0, <2>1 DEF Move!Pending, Relocated
  <2>4. StepsLeave'
    BY <2>0, <2>1, <2>3, <1>0, <1>k DEF StepsLeave
  <2>5. Verdicts'
    BY <2>0, <1>0 DEF Verdicts
  <2>6. QED
    BY <1>t, <2>2, <2>4, <2>5 DEF MoveKept
<1>12. CASE Move!Moved
  <2>0. UNCHANGED <<plan, entity, shape>>
    BY <1>12 DEF Move!Moved, Move!item, Move!saved
  <2>1. StepsLeave'
    BY <1>12, <2>0, <1>0, <1>c, <1>d
       DEF StepsLeave, Move!Moved, Move!item, Move!saved, Move!portalRows, Move!run
  <2>2. Verdicts'
    BY <1>12, <2>0, <1>0, <1>c
       DEF Verdicts, Remembered, Move!Moved, Move!item, Move!saved, Move!portalRows,
           Move!run
  <2>3. QED
    BY <1>t, <1>c, <2>0, <2>1, <2>2 DEF MoveKept
<1>13. CASE Move!Recheck
  <2>0. /\ UNCHANGED <<plan, shape, portal, field, clip, todo>>
        /\ pc = "recheck" /\ Move!Pending = {} /\ result = "none"
    BY <1>13, <1>0 DEF Move!Recheck, Move!saved, Move!portalRows, StepsLeave, Verdicts
  <2>1. CASE /\ UNCHANGED entity
             /\ \/ pc' = "verify" /\ result' = result
                \/ pc' = "over" /\ result' = "gone"
    <3>1. StepsLeave' /\ Verdicts'
      BY <2>0, <2>1, <1>0, <1>c DEF StepsLeave, Verdicts
    <3>2. QED
      BY <1>t, <1>c, <2>0, <2>1, <3>1 DEF MoveKept
  <2>2. ASSUME NEW o \in again, UNCHANGED <<pc, result>>,
               entity' = [entity EXCEPT ![o][plan[o].kind].state = "ARCHIVED"]
        PROVE  MoveKept'
    <3>0. o \in Originals /\ plan[o].kind \in Move!Kinds
      BY <2>2, <1>0
    <3>1. PICK k \in Move!Kinds : k = plan[o].kind
      BY <3>0
    <3>2. entity' = [entity EXCEPT ![o][k].state = "ARCHIVED"]
      BY <2>2, <3>1
    <3>e. entity \in [Originals -> [Move!Kinds -> Move!Entity]]
      BY <1>0
    <3>f. entity' = Archiving(o, k)
      BY <3>2 DEF Archiving
    <3>a. \A p \in Originals, j \in Move!Kinds :
          entity'[p][j] = IF p = o /\ j = k
                          THEN [at |-> entity[p][j].at, state |-> "ARCHIVED"]
                          ELSE entity[p][j]
      BY <3>0, <3>e, <3>f, ArchivedCopies
    <3>3. (\A p \in Originals : OneCopy(p)') /\ Move!Pending' = Move!Pending
      BY <3>0, <3>a, <2>0, <1>0, ArchivingKeepsCopies
    <3>4. StepsLeave' /\ Verdicts'
      BY <3>3, <2>0, <2>2, <1>0 DEF StepsLeave, Verdicts
    <3>5. QED
      BY <1>t, <3>3, <3>4 DEF MoveKept
  <2>3. QED
    BY <1>13, <2>1, <2>2 DEF Move!Recheck, Move!End
<1>14. CASE Move!Verify
  <2>0. /\ UNCHANGED <<plan, entity, shape, portal, field, clip, todo>>
        /\ pc = "verify" /\ pc' = "over" /\ result' \in {"relocated", "verify fails"}
        /\ Move!Pending = {}
    BY <1>14, <1>0
       DEF Move!Verify, Move!End, Move!item, Move!saved, Move!portalRows, Move!run,
           StepsLeave
  <2>1. Move!Open = {}
    <3>1. \A o \in Originals : entity[o]["moved"] = Archived
      BY <2>0, <1>0, <1>p DEF OneCopy
    <3>2. Archived # [at |-> "new", state |-> "OPEN"]
      BY DEF Archived
    <3>3. QED
      BY <3>1, <3>2 DEF Move!Open
  <2>2. StepsLeave' /\ Verdicts'
    BY <2>0, <2>1, <1>0, <1>c DEF StepsLeave, Verdicts
  <2>3. QED
    BY <1>t, <1>c, <2>0, <2>2 DEF MoveKept
<1>15. CASE Move!Die
  <2>0. UNCHANGED <<plan, entity, shape>>
    BY <1>15 DEF Move!Die, Move!item, Move!saved
  <2>1. StepsLeave'
    BY <1>15, <2>0, <1>0, <1>c, <1>d
       DEF StepsLeave, Move!Die, Move!End, Move!item, Move!saved, Move!portalRows, Move!run
  <2>2. Verdicts'
    BY <1>15, <2>0, <1>0, <1>c
       DEF Verdicts, Remembered, Move!Die, Move!End, Move!item, Move!saved,
           Move!portalRows, Move!run
  <2>3. QED
    BY <1>t, <1>c, <2>0, <2>1, <2>2 DEF MoveKept
<1>16. CASE Move!Meddle
  <2>0. UNCHANGED <<plan, entity, shape>>
    BY <1>16 DEF Move!Meddle, Move!item, Move!saved
  <2>1. StepsLeave'
    BY <1>16, <2>0, <1>0, <1>c, <1>d
       DEF StepsLeave, Move!Meddle, Move!item, Move!saved, Move!portalRows, Move!run
  <2>2. Verdicts'
    BY <1>16, <2>0, <1>0, <1>c
       DEF Verdicts, Remembered, Move!Meddle, Move!item, Move!saved, Move!portalRows,
           Move!run
  <2>3. QED
    BY <1>t, <1>c, <2>0, <2>1, <2>2 DEF MoveKept
<1>17. ASSUME NEW o \in Originals, Move!Squat(o)
      PROVE  MoveKept'
  <2>0. /\ UNCHANGED <<plan, shape, portal, field, clip, todo, pc, result, resumed>>
        /\ "stranger" \in Move!Kinds
    BY <1>17, <1>k DEF Move!Squat, Move!saved, Move!portalRows, Move!run
  <2>1. PICK e \in Move!Entity :
          /\ entity' = [entity EXCEPT ![o]["stranger"] = e]
          /\ e.at = "new" => entity[o]["moved"].at = "gone"
          /\ e.at = "old" => entity[o]["planned"].at = "gone"
    <3>1. Move!NoEntity \in Move!Entity /\ Move!NoEntity.at = "gone"
      BY DEF Move!Entity, Move!NoEntity
    <3>2. /\ Move!Found(o, "new") = {} => entity[o]["moved"].at = "gone"
          /\ Move!Found(o, "old") = {} => entity[o]["planned"].at = "gone"
      BY <1>0, <1>k DEF Move!Found, OneCopy
    <3>3. CASE entity' = [entity EXCEPT ![o]["stranger"] = Move!NoEntity]
      BY <3>1, <3>3
    <3>4. ASSUME NEW side \in Move!Sides, Move!Found(o, side) = {},
                 entity' = [entity EXCEPT ![o]["stranger"] = [at |-> side, state |-> "OPEN"]]
          PROVE  \E x \in Move!Entity :
                   /\ entity' = [entity EXCEPT ![o]["stranger"] = x]
                   /\ x.at = "new" => entity[o]["moved"].at = "gone"
                   /\ x.at = "old" => entity[o]["planned"].at = "gone"
      <4> DEFINE x == [at |-> side, state |-> "OPEN"]
      <4>1. x \in Move!Entity /\ x.at = side
        BY DEF Move!Entity
      <4>2. entity' = [entity EXCEPT ![o]["stranger"] = x]
        BY <3>4
      <4> HIDE DEF x
      <4>3. QED
        BY <3>2, <3>4, <4>1, <4>2
    <3>5. QED
      BY <1>17, <3>3, <3>4 DEF Move!Squat
  <2>2. /\ \A p \in Originals : OneCopy(p)'
        /\ \A p \in Originals : entity'[p]["moved"] = entity[p]["moved"]
        /\ Move!Open' = Move!Open /\ Move!Pending' = Move!Pending
    BY <2>0, <2>1, <1>0, StrangersKeepCopies
  <2>3. \A p \in Originals : OneCopy(p)'
    BY <2>2
  <2>4. Move!Open' = Move!Open /\ Move!Pending' = Move!Pending /\ Move!Current' = Move!Current
    BY <2>0, <2>2, <1>d
  <2>5. StepsLeave'
    <3>1. todo # {} => Move!Current \in Originals
      BY <1>0, CurrentTyped
    <3>2. QED
      BY <3>1, <2>0, <2>2, <2>4, <1>0, <1>k DEF StepsLeave
  <2>6. Verdicts'
    BY <2>0, <2>4, <1>0 DEF Verdicts, Remembered
  <2>7. QED
    BY <1>t, <2>3, <2>5, <2>6 DEF MoveKept
<1>18. ASSUME NEW o \in Originals, Move!Lose(o)
      PROVE  MoveKept'
  <2>0. /\ UNCHANGED <<plan, shape, portal, field, clip, todo, pc, result, resumed>>
        /\ entity[o]["moved"] = [at |-> "new", state |-> "OPEN"]
        /\ entity' = [entity EXCEPT ![o]["moved"] = Move!NoEntity]
    BY <1>18 DEF Move!Lose, Move!saved, Move!portalRows, Move!run
  <2>1. Move!NoEntity \in Move!Entity /\ Move!NoEntity.at = "gone" /\ "moved" \in Move!Kinds
    BY <1>k DEF Move!Entity, Move!NoEntity
  <2>2. ASSUME NEW p \in Originals, NEW j \in Move!Kinds
          PROVE  entity'[p][j] = IF p = o /\ j = "moved" THEN Move!NoEntity ELSE entity[p][j]
    BY <2>0, <2>1, <1>0, CopyChanged
  <2>3. entity[o]["moved"] # Archived
    BY <2>0 DEF Archived
  <2>4. \A p \in Originals : OneCopy(p)'
    BY <2>0, <2>1, <2>2, <2>3, <1>0, <1>k DEF OneCopy
  <2>5. Move!Open' \subseteq Move!Open /\ Move!Pending' = Move!Pending /\ Move!Current' = Move!Current
    BY <2>0, <2>1, <2>2, <1>d, <1>k DEF Move!Open, Move!Pending
  <2>6. StepsLeave'
    <3>1. todo # {} => Move!Current \in Originals
      BY <1>0, CurrentTyped
    <3>2. QED
      BY <3>1, <2>0, <2>1, <2>2, <2>3, <2>5, <1>0, <1>k DEF StepsLeave
  <2>7. Verdicts'
    BY <2>0, <2>5, <1>0 DEF Verdicts, Remembered
  <2>8. QED
    BY <1>t, <2>4, <2>6, <2>7 DEF MoveKept
<1>19. CASE UNCHANGED Move!vars
  <2>0. UNCHANGED <<plan, entity, shape, portal, field, clip, todo, pc, result, resumed>>
    BY <1>19 DEF Move!vars, Move!item, Move!saved, Move!portalRows, Move!run
  <2>1. StepsLeave' /\ Verdicts'
    BY <2>0, <1>0, <1>c, <1>d DEF StepsLeave, Verdicts, Remembered
  <2>2. QED
    BY <1>t, <1>c, <2>0, <2>1 DEF MoveKept
<1> QED
  BY <1>1, <1>2, <1>3, <1>4, <1>5, <1>6, <1>7, <1>8, <1>9, <1>10, <1>11, <1>12, <1>13,
     <1>14, <1>15, <1>16, <1>17, <1>18, <1>19
     DEF Move!Next

\* The relocation starts with its copies in order.
LEMMA MoveStarts ==
  ASSUME Move!Init
  PROVE  MoveKept
<1>1. Move!NoEntity \in Move!Entity /\ [at |-> "old", state |-> "ARCHIVED"] \in Move!Entity
  BY DEF Move!NoEntity, Move!Entity, Move!Sides
<1>2. Move!TypeOK
  <2>1. /\ plan \in [Originals -> [kind : Move!Kinds, side : Move!Sides, from : BOOLEAN]]
        /\ shape \in [Originals -> Move!Kinds]
    BY DEF Move!Init, Move!Kinds, Move!Sides
  <2>2. entity \in [Originals -> [Move!Kinds -> Move!Entity]]
    BY <1>1 DEF Move!Init
  <2>3. clip \in Move!Kinds /\ portal \in Move!Sides /\ pc \in Move!Steps /\ result \in Move!Results
    BY DEF Move!Init, Move!Kinds, Move!Sides, Move!Steps, Move!Results
  <2>4. mishaps \in 0 .. MoveMishaps
    BY MoveConstants DEF Move!Init
  <2>5. QED
    BY <2>1, <2>2, <2>3, <2>4 DEF Move!Init, Move!TypeOK
<1>3. ASSUME NEW o \in Originals
      PROVE  OneCopy(o)
  BY DEF Move!Init, OneCopy, Planned, Relocated, Move!Kinds, Move!NoEntity
<1>4. StepsLeave
  BY MoveConstants DEF Move!Init, StepsLeave, Relocated
<1>5. Verdicts
  BY DEF Move!Init, Verdicts
<1>6. QED
  BY <1>2, <1>3, <1>4, <1>5 DEF MoveKept

\* While the relocation is the subject, its copies are in order.
LEMMA MoveAlways == Spec => [](subject = "move" => MoveKept)
<1>1. Init => (subject = "move" => MoveKept)
  BY SubjectStarts, MoveStarts
<1>2. (subject = "move" => MoveKept) /\ [Next]_vars => (subject = "move" => MoveKept)'
  BY SubjectSteps, MoveKeeps
<1>3. QED
  BY <1>1, <1>2, PTL DEF Spec

\* What a run says of its row is so, however often the command was killed on
\* it: a row reported as relocated is whole, and one the command moved something
\* of is called its own failure and keeps no entity open (Relocator.run,
\* _preflight).
THEOREM RelocatedRowsAreWhole == Spec => []Settled
<1>1. ASSUME MoveKept, result = "relocated"
      PROVE  Move!Settled
  <2>2. /\ Move!Pending = {} /\ pc = "over" /\ 1 \in Originals
        /\ plan \in [Originals -> [kind : Move!Kinds, side : Move!Sides, from : BOOLEAN]]
    BY <1>1, MoveConstants DEF MoveKept, Verdicts, Move!TypeOK
  <2>3. ASSUME NEW o \in Originals
        PROVE  plan[o] = Relocated /\ entity[o]["moved"] = Archived
    BY <1>1, <2>2 DEF MoveKept, OneCopy, Move!Pending, Planned
  <2>4. \A o \in Originals : plan[o].kind = "moved" /\ plan[o].kind \in Move!Found(o, "new")
    BY <2>3 DEF Relocated, Archived, Move!Found, Move!Kinds
  <2>5. Move!Open = {}
    BY <2>3 DEF Move!Open, Archived
  <2>6. clip # "planned" /\ field # "old" /\ portal = "new"
    BY <1>1, <2>2, <2>3 DEF MoveKept, StepsLeave
  <2>7. QED
    BY <2>2, <2>4, <2>5, <2>6 DEF Move!Settled
<1>2. MoveKept => Move!OwnFailure
  BY DEF Move!OwnFailure, MoveKept, Verdicts
<1>3. (subject = "move" => MoveKept) => Settled
  BY <1>1, <1>2 DEF Settled, Move!Settled
<1>4. QED
  BY <1>3, MoveAlways, PTL

\* The three ways in which an entity goes on.
HeldStep(o) ==
  /\ UNCHANGED <<Move!Recorded, Move!Pointed>>
  /\ \/ Move!Held[o] = "planned" /\ Move!Held' = [Move!Held EXCEPT ![o] = "open"]
     \/ Move!Held[o] = "open" /\ Move!Held' = [Move!Held EXCEPT ![o] = "archived"]
     \/ Move!Held[o] = "open" /\ Move!Held' = [Move!Held EXCEPT ![o] = "dropped"]

\* The entities of the others stay when one original's changes.
LEMMA OneHeldChanges ==
  ASSUME NEW o \in Originals, NEW to,
         \A p \in Originals \ {o} : Move!Held'[p] = Move!Held[p],
         Move!Held'[o] = to
  PROVE  Move!Held' = [Move!Held EXCEPT ![o] = to]
<1>1. /\ Move!Held = [p \in Originals |-> Move!Held[p]]
      /\ Move!Held' = [p \in Originals |-> Move!Held'[p]]
  BY DEF Move!Held
<1> QED
  BY <1>1

\* And all stay when none does.
LEMMA NoHeldChanges ==
  ASSUME \A p \in Originals : Move!Held'[p] = Move!Held[p]
  PROVE  Move!Held' = Move!Held
<1>1. /\ Move!Held = [p \in Originals |-> Move!Held[p]]
      /\ Move!Held' = [p \in Originals |-> Move!Held'[p]]
  BY DEF Move!Held
<1> QED
  BY <1>1

\* Archiving one copy of an original, the open one or another.
LEMMA ArchivingInCustody ==
  ASSUME MoveKept, UNCHANGED <<plan, clip, field>>, NEW o \in Originals, NEW k \in Move!Kinds,
         entity' = [entity EXCEPT ![o][k].state = "ARCHIVED"]
  PROVE  HeldStep(o) \/ UNCHANGED <<Move!Held, Move!Recorded, Move!Pointed>>
<1>1. UNCHANGED <<Move!Recorded, Move!Pointed>>
  BY DEF Move!Recorded, Move!Pointed
<1>2. \A p \in Originals, j \in Move!Kinds :
        entity'[p][j] = IF p = o /\ j = k THEN [at |-> entity[p][j].at, state |-> "ARCHIVED"]
                        ELSE entity[p][j]
  <2>1. entity \in [Originals -> [Move!Kinds -> Move!Entity]]
    BY DEF MoveKept, Move!TypeOK
  <2>2. entity' = Archiving(o, k)
    BY DEF Archiving
  <2> QED
    BY <2>1, <2>2, ArchivedCopies
<1>3. "planned" \in Move!Kinds /\ "moved" \in Move!Kinds
  BY DEF Move!Kinds
<1>4. \A p \in Originals : /\ entity'[p]["planned"].at = entity[p]["planned"].at
                           /\ entity'[p]["moved"].at = entity[p]["moved"].at
                           /\ p # o \/ k # "moved" =>
                                entity'[p]["moved"].state = entity[p]["moved"].state
  BY <1>2, <1>3
<1>a. k = "moved" => entity'[o]["moved"].state = "ARCHIVED"
  <2>1. k = "moved" =>
          entity'[o]["moved"] = [at |-> entity[o]["moved"].at, state |-> "ARCHIVED"]
    BY <1>2, <1>3
  <2> QED
    BY <2>1
<1>5. \A p \in Originals \ {o} : Move!Held'[p] = Move!Held[p]
  BY <1>4 DEF Move!Held
<1>6. CASE k = "moved" /\ Move!Held[o] = "open"
  <2>1. Move!Held'[o] = "archived"
    BY <1>4, <1>6, <1>a DEF Move!Held
  <2> QED
    BY <1>1, <1>5, <1>6, <2>1, OneHeldChanges DEF HeldStep
<1>7. CASE k # "moved" \/ Move!Held[o] # "open"
  <2>1. Move!Held'[o] = Move!Held[o]
    <3>1. CASE k # "moved"
      BY <1>4, <3>1 DEF Move!Held
    <3>2. CASE k = "moved" /\ Move!Held[o] # "open"
      BY <1>4, <1>a, <3>2 DEF Move!Held
    <3> QED
      BY <1>7, <3>1, <3>2
  <2> QED
    BY <1>1, <1>5, <2>1, NoHeldChanges
<1> QED
  BY <1>6, <1>7

\* The move of an original's entity: the new one is open.
LEMMA MoveInCustody ==
  ASSUME MoveKept, Move!Move
  PROVE  (\E o \in Originals : HeldStep(o))
           \/ UNCHANGED <<Move!Held, Move!Recorded, Move!Pointed>>
<1>1. UNCHANGED <<Move!Recorded, Move!Pointed>>
  BY DEF Move!Move, Move!saved, Move!portalRows, Move!Recorded, Move!Pointed
<1>2. CASE UNCHANGED entity
  BY <1>1, <1>2 DEF Move!Held
<1>0. Move!Current \in Originals
  BY CurrentTyped DEF MoveKept, Move!TypeOK, Move!Move, Move!At
<1>s. ASSUME NEW x, entity' = [entity EXCEPT ![Move!Current]["stranger"] = x]
      PROVE  UNCHANGED Move!Held
  <2>1. entity \in [Originals -> [Move!Kinds -> Move!Entity]]
    BY DEF MoveKept, Move!TypeOK
  <2>2. {"planned", "moved", "stranger"} = Move!Kinds
    BY DEF Move!Kinds
  <2>3. \A p \in Originals : /\ entity'[p]["planned"] = entity[p]["planned"]
                             /\ entity'[p]["moved"] = entity[p]["moved"]
    BY <1>s, <2>1, <2>2
  <2> QED
    BY <2>3, NoHeldChanges DEF Move!Held
<1>3. CASE /\ "planned" \in Move!Found(Move!Current, "old")
           /\ entity' = [entity EXCEPT ![Move!Current]["planned"].at = "gone",
                                       ![Move!Current]["moved"] = [at |-> "new", state |-> "OPEN"]]
  <2> DEFINE o == Move!Current
             new == [at |-> "new", state |-> "OPEN"]
  <2>1. o \in Originals
    BY <1>0
  <2>2. /\ "planned" \in Move!Found(o, "old")
        /\ entity' = [entity EXCEPT ![o]["planned"].at = "gone", ![o]["moved"] = new]
    BY <1>3
  <2> HIDE DEF o, new
  <2>3. entity[o]["planned"].at = "old"
    BY <2>2 DEF Move!Found
  <2>4. /\ entity \in [Originals -> [Move!Kinds -> Move!Entity]]
        /\ "planned" \in Move!Kinds /\ "moved" \in Move!Kinds
    BY DEF MoveKept, Move!TypeOK, Move!Kinds
  <2>5. \A p \in Originals \ {o} : entity'[p] = entity[p]
    BY <2>1, <2>2, <2>4
  <2>6. entity'[o]["moved"] = new /\ entity'[o]["planned"].at = "gone"
    <3>1. entity[o] \in [Move!Kinds -> Move!Entity] /\ entity[o]["planned"] \in Move!Entity
      BY <2>1, <2>4
    <3>2. entity'[o] = [entity[o] EXCEPT !["planned"].at = "gone", !["moved"] = new]
      BY <2>1, <2>2, <2>4
    <3>3. [entity[o]["planned"] EXCEPT !.at = "gone"].at = "gone"
      BY <3>1 DEF Move!Entity
    <3> QED
      BY <2>4, <3>1, <3>2, <3>3
  <2>7. Move!Held[o] = "planned" /\ Move!Held'[o] = "open"
    BY <2>1, <2>3, <2>6 DEF Move!Held, new
  <2>8. \A p \in Originals \ {o} : Move!Held'[p] = Move!Held[p]
    BY <2>5 DEF Move!Held
  <2> QED
    BY <1>1, <2>1, <2>7, <2>8, OneHeldChanges DEF HeldStep
<1> QED
  BY <1>1, <1>2, <1>3, <1>s DEF Move!Move

\* What others do to an original's copies: only an open entity is dropped.
LEMMA WorldInCustody ==
  ASSUME MoveKept, NEW o \in Originals, Move!Squat(o) \/ Move!Lose(o)
  PROVE  HeldStep(o) \/ UNCHANGED <<Move!Held, Move!Recorded, Move!Pointed>>
<1>1. UNCHANGED <<Move!Recorded, Move!Pointed>>
  BY DEF Move!Squat, Move!Lose, Move!saved, Move!portalRows, Move!Recorded, Move!Pointed
<1>2. /\ entity \in [Originals -> [Move!Kinds -> Move!Entity]]
      /\ {"planned", "moved", "stranger"} = Move!Kinds
  BY DEF MoveKept, Move!TypeOK, Move!Kinds
<1>3. CASE Move!Squat(o)
  <2>1. PICK x : entity' = [entity EXCEPT ![o]["stranger"] = x]
    BY <1>3 DEF Move!Squat
  <2>2. \A p \in Originals : /\ entity'[p]["planned"] = entity[p]["planned"]
                             /\ entity'[p]["moved"] = entity[p]["moved"]
    BY <1>2, <2>1
  <2>3. Move!Held' = Move!Held
    BY <2>2, NoHeldChanges DEF Move!Held
  <2> QED
    BY <1>1, <2>3
<1>4. CASE Move!Lose(o)
  <2>1. /\ entity[o]["moved"] = [at |-> "new", state |-> "OPEN"]
        /\ entity' = [entity EXCEPT ![o]["moved"] = Move!NoEntity]
    BY <1>4 DEF Move!Lose
  <2>2. /\ \A p \in Originals \ {o} : entity'[p] = entity[p]
        /\ entity'[o]["planned"] = entity[o]["planned"]
        /\ entity'[o]["moved"] = Move!NoEntity
    BY <1>2, <2>1
  <2>3. entity[o]["planned"].at # "old"
    BY <2>1 DEF MoveKept, OneCopy
  <2>4. Move!Held[o] = "open" /\ Move!Held'[o] = "dropped"
    BY <2>1, <2>2, <2>3 DEF Move!Held, Move!NoEntity
  <2>5. \A p \in Originals \ {o} : Move!Held'[p] = Move!Held[p]
    BY <2>2 DEF Move!Held
  <2> QED
    BY <1>1, <2>4, <2>5, OneHeldChanges DEF HeldStep
<1> QED
  BY <1>3, <1>4

\* The plan is saved for an entity that is archived and that nothing calls by
\* its old place.
LEMMA SaveInCustody ==
  ASSUME MoveKept, Move!SavePlan
  PROVE  \E o \in Originals :
           /\ Move!Held[o] = "archived"
           /\ o = 1 => Move!Pointed
           /\ Move!Recorded' = Move!Recorded \cup {o}
           /\ UNCHANGED <<Move!Held, Move!Pointed>>
<1> DEFINE o == Move!Current
           new == [kind |-> "moved", side |-> "new", from |-> TRUE]
<1>1. o \in Originals
  BY CurrentTyped DEF MoveKept, Move!TypeOK, Move!SavePlan, Move!At
<1>2. plan' = [plan EXCEPT ![o] = new] /\ UNCHANGED <<entity, clip, field>> /\ pc = "save"
  BY DEF Move!SavePlan, Move!At, Move!item, Move!portalRows
<1>3. entity[o]["moved"] = Archived /\ (o = 1 => field # "old" /\ clip # "planned")
  BY <1>2 DEF MoveKept, StepsLeave
<1>4. plan \in [Originals -> [kind : Move!Kinds, side : Move!Sides, from : BOOLEAN]]
  BY DEF MoveKept, Move!TypeOK
<1> HIDE DEF o
<1>5. entity[o]["planned"].at # "old"
  BY <1>1, <1>3 DEF MoveKept, OneCopy, Archived
<1>6. Move!Held[o] = "archived"
  BY <1>1, <1>3, <1>5 DEF Move!Held, Archived
<1>7. \A p \in Originals : plan'[p] = IF p = o THEN new ELSE plan[p]
  BY <1>1, <1>2, <1>4
<1>8. Move!Recorded' = Move!Recorded \cup {o}
  BY <1>1, <1>7 DEF Move!Recorded
<1>9. UNCHANGED <<Move!Held, Move!Pointed>> /\ (o = 1 => Move!Pointed)
  BY <1>2, <1>3 DEF Move!Held, Move!Pointed
<1> QED
  BY <1>1, <1>6, <1>8, <1>9

\* Every other step leaves the entities and the plan, and takes back neither
\* the name nor the Clip.
LEMMA OthersInCustody ==
  ASSUME MoveKept,
         \/ Move!RewritePortal \/ Move!Select \/ Move!Refuse \/ Move!Preflight
         \/ Move!PathTaken \/ Move!Name \/ Move!UpdateClip \/ Move!Moved \/ Move!Verify
         \/ Move!Die \/ Move!Meddle \/ UNCHANGED Move!vars
  PROVE  /\ UNCHANGED <<Move!Held, Move!Recorded>>
         /\ Move!Pointed => Move!Pointed'
<1>1. /\ UNCHANGED <<plan, entity>>
      /\ clip' \in {clip, "moved", "stranger"} /\ field' \in {field, "new"}
  <2>1. CASE Move!RewritePortal \/ Move!Select \/ Move!Refuse \/ Move!Preflight
    BY <2>1 DEF Move!RewritePortal, Move!Select, Move!Refuse, Move!Preflight, Move!saved,
                Move!item, Move!portalRows
  <2>2. CASE Move!PathTaken \/ Move!Moved \/ Move!Verify \/ Move!Die
    BY <2>2 DEF Move!PathTaken, Move!Moved, Move!Verify, Move!Die, Move!saved, Move!item,
                Move!portalRows
  <2>3. CASE Move!Name \/ Move!UpdateClip \/ Move!Meddle
    BY <2>3 DEF Move!Name, Move!UpdateClip, Move!Meddle, Move!saved, Move!item,
                Move!portalRows
  <2>4. CASE UNCHANGED Move!vars
    BY <2>4 DEF Move!vars, Move!saved, Move!item, Move!portalRows
  <2> QED
    BY <2>1, <2>2, <2>3, <2>4
<1> QED
  BY <1>1 DEF Move!Held, Move!Recorded, Move!Pointed

\* Every step of the relocation, as its entities see it.
LEMMA CustodySteps ==
  ASSUME MoveKept, [Move!Next]_(Move!vars)
  PROVE  \/ \E o \in Originals : HeldStep(o)
         \/ \E o \in Originals : /\ Move!Held[o] = "archived"
                                 /\ o = 1 => Move!Pointed
                                 /\ Move!Recorded' = Move!Recorded \cup {o}
                                 /\ UNCHANGED <<Move!Held, Move!Pointed>>
         \/ UNCHANGED <<Move!Held, Move!Recorded>> /\ (Move!Pointed => Move!Pointed')
<1>1. CASE Move!Close
  <2>0. UNCHANGED <<plan, clip, field>>
    BY <1>1 DEF Move!Close, Move!saved, Move!portalRows
  <2>1. CASE UNCHANGED entity
    BY <2>0, <2>1 DEF Move!Held, Move!Recorded, Move!Pointed
  <2>2. CASE ~UNCHANGED entity
    <3>1. PICK r \in resumed : entity' = [entity EXCEPT ![r[1]][r[2]].state = "ARCHIVED"]
      BY <1>1, <2>2 DEF Move!Close
    <3>2. r[1] \in Originals /\ r[2] \in Move!Kinds
      BY <3>1 DEF MoveKept, Move!TypeOK
    <3> QED
      BY <2>0, <3>1, <3>2, ArchivingInCustody
  <2> QED
    BY <2>1, <2>2
<1>2. CASE Move!Archive
  <2>1. Move!Current \in Originals /\ "moved" \in Move!Kinds /\ UNCHANGED <<plan, clip, field>>
    BY <1>2, CurrentTyped
       DEF MoveKept, Move!TypeOK, Move!Archive, Move!At, Move!Kinds, Move!saved,
           Move!portalRows
  <2>2. CASE UNCHANGED entity
    BY <2>1, <2>2 DEF Move!Held, Move!Recorded, Move!Pointed
  <2>3. CASE ~UNCHANGED entity
    BY <1>2, <2>1, <2>3, ArchivingInCustody DEF Move!Archive
  <2> QED
    BY <2>2, <2>3
<1>3. CASE Move!Recheck
  <2>1. UNCHANGED <<plan, clip, field>>
    BY <1>3 DEF Move!Recheck, Move!saved, Move!portalRows
  <2>2. CASE UNCHANGED entity
    BY <2>1, <2>2 DEF Move!Held, Move!Recorded, Move!Pointed
  <2>3. CASE ~UNCHANGED entity
    <3>1. PICK o \in again : entity' = [entity EXCEPT ![o][plan[o].kind].state = "ARCHIVED"]
      BY <1>3, <2>3 DEF Move!Recheck
    <3>2. o \in Originals /\ plan[o].kind \in Move!Kinds
      BY <3>1 DEF MoveKept, Move!TypeOK
    <3> QED
      BY <2>1, <3>1, <3>2, ArchivingInCustody
  <2> QED
    BY <2>2, <2>3
<1>4. CASE Move!Move
  BY <1>4, MoveInCustody
<1>5. CASE Move!SavePlan
  BY <1>5, SaveInCustody
<1>6. CASE \E o \in Originals : Move!Squat(o) \/ Move!Lose(o)
  BY <1>6, WorldInCustody
<1>7. CASE \/ Move!RewritePortal \/ Move!Select \/ Move!Refuse \/ Move!Preflight
           \/ Move!PathTaken \/ Move!Name \/ Move!UpdateClip \/ Move!Moved \/ Move!Verify
           \/ Move!Die \/ Move!Meddle \/ UNCHANGED Move!vars
  BY <1>7, OthersInCustody
<1> QED
  BY <1>1, <1>2, <1>3, <1>4, <1>5, <1>6, <1>7 DEF Move!Next

\* The relocation refines EntityCustody: whatever dies, is resumed or is
\* meddled with, an original's entity is replaced once, dropped only while it
\* is open and unrecorded, and recorded only when it is archived and nothing
\* says the old place any more (Relocator.run).
THEOREM RelocationKeepsCustody == Spec => EntitiesInCustody
<1> SUFFICES Spec => Custody!Spec
  BY DEF EntitiesInCustody
<1>1. Init => Custody!Init
  <2>1. ASSUME Init, subject = "move" PROVE Custody!Init
    <3>1. Move!Init
      BY <2>1, SubjectStarts
    <3>2. Move!Held = [o \in Originals |-> "planned"] /\ Move!Recorded = {}
      BY <3>1 DEF Move!Init, Move!Held, Move!Recorded, Move!Kinds
    <3> QED
      BY <2>1, <3>2 DEF Custody!Init, Move!Pointed
  <2>2. ASSUME Init, subject # "move" PROVE Custody!Init
    BY <2>2 DEF Custody!Init
  <2> QED
    BY <2>1, <2>2
<1>2. (subject = "move" => MoveKept) /\ [Next]_vars => [Custody!Next]_(Custody!vars)
  <2>1. SUFFICES ASSUME subject = "move" => MoveKept, [Next]_vars
                 PROVE  [Custody!Next]_(Custody!vars)
    OBVIOUS
  <2>2. UNCHANGED subject /\ (subject = "move" => [Move!Next]_(Move!vars))
    BY <2>1, SubjectSteps
  <2>3. CASE subject # "move"
    BY <2>2, <2>3 DEF Custody!vars
  <2>4. CASE subject = "move"
    <3>1. MoveKept /\ [Move!Next]_(Move!vars) /\ subject' = "move"
      BY <2>1, <2>2, <2>4
    <3>2. CASE \E o \in Originals : HeldStep(o)
      BY <2>4, <3>1, <3>2
         DEF HeldStep, Custody!Next, Custody!Replace, Custody!Archive, Custody!Drop,
             Custody!Becomes
    <3>3. CASE \E o \in Originals : /\ Move!Held[o] = "archived"
                                    /\ o = 1 => Move!Pointed
                                    /\ Move!Recorded' = Move!Recorded \cup {o}
                                    /\ UNCHANGED <<Move!Held, Move!Pointed>>
      BY <2>4, <3>1, <3>3 DEF Custody!Next, Custody!Record, Move!First
    <3>4. CASE UNCHANGED <<Move!Held, Move!Recorded>> /\ (Move!Pointed => Move!Pointed')
      BY <2>4, <3>1, <3>4 DEF Custody!Next, Custody!Point, Custody!vars
    <3> QED
      BY <3>1, <3>2, <3>3, <3>4, CustodySteps
  <2> QED
    BY <2>3, <2>4
<1> QED
  BY <1>1, <1>2, MoveAlways, PTL DEF Spec, Custody!Spec

-----------------------------------------------------------------------------
(* The loops over the rows.                                                *)

\* The rows that can never be done and that this run has behind it.
Passed == {h \in hopeless : \A q \in queue : h < q}

\* The row waits for ever: the rows in its way fill every run.
Blocked(r) ==
  \/ limit # 0 /\ Cardinality(Batch!InTheWay(r)) >= limit
  \/ work = "apply" /\ Cardinality(Batch!InTheWay(r)) >= MaxFailures

\* Every run that ended has done a row or met a mishap, and so will this one:
\* a row that can be done is still in its queue, and not too many failures
\* stand before it.
Owed(r) ==
  /\ ended =< Cardinality(finished) + mishaps
  /\ pc = "rows" =>
       \/ ended + 1 =< Cardinality(finished) + mishaps
       \/ \E q \in queue \ (hopeless \cup finished) :
            q =< r /\ (work = "apply" => inARow =< Cardinality(Passed))

BatchTyped ==
  /\ work \in Batch!Works /\ limit \in Limits
  /\ hopeless \subseteq BatchRows /\ finished \subseteq BatchRows /\ queue \subseteq BatchRows
  /\ pc \in {"idle", "rows"}
  /\ inARow \in Nat /\ ended \in Nat /\ mishaps \in Nat

BatchKept ==
  /\ BatchTyped
  /\ inARow + Cardinality(queue) =< Cardinality(BatchRows)
  /\ ended =< Batch!EnoughRuns /\ (pc = "rows" => ended < Batch!EnoughRuns)
  /\ mishaps =< BatchMishaps
  /\ work = "apply" => queue \cap finished = {}
  /\ \A r \in BatchRows \ (finished \cup hopeless) : Blocked(r) \/ Owed(r)

\* A part of the rows is counted by a number, and a smaller part by a smaller.
LEMMA RowsCounted ==
  ASSUME NEW S \in SUBSET BatchRows
  PROVE  /\ IsFiniteSet(S) /\ Cardinality(S) \in Nat
         /\ Cardinality(S) =< Cardinality(BatchRows)
         /\ \A T \in SUBSET S : Cardinality(T) =< Cardinality(S)
<1>1. IsFiniteSet(S) /\ Cardinality(S) =< Cardinality(BatchRows)
  BY BatchConstants, FS_Subset
<1>2. Cardinality(S) \in Nat
  BY <1>1, FS_CardinalityType
<1>3. \A T \in SUBSET S : Cardinality(T) =< Cardinality(S)
  BY <1>1, FS_Subset
<1>4. QED
  BY <1>1, <1>2, <1>3

\* The next row is the least of the queue.
LEMMA NextRow ==
  ASSUME queue \subseteq BatchRows, queue # {}
  PROVE  /\ Batch!Min(queue) \in queue
         /\ \A q \in queue : Batch!Min(queue) =< q
BY LeastMember, BatchConstants DEF Batch!Min

\* A run that begins has a row to do at or before every row that is not blocked.
LEMMA BeginOwes ==
  ASSUME BatchTyped, queue' = Batch!Queue,
         NEW r \in BatchRows \ (finished \cup hopeless), ~Blocked(r)
  PROVE  \E q \in queue' \ (hopeless \cup finished) : q =< r
<1> DEFINE Doable == {q \in Batch!Selects : q \notin hopeless /\ q \notin finished}
<1>1. /\ r \in Doable /\ Doable \subseteq BatchRows /\ Batch!Selects \subseteq BatchRows
      /\ BatchRows \subseteq Nat /\ hopeless \subseteq BatchRows /\ limit \in Nat
  BY BatchConstants DEF BatchTyped, Batch!Selects
<1>2. PICK q \in Doable : \A p \in Doable : q =< p
  <2> HIDE DEF Doable
  <2>1. QED
    BY <1>1, LeastMember
<1>3. q =< r
  BY <1>1, <1>2
<1>4. Batch!Before(q, Batch!Selects) \subseteq Batch!InTheWay(r)
  <2>1. SUFFICES ASSUME NEW p \in Batch!Selects, p < q
                 PROVE  p \in Batch!InTheWay(r)
    BY DEF Batch!Before
  <2>2. p \in BatchRows /\ p \in Nat /\ q \in Nat /\ r \in Nat /\ p < r
    BY <1>1, <1>2, <1>3, <2>1
  <2>3. work = "apply" => p \in hopeless
    <3>1. p \notin Doable
      BY <1>1, <1>2, <2>1, <2>2
    <3>2. QED
      BY <3>1, <2>1 DEF Batch!Selects
  <2>4. QED
    BY <2>2, <2>3 DEF Batch!InTheWay, Batch!Before
<1>5. limit # 0 => Cardinality(Batch!Before(q, Batch!Selects)) < limit
  <2>1. Batch!InTheWay(r) \in SUBSET BatchRows
    BY <1>1 DEF Batch!InTheWay, Batch!Before
  <2>2. /\ Cardinality(Batch!InTheWay(r)) \in Nat
        /\ Cardinality(Batch!Before(q, Batch!Selects)) \in Nat
        /\ Cardinality(Batch!Before(q, Batch!Selects)) =< Cardinality(Batch!InTheWay(r))
    BY <1>4, <2>1, RowsCounted
  <2>3. limit # 0 => Cardinality(Batch!InTheWay(r)) < limit
    BY <1>1, <2>2 DEF Blocked
  <2>4. QED
    BY <1>1, <2>2, <2>3
<1>6. q \in queue'
  BY <1>1, <1>2, <1>5, SameCount DEF Batch!Queue
<1>7. QED
  BY <1>2, <1>3, <1>6

\* Every step of the loops keeps what they owe.
LEMMA BatchKeeps ==
  ASSUME BatchKept, [Batch!Next]_(Batch!vars)
  PROVE  BatchKept'
<1>0. /\ BatchTyped /\ BatchRows \subseteq Nat /\ BatchMishaps \in Nat /\ MaxFailures \in Nat
      /\ inARow + Cardinality(queue) =< Cardinality(BatchRows)
      /\ ended =< Batch!EnoughRuns /\ (pc = "rows" => ended < Batch!EnoughRuns)
      /\ mishaps =< BatchMishaps
      /\ work = "apply" => queue \cap finished = {}
      /\ \A r \in BatchRows \ (finished \cup hopeless) : Blocked(r) \/ Owed(r)
  BY BatchConstants DEF BatchKept
<1>1. /\ Cardinality(BatchRows) \in Nat /\ Cardinality(queue) \in Nat
      /\ Cardinality(finished) \in Nat /\ IsFiniteSet(finished) /\ IsFiniteSet(queue)
      /\ Batch!EnoughRuns \in Nat
  BY <1>0, RowsCounted, SameCount DEF BatchTyped, Batch!EnoughRuns
<1>2. ASSUME UNCHANGED <<work, limit, hopeless>>, NEW r \in BatchRows
      PROVE  Blocked(r)' = Blocked(r)
  BY <1>2 DEF Blocked, Batch!InTheWay, Batch!Before
<1>3. CASE Batch!Begin
  <2>1. /\ UNCHANGED <<work, limit, hopeless, finished, ended, mishaps>>
        /\ pc = "idle" /\ pc' = "rows" /\ inARow' = 0 /\ ended < Batch!EnoughRuns
        /\ queue' = Batch!Queue /\ queue' \subseteq Batch!Selects
        /\ Batch!EnoughRuns' = Batch!EnoughRuns
    BY <1>3 DEF Batch!Begin, Batch!options, Batch!Queue, Batch!EnoughRuns
  <2>2. queue' \subseteq BatchRows /\ (work = "apply" => queue' \cap finished = {})
    BY <2>1 DEF Batch!Selects
  <2>3. BatchTyped'
    BY <1>0, <2>1, <2>2 DEF BatchTyped
  <2>4. inARow' + Cardinality(queue') =< Cardinality(BatchRows)
    BY <2>1, <2>2, <1>1, RowsCounted
  <2>5. ASSUME NEW r \in BatchRows \ (finished' \cup hopeless'), ~Blocked(r)'
        PROVE  Owed(r)'
    <3>1. r \in BatchRows \ (finished \cup hopeless) /\ ~Blocked(r)
      BY <2>1, <2>5, <1>2
    <3>2. ended =< Cardinality(finished) + mishaps
      BY <3>1, <1>0 DEF Owed
    <3>3. \E q \in queue' \ (hopeless \cup finished) : q =< r
      BY <3>1, <2>1, <1>0, BeginOwes
    <3>4. inARow' =< Cardinality(Passed')
      BY <2>1, <2>3, RowsCounted DEF Passed, BatchTyped
    <3>5. QED
      BY <2>1, <3>2, <3>3, <3>4 DEF Owed
  <2>6. QED
    BY <2>1, <2>2, <2>3, <2>4, <2>5, <1>0 DEF BatchKept
<1>4. CASE Batch!End
  <2>1. /\ UNCHANGED <<work, limit, hopeless, finished, queue, inARow, mishaps>>
        /\ pc = "rows" /\ queue = {} /\ pc' = "idle" /\ ended' = ended + 1
        /\ Batch!EnoughRuns' = Batch!EnoughRuns
    BY <1>4 DEF Batch!End, Batch!options, Batch!EnoughRuns
  <2>2. BatchTyped'
    BY <1>0, <2>1 DEF BatchTyped
  <2>3. ended' =< Batch!EnoughRuns'
    BY <2>1, <1>0, <1>1 DEF BatchTyped
  <2>4. ASSUME NEW r \in BatchRows \ (finished' \cup hopeless'), ~Blocked(r)'
        PROVE  Owed(r)'
    <3>1. r \in BatchRows \ (finished \cup hopeless) /\ ~Blocked(r)
      BY <2>1, <2>4, <1>2
    <3>2. ended + 1 =< Cardinality(finished) + mishaps
      BY <3>1, <2>1, <1>0 DEF Owed
    <3>3. QED
      BY <3>2, <2>1 DEF Owed
  <2>5. QED
    BY <2>1, <2>2, <2>3, <2>4, <1>0 DEF BatchKept
<1>5. CASE Batch!Die
  <2>1. /\ UNCHANGED <<work, limit, hopeless, finished, inARow, ended, pc>>
        /\ pc = "rows" /\ queue' = {} /\ mishaps < BatchMishaps /\ mishaps' = mishaps + 1
        /\ Batch!EnoughRuns' = Batch!EnoughRuns
    BY <1>5 DEF Batch!Die, Batch!Mishap, Batch!options, Batch!EnoughRuns
  <2>2. BatchTyped' /\ mishaps' =< BatchMishaps
    BY <1>0, <2>1 DEF BatchTyped
  <2>3. inARow' + Cardinality(queue') =< Cardinality(BatchRows)
    BY <2>1, <1>0, <1>1, FS_EmptySet DEF BatchTyped
  <2>4. ASSUME NEW r \in BatchRows \ (finished' \cup hopeless'), ~Blocked(r)'
        PROVE  Owed(r)'
    <3>1. r \in BatchRows \ (finished \cup hopeless) /\ ~Blocked(r)
      BY <2>1, <2>4, <1>2
    <3>2. ended =< Cardinality(finished) + mishaps
      BY <3>1, <1>0 DEF Owed
    <3>3. ended' + 1 =< Cardinality(finished') + mishaps'
      BY <3>2, <2>1, <1>0, <1>1 DEF BatchTyped
    <3>4. QED
      BY <3>3, <2>2, <1>1, <2>1 DEF Owed, BatchTyped
  <2>5. QED
    BY <2>1, <2>2, <2>3, <2>4, <1>0 DEF BatchKept
<1>6. ASSUME NEW m \in BatchRows, Batch!Succeed(m)
      PROVE  BatchKept'
  <2>1. /\ UNCHANGED <<work, limit, hopeless, ended, pc, mishaps>>
        /\ pc = "rows" /\ queue # {} /\ m = Batch!Min(queue) /\ m \notin hopeless
        /\ finished' = finished \cup {m} /\ queue' = queue \ {m} /\ inARow' = 0
        /\ Batch!EnoughRuns' = Batch!EnoughRuns
    BY <1>6 DEF Batch!Succeed, Batch!options, Batch!EnoughRuns
  <2>2. m \in queue
    BY <2>1, <1>0, NextRow DEF BatchTyped
  <2>3. BatchTyped'
    BY <1>0, <2>1 DEF BatchTyped
  <2>4. inARow' + Cardinality(queue') =< Cardinality(BatchRows)
    BY <2>1, <2>3, <1>1, RowsCounted DEF BatchTyped
  <2>5. work = "apply" => queue' \cap finished' = {}
    BY <2>1, <1>0
  <2>6. ASSUME NEW r \in BatchRows \ (finished' \cup hopeless'), ~Blocked(r)'
        PROVE  Owed(r)'
    <3>1. r \in BatchRows \ (finished \cup hopeless) /\ ~Blocked(r) /\ Owed(r)
      BY <2>1, <2>6, <1>2, <1>0
    <3>2. Cardinality(finished') = IF m \in finished THEN Cardinality(finished)
                                   ELSE Cardinality(finished) + 1
      BY <2>1, <1>1, FS_AddElement
    <3>3. ended' =< Cardinality(finished') + mishaps'
      BY <3>1, <3>2, <2>1, <1>0, <1>1 DEF Owed, BatchTyped
    <3>4. CASE m \notin finished \/ ended + 1 =< Cardinality(finished) + mishaps
      <4>1. ended' + 1 =< Cardinality(finished') + mishaps'
        BY <3>1, <3>2, <3>4, <2>1, <1>0, <1>1 DEF Owed, BatchTyped
      <4>2. QED
        BY <3>3, <4>1 DEF Owed
    <3>5. CASE m \in finished /\ ~(ended + 1 =< Cardinality(finished) + mishaps)
      <4>1. work # "apply"
        BY <3>5, <2>2, <1>0
      <4>2. PICK q \in queue \ (hopeless \cup finished) : q =< r
        BY <3>1, <3>5, <2>1 DEF Owed
      <4>3. q \in queue' \ (hopeless' \cup finished')
        BY <4>2, <3>5, <2>1
      <4>4. QED
        BY <3>3, <4>1, <4>2, <4>3, <2>1 DEF Owed
    <3>6. QED
      BY <3>4, <3>5
  <2>7. QED
    BY <2>1, <2>3, <2>4, <2>5, <2>6, <1>0 DEF BatchKept
<1>7. ASSUME NEW m \in BatchRows, Batch!Fail(m)
      PROVE  BatchKept'
  <2>1. /\ UNCHANGED <<work, limit, hopeless, ended, pc, finished>>
        /\ pc = "rows" /\ queue # {} /\ m = Batch!Min(queue)
        /\ IF m \in hopeless THEN UNCHANGED mishaps
           ELSE mishaps < BatchMishaps /\ mishaps' = mishaps + 1
        /\ inARow' = inARow + 1
        /\ queue' = IF work = "apply" /\ inARow' >= MaxFailures THEN {} ELSE queue \ {m}
        /\ Batch!EnoughRuns' = Batch!EnoughRuns
    BY <1>7 DEF Batch!Fail, Batch!Mishap, Batch!options, Batch!EnoughRuns
  <2>2. m \in queue /\ \A q \in queue : m =< q
    BY <2>1, <1>0, NextRow DEF BatchTyped
  <2>3. BatchTyped' /\ mishaps' =< BatchMishaps
    <3>1. mishaps' \in Nat /\ mishaps' =< BatchMishaps
      <4>1. mishaps \in Nat /\ mishaps =< BatchMishaps /\ BatchMishaps \in Nat
        BY <1>0 DEF BatchTyped
      <4>2. mishaps' = mishaps \/ (mishaps < BatchMishaps /\ mishaps' = mishaps + 1)
        BY <2>1
      <4>3. QED
        BY <4>1, <4>2
    <3>2. inARow' \in Nat
      BY <1>0, <2>1 DEF BatchTyped
    <3>3. queue' \subseteq queue
      BY <2>1
    <3>4. QED
      BY <1>0, <2>1, <3>1, <3>2, <3>3 DEF BatchTyped
  <2>4. inARow' + Cardinality(queue') =< Cardinality(BatchRows)
    <3>1. Cardinality(queue \ {m}) = Cardinality(queue) - 1
      BY <2>2, <1>1, FS_RemoveElement
    <3>2. Cardinality({}) = 0 /\ Cardinality(queue) # 0
      BY <2>1, <1>1, FS_EmptySet
    <3>3. QED
      BY <3>1, <3>2, <2>1, <1>0, <1>1 DEF BatchTyped
  <2>5. work = "apply" => queue' \cap finished' = {}
    BY <2>1, <1>0
  <2>6. ASSUME NEW r \in BatchRows \ (finished' \cup hopeless'), ~Blocked(r)'
        PROVE  Owed(r)'
    <3>1. r \in BatchRows \ (finished \cup hopeless) /\ ~Blocked(r) /\ Owed(r)
      BY <2>1, <2>6, <1>2, <1>0
    <3>2. ended' =< Cardinality(finished') + mishaps'
      BY <3>1, <2>1, <1>0, <1>1 DEF Owed, BatchTyped
    <3>3. CASE m \notin hopeless \/ ended + 1 =< Cardinality(finished) + mishaps
      <4>1. ended' + 1 =< Cardinality(finished') + mishaps'
        BY <3>1, <3>3, <2>1, <1>0, <1>1 DEF Owed, BatchTyped
      <4>2. QED
        BY <3>2, <4>1 DEF Owed
    <3>4. CASE m \in hopeless /\ ~(ended + 1 =< Cardinality(finished) + mishaps)
      <4>1. PICK q \in queue \ (hopeless \cup finished) :
              q =< r /\ (work = "apply" => inARow =< Cardinality(Passed))
        BY <3>1, <3>4, <2>1 DEF Owed
      <4>2. q # m /\ q \in queue \ {m} /\ q \in Nat /\ r \in Nat
        BY <3>1, <3>4, <4>1, <1>0 DEF BatchTyped
      <4>3. ASSUME work = "apply"
            PROVE  /\ inARow' =< Cardinality({h \in hopeless : \A p \in queue \ {m} : h < p})
                   /\ inARow' < MaxFailures
        <5> DEFINE Behind == {h \in hopeless : \A p \in queue \ {m} : h < p}
        <5>1. Passed \cup {m} \subseteq Behind /\ m \notin Passed
          <6>1. \A p \in queue \ {m} : m < p
            BY <2>2, <1>0 DEF BatchTyped
          <6>2. \A h \in Passed : h \in hopeless /\ h < m /\ \A p \in queue : h < p
            BY <2>2 DEF Passed
          <6>3. m \notin Passed
            BY <6>2, <1>0, <2>2 DEF BatchTyped
          <6>4. QED
            BY <6>1, <6>2, <6>3, <3>4
        <5>2. Behind \subseteq Batch!Before(r, hopeless)
          <6>1. SUFFICES ASSUME NEW h \in hopeless, h < q
                         PROVE  h < r
            BY <4>2 DEF Batch!Before
          <6>2. h \in Nat
            BY <1>0 DEF BatchTyped
          <6>3. QED
            BY <4>1, <4>2, <6>1, <6>2
        <5>3. /\ Passed \in SUBSET BatchRows /\ Behind \in SUBSET BatchRows
              /\ Batch!Before(r, hopeless) \in SUBSET BatchRows
          BY <1>0 DEF BatchTyped, Passed, Batch!Before
        <5>4. Cardinality(Passed \cup {m}) = Cardinality(Passed) + 1
          BY <5>1, <5>3, RowsCounted, FS_AddElement
        <5>5. /\ Cardinality(Passed \cup {m}) =< Cardinality(Behind)
              /\ Cardinality(Behind) =< Cardinality(Batch!Before(r, hopeless))
              /\ Cardinality(Behind) \in Nat /\ Cardinality(Passed) \in Nat
              /\ Cardinality(Batch!Before(r, hopeless)) \in Nat
          <6> HIDE DEF Behind
          <6>1. QED
            BY <5>1, <5>2, <5>3, RowsCounted
        <5>6. Cardinality(Batch!Before(r, hopeless)) < MaxFailures
          BY <3>1, <4>3, <5>5, <1>0 DEF Blocked, Batch!InTheWay
        <5>7. QED
          BY <4>1, <4>3, <5>4, <5>5, <5>6, <2>1, <1>0 DEF BatchTyped
      <4>4. queue' = queue \ {m}
        BY <4>3, <2>1, <1>0, <2>3 DEF BatchTyped
      <4>5. q \in queue' \ (hopeless' \cup finished')
        BY <4>1, <4>2, <4>4, <2>1
      <4>6. work' = "apply" => inARow' =< Cardinality(Passed')
        BY <4>3, <4>4, <2>1 DEF Passed
      <4>7. QED
        BY <3>2, <4>1, <4>5, <4>6 DEF Owed
    <3>5. QED
      BY <3>3, <3>4
  <2>7. QED
    BY <2>1, <2>3, <2>4, <2>5, <2>6, <1>0 DEF BatchKept
<1>8. CASE UNCHANGED Batch!vars
  <2>1. /\ UNCHANGED <<work, limit, hopeless, finished, queue, inARow, pc, ended, mishaps>>
        /\ Batch!EnoughRuns' = Batch!EnoughRuns
    BY <1>8 DEF Batch!vars, Batch!options, Batch!EnoughRuns
  <2>2. QED
    BY <2>1, <1>0, <1>2 DEF BatchKept, BatchTyped, Owed, Passed
<1>9. QED
  BY <1>3, <1>4, <1>5, <1>6, <1>7, <1>8 DEF Batch!Next

\* The loops start with nothing owed.
LEMMA BatchStarts ==
  ASSUME Batch!Init
  PROVE  BatchKept
<1>1. BatchTyped
  BY DEF Batch!Init, BatchTyped
<1>2. /\ Cardinality(queue) = 0 /\ Cardinality(finished) = 0
      /\ Cardinality(BatchRows) \in Nat
  BY FS_EmptySet, RowsCounted DEF Batch!Init
<1>3. Batch!EnoughRuns \in Nat /\ BatchMishaps \in Nat
  BY <1>2, BatchConstants, SameCount DEF Batch!EnoughRuns
<1>4. \A r \in BatchRows : Owed(r)
  BY <1>2 DEF Batch!Init, Owed
<1>5. QED
  BY <1>1, <1>2, <1>3, <1>4 DEF Batch!Init, BatchKept

\* While the loops are the subject, they owe what they should.
LEMMA BatchAlways == Spec => [](subject = "batch" => BatchKept)
<1>1. Init => (subject = "batch" => BatchKept)
  BY SubjectStarts, BatchStarts
<1>2. (subject = "batch" => BatchKept) /\ [Next]_vars => (subject = "batch" => BatchKept)'
  BY SubjectSteps, BatchKeeps
<1>3. QED
  BY <1>1, <1>2, PTL DEF Spec

\* The rows that apply and its sister actions never reach are those that the
\* rows before them block (migrate_wrapped_items, the loops).
THEOREM EveryFreeRowIsReached == Spec => []OnlyTheBlockedWait
<1>1. (subject = "batch" => BatchKept) => OnlyTheBlockedWait
  <2>1. SUFFICES ASSUME subject = "batch", BatchKept, ended = Batch!EnoughRuns,
                        NEW r \in BatchRows \ (finished \cup hopeless), ~Blocked(r)
                 PROVE  FALSE
    BY SameCount DEF OnlyTheBlockedWait, Batch!OnlyTheBlockedWait, Blocked
  <2>2. Owed(r) /\ finished \subseteq BatchRows /\ mishaps \in Nat /\ mishaps =< BatchMishaps
    BY <2>1 DEF BatchKept, BatchTyped
  <2>3. finished \in SUBSET (BatchRows \ {r}) /\ IsFiniteSet(BatchRows)
    BY <2>1, <2>2, BatchConstants
  <2>4. /\ Cardinality(BatchRows) \in Nat /\ Cardinality(finished) \in Nat
        /\ Cardinality(BatchRows \ {r}) = Cardinality(BatchRows) - 1
        /\ Cardinality(finished) =< Cardinality(BatchRows \ {r})
    BY <2>1, <2>2, <2>3, RowsCounted, FS_RemoveElement
  <2>5. Cardinality(BatchRows) + BatchMishaps =< Cardinality(finished) + mishaps
    BY <2>1, <2>2, SameCount DEF Owed, Batch!EnoughRuns
  <2>6. QED
    BY <2>2, <2>4, <2>5, BatchConstants
<1>2. QED
  BY <1>1, BatchAlways, PTL

-----------------------------------------------------------------------------
(* The shape document.                                                     *)

\* The shapes of the variables that DocumentWhole depends on.
DocumentTyped ==
  /\ provider \in {"red", "braw"} /\ anchor \in 0 .. 2
  /\ stored \in [Document!Asked -> [by : Document!By, value : Document!Values]]
  /\ index \subseteq Document!Segment /\ beside \subseteq Document!Segment
  /\ then \subseteq Document!Segment
  /\ timecode \in {"none", "colons", "dots", "other"}

\* Before the metadata are read, nothing is known of the timecode.
DocumentRunning ==
  /\ pc \in {"read", "route", "segments", "sound", "compose", "ask", "done"}
  /\ outcome \in {"none", "unread", "deduced", "refused", "failed", "posted", "skipped"}
  /\ provider = "red" /\ timecode = "none" =>
       pc = "read" \/ (pc = "done" /\ outcome = "unread")

\* What DocumentWhole says of the shapes, of any document.
Whole(d) ==
  LET own == {f \in d.seen : f.of = "take"} \cup d.container
      named == {d.video[k] : k \in 1 .. Len(d.video)}
  IN  /\ provider = "red" => named = own
      /\ provider = "red" => \A k \in 1 .. Len(d.video) : d.video[k].number = k
      /\ d.wav => d.sound
      /\ d.said \subseteq {"probe"}

\* The probe said everything that is usable; the segments are the take's among
\* what the storage knew then; what is about to be posted is whole, and so is
\* what was posted, once.
DocumentKept ==
  /\ DocumentTyped /\ DocumentRunning /\ mishaps \in 0 .. MaxMishaps
  /\ \A n \in Document!Asked : Document!Usable(n) => stored[n].by = "probe"
  /\ pc \in {"sound", "compose"} /\ provider = "red" /\ anchor > 0 =>
       beside = {f \in then \ {Document!Anchor} : f.of = "take"}
  /\ pc = "ask" => Whole(document)
  /\ shapes = << >> \/ (shapes = <<shapes[1]>> /\ Whole(shapes[1]))

\* The files of a take are finitely many, and a number names one of them.
LEMMA TakeNumbered ==
  ASSUME NEW T, NEW n \in Nat,
         \A f \in T : /\ f.of = "take" /\ f.number \in 0 .. n
                      /\ f = [of |-> f.of, number |-> f.number]
  PROVE  /\ IsFiniteSet(T) /\ Cardinality(T) \in Nat
         /\ \A f, g \in T : f.number = g.number => f = g
<1> DEFINE number == [f \in T |-> f.number]
<1>1. \A f, g \in T : f.number = g.number => f = g
  OBVIOUS
<1>2. number \in Injection(T, 0 .. n)
  <2>1. number \in [T -> 0 .. n]
    OBVIOUS
  <2>2. \A f, g \in T : f # g => number[f] # number[g]
    BY <1>1
  <2>3. QED
    BY <2>1, <2>2 DEF Injection, IsInjective
<1>3. IsFiniteSet(0 .. n)
  BY FS_Interval
<1>4. IsFiniteSet(T)
  BY <1>2, <1>3, FS_Injection
<1>5. QED
  BY <1>1, <1>4, FS_CardinalityType

\* What is composed is whole.
LEMMA ComposedIsWhole ==
  ASSUME DocumentKept, pc = "compose", Document!Composable,
         document' =
           [container |-> {Document!Anchor},
            video |-> IF provider = "red"
                      THEN [i \in 1 .. Document!Cardinality(Document!WholeTake) |->
                              CHOOSE f \in Document!WholeTake : f.number = i]
                      ELSE <<Document!Anchor>>,
            sound |-> heard \/ (provider = "braw" /\ Document!Usable("channels")),
            said |-> {stored[n].by : n \in {m \in Document!Asked : Document!Usable(m)}},
            seen |-> then, wav |-> heard],
         UNCHANGED provider
  PROVE  Whole(document)'
<1> DEFINE T == Document!WholeTake
           A == Document!Anchor
           count == Document!Cardinality(T)
<1>0. /\ document'.container = {A} /\ document'.seen = then
      /\ provider = "red" =>
           document'.video = [i \in 1 .. count |-> CHOOSE f \in T : f.number = i]
  OBVIOUS
<1>1. document'.said \subseteq {"probe"} /\ (document'.wav => document'.sound)
  BY DEF DocumentKept
<1>2. ASSUME provider = "red"
      PROVE  /\ {document'.video[k] : k \in 1 .. Len(document'.video)}
                  = {f \in document'.seen : f.of = "take"} \cup document'.container
             /\ \A k \in 1 .. Len(document'.video) : document'.video[k].number = k
  <2>1. /\ anchor > 0 /\ anchor \in 0 .. 2
        /\ {f.number : f \in T} = 1 .. count
    BY <1>2 DEF Document!Composable, Document!RedComposable, Document!Gapless,
                DocumentKept, DocumentTyped
  <2>2. T = {f \in then : f.of = "take"} \cup {A}
    BY <1>2, <2>1 DEF DocumentKept, Document!WholeTake, Document!Anchor
  <2>3. \A f \in T : /\ f.of = "take" /\ f.number \in 0 .. Last + 2
                     /\ f = [of |-> f.of, number |-> f.number]
    <3>1. A.of = "take" /\ A.number \in 0 .. Last + 2 /\ A = [of |-> A.of, number |-> A.number]
      BY <2>1, DocumentConstants DEF Document!Anchor
    <3>2. ASSUME NEW f \in Document!Segment
          PROVE  f.number \in 0 .. Last + 2 /\ f = [of |-> f.of, number |-> f.number]
      BY DocumentConstants DEF Document!Segment
    <3>3. then \subseteq Document!Segment
      BY DEF DocumentKept, DocumentTyped
    <3>4. \A f \in T : f = A \/ (f \in then /\ f.of = "take")
      BY <2>2
    <3>5. QED
      <4> HIDE DEF T, A
      <4>1. QED
        BY <3>1, <3>2, <3>3, <3>4
  <2> HIDE DEF T
  <2>4. count \in Nat /\ \A f, g \in T : f.number = g.number => f = g
    <3>1. Last + 2 \in Nat
      BY DocumentConstants
    <3>2. Cardinality(T) \in Nat /\ \A f, g \in T : f.number = g.number => f = g
      BY <2>3, <3>1, TakeNumbered
    <3>3. QED
      BY <3>2, SameCount
  <2> HIDE DEF count
  <2>5. document'.video = [i \in 1 .. count |-> CHOOSE f \in T : f.number = i]
    BY <1>0, <1>2
  <2>6. Len(document'.video) = count
    <3> DEFINE V == document'.video
               named(i) == CHOOSE f \in T : f.number = i
    <3>1. V = [i \in 1 .. count |-> named(i)] /\ count \in Nat
      BY <2>4, <2>5
    <3> HIDE DEF V, named
    <3>2. Len(V) = count
      BY <3>1
    <3>3. QED
      BY <3>2 DEF V
  <2>7. ASSUME NEW k \in 1 .. count
        PROVE  document'.video[k] \in T /\ document'.video[k].number = k
    <3>1. \E f \in T : f.number = k
      BY <2>1
    <3>2. document'.video[k] = CHOOSE f \in T : f.number = k
      BY <2>5
    <3>3. QED
      BY <3>1, <3>2
  <2>8. ASSUME NEW f \in T
        PROVE  \E k \in 1 .. count : document'.video[k] = f
    <3>1. f.number \in 1 .. count
      BY <2>1
    <3>2. document'.video[f.number] \in T /\ document'.video[f.number].number = f.number
      BY <3>1, <2>7
    <3>3. document'.video[f.number] = f
      BY <3>2, <2>4
    <3>4. QED
      BY <3>1, <3>3
  <2>10. {document'.video[k] : k \in 1 .. Len(document'.video)} = T
    <3>1. \A k \in 1 .. Len(document'.video) : document'.video[k] \in T
      BY <2>6, <2>7
    <3>2. \A f \in T : \E k \in 1 .. Len(document'.video) : document'.video[k] = f
      BY <2>6, <2>8
    <3>3. QED
      <4> DEFINE V == document'.video
      <4> HIDE DEF V
      <4>1. (\A k \in 1 .. Len(V) : V[k] \in T) /\ (\A f \in T : \E k \in 1 .. Len(V) : V[k] = f)
        BY <3>1, <3>2 DEF V
      <4>2. {V[k] : k \in 1 .. Len(V)} = T
        BY <4>1
      <4>3. QED
        BY <4>2 DEF V
  <2>11. QED
    BY <1>0, <2>2, <2>6, <2>7, <2>10
<1>3. QED
  BY <1>1, <1>2 DEF Whole

\* Every step of the scan and the import keeps the document whole.
LEMMA DocumentKeeps ==
  ASSUME DocumentKept, [Document!Next]_(Document!vars)
  PROVE  DocumentKept'
<1>0. /\ DocumentTyped /\ DocumentRunning
      /\ \A n \in Document!Asked : Document!Usable(n) => stored[n].by = "probe"
      /\ pc \in {"sound", "compose"} /\ provider = "red" /\ anchor > 0 =>
           beside = {f \in then \ {Document!Anchor} : f.of = "take"}
      /\ pc = "ask" => Whole(document)
      /\ shapes = << >> \/ (shapes = <<shapes[1]>> /\ Whole(shapes[1]))
  BY DEF DocumentKept
<1>m. ASSUME UNCHANGED mishaps \/ Document!Mishap
      PROVE  mishaps' \in 0 .. MaxMishaps
  BY <1>m, DocumentConstants DEF DocumentKept, Document!Mishap
<1>a. ASSUME UNCHANGED <<provider, anchor>>
      PROVE  Document!Anchor' = Document!Anchor /\ \A d : Whole(d)' = Whole(d)
  BY <1>a DEF Document!Anchor, Whole
<1>u. ASSUME UNCHANGED stored
      PROVE  \A n \in Document!Asked : Document!Usable(n)' => stored'[n].by = "probe"
  BY <1>0, <1>u DEF Document!Usable
<1>1. CASE Document!ReadFails
  <2>1. /\ UNCHANGED <<provider, anchor, index, stored, timecode, shapes>>
        /\ beside' \subseteq Document!Segment /\ then' \subseteq Document!Segment
        /\ UNCHANGED mishaps \/ Document!Mishap
    BY <1>1, <1>0
       DEF Document!ReadFails, Document!clip, Document!storage, Document!metadata,
           Document!found, DocumentTyped
  <2>2. DocumentTyped' /\ DocumentRunning'
    BY <1>1, <2>1, <1>0 DEF Document!ReadFails, Document!End, DocumentTyped, DocumentRunning
  <2>3. /\ pc' = "ask" => pc = "ask" /\ UNCHANGED document
        /\ pc' \in {"sound", "compose"} =>
             pc \in {"sound", "compose"} /\ UNCHANGED <<beside, then>>
    BY <1>1 DEF Document!ReadFails, Document!End, Document!found
  <2>4. QED
    BY <2>1, <2>2, <2>3, <1>0, <1>a, <1>m, <1>u DEF DocumentKept
<1>2. CASE Document!ReadRed
  <2>1. /\ UNCHANGED <<provider, anchor, index, beside, then, shapes, outcome, mishaps>>
        /\ pc' = "route" /\ timecode' \in {"colons", "dots", "other"}
        /\ \E v \in {"usable", "unusable"} :
             stored' = [stored EXCEPT !["picture"] = [by |-> "probe", value |-> v]]
    BY <1>2 DEF Document!ReadRed, Document!clip, Document!storage, Document!found
  <2>2. PICK v \in {"usable", "unusable"} :
          stored' = [stored EXCEPT !["picture"] = [by |-> "probe", value |-> v]]
    BY <2>1
  <2>3. stored' \in [Document!Asked -> [by : Document!By, value : Document!Values]]
    <3>1. [by |-> "probe", value |-> v] \in [by : Document!By, value : Document!Values]
      BY DEF Document!By, Document!Values
    <3>2. QED
      BY <2>2, <3>1, <1>0 DEF DocumentTyped
  <2>4. \A n \in Document!Asked : Document!Usable(n)' => stored'[n].by = "probe"
    BY <2>2, <1>0 DEF DocumentTyped, Document!Usable
  <2>5. DocumentTyped' /\ DocumentRunning'
    BY <2>1, <2>3, <1>0 DEF DocumentTyped, DocumentRunning
  <2>6. QED
    BY <2>1, <2>4, <2>5, <1>0, <1>a, <1>m DEF DocumentKept
<1>3. CASE Document!ReadBraw
  <2>1. /\ UNCHANGED <<provider, anchor, index, timecode, beside, then, shapes, mishaps>>
        /\ provider = "braw" /\ pc' \in {"route", "done"} /\ outcome' \in {outcome, "unread"}
        /\ \E probe \in [Document!Asked -> {"usable", "zero", "unusable"}] :
             stored' \in {stored, Document!Stated(probe)}
    BY <1>3
       DEF Document!ReadBraw, Document!End, Document!clip, Document!storage, Document!found
  <2>2. PICK probe \in [Document!Asked -> {"usable", "zero", "unusable"}] :
          stored' \in {stored, Document!Stated(probe)}
    BY <2>1
  <2>3. Document!Stated(probe) = [n \in Document!Asked |-> [by |-> "probe", value |-> probe[n]]]
    <3>1. Document!Put(Document!Nothing, probe, "probe")
            = [n \in Document!Asked |-> [by |-> "probe", value |-> probe[n]]]
      BY DEF Document!Put, Document!Nothing
    <3>2. QED
      BY <3>1 DEF Document!Stated, Document!Put
  <2>4. stored' \in [Document!Asked -> [by : Document!By, value : Document!Values]]
    <3>1. ASSUME NEW n \in Document!Asked
          PROVE  [by |-> "probe", value |-> probe[n]] \in [by : Document!By, value : Document!Values]
      BY DEF Document!By, Document!Values
    <3>2. QED
      BY <2>2, <2>3, <3>1, <1>0 DEF DocumentTyped
  <2>5. \A n \in Document!Asked : Document!Usable(n)' => stored'[n].by = "probe"
    <3>1. CASE stored' = stored
      BY <3>1, <1>u
    <3>2. CASE stored' = Document!Stated(probe)
      BY <3>2, <2>3
    <3>3. QED
      BY <3>1, <3>2, <2>2
  <2>6. DocumentTyped' /\ DocumentRunning'
    BY <2>1, <2>4, <1>0 DEF DocumentTyped, DocumentRunning
  <2>7. QED
    BY <2>1, <2>5, <2>6, <1>0, <1>a, <1>m DEF DocumentKept
<1>4. CASE Document!Route
  <2>0. Document!YieldsVideo \in {"no", "yes", "unknown"} /\ pc = "route"
    BY <1>4, <1>0 DEF Document!Route, Document!YieldsVideo, DocumentTyped, DocumentRunning
  <2>1. /\ UNCHANGED <<provider, anchor, index, stored, timecode, shapes, beside, then>>
        /\ UNCHANGED mishaps
    BY <1>4
       DEF Document!Route, Document!clip, Document!storage, Document!metadata,
           Document!found
  <2>2. \/ pc' = "segments" /\ outcome' = outcome
        \/ pc' = "done" /\ outcome' \in {"deduced", "refused"}
    BY <1>4, <2>0 DEF Document!Route, Document!End
  <2>3. DocumentTyped' /\ DocumentRunning'
    BY <2>0, <2>1, <2>2, <1>0 DEF DocumentTyped, DocumentRunning
  <2>4. QED
    BY <2>1, <2>2, <2>3, <1>0, <1>a, <1>m, <1>u DEF DocumentKept
<1>5. CASE Document!FindSegments
  <2>1. /\ UNCHANGED <<provider, anchor, index, stored, timecode, shapes, outcome, mishaps>>
        /\ pc = "segments" /\ then' = index /\ pc' = "sound" /\ beside' \subseteq index
        /\ provider = "red" /\ anchor > 0 =>
             beside' = {f \in index \ {Document!Anchor} : f.of = "take"}
    BY <1>5 DEF Document!FindSegments, Document!Selects, Document!clip, Document!storage,
                Document!metadata
  <2>2. DocumentTyped' /\ DocumentRunning'
    BY <2>1, <1>0 DEF DocumentTyped, DocumentRunning
  <2>3. QED
    BY <2>1, <2>2, <1>0, <1>a, <1>m, <1>u DEF DocumentKept
<1>6. CASE Document!FindSound
  <2>1. /\ UNCHANGED <<provider, anchor, index, stored, timecode, shapes>>
        /\ beside' \subseteq Document!Segment /\ then' \subseteq Document!Segment
        /\ UNCHANGED mishaps \/ Document!Mishap
    BY <1>6, <1>0
       DEF Document!FindSound, Document!clip, Document!storage, Document!metadata,
           Document!found, DocumentTyped
  <2>2. DocumentTyped' /\ DocumentRunning'
    BY <1>6, <2>1, <1>0 DEF Document!FindSound, DocumentTyped, DocumentRunning
  <2>3. /\ pc' = "ask" => pc = "ask" /\ UNCHANGED document
        /\ pc' \in {"sound", "compose"} =>
             pc \in {"sound", "compose"} /\ UNCHANGED <<beside, then>>
    BY <1>6 DEF Document!FindSound, Document!found
  <2>4. QED
    BY <2>1, <2>2, <2>3, <1>0, <1>a, <1>m, <1>u DEF DocumentKept
<1>7. CASE Document!QueryFails
  <2>1. /\ UNCHANGED <<provider, anchor, index, stored, timecode, shapes>>
        /\ beside' \subseteq Document!Segment /\ then' \subseteq Document!Segment
        /\ UNCHANGED mishaps \/ Document!Mishap
    BY <1>7, <1>0
       DEF Document!QueryFails, Document!clip, Document!storage, Document!metadata,
           Document!found, DocumentTyped
  <2>2. DocumentTyped' /\ DocumentRunning'
    BY <1>7, <2>1, <1>0
       DEF Document!QueryFails, Document!End, DocumentTyped, DocumentRunning
  <2>3. /\ pc' = "ask" => pc = "ask" /\ UNCHANGED document
        /\ pc' \in {"sound", "compose"} =>
             pc \in {"sound", "compose"} /\ UNCHANGED <<beside, then>>
    BY <1>7 DEF Document!QueryFails, Document!End, Document!found
  <2>4. QED
    BY <2>1, <2>2, <2>3, <1>0, <1>a, <1>m, <1>u DEF DocumentKept
<1>8. CASE Document!Compose
  <2>1. /\ UNCHANGED <<provider, anchor, index, stored, timecode, beside, then, shapes, mishaps>>
        /\ pc = "compose" /\ pc' \in {"ask", "done"} /\ outcome' \in {outcome, "refused"}
    BY <1>8 DEF Document!Compose, Document!End, Document!clip, Document!storage,
                Document!metadata, Document!found
  <2>2. pc' = "ask" => Whole(document)'
    BY <1>8, <2>1, ComposedIsWhole DEF Document!Compose, Document!End
  <2>3. DocumentTyped' /\ DocumentRunning'
    BY <2>1, <1>0 DEF DocumentTyped, DocumentRunning
  <2>5. QED
    BY <2>1, <2>2, <2>3, <1>0, <1>a, <1>m, <1>u DEF DocumentKept
<1>9. CASE Document!SoundUnreadable
  <2>1. /\ UNCHANGED <<provider, anchor, index, stored, timecode, shapes>>
        /\ beside' \subseteq Document!Segment /\ then' \subseteq Document!Segment
        /\ UNCHANGED mishaps \/ Document!Mishap
    BY <1>9, <1>0
       DEF Document!SoundUnreadable, Document!clip, Document!storage, Document!metadata,
           Document!found, DocumentTyped
  <2>2. DocumentTyped' /\ DocumentRunning'
    BY <1>9, <2>1, <1>0
       DEF Document!SoundUnreadable, Document!End, DocumentTyped, DocumentRunning
  <2>3. /\ pc' = "ask" => pc = "ask" /\ UNCHANGED document
        /\ pc' \in {"sound", "compose"} =>
             pc \in {"sound", "compose"} /\ UNCHANGED <<beside, then>>
    BY <1>9 DEF Document!SoundUnreadable, Document!End, Document!found
  <2>4. QED
    BY <2>1, <2>2, <2>3, <1>0, <1>a, <1>m, <1>u DEF DocumentKept
<1>10. CASE Document!Post
  <2>1. /\ UNCHANGED <<provider, anchor, index, stored, timecode, beside, then>>
        /\ pc = "ask" /\ pc' = "done" /\ outcome' \in {"posted", "failed"}
        /\ shapes' = Append(<< >>, document)
        /\ UNCHANGED mishaps \/ Document!Mishap
    BY <1>10
       DEF Document!Post, Document!Absent, Document!End, Document!clip, Document!storage,
           Document!metadata, Document!found
  <2>2. shapes' = <<shapes'[1]>> /\ Whole(shapes'[1])
    BY <2>1, <1>0
  <2>3. DocumentTyped' /\ DocumentRunning'
    BY <2>1, <1>0 DEF DocumentTyped, DocumentRunning
  <2>4. QED
    BY <2>1, <2>2, <2>3, <1>0, <1>a, <1>m, <1>u DEF DocumentKept
<1>11. CASE Document!PostRefused
  <2>1. /\ UNCHANGED <<provider, anchor, index, stored, timecode, shapes>>
        /\ beside' \subseteq Document!Segment /\ then' \subseteq Document!Segment
        /\ UNCHANGED mishaps \/ Document!Mishap
    BY <1>11, <1>0
       DEF Document!PostRefused, Document!clip, Document!storage, Document!metadata,
           Document!found, DocumentTyped
  <2>2. DocumentTyped' /\ DocumentRunning'
    BY <1>11, <2>1, <1>0
       DEF Document!PostRefused, Document!End, DocumentTyped, DocumentRunning
  <2>3. /\ pc' = "ask" => pc = "ask" /\ UNCHANGED document
        /\ pc' \in {"sound", "compose"} =>
             pc \in {"sound", "compose"} /\ UNCHANGED <<beside, then>>
    BY <1>11 DEF Document!PostRefused, Document!End, Document!found
  <2>4. QED
    BY <2>1, <2>2, <2>3, <1>0, <1>a, <1>m, <1>u DEF DocumentKept
<1>12. CASE Document!Skip
  <2>1. /\ UNCHANGED <<provider, anchor, index, stored, timecode, shapes>>
        /\ beside' \subseteq Document!Segment /\ then' \subseteq Document!Segment
        /\ UNCHANGED mishaps \/ Document!Mishap
    BY <1>12, <1>0
       DEF Document!Skip, Document!clip, Document!storage, Document!metadata,
           Document!found, DocumentTyped
  <2>2. DocumentTyped' /\ DocumentRunning'
    BY <1>12, <2>1, <1>0 DEF Document!Skip, Document!End, DocumentTyped, DocumentRunning
  <2>3. /\ pc' = "ask" => pc = "ask" /\ UNCHANGED document
        /\ pc' \in {"sound", "compose"} =>
             pc \in {"sound", "compose"} /\ UNCHANGED <<beside, then>>
    BY <1>12 DEF Document!Skip, Document!End, Document!found
  <2>4. QED
    BY <2>1, <2>2, <2>3, <1>0, <1>a, <1>m, <1>u DEF DocumentKept
<1>13. CASE Document!Again
  <2>1. /\ UNCHANGED <<provider, anchor, index, stored, timecode, shapes>>
        /\ beside' \subseteq Document!Segment /\ then' \subseteq Document!Segment
        /\ UNCHANGED mishaps \/ Document!Mishap
    BY <1>13, <1>0
       DEF Document!Again, Document!clip, Document!storage, Document!metadata,
           Document!found, DocumentTyped
  <2>2. DocumentTyped' /\ DocumentRunning'
    BY <1>13, <2>1, <1>0 DEF Document!Again, DocumentTyped, DocumentRunning
  <2>3. /\ pc' = "ask" => pc = "ask" /\ UNCHANGED document
        /\ pc' \in {"sound", "compose"} =>
             pc \in {"sound", "compose"} /\ UNCHANGED <<beside, then>>
    BY <1>13 DEF Document!Again, Document!found
  <2>4. QED
    BY <2>1, <2>2, <2>3, <1>0, <1>a, <1>m, <1>u DEF DocumentKept
<1>14. ASSUME NEW f \in Document!Segment, Document!IndexMoves(f)
      PROVE  DocumentKept'
  <2>1. /\ UNCHANGED <<provider, anchor, stored, timecode, beside, then, document, shapes, pc, outcome>>
        /\ index' \subseteq Document!Segment /\ Document!Mishap
    BY <1>14, <1>0
       DEF Document!IndexMoves, Document!clip, Document!metadata, Document!found,
           DocumentTyped
  <2>2. DocumentTyped' /\ DocumentRunning'
    BY <2>1, <1>0 DEF DocumentTyped, DocumentRunning
  <2>3. QED
    BY <2>1, <2>2, <1>0, <1>a, <1>m, <1>u DEF DocumentKept
<1>15. CASE UNCHANGED Document!vars
  <2>1. UNCHANGED <<provider, anchor, index, stored, timecode, beside, then, document, shapes, pc, outcome, mishaps>>
    BY <1>15
       DEF Document!vars, Document!clip, Document!storage, Document!metadata, Document!found
  <2>2. DocumentTyped' /\ DocumentRunning'
    BY <2>1, <1>0 DEF DocumentTyped, DocumentRunning
  <2>3. QED
    BY <2>1, <2>2, <1>0, <1>a, <1>m, <1>u DEF DocumentKept
<1>16. QED
  BY <1>1, <1>2, <1>3, <1>4, <1>5, <1>6, <1>7, <1>8, <1>9, <1>10, <1>11, <1>12, <1>13,
     <1>14, <1>15
     DEF Document!Next

\* A clip that was not read yet has no document.
LEMMA DocumentStarts ==
  ASSUME Document!Init
  PROVE  DocumentKept
<1>1. stored \in [Document!Asked -> [by : Document!By, value : Document!Values]]
  BY DEF Document!Init, Document!Nothing, Document!By, Document!Values
<1>2. DocumentTyped /\ DocumentRunning
  BY <1>1 DEF Document!Init, DocumentTyped, DocumentRunning
<1>3. \A n \in Document!Asked : ~Document!Usable(n)
  BY DEF Document!Init, Document!Nothing, Document!Usable
<1>4. mishaps \in 0 .. MaxMishaps
  BY DocumentConstants DEF Document!Init
<1>5. QED
  BY <1>2, <1>3, <1>4 DEF Document!Init, DocumentKept

\* While the document is the subject, it is whole.
LEMMA DocumentAlways == Spec => [](subject = "document" => DocumentKept)
<1>1. Init => (subject = "document" => DocumentKept)
  BY SubjectStarts, DocumentStarts
<1>2. (subject = "document" => DocumentKept) /\ [Next]_vars
        => (subject = "document" => DocumentKept)'
  BY SubjectSteps, DocumentKeeps
<1>3. QED
  BY <1>1, <1>2, PTL DEF Spec

\* The shape posted for an item is its only one, states the whole take and
\* only what was measured (buildShapeDocument, _post_shape_document).
THEOREM PostedShapeIsWhole == Spec => []DocumentWhole
<1>1. (subject = "document" => DocumentKept) => DocumentWhole
  <2>1. SUFFICES ASSUME DocumentKept
                 PROVE  Document!DocumentWhole
    BY DEF DocumentWhole
  <2>2. CASE shapes = << >>
    BY <2>2 DEF Document!DocumentWhole
  <2>3. CASE shapes = <<shapes[1]>> /\ Whole(shapes[1])
    <3>1. Len(shapes) = 1 /\ \A i \in 1 .. Len(shapes) : Whole(shapes[i])
      BY <2>3
    <3>2. QED
      BY <3>1 DEF Document!DocumentWhole, Whole
  <2>4. QED
    BY <2>1, <2>2, <2>3 DEF DocumentKept
<1>2. QED
  BY <1>1, DocumentAlways, PTL

=============================================================================
