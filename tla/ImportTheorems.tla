-------------------------- MODULE ImportTheorems --------------------------
(***************************************************************************)
(* Proofs about ComponentImport: its type invariant, the order in which    *)
(* imports are requested, that a promoted shape is whole, and that the     *)
(* import refines ImportPromise.                                           *)
(***************************************************************************)
EXTENDS ComponentImport, FiniteSetTheorems, TLAPS

-----------------------------------------------------------------------------
(* Type correctness.                                                       *)

\* A job's number is within the bound.
LEMMA JobIdsTyped == ItemTypeOK => JobIds \subseteq 1..MaxJobs
  BY ItemAssumption DEF ItemTypeOK, JobIds

\* The declaration counts a part of the extras.
LEMMA CountTyped ==
  ASSUME NEW S \in SUBSET Extras
  PROVE  Cardinality(S) \in 0..Cardinality(Extras)
<1>1. IsFiniteSet(Extras)
  BY ItemAssumption
<1>2. IsFiniteSet(S) /\ Cardinality(S) <= Cardinality(Extras)
  BY <1>1, FS_Subset
<1> QED
  BY <1>1, <1>2, FS_CardinalityType

\* Forgetting a run's memory leaves it well typed.
LEMMA ForgetTyped ==
  ASSUME Forget
  PROVE  /\ sees' \in SUBSET Extras
         /\ held' \in SUBSET Files
         /\ flying' \in [Files -> SUBSET (1..MaxJobs)]
         /\ todo' \in SUBSET Extras
         /\ missed' \in BOOLEAN
         /\ pending' \in SUBSET (1..MaxJobs)
         /\ reread' \in BOOLEAN
         /\ missing' \in SUBSET Files
         /\ looks' \in 1..Confirmations
         /\ mine' \in Nat
<1>1. flying' \in [Files -> SUBSET (1..MaxJobs)]
  BY DEF Forget, NothingFlies
<1>2. looks' \in 1..Confirmations
  BY ImportAssumption DEF Forget
<1> QED
  BY <1>1, <1>2 DEF Forget, NoJob

\* A step that leaves the item alone leaves it well typed.
LEMMA ItemUnchanged == ItemTypeOK /\ UNCHANGED itemVars => ItemTypeOK'
  BY DEF ItemTypeOK, itemVars

\* A run that ends, whatever its result, with the item and the row as they are.
LEMMA EndTyped ==
  ASSUME TypeOK, NEW r \in Outcomes, End(r), UNCHANGED <<itemVars, row>>,
         mishaps' \in 0..MaxMishaps
  PROVE  TypeOK'
<1>1. ItemTypeOK'
  BY ItemUnchanged DEF TypeOK
<1>2. Forget /\ pc' = "idle" /\ outcome' = r
  BY DEF End
<1> QED
  BY <1>1, <1>2, ForgetTyped DEF TypeOK, PCs, Outcomes

\* Mishaps stay within their bound.
LEMMA MishapTyped == TypeOK /\ Mishap => mishaps' \in 0..MaxMishaps
  BY ImportAssumption DEF TypeOK, Mishap

\* The request steps keep the item well typed.
LEMMA RequestTyped ==
  ASSUME ItemTypeOK, NEW f \in Files, Requested(f)
  PROVE  /\ ItemTypeOK'
         /\ NewJob \in 1..MaxJobs
         /\ NewJob \in Nat
<1>1. [file |-> f, status |-> "running"] \in Job
  BY DEF Job, ComingStatuses
<1>2. jobs' = Append(jobs, [file |-> f, status |-> "running"]) /\ Len(jobs) + 1 <= MaxJobs
  BY DEF Requested, StartJob, Accepts, NewJob
<1>3. jobs' \in Seq(Job) /\ Len(jobs') = Len(jobs) + 1 /\ Len(jobs) \in Nat
  BY <1>1, <1>2 DEF ItemTypeOK
<1> QED
  BY <1>2, <1>3, ItemAssumption DEF Requested, ItemTypeOK, NewJob

\* Recording a job keeps the types.
LEMMA RecordTyped ==
  ASSUME TypeOK, ItemTypeOK', NEW j \in Nat, Record(j), UNCHANGED mishaps
  PROVE  TypeOK'
  BY DEF TypeOK, Record, PCs

\* The anchor's request keeps the types, whatever it is answered.
LEMMA RequestAnchorTyped ==
  ASSUME TypeOK, RequestAnchor
  PROVE  TypeOK'
<1>1. ItemTypeOK /\ Anchor \in Files
  BY DEF TypeOK, Files
<1>2. CASE Requested(Anchor) /\ Record(NewJob) /\ UNCHANGED mishaps
  <2>1. ItemTypeOK' /\ NewJob \in Nat
    BY <1>1, <1>2, RequestTyped
  <2> QED
    BY <1>2, <2>1, RecordTyped
<1>3. CASE Accepts(Anchor) /\ Unanswered /\ End("failed") /\ UNCHANGED row
  BY <1>3, MishapTyped, EndTyped DEF Unanswered, Outcomes
<1>4. CASE Refused(Anchor)
  BY <1>4, EndTyped DEF Refused, Outcomes, TypeOK
<1> QED
  BY <1>2, <1>3, <1>4 DEF RequestAnchor

\* The steps of a job.
LEMMA JobStatusTyped ==
  ASSUME ItemTypeOK, NEW j \in JobIds, NEW s \in ComingStatuses \cup TerminalStatuses,
         jobs' = [jobs EXCEPT ![j].status = s]
  PROVE  jobs' \in Seq(Job) /\ Len(jobs') = Len(jobs)
<1>1. jobs \in Seq(Job) /\ j \in 1..Len(jobs)
  BY DEF ItemTypeOK, JobIds
<1>2. jobs[j] \in Job
  BY <1>1
<1>3. [jobs[j] EXCEPT !.status = s] \in Job
  BY <1>2 DEF Job
<1> QED
  BY <1>1, <1>3

\* A job's step keeps the item well typed.
LEMMA JobStepTyped ==
  ASSUME TypeOK, NEW j \in JobIds,
         JobAttaches(j) \/ JobEnds(j) \/ JobFails(j) \/ JobMissesShape(j)
  PROVE  ItemTypeOK'
<1>1. ItemTypeOK /\ jobs \in Seq(Job) /\ j \in 1..Len(jobs) /\ jobs[j] \in Job
  BY DEF TypeOK, ItemTypeOK, JobIds
<1>2. jobs[j].file \in Files
  BY <1>1 DEF Job
<1>3. jobs' \in Seq(Job) /\ Len(jobs') = Len(jobs)
  BY <1>1, JobStatusTyped
     DEF JobAttaches, JobEnds, JobFails, JobMissesShape, Fail, ComingStatuses,
         TerminalStatuses
<1>4. CASE JobAttaches(j)
  <2>1. Attach(jobs[j].file)
    BY <1>4 DEF JobAttaches
  <2>2. 0 \in 0..Cardinality(Extras)
    BY ItemAssumption, FS_CardinalityType
  <2>3. [landed EXCEPT ![jobs[j].file] = @ + 1] \in [Files -> Nat]
    BY <1>1, <1>2 DEF ItemTypeOK
  <2>a. [g \in Files |-> 0] \in [Files -> Nat]
    OBVIOUS
  <2>4. open' \in BOOLEAN /\ declared' \in 0..Cardinality(Extras)
    BY <1>1, <2>1, <2>2 DEF Attach, ItemTypeOK
  <2>5. landed' \in [Files -> Nat] /\ real' \subseteq Files
    BY <1>1, <2>1, <2>3, <2>a DEF Attach, ItemTypeOK
  <2> QED
    BY <1>1, <1>3, <2>4, <2>5 DEF ItemTypeOK
<1>5. CASE JobEnds(j) \/ JobFails(j) \/ JobMissesShape(j)
  BY <1>1, <1>3, <1>5 DEF ItemTypeOK, JobEnds, JobFails, JobMissesShape, Fail
<1> QED
  BY <1>4, <1>5

\* The initial states are well typed (create_item on a new clip).
THEOREM TypeStarts == Init => TypeOK
<1> SUFFICES ASSUME Init PROVE TypeOK
  OBVIOUS
<1>1. 0 \in 0..Cardinality(Extras)
  BY ItemAssumption, FS_CardinalityType
<1>2. ItemTypeOK
  <2>1. [f \in Files |-> 0] \in [Files -> Nat] /\ << >> \in Seq(Job) /\ Len(<< >>) = 0
    OBVIOUS
  <2> QED
    <3>1. open \in BOOLEAN /\ declared \in 0..Cardinality(Extras) /\ real \subseteq Files
      BY <1>1 DEF Init, ItemInit
    <3>2. landed \in [Files -> Nat]
      BY <2>1 DEF Init, ItemInit
    <3>3. jobs \in Seq(Job) /\ Len(jobs) <= MaxJobs
      BY <2>1, ItemAssumption DEF Init, ItemInit
    <3> QED
      BY <3>1, <3>2, <3>3 DEF ItemTypeOK
<1>3. NothingFlies \in [Files -> SUBSET (1..MaxJobs)]
  BY DEF NothingFlies
<1>4. Confirmations \in 1..Confirmations
  BY ImportAssumption
<1> QED
  <2>1. row \in Row /\ pc \in PCs /\ outcome \in Outcomes /\ mishaps \in 0..MaxMishaps
    BY ImportAssumption DEF Init, Row, PCs, NoJob, Outcomes
  <2>2. /\ sees \in SUBSET Extras /\ held \in SUBSET Files /\ todo \in SUBSET Extras
        /\ missed \in BOOLEAN /\ pending \in SUBSET (1..MaxJobs) /\ reread \in BOOLEAN
        /\ missing \in SUBSET Files /\ mine \in Nat
    BY DEF Init, NoJob
  <2>3. flying \in [Files -> SUBSET (1..MaxJobs)] /\ looks \in 1..Confirmations
    BY <1>3, <1>4 DEF Init
  <2> QED
    BY <1>2, <2>1, <2>2, <2>3 DEF TypeOK

\* One step of the first half of a run: up to the import path.
LEMMA OpeningTyped ==
  ASSUME TypeOK,
         StartRun \/ CreateItem \/ Examine \/ CreateShape \/ ReuseShape
           \/ RefuseShape \/ ListJobs
  PROVE  TypeOK'
<1> USE DEF PCs, Outcomes
<1>1. CASE StartRun
  BY <1>1, ItemUnchanged, ImportAssumption DEF StartRun, TypeOK
<1>2. CASE CreateItem
  BY <1>2, ItemUnchanged DEF CreateItem, TypeOK, Row, runVars
<1>3. CASE Examine
  <2>1. CASE End("skipped") /\ UNCHANGED <<itemVars, row, mishaps>>
    BY <2>1, EndTyped DEF TypeOK
  <2>2. CASE pc' = "resolve" /\ UNCHANGED <<itemVars, row, runVars, outcome, mishaps>>
    BY <2>2, ItemUnchanged DEF TypeOK, runVars
  <2> QED
    BY <1>3, <2>1, <2>2 DEF Examine
<1>4. CASE CreateShape
  <2>1. 0 \in 0..Cardinality(Extras) /\ [f \in Files |-> 0] \in [Files -> Nat]
    BY ItemAssumption, FS_CardinalityType
  <2>2. ItemTypeOK'
    BY <1>4, <2>1 DEF CreateShape, OpenPlaceholder, TypeOK, ItemTypeOK
  <2> QED
    BY <1>4, <2>2 DEF CreateShape, ImportPath, TypeOK, runVars
<1>5. CASE ReuseShape
  <2>1. Attached \in SUBSET Files
    BY DEF Attached
  <2> QED
    BY <1>5, <2>1, ItemUnchanged DEF ReuseShape, TypeOK
<1>6. CASE RefuseShape
  BY <1>6, EndTyped DEF RefuseShape, Fails, TypeOK
<1>7. CASE ListJobs
  <2>1. flying' \in [Files -> SUBSET (1..MaxJobs)]
    BY <1>7, JobIdsTyped DEF ListJobs, TypeOK
  <2> QED
    BY <1>7, <2>1, ItemUnchanged DEF ListJobs, ImportPath, TypeOK
<1> QED
  BY <1>1, <1>2, <1>3, <1>4, <1>5, <1>6, <1>7

\* The import paths, up to the wait.
LEMMA ImportingTyped ==
  ASSUME TypeOK,
         \/ SingleInFlight \/ ImportSingle \/ Undecided \/ Declare \/ DeclareRefused
         \/ \E e \in todo :
              PassOver(e) \/ ImportExtra(e) \/ ExtraUnanswered(e) \/ ExtraRefused(e)
         \/ LeaveIncomplete \/ StartWaiting
  PROVE  TypeOK'
<1> USE DEF PCs, Outcomes
<1>0. Anchor \in Files /\ flying[Anchor] \subseteq 1..MaxJobs
  BY DEF Files, TypeOK
<1>1. CASE SingleInFlight
  BY <1>0, <1>1, ItemUnchanged, RecordTyped DEF SingleInFlight, TypeOK
<1>2. CASE ImportSingle
  BY <1>2, RequestAnchorTyped DEF ImportSingle
<1>3. CASE Undecided
  BY <1>3, MishapTyped, EndTyped DEF Undecided
<1>4. CASE Declare
  <2>1. declared' \in 0..Cardinality(Extras)
    BY <1>4, CountTyped DEF Declare, TypeOK, ItemTypeOK
  <2>2. ItemTypeOK'
    BY <1>4, <2>1 DEF Declare, TypeOK, ItemTypeOK
  <2> QED
    BY <1>4, <2>2 DEF Declare, TypeOK
<1>5. CASE DeclareRefused
  BY <1>5, EndTyped DEF DeclareRefused, TypeOK
<1>6. ASSUME NEW e \in todo,
             PassOver(e) \/ ImportExtra(e) \/ ExtraUnanswered(e) \/ ExtraRefused(e)
      PROVE  TypeOK'
  <2>0. e \in Files /\ flying[e] \subseteq 1..MaxJobs
    BY DEF Files, TypeOK
  <2>1. CASE PassOver(e)
    BY <2>0, <2>1, ItemUnchanged DEF PassOver, TypeOK
  <2>2. CASE ImportExtra(e)
    <3>1. ItemTypeOK' /\ NewJob \in 1..MaxJobs
      BY <2>0, <2>2, RequestTyped DEF ImportExtra, TypeOK
    <3> QED
      BY <2>2, <3>1 DEF ImportExtra, TypeOK
  <2>3. CASE ExtraUnanswered(e)
    <3>1. ItemTypeOK' /\ mishaps' \in 0..MaxMishaps
      BY <2>3, ItemUnchanged, MishapTyped DEF ExtraUnanswered, Unanswered, TypeOK
    <3> QED
      BY <2>3, <3>1 DEF ExtraUnanswered, TypeOK
  <2>4. CASE ExtraRefused(e)
    BY <2>4, EndTyped DEF ExtraRefused, Refused, TypeOK
  <2> QED
    BY <1>6, <2>1, <2>2, <2>3, <2>4
<1>7. CASE LeaveIncomplete
  BY <1>7, EndTyped DEF LeaveIncomplete, Fails, TypeOK
<1>8. CASE StartWaiting
  BY <1>0, <1>8, ItemUnchanged DEF StartWaiting, TypeOK
<1> QED
  BY <1>1, <1>2, <1>3, <1>4, <1>5, <1>6, <1>7, <1>8

\* The wait, the anchor and the end of a run.
LEMMA ClosingTyped ==
  ASSUME TypeOK,
         \/ Poll \/ Look \/ AllLanded \/ Confirm \/ NeverLanded \/ WaitOn \/ Expire
         \/ ImportAnchor \/ RecordPromoted \/ StillOpen \/ Persist \/ Die
  PROVE  TypeOK'
<1> USE DEF PCs, Outcomes
<1>0. Anchor \in Files /\ flying[Anchor] \subseteq 1..MaxJobs
  BY DEF Files, TypeOK
<1>1. CASE Poll
  BY <1>1, ItemUnchanged DEF Poll, TypeOK
<1>2. CASE Look
  <2>1. missing' \in SUBSET Files
    BY <1>2 DEF Look, Awaited, Expected, TypeOK, Files
  <2> QED
    BY <1>2, <2>1, ItemUnchanged DEF Look, TypeOK
<1>3. CASE AllLanded
  BY <1>3, ItemUnchanged DEF AllLanded, TypeOK, runVars
<1>4. CASE Confirm
  <2>1. looks' \in 1..Confirmations
    BY <1>4, ImportAssumption DEF Confirm, TypeOK
  <2> QED
    BY <1>4, <2>1, ItemUnchanged DEF Confirm, TypeOK
<1>5. CASE NeverLanded
  BY <1>5, EndTyped DEF NeverLanded, Fails, TypeOK
<1>6. CASE WaitOn
  BY <1>6, ItemUnchanged DEF WaitOn, TypeOK, runVars
<1>7. CASE Expire
  BY <1>7, EndTyped DEF Expire, Fails, TypeOK
<1>8. CASE ImportAnchor
  BY <1>8, RequestAnchorTyped DEF ImportAnchor
<1>9. CASE RecordPromoted
  BY <1>0, <1>9, ItemUnchanged, RecordTyped DEF RecordPromoted, TypeOK
<1>10. CASE StillOpen
  BY <1>10, EndTyped DEF StillOpen, Fails, TypeOK
<1>11. CASE Persist
  <2>1. ItemTypeOK' /\ row' \in Row
    BY <1>11, ItemUnchanged DEF Persist, TypeOK, Row
  <2>2. Forget /\ pc' = "idle" /\ outcome' = "ingested" /\ mishaps' = mishaps
    BY <1>11 DEF Persist, End
  <2> QED
    BY <2>1, <2>2, ForgetTyped DEF TypeOK
<1>12. CASE Die
  BY <1>12, MishapTyped, EndTyped DEF Die
<1> QED
  BY <1>1, <1>2, <1>3, <1>4, <1>5, <1>6, <1>7, <1>8, <1>9, <1>10, <1>11, <1>12

\* A job's step, good or bad, keeps the types.
LEMMA JobTyped ==
  ASSUME TypeOK, NEW j \in JobIds, JobStep(j) \/ JobGoesWrong(j)
  PROVE  TypeOK'
<1>1. ItemTypeOK' /\ mishaps' \in 0..MaxMishaps
  BY JobStepTyped, MishapTyped DEF JobStep, JobGoesWrong, TypeOK
<1> QED
  BY <1>1 DEF JobStep, JobGoesWrong, TypeOK, runVars

\* Every step of a run and of a job keeps the types (ingest, import_file).
THEOREM TypeKept == TypeOK /\ [Next]_vars => TypeOK'
<1> SUFFICES ASSUME TypeOK, [Next]_vars PROVE TypeOK'
  OBVIOUS
<1>1. CASE Next
  BY <1>1, OpeningTyped, ImportingTyped, ClosingTyped, JobTyped DEF Next, RunStep
<1>2. CASE UNCHANGED vars
  BY <1>2, ItemUnchanged DEF vars, runVars, TypeOK
<1> QED
  BY <1>1, <1>2

\* Every variable keeps its type: a run never counts its looks below one,
\* and no declaration exceeds the clip's extras.
THEOREM ImportTypeCorrect == Spec => []TypeOK
  BY TypeStarts, TypeKept, PTL DEF Spec

-----------------------------------------------------------------------------
(* In which order the imports are requested, and what the order guarantees *)
(* of the promoted shape.                                                  *)

-----------------------------------------------------------------------------
(* What the steps do to the jobs and to the shape.                         *)

\* The steps that request an import of f.
RequestStep(f) ==
  \/ f = Anchor /\ (ImportSingle \/ ImportAnchor)
  \/ f \in todo /\ ImportExtra(f)

\* A step of a job leaves the run alone, adds no job, lets none come again;
\* what is attached stays on a placeholder that stays open.
LEMMA JobMoves ==
  ASSUME TypeOK, NEW j \in JobIds, JobStep(j) \/ JobGoesWrong(j)
  PROVE  /\ UNCHANGED <<row, pc, runVars, outcome>>
         /\ JobIds' = JobIds
         /\ \A i \in JobIds : jobs'[i].file = jobs[i].file
         /\ \A f \in Files : Coming(f)' \subseteq Coming(f)
         /\ open' => open /\ Attached \subseteq Attached'
         /\ real \subseteq real'
         /\ open /\ ~open' => real' # {}
<1>1. jobs \in Seq(Job) /\ j \in 1..Len(jobs) /\ jobs[j] \in Job /\ landed \in [Files -> Nat]
  BY DEF TypeOK, ItemTypeOK, JobIds
<1>2. PICK s \in {"attached", "landed", "closing", "failed"} :
        /\ jobs' = [jobs EXCEPT ![j].status = s]
        /\ s = "attached" => jobs[j].status = "running"
  BY DEF JobStep, JobGoesWrong, JobAttaches, JobEnds, JobFails, JobMissesShape, Fail
<1>3. JobIds' = JobIds /\ \A i \in JobIds : jobs'[i].file = jobs[i].file
  BY <1>1, <1>2 DEF JobIds, Job
<1>4. ASSUME NEW f \in Files PROVE Coming(f)' \subseteq Coming(f)
  <2>1. \A i \in JobIds : i # j => jobs'[i] = jobs[i]
    BY <1>1, <1>2 DEF JobIds
  <2>2. jobs'[j].status = s /\ jobs'[j].file = jobs[j].file
    BY <1>1, <1>2 DEF Job
  <2>3. Stopped(j) => Stopped(j)'
    BY <1>2, <2>2 DEF Stopped, TerminalStatuses
  <2>4. \A i \in JobIds : i # j => (Stopped(i)' <=> Stopped(i))
    BY <2>1 DEF Stopped
  <2> QED
    BY <1>3, <2>3, <2>4 DEF Coming
<1>5. CASE JobAttaches(j)
  <2>1. jobs[j].file \in Files /\ Attach(jobs[j].file) /\ open
    BY <1>1, <1>5 DEF JobAttaches, Job
  <2>2. real \subseteq real'
    BY <2>1 DEF Attach
  <2>5. open /\ ~open' => real' # {}
    <3>1. SUFFICES ASSUME open, ~open' PROVE jobs[j].file \in real'
      OBVIOUS
    <3>2. [landed EXCEPT ![jobs[j].file] = @ + 1][jobs[j].file] > 0
      BY <1>1, <2>1
    <3> QED
      BY <2>1, <3>1, <3>2 DEF Attach
  <2>3. open' => landed' = [landed EXCEPT ![jobs[j].file] = @ + 1]
    BY <2>1 DEF Attach
  <2>4. open' => Attached \subseteq Attached'
    BY <1>1, <2>1, <2>3 DEF Attached
  <2> QED
    BY <1>3, <1>4, <2>1, <2>2, <2>4, <2>5 DEF JobStep, JobGoesWrong
<1>6. CASE ~JobAttaches(j)
  <2>1. UNCHANGED <<open, declared, landed, real>>
    BY <1>6 DEF JobStep, JobGoesWrong, JobEnds, JobFails, JobMissesShape, Fail
  <2> QED
    BY <1>3, <1>4, <2>1 DEF JobStep, JobGoesWrong, Attached
<1> QED
  BY <1>5, <1>6

\* A request that is accepted: the placeholder was open, and one job is new.
LEMMA RequestMoves ==
  ASSUME TypeOK, NEW f \in Files, Requested(f)
  PROVE  /\ open /\ open'
         /\ UNCHANGED <<landed, real>>
         /\ NewJob \notin JobIds
         /\ JobIds' = JobIds \cup {NewJob}
         /\ \A i \in JobIds : jobs'[i] = jobs[i]
         /\ jobs'[NewJob].file = f
         /\ jobs'[NewJob].status = "running"
<1>1. jobs \in Seq(Job) /\ jobs' = Append(jobs, [file |-> f, status |-> "running"])
  BY DEF TypeOK, ItemTypeOK, Requested, StartJob
<1>2. open /\ UNCHANGED <<open, landed, real>>
  BY DEF Requested, StartJob, Accepts
<1> QED
  BY <1>1, <1>2 DEF NewJob, JobIds

\* Every other step of the run leaves the jobs and the real shape alone; the
\* placeholder changes only when it is created.
RunOther ==
  /\ UNCHANGED <<jobs, real>>
  /\ UNCHANGED <<open, landed>> \/ CreateShape

\* The steps of a run, by what they do to the item.
LEMMA StepKinds ==
  ASSUME TypeOK, [Next]_vars
  PROVE  \/ \E f \in Files : RequestStep(f) /\ Requested(f)
         \/ \E j \in JobIds : JobStep(j) \/ JobGoesWrong(j)
         \/ RunOther
<1>0. Anchor \in Files /\ todo \subseteq Files
  BY DEF TypeOK, Files
<1>1. CASE UNCHANGED vars
  BY <1>1 DEF vars, itemVars, RunOther
<1>2. CASE StartRun \/ Die
  BY <1>2 DEF StartRun, Die, itemVars, RunOther
<1>3. CASE CreateItem \/ Examine \/ ReuseShape \/ RefuseShape \/ ListJobs
  BY <1>3
     DEF CreateItem, Examine, ReuseShape, RefuseShape, ListJobs, Fails, itemVars, RunOther
<1>4. CASE CreateShape
  BY <1>4 DEF CreateShape, RunOther
<1>5. CASE SingleInFlight \/ Undecided \/ Declare \/ DeclareRefused
  BY <1>5 DEF SingleInFlight, Undecided, Declare, DeclareRefused, itemVars, RunOther
<1>6. CASE ImportSingle \/ ImportAnchor
  <2>1. CASE Requested(Anchor)
    BY <1>0, <1>6, <2>1 DEF RequestStep
  <2>2. CASE ~Requested(Anchor)
    BY <1>6, <2>2
       DEF ImportSingle, ImportAnchor, RequestAnchor, Unanswered, Refused, itemVars,
           RunOther
  <2> QED
    BY <2>1, <2>2
<1>7. ASSUME NEW e \in todo,
             PassOver(e) \/ ImportExtra(e) \/ ExtraUnanswered(e) \/ ExtraRefused(e)
      PROVE  (RequestStep(e) /\ Requested(e)) \/ RunOther
  BY <1>7 DEF PassOver, ImportExtra, ExtraUnanswered, ExtraRefused, Unanswered, Refused,
              itemVars, RunOther, RequestStep
<1>8. CASE LeaveIncomplete \/ StartWaiting \/ Poll \/ Look \/ AllLanded \/ Confirm
  BY <1>8
     DEF LeaveIncomplete, StartWaiting, Poll, Look, AllLanded, Confirm, Fails, itemVars,
         RunOther
<1>9. CASE NeverLanded \/ WaitOn \/ Expire \/ RecordPromoted \/ StillOpen \/ Persist
  BY <1>9
     DEF NeverLanded, WaitOn, Expire, RecordPromoted, StillOpen, Persist, Fails, itemVars,
         RunOther
<1>10. CASE \E j \in JobIds : JobStep(j) \/ JobGoesWrong(j)
  BY <1>10
<1> QED
  BY <1>0, <1>1, <1>2, <1>3, <1>4, <1>5, <1>6, <1>7, <1>8, <1>9, <1>10 DEF Next, RunStep

-----------------------------------------------------------------------------
(* AnchorLast.  What the wait has read stays true of the placeholder it    *)
(* read, as long as that placeholder is open.                              *)

SingleKnows == pc = "single" => sees = {}

\* The first look is yet to come until the wait begins.
Reread ==
  /\ pc = "judge" => ~reread
  /\ pc \notin {"poll", "look", "judge", "anchor", "verdict", "persist"} => reread

WaitKnows ==
  open /\ pc \in {"poll", "look", "judge"} /\ ~reread =>
    sees \subseteq Attached \cup missing

AnchorKnows == open /\ pc = "anchor" => sees \subseteq Attached

Knows == SingleKnows /\ Reread /\ WaitKnows /\ AnchorKnows

\* A clip no run has looked at leaves nothing to know.
LEMMA KnowsStarts == Init => Knows
  BY DEF Init, Knows, SingleKnows, Reread, WaitKnows, AnchorKnows

\* A step of the run that leaves the placeholder as it is.
LEMMA KnowsRun ==
  ASSUME TypeOK, Knows, Next,
         UNCHANGED <<open, landed, real>>,
         ~\E j \in JobIds : JobStep(j) \/ JobGoesWrong(j)
  PROVE  Knows'
<1> USE DEF Knows, SingleKnows, Reread, WaitKnows, AnchorKnows
<1>0. Attached' = Attached /\ open' = open
  BY DEF Attached
<1>1. ASSUME pc' \in {"idle", "create", "examine", "resolve", "list", "declare",
                      "extras", "verdict", "persist"},
             reread' \/ pc' \in {"verdict", "persist"}
      PROVE  Knows'
  BY <1>1
<1>2. CASE ListJobs
  BY <1>2 DEF ListJobs, ImportPath
<1>3. CASE StartWaiting
  BY <1>0, <1>3 DEF StartWaiting
<1>4. CASE Poll
  BY <1>0, <1>4 DEF Poll
<1>5. CASE Look
  <2>1. CASE missing' = Awaited \ ShapeFiles
    BY <1>0, <1>5, <2>1 DEF Look, Awaited, Expected, ShapeFiles
  <2>2. CASE missing' = Awaited
    BY <1>0, <1>5, <2>2 DEF Look, Awaited, Expected
  <2> QED
    BY <1>5, <2>1, <2>2 DEF Look
<1>6. CASE AllLanded
  BY <1>0, <1>6 DEF AllLanded, runVars, Awaited, Expected
<1>7. CASE Confirm
  BY <1>7 DEF Confirm
<1>8. CASE WaitOn
  BY <1>0, <1>8 DEF WaitOn, runVars
<1>9. CASE ImportSingle \/ ImportAnchor
  <2>1. pc' = "persist" \/ (pc' = "idle" /\ reread')
    BY <1>9 DEF ImportSingle, ImportAnchor, RequestAnchor, Record, Refused, End, Forget
  <2> QED
    BY <1>1, <2>1
<1>10. CASE StartRun \/ CreateItem \/ Examine \/ ReuseShape \/ RefuseShape
            \/ SingleInFlight \/ Undecided \/ Declare \/ DeclareRefused
  <2>1. \/ pc' \in {"idle", "create", "examine", "resolve", "list", "extras"} /\ reread'
        \/ pc' = "persist"
    BY <1>10 DEF StartRun, CreateItem, Examine, ReuseShape, RefuseShape, Fails, End, Forget,
                 SingleInFlight, Undecided, Declare, DeclareRefused, Record, runVars
  <2> QED
    BY <1>1, <2>1
<1>11. CASE CreateShape
  BY <1>11 DEF CreateShape, OpenPlaceholder
<1>12. ASSUME NEW e \in todo,
              PassOver(e) \/ ImportExtra(e) \/ ExtraUnanswered(e) \/ ExtraRefused(e)
       PROVE  Knows'
  <2>1. pc' \in {"extras", "idle"} /\ reread'
    BY <1>12 DEF PassOver, ImportExtra, ExtraUnanswered, ExtraRefused, ToImport, Refused,
                 End, Forget
  <2> QED
    BY <1>1, <2>1
<1>13. CASE LeaveIncomplete \/ NeverLanded \/ Expire \/ RecordPromoted \/ StillOpen
            \/ Persist \/ Die
  <2>1. (pc' = "idle" /\ reread') \/ pc' = "persist"
    BY <1>13 DEF LeaveIncomplete, NeverLanded, Expire, RecordPromoted, StillOpen, Persist,
                 Die, Fails, End, Forget, Record
  <2> QED
    BY <1>1, <2>1
<1> QED
  BY <1>2, <1>3, <1>4, <1>5, <1>6, <1>7, <1>8, <1>9, <1>10, <1>11, <1>12, <1>13
     DEF Next, RunStep

\* Every step keeps what the wait has read true.
LEMMA KnowsStep == TypeOK /\ Knows /\ [Next]_vars => Knows'
<1> SUFFICES ASSUME TypeOK, Knows, [Next]_vars PROVE Knows'
  OBVIOUS
<1>1. CASE \E j \in JobIds : JobStep(j) \/ JobGoesWrong(j)
  <2>1. UNCHANGED <<pc, runVars>> /\ (open' => open /\ Attached \subseteq Attached')
    BY <1>1, JobMoves
  <2> QED
    BY <2>1 DEF runVars, Knows, SingleKnows, Reread, WaitKnows, AnchorKnows
<1>2. CASE CreateShape
  BY <1>2
     DEF CreateShape, ImportPath, runVars, Knows, SingleKnows, Reread, WaitKnows,
         AnchorKnows
<1>3. CASE UNCHANGED vars
  <2>1. Attached' = Attached
    BY <1>3 DEF vars, itemVars, Attached
  <2> QED
    BY <1>3, <2>1
       DEF vars, itemVars, runVars, Knows, SingleKnows, Reread, WaitKnows, AnchorKnows
<1>4. CASE Next /\ ~CreateShape /\ ~\E j \in JobIds : JobStep(j) \/ JobGoesWrong(j)
  <2>1. CASE \E f \in Files : RequestStep(f) /\ Requested(f)
    <3>1. UNCHANGED <<open, landed, real>>
      BY <2>1, RequestMoves DEF Requested
    <3> QED
      BY <1>4, <3>1, KnowsRun
  <2>2. CASE RunOther
    <3>1. UNCHANGED <<open, landed, real>>
      BY <1>4, <2>2 DEF RunOther
    <3> QED
      BY <1>4, <3>1, KnowsRun
  <2> QED
    BY <1>4, <2>1, <2>2, StepKinds
<1> QED
  BY <1>1, <1>2, <1>3, <1>4

\* A step that requests the anchor finds every seen extra attached.
LEMMA AnchorLastStep ==
  TypeOK /\ Knows /\ [Next]_vars =>
    \A j \in JobIds' \ JobIds : jobs'[j].file = Anchor => sees \subseteq Attached
<1> SUFFICES ASSUME TypeOK, Knows, [Next]_vars, NEW i \in JobIds' \ JobIds,
                    jobs'[i].file = Anchor
             PROVE  sees \subseteq Attached
  OBVIOUS
<1>1. JobIds' # JobIds
  OBVIOUS
<1>2. PICK f \in Files : RequestStep(f) /\ Requested(f)
  BY <1>1, StepKinds, JobMoves DEF RunOther, JobIds
<1>3. f = Anchor /\ open
  BY <1>2, RequestMoves
<1>4. Anchor \notin todo
  BY ItemAssumption DEF TypeOK
<1>5. pc \in {"single", "anchor"}
  BY <1>2, <1>3, <1>4 DEF RequestStep, ImportSingle, ImportAnchor
<1> QED
  BY <1>3, <1>5 DEF Knows, SingleKnows, AnchorKnows

\* The anchor's import is requested only when every extra the run knows of
\* is attached, whatever jobs an earlier run left, whatever can be read and
\* wherever runs die.
THEOREM AnchorComesLast == Spec => AnchorLast
<1>1. Init => TypeOK /\ Knows
  BY TypeStarts, KnowsStarts
<1>2. TypeOK /\ Knows /\ [Next]_vars => (TypeOK /\ Knows)'
  BY TypeKept, KnowsStep
<1>3. TypeOK /\ Knows /\ [Next]_vars =>
        [\A j \in JobIds' \ JobIds : jobs'[j].file = Anchor => sees \subseteq Attached]_vars
  BY AnchorLastStep
<1> QED
  BY <1>1, <1>2, <1>3, PTL DEF Spec, AnchorLast

-----------------------------------------------------------------------------
(* NoRivalImport.  What the run listed still covers every coming job of a  *)
(* file it may ask for, as long as the item has no real shape: a run is    *)
(* the only one to start jobs.                                             *)

\* A placeholder is there as soon as a job was ever started.
NeverClosed == real = {} /\ ~open => JobIds = {}

\* The files whose import the run may still ask for.
Askable ==
  CASE pc \in {"single", "declare"} -> Expected
    [] pc = "extras" -> todo \cup {Anchor}
    [] pc \in {"poll", "look", "judge", "anchor"} -> {Anchor}
    [] OTHER -> {}

Covered(f) == Coming(f) \subseteq flying[f]

AllCovered == real = {} => \A f \in Askable : Covered(f)

AnchorFree == pc = "anchor" => flying[Anchor] = {}

TodoSeen == pc = "extras" => todo \subseteq sees

Lists == NeverClosed /\ AllCovered /\ AnchorFree /\ TodoSeen

\* Without a run there is nothing to ask for.
LEMMA ListsStarts == Init => Lists
  BY DEF Init, ItemInit, Lists, NeverClosed, AllCovered, Askable, AnchorFree, TodoSeen,
         JobIds

\* What a run may ask for are files of the clip.
LEMMA AskableTyped == TypeOK => Askable \subseteq Files
  BY DEF TypeOK, Askable, Expected, Files

\* A run asks for fewer and fewer of the files it listed.
LEMMA AskableShrinks ==
  ASSUME TypeOK, AnchorFree, TodoSeen, Next, ~ListJobs, ~CreateShape,
         ~\E j \in JobIds : JobStep(j) \/ JobGoesWrong(j)
  PROVE  /\ Askable' = {} \/ (Askable' \subseteq Askable /\ flying' = flying)
         /\ AnchorFree' /\ TodoSeen'
<1> DEFINE Goal == /\ Askable' = {} \/ (Askable' \subseteq Askable /\ flying' = flying)
                   /\ AnchorFree' /\ TodoSeen'
<1>0. ASSUME pc' \in {"idle", "create", "examine", "resolve", "list", "verdict", "persist"}
      PROVE  Goal
  BY <1>0 DEF Askable, AnchorFree, TodoSeen
<1>1. CASE StartRun \/ CreateItem \/ Examine \/ ReuseShape \/ RefuseShape
            \/ SingleInFlight \/ ImportSingle \/ ImportAnchor \/ Undecided \/ DeclareRefused
  <2>1. pc' \in {"idle", "create", "examine", "resolve", "list", "persist"}
    BY <1>1 DEF StartRun, CreateItem, Examine, ReuseShape, RefuseShape, Fails, End,
                SingleInFlight, ImportSingle, ImportAnchor, RequestAnchor, Refused,
                Undecided, DeclareRefused, Record
  <2> QED
    BY <1>0, <2>1
<1>2. CASE LeaveIncomplete \/ NeverLanded \/ Expire \/ RecordPromoted \/ StillOpen
            \/ Persist \/ Die
  <2>1. pc' \in {"idle", "persist"}
    BY <1>2 DEF LeaveIncomplete, NeverLanded, Expire, RecordPromoted, StillOpen, Persist,
                Die, Fails, End, Record
  <2> QED
    BY <1>0, <2>1
<1>3. CASE Declare
  BY <1>3 DEF Declare, Askable, Expected, AnchorFree, TodoSeen
<1>4. ASSUME NEW e \in todo,
             PassOver(e) \/ ImportExtra(e) \/ ExtraUnanswered(e) \/ ExtraRefused(e)
      PROVE  Goal
  <2>1. CASE ExtraRefused(e)
    <3>1. pc' = "idle"
      BY <2>1 DEF ExtraRefused, Refused, End
    <3> QED
      BY <1>0, <3>1
  <2>2. CASE PassOver(e) \/ ImportExtra(e) \/ ExtraUnanswered(e)
    <3>1. pc = "extras" /\ pc' = "extras" /\ todo' \subseteq todo /\ UNCHANGED <<flying, sees>>
      BY <2>2 DEF PassOver, ImportExtra, ExtraUnanswered, ToImport
    <3> QED
      BY <3>1 DEF Askable, AnchorFree, TodoSeen
  <2> QED
    BY <1>4, <2>1, <2>2
<1>5. CASE StartWaiting
  BY <1>5 DEF StartWaiting, Askable, AnchorFree, TodoSeen
<1>6. CASE Poll \/ Look \/ Confirm \/ WaitOn
  <2>1. /\ pc \in {"poll", "look", "judge"} /\ pc' \in {"poll", "look", "judge"}
        /\ flying' = flying
    BY <1>6 DEF Poll, Look, Confirm, WaitOn, runVars
  <2> QED
    BY <2>1 DEF Askable, AnchorFree, TodoSeen
<1>7. CASE AllLanded
  BY <1>7 DEF AllLanded, runVars, Askable, AnchorFree, TodoSeen
<1> QED
  BY <1>1, <1>2, <1>3, <1>4, <1>5, <1>6, <1>7 DEF Next, RunStep

\* A request made by the run asks for a file it may no longer ask for after.
LEMMA RequestSpends ==
  ASSUME TypeOK, AnchorFree, NEW f \in Files, RequestStep(f), Requested(f)
  PROVE  /\ f \in Askable /\ flying[f] = {}
         /\ f \notin Askable'
         /\ open' /\ Next /\ ~ListJobs /\ ~CreateShape
         /\ ~\E j \in JobIds : JobStep(j) \/ JobGoesWrong(j)
<1>0. Anchor \notin Extras /\ todo \subseteq Extras
  BY ItemAssumption DEF TypeOK
<1>1. NewJob \notin JobIds /\ JobIds' = JobIds \cup {NewJob} /\ open /\ open'
  BY RequestMoves
<1>2. ~\E j \in JobIds : JobStep(j) \/ JobGoesWrong(j)
  BY <1>1, JobMoves
<1>3. ~ListJobs /\ ~CreateShape
  BY <1>1 DEF ListJobs, CreateShape, itemVars, JobIds
<1>4. CASE f = Anchor /\ (ImportSingle \/ ImportAnchor)
  <2>1. pc' \in {"persist", "idle"}
    BY <1>4 DEF ImportSingle, ImportAnchor, RequestAnchor, Record, Refused, End
  <2>2. pc \in {"single", "anchor"} /\ flying[Anchor] = {}
    BY <1>4 DEF ImportSingle, ImportAnchor, AnchorFree
  <2> QED
    BY <1>1, <1>2, <1>3, <1>4, <2>1, <2>2 DEF Askable, Expected, Next, RunStep
<1>5. CASE f \in todo /\ ImportExtra(f)
  <2>1. pc = "extras" /\ pc' = "extras" /\ todo' = todo \ {f} /\ flying[f] = {}
    BY <1>5 DEF ImportExtra, ToImport
  <2> QED
    BY <1>0, <1>1, <1>2, <1>3, <1>5, <2>1 DEF Askable, Next, RunStep
<1> QED
  BY <1>4, <1>5 DEF RequestStep

\* Every step keeps the listing a cover of the coming jobs.
LEMMA ListsStep == TypeOK /\ Lists /\ Reliable /\ [Next]_vars => Lists'
<1> SUFFICES ASSUME TypeOK, Lists, Reliable, [Next]_vars PROVE Lists'
  OBVIOUS
<1> USE DEF Lists
<1>0. Askable \subseteq Files
  BY AskableTyped
<1>1. CASE \E j \in JobIds : JobStep(j) \/ JobGoesWrong(j)
  <2>1. PICK j \in JobIds : JobStep(j) \/ JobGoesWrong(j)
    BY <1>1
  <2>2. UNCHANGED <<pc, runVars>> /\ JobIds' = JobIds /\ real \subseteq real'
        /\ (open /\ ~open' => real' # {}) /\ \A f \in Files : Coming(f)' \subseteq Coming(f)
    BY <2>1, JobMoves
  <2>3. Askable' = Askable /\ flying' = flying /\ AnchorFree' /\ TodoSeen'
    BY <2>2 DEF Askable, Expected, runVars, AnchorFree, TodoSeen
  <2>4. AllCovered'
    BY <1>0, <2>2, <2>3 DEF AllCovered, Covered
  <2>5. NeverClosed'
    BY <2>2 DEF NeverClosed
  <2> QED
    BY <2>3, <2>4, <2>5
<1>2. ASSUME NEW f \in Files, RequestStep(f), Requested(f)
      PROVE  Lists'
  <2>1. /\ f \notin Askable' /\ AnchorFree' /\ TodoSeen' /\ open'
        /\ Askable' = {} \/ (Askable' \subseteq Askable /\ flying' = flying)
    BY <1>2, RequestSpends, AskableShrinks
  <2>2. \A g \in Files \ {f} : Coming(g)' \subseteq Coming(g)
    BY <1>2, RequestMoves DEF Coming, Stopped
  <2>3. real' = real
    BY <1>2, RequestMoves
  <2>4. AllCovered'
    BY <1>0, <2>1, <2>2, <2>3 DEF AllCovered, Covered
  <2> QED
    BY <2>1, <2>4 DEF NeverClosed
<1>3. CASE UNCHANGED vars
  <2>1. /\ Askable' = Askable /\ flying' = flying /\ AnchorFree' /\ TodoSeen'
        /\ UNCHANGED <<open, jobs, real>>
    BY <1>3 DEF vars, itemVars, runVars, Askable, Expected, AnchorFree, TodoSeen
  <2> QED
    BY <2>1 DEF AllCovered, Covered, NeverClosed, Coming, Stopped, JobIds
<1>4. CASE CreateShape
  <2>1. jobs' = jobs /\ real' = real /\ ~open /\ open' /\ pc' \in {"single", "declare"}
    BY <1>4 DEF CreateShape, OpenPlaceholder, ImportPath
  <2>2. AllCovered'
    BY <2>1 DEF NeverClosed, AllCovered, Covered, Coming, JobIds
  <2> QED
    BY <2>1, <2>2 DEF NeverClosed, AnchorFree, TodoSeen
<1>5. CASE ListJobs
  <2>1. /\ UNCHANGED <<open, jobs, real, sees>> /\ pc' \in {"single", "declare"}
        /\ \A f \in Expected : flying'[f] = Coming(f)
    BY <1>5 DEF ListJobs, ImportPath, itemVars, Expected, TypeOK, Files
  <2>2. \A f \in Expected : Covered(f)'
    BY <2>1 DEF Covered, Coming, Stopped, JobIds
  <2>3. Askable' = Expected
    BY <2>1 DEF Askable, Expected
  <2> QED
    BY <2>1, <2>2, <2>3 DEF NeverClosed, AllCovered, AnchorFree, TodoSeen, JobIds
<1>6. CASE /\ Next /\ RunOther /\ ~ListJobs /\ ~CreateShape
           /\ ~\E j \in JobIds : JobStep(j) \/ JobGoesWrong(j)
  <2>1. /\ AnchorFree' /\ TodoSeen' /\ UNCHANGED <<open, jobs, real>>
        /\ Askable' = {} \/ (Askable' \subseteq Askable /\ flying' = flying)
    BY <1>6, AskableShrinks DEF RunOther
  <2> QED
    BY <2>1 DEF AllCovered, Covered, NeverClosed, Coming, Stopped, JobIds
<1> QED
  BY <1>1, <1>2, <1>3, <1>4, <1>5, <1>6, StepKinds

\* A request is for a file without a coming job.
LEMMA NoRivalStep ==
  TypeOK /\ Lists /\ [Next]_vars =>
    (real = {} => \A j \in JobIds' \ JobIds : Coming(jobs'[j].file) = {})
<1> SUFFICES ASSUME TypeOK, Lists, [Next]_vars, real = {}, NEW i \in JobIds' \ JobIds
             PROVE  Coming(jobs'[i].file) = {}
  OBVIOUS
<1>1. PICK f \in Files : RequestStep(f) /\ Requested(f)
  BY StepKinds, JobMoves DEF RunOther, JobIds
<1>2. jobs'[i].file = f
  BY <1>1, RequestMoves
<1>3. f \in Askable /\ flying[f] = {}
  BY <1>1, RequestSpends DEF Lists
<1> QED
  BY <1>2, <1>3 DEF Lists, AllCovered, Covered

\* When jobs can be read, no import is requested for a file while an import
\* of it is still coming, however often runs die and resume, until the item
\* has a real shape.
THEOREM NoRivals == Reliable /\ Spec => NoRivalImport
<1> SUFFICES ASSUME Reliable PROVE Spec => NoRivalImport
  OBVIOUS
<1>1. Init => TypeOK /\ Lists
  BY TypeStarts, ListsStarts
<1>2. TypeOK /\ Lists /\ [Next]_vars => (TypeOK /\ Lists)'
  BY TypeKept, ListsStep
<1>3. TypeOK /\ Lists /\ [Next]_vars =>
        [real = {} => \A j \in JobIds' \ JobIds : Coming(jobs'[j].file) = {}]_vars
  BY NoRivalStep
<1> QED
  BY <1>1, <1>2, <1>3, PTL DEF Spec, NoRivalImport

-----------------------------------------------------------------------------
(* PromotedWhole.  When every run sees every extra, the anchor's job finds *)
(* them all on the first placeholder, the one it promotes.                 *)

EveryRunSeesAll == Sightings \subseteq {Extras}

SeesAll == pc # "idle" => sees = Extras

\* An anchor's job that may still attach it.
Pends(j) == jobs[j].file = Anchor /\ jobs[j].status \in {"running", "closing"}

AnchorBehind == real = {} /\ open /\ (\E j \in JobIds : Pends(j)) => Extras \subseteq Attached

Whole == SeesAll /\ AnchorBehind /\ NeverClosed /\ PromotedWhole

\* Without jobs there is no anchor to attach.
LEMMA WholeStarts == Init => Whole
  BY DEF Init, ItemInit, Whole, SeesAll, AnchorBehind, NeverClosed, PromotedWhole, JobIds

\* A run that sees every extra sees them until it ends.
LEMMA SeesAllStep ==
  ASSUME EveryRunSeesAll, TypeOK, SeesAll, [Next]_vars
  PROVE  SeesAll'
<1> USE DEF SeesAll
<1>1. CASE StartRun
  BY <1>1 DEF StartRun, EveryRunSeesAll
<1>2. ASSUME sees' = sees /\ pc # "idle" PROVE SeesAll'
  BY <1>2
<1>3. ASSUME pc' = "idle" PROVE SeesAll'
  BY <1>3
<1>4. CASE UNCHANGED vars \/ \E j \in JobIds : JobStep(j) \/ JobGoesWrong(j)
  BY <1>4, JobMoves DEF vars, runVars
<1>5. CASE CreateItem \/ Examine \/ CreateShape \/ ReuseShape \/ RefuseShape \/ ListJobs
  BY <1>2, <1>3, <1>5
     DEF CreateItem, Examine, CreateShape, ReuseShape, RefuseShape, ListJobs,
         Fails, End, runVars
<1>6. CASE SingleInFlight \/ ImportSingle \/ ImportAnchor \/ RecordPromoted
  BY <1>2, <1>3, <1>6 DEF SingleInFlight, ImportSingle, ImportAnchor, RecordPromoted,
                          RequestAnchor, Record, Refused, End
<1>7. CASE Undecided \/ Declare \/ DeclareRefused \/ LeaveIncomplete \/ StartWaiting
           \/ StillOpen \/ Persist \/ Die
  BY <1>2, <1>3, <1>7 DEF Undecided, Declare, DeclareRefused, LeaveIncomplete, StartWaiting,
                          StillOpen, Persist, Die, Fails, End
<1>8. ASSUME NEW e \in todo,
             PassOver(e) \/ ImportExtra(e) \/ ExtraUnanswered(e) \/ ExtraRefused(e)
      PROVE  SeesAll'
  BY <1>2, <1>3, <1>8 DEF PassOver, ImportExtra, ExtraUnanswered, ExtraRefused, ToImport,
                          Refused, End
<1>9. CASE Poll \/ Look \/ AllLanded \/ Confirm \/ NeverLanded \/ WaitOn \/ Expire
  BY <1>2, <1>3, <1>9 DEF Poll, Look, AllLanded, Confirm, NeverLanded, WaitOn, Expire,
                          Fails, End, runVars
<1> QED
  BY <1>1, <1>4, <1>5, <1>6, <1>7, <1>8, <1>9 DEF Next, RunStep

\* A job that may attach the anchor was one before its step.
LEMMA PendsBefore ==
  ASSUME TypeOK, NEW j \in JobIds, JobStep(j) \/ JobGoesWrong(j),
         NEW i \in JobIds, Pends(i)'
  PROVE  Pends(i)
<1>1. jobs \in Seq(Job) /\ j \in 1..Len(jobs) /\ i \in 1..Len(jobs)
  BY DEF TypeOK, ItemTypeOK, JobIds
<1>2. PICK s \in {"attached", "landed", "closing", "failed"} :
        /\ jobs' = [jobs EXCEPT ![j].status = s]
        /\ s = "closing" => jobs[j].status = "running"
  BY DEF JobStep, JobGoesWrong, JobAttaches, JobEnds, JobFails, JobMissesShape, Fail
<1> QED
  BY <1>1, <1>2 DEF Pends, Job

\* A job's step promotes the whole clip or nothing.
LEMMA WholeJob ==
  ASSUME TypeOK, Whole, NEW j \in JobIds, JobStep(j) \/ JobGoesWrong(j)
  PROVE  AnchorBehind' /\ NeverClosed' /\ PromotedWhole'
<1>1. /\ JobIds' = JobIds /\ real \subseteq real'
      /\ open' => open /\ Attached \subseteq Attached'
      /\ open /\ ~open' => real' # {}
  BY JobMoves
<1>2. AnchorBehind'
  BY <1>1, PendsBefore DEF AnchorBehind, Whole
<1>3. NeverClosed'
  BY <1>1 DEF NeverClosed, Whole
<1>4. CASE real' = real \/ real # {}
  BY <1>1, <1>2, <1>3, <1>4 DEF PromotedWhole, Whole
<1>5. CASE real' # real /\ real = {}
  <2>1. JobAttaches(j)
    BY <1>5 DEF JobStep, JobGoesWrong, JobEnds, JobFails, JobMissesShape, Fail
  <2>2. open /\ jobs[j].file = Anchor /\ landed \in [Files -> Nat]
    BY <1>5, <2>1 DEF JobAttaches, Attach, TypeOK, ItemTypeOK
  <2>3. Extras \subseteq Attached
    BY <1>5, <2>1, <2>2 DEF JobAttaches, Pends, AnchorBehind, Whole
  <2>4. real' = real \cup {g \in Files : [landed EXCEPT ![Anchor] = @ + 1][g] > 0}
    BY <1>5, <2>1, <2>2 DEF JobAttaches, Attach
  <2>5. ASSUME NEW g \in Files PROVE [landed EXCEPT ![Anchor] = @ + 1][g] > 0
    BY <2>2, <2>3 DEF Attached, Files
  <2> QED
    BY <1>2, <1>3, <2>4, <2>5 DEF PromotedWhole
<1> QED
  BY <1>2, <1>3, <1>4, <1>5

\* Every step keeps the extras ahead of the anchor.
LEMMA WholeStep == EveryRunSeesAll /\ TypeOK /\ Knows /\ Whole /\ [Next]_vars => Whole'
<1> SUFFICES ASSUME EveryRunSeesAll, TypeOK, Knows, Whole, [Next]_vars PROVE Whole'
  OBVIOUS
<1>1. SeesAll'
  BY SeesAllStep DEF Whole
<1>2. CASE \E j \in JobIds : JobStep(j) \/ JobGoesWrong(j)
  BY <1>1, <1>2, WholeJob DEF Whole
<1>3. ASSUME NEW f \in Files, RequestStep(f), Requested(f) PROVE Whole'
  <2>1. /\ open' /\ real' = real /\ Attached' = Attached
        /\ JobIds' = JobIds \cup {NewJob} /\ NewJob \notin JobIds
        /\ jobs'[NewJob].file = f /\ \A i \in JobIds : jobs'[i] = jobs[i]
    BY <1>3, RequestMoves DEF Attached
  <2>2. open /\ pc # "idle"
    BY <1>3, RequestMoves DEF RequestStep, ImportSingle, ImportAnchor, ImportExtra, ToImport
  <2>3. f = Anchor => Extras \subseteq Attached
    BY <2>1, <2>2, AnchorLastStep DEF Whole, SeesAll
  <2>4. AnchorBehind'
    BY <2>1, <2>2, <2>3 DEF AnchorBehind, Pends, Whole
  <2> QED
    BY <1>1, <2>1, <2>4 DEF Whole, NeverClosed, PromotedWhole
<1>4. CASE RunOther
  <2>1. CASE UNCHANGED <<open, landed>>
    BY <1>1, <1>4, <2>1
       DEF RunOther, Whole, AnchorBehind, Pends, NeverClosed, PromotedWhole,
           Attached, JobIds
  <2>2. CASE CreateShape
    BY <1>1, <1>4, <2>2 DEF RunOther, CreateShape, OpenPlaceholder, Whole, AnchorBehind,
                            NeverClosed, PromotedWhole, JobIds
  <2> QED
    BY <1>4, <2>1, <2>2 DEF RunOther
<1> QED
  BY <1>2, <1>3, <1>4, StepKinds

\* When every run sees every extra of the clip, the shape the item is left
\* with as its original holds the whole clip: no sequence of deaths, failed
\* jobs, unreadable answers and resumed runs promotes a part of it.
THEOREM PromotionWhole == EveryRunSeesAll /\ Spec => []PromotedWhole
<1> SUFFICES ASSUME EveryRunSeesAll PROVE Spec => []PromotedWhole
  OBVIOUS
<1>1. Init => TypeOK /\ Knows /\ Whole
  BY TypeStarts, KnowsStarts, WholeStarts
<1>2. TypeOK /\ Knows /\ Whole /\ [Next]_vars => (TypeOK /\ Knows /\ Whole)'
  BY TypeKept, KnowsStep, WholeStep
<1>3. Whole => PromotedWhole
  BY DEF Whole
<1> QED
  BY <1>1, <1>2, <1>3, PTL DEF Spec

-----------------------------------------------------------------------------
(* A recorded job promotes.  With every extra attached there are at least  *)
(* as many components as extras, and no more were declared: the anchor's   *)
(* job finds the placeholder full.                                         *)

\* Where every extra is attached, as many components landed as were declared.
LEMMA FullWhenAllAttached ==
  ASSUME TypeOK, Extras \subseteq Attached
  PROVE  ExtrasLanded >= declared
<1> DEFINE components(f) == {f} \X (1 .. landed[f])
           All == UNION {components(f) : f \in Extras}
           one == [f \in Extras |-> <<f, 1>>]
<1>1. landed \in [Files -> Nat] /\ declared \in 0 .. Cardinality(Extras)
  BY DEF TypeOK, ItemTypeOK
<1>2. IsFiniteSet(All)
  <2>1. ASSUME NEW f \in Extras
        PROVE  IsFiniteSet(components(f))
    <3>1. landed[f] \in Int
      BY <1>1 DEF Files
    <3>2. IsFiniteSet(1 .. landed[f])
      BY <3>1, FS_Interval
    <3>3. IsFiniteSet({f})
      BY FS_Singleton
    <3>4. QED
      BY <3>2, <3>3, FS_Product
  <2>2. IsFiniteSet({components(f) : f \in Extras})
    <3> DEFINE parts == [f \in Extras |-> components(f)]
    <3>1. {components(f) : f \in Extras} = {parts[f] : f \in Extras}
      OBVIOUS
    <3>2. parts \in Surjection(Extras, {parts[f] : f \in Extras})
      BY DEF Surjection
    <3> HIDE DEF parts
    <3>3. IsFiniteSet({parts[f] : f \in Extras})
      BY <3>2, ItemAssumption, FS_Surjection
    <3> QED
      BY <3>1, <3>3
  <2>3. QED
    BY <2>1, <2>2, FS_UNION
<1>3. one \in Injection(Extras, All)
  <2>1. ASSUME NEW f \in Extras
        PROVE  <<f, 1>> \in All
    <3>1. landed[f] \in Nat /\ landed[f] > 0
      BY <1>1 DEF Attached, Files
    <3>2. <<f, 1>> \in components(f)
      BY <3>1
    <3>3. QED
      BY <3>2
  <2>2. one \in [Extras -> All]
    BY <2>1
  <2>3. \A f, g \in Extras : one[f] = one[g] => f = g
    OBVIOUS
  <2>4. QED
    BY <2>2, <2>3 DEF Injection, IsInjective
<1>4. Cardinality(Extras) <= Cardinality(All)
  BY <1>2, <1>3, FS_Injection
<1>5. Cardinality(Extras) \in Nat /\ Cardinality(All) \in Nat
  BY <1>2, ItemAssumption, FS_CardinalityType
<1>6. ExtrasLanded = Cardinality(All)
  BY DEF ExtrasLanded
<1> QED
  BY <1>1, <1>4, <1>5, <1>6

OfAnchor(j) == j \in JobIds /\ jobs[j].file = Anchor

\* A job that attached the anchor promoted the placeholder.
AnchorPromotes ==
  \A j \in JobIds :
    jobs[j].file = Anchor /\ jobs[j].status \in {"attached", "landed"} => real # {}

\* What a run takes for the anchor's job is one, and so is what it recorded.
Recorded ==
  /\ \A j \in flying[Anchor] : OfAnchor(j)
  /\ pc = "persist" => OfAnchor(mine)
  /\ row.job # NoJob => OfAnchor(row.job)

\* Nothing is recorded before the first run.
LEMMA RecordedStarts == Init => AnchorPromotes /\ Recorded
  BY DEF Init, ItemInit, AnchorPromotes, Recorded, NothingFlies, Files, JobIds, NoJob

\* A job that attaches the anchor finds the placeholder full.
LEMMA AnchorPromotesJob ==
  ASSUME TypeOK, Whole, AnchorPromotes, NEW j \in JobIds, JobStep(j) \/ JobGoesWrong(j)
  PROVE  AnchorPromotes'
<1>1. jobs \in Seq(Job) /\ j \in 1..Len(jobs) /\ landed \in [Files -> Nat]
  BY DEF TypeOK, ItemTypeOK, JobIds
<1>2. /\ JobIds' = JobIds /\ real \subseteq real'
      /\ \A i \in JobIds : jobs'[i].file = jobs[i].file
  BY JobMoves
<1>3. CASE real # {}
  BY <1>2, <1>3 DEF AnchorPromotes
<1>4. ASSUME real = {}, JobAttaches(j), jobs[j].file = Anchor
      PROVE  real' # {}
  <2>1. open /\ Extras \subseteq Attached
    BY <1>4 DEF JobAttaches, Pends, AnchorBehind, Whole
  <2>2. ExtrasLanded >= declared
    BY <2>1, FullWhenAllAttached
  <2>3. real' = real \cup {g \in Files : [landed EXCEPT ![Anchor] = @ + 1][g] > 0}
    BY <1>4, <2>2 DEF JobAttaches, Attach
  <2>4. Anchor \in Files /\ [landed EXCEPT ![Anchor] = @ + 1][Anchor] > 0
    BY <1>1 DEF Files
  <2> QED
    BY <2>3, <2>4
<1>5. CASE real = {} /\ ~(JobAttaches(j) /\ jobs[j].file = Anchor)
  <2>1. PICK s \in {"attached", "landed", "closing", "failed"} :
          /\ jobs' = [jobs EXCEPT ![j].status = s]
          /\ s \in {"attached", "landed"} => JobAttaches(j) \/ jobs[j].status = "attached"
    BY DEF JobStep, JobGoesWrong, JobAttaches, JobEnds, JobFails, JobMissesShape, Fail
  <2>2. \A i \in JobIds : i # j => jobs'[i] = jobs[i]
    BY <1>1, <2>1 DEF JobIds
  <2>3. jobs'[j].status = s
    BY <1>1, <2>1 DEF Job
  <2>4. ASSUME NEW i \in JobIds, jobs'[i].file = Anchor,
               jobs'[i].status \in {"attached", "landed"}
        PROVE  FALSE
    BY <1>2, <1>5, <2>1, <2>2, <2>3, <2>4 DEF AnchorPromotes
  <2> QED
    BY <1>2, <2>4 DEF AnchorPromotes
<1> QED
  BY <1>3, <1>4, <1>5, <1>2 DEF AnchorPromotes

\* And so after every step.
LEMMA AnchorPromotesStep ==
  ASSUME TypeOK, Whole, AnchorPromotes, [Next]_vars
  PROVE  AnchorPromotes'
<1>1. CASE \E j \in JobIds : JobStep(j) \/ JobGoesWrong(j)
  BY <1>1, AnchorPromotesJob
<1>2. ASSUME NEW f \in Files, RequestStep(f), Requested(f) PROVE AnchorPromotes'
  BY <1>2, RequestMoves DEF AnchorPromotes
<1>3. CASE RunOther
  BY <1>3 DEF RunOther, AnchorPromotes, JobIds
<1> QED
  BY <1>1, <1>2, <1>3, StepKinds

\* Jobs are not taken back, and keep their file.
LEMMA OfAnchorStays ==
  ASSUME TypeOK, [Next]_vars
  PROVE  \A j : OfAnchor(j) => OfAnchor(j)'
<1>1. CASE \E j \in JobIds : JobStep(j) \/ JobGoesWrong(j)
  BY <1>1, JobMoves DEF OfAnchor
<1>2. ASSUME NEW f \in Files, RequestStep(f), Requested(f)
      PROVE  \A j : OfAnchor(j) => OfAnchor(j)'
  BY <1>2, RequestMoves DEF OfAnchor
<1>3. CASE RunOther
  BY <1>3 DEF RunOther, OfAnchor, JobIds
<1> QED
  BY <1>1, <1>2, <1>3, StepKinds

\* A run records a job of the anchor's, or none.
LEMMA RecordedStep ==
  ASSUME TypeOK, Recorded, [Next]_vars
  PROVE  Recorded'
<1>0. \A j : OfAnchor(j) => OfAnchor(j)'
  BY OfAnchorStays
<1>1. ASSUME UNCHANGED <<flying, row>>, pc' # "persist"
      PROVE  Recorded'
  BY <1>0, <1>1 DEF Recorded
<1>2. ASSUME Forget, UNCHANGED row, pc' = "idle"
      PROVE  Recorded'
  BY <1>0, <1>2 DEF Recorded, Forget, NothingFlies, Files
<1>3. ASSUME NEW r, End(r), UNCHANGED row
      PROVE  Recorded'
  BY <1>2, <1>3 DEF End
<1>4. ASSUME NEW j, Record(j), OfAnchor(j)'
      PROVE  Recorded'
  BY <1>0, <1>4 DEF Record, Recorded
<1>5. CASE RequestAnchor
  <2>1. CASE Requested(Anchor) /\ Record(NewJob)
    <3>1. PICK j : j = NewJob /\ j \in JobIds' /\ jobs'[j].file = Anchor
      BY <2>1, RequestMoves DEF Files
    <3>2. Record(j) /\ OfAnchor(j)'
      BY <2>1, <3>1 DEF OfAnchor
    <3> QED
      BY <1>4, <3>2
  <2>2. CASE End("failed") /\ UNCHANGED row
    BY <1>3, <2>2
  <2>3. CASE Refused(Anchor)
    BY <1>3, <2>3 DEF Refused
  <2> QED
    BY <1>5, <2>1, <2>2, <2>3 DEF RequestAnchor
<1>6. CASE StartRun \/ CreateShape \/ ReuseShape \/ Declare \/ StartWaiting
           \/ Poll \/ Look \/ AllLanded \/ Confirm \/ WaitOn
  BY <1>1, <1>6 DEF StartRun, CreateShape, ReuseShape, Declare, StartWaiting, ImportPath,
                    Poll, Look, AllLanded, Confirm, WaitOn, runVars
<1>7. CASE CreateItem
  BY <1>0, <1>7 DEF CreateItem, Recorded, runVars, TypeOK, Row
<1>8. CASE Examine
  BY <1>1, <1>3, <1>8 DEF Examine, runVars
<1>9. CASE ListJobs
  <2>1. UNCHANGED <<row, mine, jobs>> /\ pc' # "persist"
    BY <1>9 DEF ListJobs, ImportPath, itemVars
  <2>2. \A j \in flying'[Anchor] : OfAnchor(j)
    BY <1>9 DEF ListJobs, Coming, OfAnchor, Expected, Files
  <2> QED
    BY <1>0, <2>1, <2>2 DEF Recorded
<1>10. CASE SingleInFlight \/ RecordPromoted
  BY <1>0, <1>4, <1>10 DEF SingleInFlight, RecordPromoted, Recorded
<1>11. CASE ImportSingle \/ ImportAnchor
  BY <1>5, <1>11 DEF ImportSingle, ImportAnchor
<1>12. CASE RefuseShape \/ Undecided \/ DeclareRefused \/ LeaveIncomplete \/ NeverLanded
            \/ Expire \/ StillOpen \/ Die
  BY <1>3, <1>12 DEF RefuseShape, Undecided, DeclareRefused, LeaveIncomplete, NeverLanded,
                     Expire, StillOpen, Die, Fails
<1>13. ASSUME NEW e \in todo,
              PassOver(e) \/ ImportExtra(e) \/ ExtraUnanswered(e) \/ ExtraRefused(e)
       PROVE  Recorded'
  BY <1>1, <1>3, <1>13 DEF PassOver, ImportExtra, ExtraUnanswered, ExtraRefused, ToImport,
                           Refused
<1>14. CASE Persist
  <2>1. row'.job = mine /\ OfAnchor(mine) /\ Forget /\ pc' = "idle"
    BY <1>14 DEF Persist, End, Recorded, TypeOK, Row
  <2> QED
    BY <1>0, <2>1 DEF Recorded, Forget, NothingFlies, Files
<1>15. CASE UNCHANGED vars \/ \E j \in JobIds : JobStep(j) \/ JobGoesWrong(j)
  <2>1. UNCHANGED <<row, pc, flying, mine>>
    BY <1>15, JobMoves DEF vars, runVars
  <2> QED
    BY <1>0, <2>1 DEF Recorded
<1> QED
  BY <1>6, <1>7, <1>8, <1>9, <1>10, <1>11, <1>12, <1>13, <1>14, <1>15 DEF Next, RunStep

\* When every run sees every extra, a row that has its job never waits for a
\* promotion that will not come: the job imports the anchor, and once the
\* anchor is attached the shape is real (persist_ingest_state,
\* is_incomplete_import).
THEOREM RecordedJobPromotes == EveryRunSeesAll /\ Spec => []RecordedPromotes
<1> SUFFICES ASSUME EveryRunSeesAll PROVE Spec => []RecordedPromotes
  OBVIOUS
<1> DEFINE Inv == TypeOK /\ Knows /\ Whole /\ AnchorPromotes /\ Recorded
<1>1. Init => Inv
  BY TypeStarts, KnowsStarts, WholeStarts, RecordedStarts
<1>2. Inv /\ [Next]_vars => Inv'
  BY TypeKept, KnowsStep, WholeStep, AnchorPromotesStep, RecordedStep
<1>3. Inv => RecordedPromotes
  BY DEF AnchorPromotes, Recorded, OfAnchor, RecordedPromotes
<1> QED
  BY <1>1, <1>2, <1>3, PTL DEF Spec

-----------------------------------------------------------------------------
(* The import keeps what ImportPromise says.  The mapping hides every      *)
(* placeholder, component and job but the recorded one; what it needs of   *)
(* them is that the runs follow the row: none starts on a row with a job,  *)
(* and none asks for a job before the row is named.                        *)

\* The runs and the jobs follow the row.
RowFirst ==
  /\ pc # "idle" => row.job = NoJob
  /\ pc \notin {"idle", "create"} => row.named
  /\ row.job # NoJob \/ JobIds # {} => row.named

\* A new clip has no run and no job.
LEMMA RowFirstStarts == Init => RowFirst
  BY DEF Init, ItemInit, RowFirst, JobIds

\* What a run does to the row, and where it goes.
LEMMA RowMoves ==
  ASSUME TypeOK, [Next]_vars
  PROVE  \/ pc = "create" /\ pc' = "examine" /\ row' = [row EXCEPT !.named = TRUE]
         \/ pc = "persist" /\ pc' = "idle" /\ row' = [row EXCEPT !.job = mine]
         \/ UNCHANGED row /\ pc = "idle" /\ StartRun
         \/ UNCHANGED row /\ pc' = "idle"
         \/ UNCHANGED row /\ pc \notin {"idle", "create"} /\ pc' \notin {"idle", "create"}
         \/ UNCHANGED <<row, pc>>
<1>1. CASE UNCHANGED vars \/ \E j \in JobIds : JobStep(j) \/ JobGoesWrong(j)
  BY <1>1, JobMoves DEF vars
<1>2. CASE StartRun \/ CreateItem \/ Persist
  BY <1>2 DEF StartRun, CreateItem, Persist, End
<1>3. CASE Examine \/ CreateShape \/ ReuseShape \/ RefuseShape \/ ListJobs
  BY <1>3 DEF Examine, CreateShape, ReuseShape, RefuseShape, ListJobs, ImportPath, Fails, End
<1>4. CASE SingleInFlight \/ ImportSingle \/ ImportAnchor \/ RecordPromoted
  BY <1>4 DEF SingleInFlight, ImportSingle, ImportAnchor, RecordPromoted, RequestAnchor,
              Record, Refused, End
<1>5. CASE Undecided \/ Declare \/ DeclareRefused \/ LeaveIncomplete \/ StartWaiting
           \/ StillOpen \/ Die
  BY <1>5 DEF Undecided, Declare, DeclareRefused, LeaveIncomplete, StartWaiting, StillOpen,
              Die, Fails, End
<1>6. ASSUME NEW e \in todo,
             PassOver(e) \/ ImportExtra(e) \/ ExtraUnanswered(e) \/ ExtraRefused(e)
      PROVE  \/ UNCHANGED row /\ pc' = "idle"
             \/ UNCHANGED row /\ UNCHANGED pc
  BY <1>6 DEF PassOver, ImportExtra, ExtraUnanswered, ExtraRefused, ToImport, Refused, End
<1>7. CASE Poll \/ Look \/ AllLanded \/ Confirm \/ NeverLanded \/ WaitOn \/ Expire
  BY <1>7 DEF Poll, Look, AllLanded, Confirm, NeverLanded, WaitOn, Expire, Fails, End
<1> QED
  BY <1>1, <1>2, <1>3, <1>4, <1>5, <1>6, <1>7 DEF Next, RunStep

\* Every step keeps the runs and the jobs behind the row.
LEMMA RowFirstStep == TypeOK /\ RowFirst /\ [Next]_vars => RowFirst'
<1> SUFFICES ASSUME TypeOK, RowFirst, [Next]_vars PROVE RowFirst'
  OBVIOUS
<1>1. row.named => row'.named
  BY RowMoves DEF TypeOK, Row
<1>2. JobIds' = JobIds \/ row.named
  <2>1. CASE \E f \in Files : RequestStep(f) /\ Requested(f)
    <3>1. pc \in {"single", "anchor", "extras"}
      BY <2>1 DEF RequestStep, ImportSingle, ImportAnchor, ImportExtra, ToImport
    <3> QED
      BY <3>1 DEF RowFirst
  <2>2. CASE \E j \in JobIds : JobStep(j) \/ JobGoesWrong(j)
    BY <2>2, JobMoves
  <2>3. CASE RunOther
    BY <2>3 DEF RunOther, JobIds
  <2> QED
    BY <2>1, <2>2, <2>3, StepKinds
<1>3. CASE UNCHANGED row /\ pc = "idle" /\ StartRun
  <2>1. row.job = NoJob /\ (row.named \/ pc' = "create") /\ pc' # "idle" /\ row' = row
    BY <1>3 DEF StartRun, WillIngest, Incomplete, RowFirst
  <2> QED
    BY <1>2, <2>1 DEF RowFirst
<1>4. CASE ~(UNCHANGED row /\ pc = "idle" /\ StartRun)
  <2>1. /\ pc' # "idle" => row'.job = NoJob
        /\ row'.job # NoJob \/ pc' \notin {"idle", "create"} => row'.named
    BY <1>4, RowMoves DEF RowFirst, TypeOK, Row
  <2> QED
    BY <1>1, <1>2, <2>1 DEF RowFirst
<1> QED
  BY <1>3, <1>4

\* All that the promise rests on.
Promised == TypeOK /\ Knows /\ Whole /\ AnchorPromotes /\ Recorded /\ RowFirst

\* A row without a job says so.
LEMMA NothingRecorded == row.job = NoJob => RecordedJob = "none"
  BY DEF RecordedJob

\* Media that change become the whole clip, from nothing.
LEMMA MediaInOnePiece ==
  ASSUME TypeOK, TypeOK', PromotedWhole, PromotedWhole', real \subseteq real'
  PROVE  real' = real \/ (real = {} /\ real' = Files)
  BY DEF PromotedWhole, TypeOK, ItemTypeOK

\* A job's step is one of the promise, or hidden.
LEMMA PromiseJob ==
  ASSUME Promised, Promised', NEW j \in JobIds, JobStep(j) \/ JobGoesWrong(j)
  PROVE  [Promise!Next]_Promise!vars
<1> USE DEF Promised
<1>1. /\ jobs \in Seq(Job) /\ j \in 1..Len(jobs) /\ row.named
      /\ row' = row /\ JobIds' = JobIds /\ real \subseteq real'
  <2>1. jobs \in Seq(Job)
    BY DEF TypeOK, ItemTypeOK
  <2>2. j \in 1..Len(jobs)
    BY DEF JobIds
  <2>3. row' = row /\ JobIds' = JobIds /\ real \subseteq real'
    BY JobMoves DEF TypeOK
  <2>4. row.named
    BY DEF RowFirst
  <2> QED
    BY <2>1, <2>2, <2>3, <2>4
<1>2. real' = real \/ (real = {} /\ real' = Files)
  BY <1>1, MediaInOnePiece DEF Whole
<1>3. CASE RecordedJob' = RecordedJob
  BY <1>1, <1>2, <1>3 DEF Promise!Next, Promise!Deliver, Promise!vars
<1>4. CASE RecordedJob' # RecordedJob
  <2>1. PICK s \in {"attached", "landed", "closing", "failed"} :
          /\ jobs' = [jobs EXCEPT ![j].status = s]
          /\ s = "attached" => jobs[j].status = "running"
          /\ s = "landed" => jobs[j].status \in {"attached", "closing"}
          /\ s = "closing" => jobs[j].status = "running"
          /\ s = "failed" => jobs[j].status \in {"running", "closing"}
          /\ s \in {"closing", "failed"} => real' = real
    BY DEF JobStep, JobGoesWrong, JobAttaches, JobEnds, JobFails, JobMissesShape, Fail
  <2>2. \A i \in JobIds : i # j => jobs'[i] = jobs[i]
    BY <1>1, <2>1 DEF JobIds
  <2>3. row.job = j /\ jobs[j].file = Anchor /\ j # NoJob
    <3>1. row.job # NoJob
      BY <1>1, <1>4 DEF RecordedJob
    <3>2. row.job \in JobIds /\ jobs[row.job].file = Anchor
      BY <3>1 DEF Recorded, OfAnchor
    <3>3. row.job # j => jobs'[row.job] = jobs[row.job]
      BY <2>2, <3>2
    <3>4. row.job = j
      BY <1>1, <1>4, <3>3 DEF RecordedJob
    <3> QED
      BY <3>1, <3>2, <3>4
  <2>4. jobs'[j].status = s /\ jobs'[j].file = Anchor /\ row'.job = j
    BY <1>1, <2>1, <2>3 DEF Job
  <2>5. CASE s \in {"attached", "landed"}
    <3>1. real' = Files
      BY <1>1, <1>2, <2>4, <2>5 DEF AnchorPromotes, Whole, PromotedWhole, TypeOK, ItemTypeOK
    <3>2. RecordedJob = "coming" /\ RecordedJob' = "delivered"
      BY <1>4, <2>1, <2>3, <2>4, <2>5 DEF RecordedJob
    <3> QED
      BY <1>1, <3>1, <3>2 DEF Promise!Next, Promise!DeliverRecorded
  <2>6. CASE s \in {"closing", "failed"}
    <3>1. RecordedJob = "coming" /\ RecordedJob' = "lost" /\ real' = real
      BY <1>4, <2>1, <2>3, <2>4, <2>6 DEF RecordedJob
    <3> QED
      BY <1>1, <3>1 DEF Promise!Next, Promise!Lose
  <2> QED
    BY <2>5, <2>6
<1> QED
  BY <1>3, <1>4

\* So is a step of a run.
LEMMA PromiseRun ==
  ASSUME Promised, [Next]_vars, RunOther
  PROVE  [Promise!Next]_Promise!vars
<1> USE DEF Promised
<1>1. UNCHANGED <<jobs, real>>
  BY DEF RunOther
<1>2. CASE UNCHANGED row
  BY <1>1, <1>2 DEF RecordedJob, Promise!vars
<1>3. CASE pc = "create" /\ row' = [row EXCEPT !.named = TRUE]
  <2>1. row'.job = NoJob /\ row.job = NoJob /\ row'.named = TRUE
    BY <1>3 DEF RowFirst, TypeOK, Row
  <2>2. RecordedJob' = RecordedJob
    BY <2>1 DEF RecordedJob
  <2> QED
    BY <1>1, <2>1, <2>2 DEF Promise!Next, Promise!Name
<1>4. CASE pc = "persist" /\ row' = [row EXCEPT !.job = mine]
  <2>1. /\ row.job = NoJob /\ row.named /\ row'.named = row.named
        /\ row'.job = mine /\ OfAnchor(mine)
    BY <1>4 DEF RowFirst, Recorded, TypeOK, Row
  <2>2. mine # NoJob /\ jobs[mine].status \in ComingStatuses \cup TerminalStatuses
    <3>1. jobs \in Seq(Job) /\ mine \in DOMAIN jobs
      BY <2>1 DEF OfAnchor, JobIds, TypeOK, ItemTypeOK
    <3>2. jobs[mine] \in Job /\ mine # NoJob
      BY <3>1 DEF NoJob
    <3> QED
      BY <3>2 DEF Job
  <2>3. jobs[mine].status \in {"attached", "landed"} => real = Files
    BY <2>1 DEF OfAnchor, AnchorPromotes, Whole, PromotedWhole, TypeOK, ItemTypeOK
  <2>4. RecordedJob = "none"
    BY <2>1, NothingRecorded
  <2>5. RecordedJob' \in {"coming", "lost"} \cup IF real = Files THEN {"delivered"} ELSE {}
    BY <1>1, <2>1, <2>2, <2>3 DEF RecordedJob, ComingStatuses, TerminalStatuses
  <2> QED
    BY <1>1, <2>1, <2>4, <2>5 DEF Promise!Next, Promise!Record
<1> QED
  BY <1>2, <1>3, <1>4, RowMoves

\* Every step is a step of ImportPromise or leaves its variables alone.
LEMMA PromiseStep ==
  ASSUME Promised, Promised', [Next]_vars
  PROVE  [Promise!Next]_Promise!vars
<1>1. CASE \E j \in JobIds : JobStep(j) \/ JobGoesWrong(j)
  BY <1>1, PromiseJob
<1>2. ASSUME NEW f \in Files, RequestStep(f), Requested(f)
      PROVE  UNCHANGED Promise!vars
  <2>1. pc \in {"single", "anchor", "extras"}
    BY <1>2 DEF RequestStep, ImportSingle, ImportAnchor, ImportExtra, ToImport
  <2>2. row' = row /\ row.job = NoJob
    BY <2>1, RowMoves DEF Promised, RowFirst
  <2>3. RecordedJob' = RecordedJob /\ real' = real
    BY <1>2, <2>2, RequestMoves DEF Promised, RecordedJob
  <2> QED
    BY <2>2, <2>3 DEF Promise!vars
<1>3. CASE RunOther
  BY <1>3, PromiseRun
<1> QED
  BY <1>1, <1>2, <1>3, StepKinds DEF Promised

\* When every run sees every extra, the import implements its promise: for
\* who looks at the row and the item, whatever dies, fails or is resumed,
\* the media come whole and once, and the row never says of its job what is
\* not so (ingest, import_file, persist_ingest_state).
THEOREM KeepsPromise == EveryRunSeesAll /\ Spec => ImplementsPromise
<1> SUFFICES ASSUME EveryRunSeesAll PROVE Spec => Promise!Spec
  BY DEF ImplementsPromise
<1>1. Init => Promised
  BY TypeStarts, KnowsStarts, WholeStarts, RecordedStarts, RowFirstStarts DEF Promised
<1>2. Promised /\ [Next]_vars => Promised'
  BY TypeKept, KnowsStep, WholeStep, AnchorPromotesStep, RecordedStep, RowFirstStep
     DEF Promised
<1>3. Init => Promise!Init
  BY DEF Init, ItemInit, Promise!Init, RecordedJob
<1>4. Promised /\ Promised' /\ [Next]_vars => [Promise!Next]_Promise!vars
  BY PromiseStep
<1> QED
  BY <1>1, <1>2, <1>3, <1>4, PTL DEF Spec, Promise!Spec

===========================================================================
