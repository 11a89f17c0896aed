-------------------------- MODULE ComponentImport --------------------------
(***************************************************************************)
(* models/clip.py: ingest, import_file and _import_multi_component, run    *)
(* again and again by scans (models/folder.py) on ONE clip, beside the     *)
(* import jobs of its Vidispine item.  A run may die, or have a Vidispine  *)
(* call raise, at any step: what outlives it is the row, the item and the  *)
(* jobs already started.  Runs of one clip follow one another, `replace`   *)
(* is FALSE, and the anchor declares a video component of its own.         *)
(***************************************************************************)
EXTENDS VidispineItem

CONSTANTS
  Sightings,      \* the sets of extras a run may see on the storage
  Confirmations,  \* LANDING_CONFIRMATIONS
  Reliable,       \* every job and shape can be read
  MaxMishaps      \* bound on deaths, failed jobs, empty answers, timeouts

ASSUME ImportAssumption ==
  /\ Sightings \subseteq SUBSET Extras
  /\ Confirmations \in Nat \ {0}
  /\ Reliable \in BOOLEAN
  /\ MaxMishaps \in Nat

VARIABLES
  row,       \* the clip's row: named, the item_id is set; job, the job_id
  pc,        \* where the run is
  sees,      \* getClipAdditionalMediaFiles
  held,      \* attached_file_ids, read when the placeholder was resolved
  flying,    \* in_flight: the running jobs of each file, when listed
  todo,      \* extras the import loop has not reached
  missed,    \* component_failures is not empty
  pending,   \* component_job_ids, then the wait's pending
  reread,    \* last_pending_count is None
  missing,   \* expected files not attached, or everything: unreadable
  looks,     \* confirmations left
  mine,      \* the job this run recorded on the clip
  outcome,   \* of the last run
  mishaps    \* how many happened

runVars == <<sees, held, flying, todo, missed, pending, reread, missing,
             looks, mine>>
vars == <<itemVars, row, pc, runVars, outcome, mishaps>>

NoJob == 0

PCs == {"idle", "create", "examine", "resolve", "list", "single", "declare",
        "extras", "poll", "look", "judge", "verdict", "anchor", "persist"}

Outcomes == {"none", "ingested", "skipped", "failed", "raised"}

Row == [named : BOOLEAN, job : Nat]

TypeOK ==
  /\ ItemTypeOK
  /\ row \in Row
  /\ pc \in PCs
  /\ sees \in SUBSET Extras
  /\ held \in SUBSET Files
  /\ flying \in [Files -> SUBSET (1..MaxJobs)]
  /\ todo \in SUBSET Extras
  /\ missed \in BOOLEAN
  /\ pending \in SUBSET (1..MaxJobs)
  /\ reread \in BOOLEAN
  /\ missing \in SUBSET Files
  /\ looks \in 1..Confirmations
  /\ mine \in Nat
  /\ outcome \in Outcomes
  /\ mishaps \in 0..MaxMishaps

NothingFlies == [f \in Files |-> {}]

Init ==
  /\ ItemInit
  /\ row = [named |-> FALSE, job |-> NoJob]
  /\ pc = "idle"
  /\ sees = {}
  /\ held = {}
  /\ flying = NothingFlies
  /\ todo = {}
  /\ missed = FALSE
  /\ pending = {}
  /\ reread = TRUE
  /\ missing = {}
  /\ looks = Confirmations
  /\ mine = NoJob
  /\ outcome = "none"
  /\ mishaps = 0

-----------------------------------------------------------------------------

Expected == sees \cup {Anchor}

Mishap == mishaps < MaxMishaps /\ mishaps' = mishaps + 1

\* What a run holds in memory is gone when it ends.
Forget ==
  /\ sees' = {}
  /\ held' = {}
  /\ flying' = NothingFlies
  /\ todo' = {}
  /\ missed' = FALSE
  /\ pending' = {}
  /\ reread' = TRUE
  /\ missing' = {}
  /\ looks' = Confirmations
  /\ mine' = NoJob

End(result) ==
  /\ pc' = "idle"
  /\ outcome' = result
  /\ Forget

\* A failed or skipped run persists the row it read, unchanged.
Fails == End("failed") /\ UNCHANGED <<itemVars, row, mishaps>>

\* Definitions named after a fault (ListNoJobs, SkipWaiting, ...) are the
\* broken variants the properties are tried against; nothing uses them.

IncompleteWithJob == row.named

\* is_incomplete_import: an item, no job.
Incomplete == row.named /\ row.job = NoJob

WillIngestOnce == ~row.named

\* will_ingest: a new clip, or one whose import never started a job.
WillIngest == ~row.named \/ Incomplete

StartRun ==
  /\ pc = "idle"
  /\ WillIngest
  /\ sees' \in Sightings
  /\ pc' = IF row.named THEN "examine" ELSE "create"
  /\ outcome' = "none"
  /\ UNCHANGED <<itemVars, row, held, flying, todo, missed, pending, reread,
                 missing, looks, mine, mishaps>>

\* create_item: the placeholder item and, at once, its id on the row.
CreateItem ==
  /\ pc = "create"
  /\ row' = [row EXCEPT !.named = TRUE]
  /\ pc' = "examine"
  /\ UNCHANGED <<itemVars, runVars, outcome, mishaps>>

\* The query for real original shapes: one that holds files is a skip.
Examine ==
  /\ pc = "examine"
  /\ IF real # {}
     THEN End("skipped") /\ UNCHANGED <<itemVars, row, mishaps>>
     ELSE /\ pc' = "resolve"
          /\ UNCHANGED <<itemVars, row, runVars, outcome, mishaps>>

-----------------------------------------------------------------------------
(* _get_or_create_placeholder_shape, then the listing of the item's jobs.  *)

ImportPathAlone == IF held = {} THEN "single" ELSE "declare"

ImportPath == IF sees = {} THEN "single" ELSE "declare"

CreateShape ==
  /\ pc = "resolve"
  /\ OpenPlaceholder
  /\ pc' = ImportPath
  /\ UNCHANGED <<real, jobs, row, runVars, outcome, mishaps>>

DeadEnd == Anchor \in Attached \/ ~(Attached \subseteq Expected)

ReuseShape ==
  /\ pc = "resolve"
  /\ open
  /\ ~DeadEnd
  /\ held' = Attached
  /\ pc' = "list"
  /\ UNCHANGED <<itemVars, row, sees, flying, todo, missed, pending, reread,
                 missing, looks, mine, outcome, mishaps>>

RefuseShape ==
  /\ pc = "resolve"
  /\ open
  /\ DeadEnd
  /\ Fails

ListNoJobs ==
  /\ pc = "list"
  /\ flying' = NothingFlies
  /\ pc' = ImportPath
  /\ UNCHANGED <<itemVars, row, sees, held, todo, missed, pending, reread,
                 missing, looks, mine, outcome, mishaps>>

\* _in_flight_component_files: a job that cannot be read is not in flight.
ListJobs ==
  /\ pc = "list"
  /\ flying' \in [Files -> SUBSET JobIds]
  /\ \A f \in Files :
       IF f \in Expected
       THEN /\ flying'[f] \subseteq Coming(f)
            /\ Reliable => flying'[f] = Coming(f)
       ELSE flying'[f] = {}
  /\ pc' = ImportPath
  /\ UNCHANGED <<itemVars, row, sees, held, todo, missed, pending, reread,
                 missing, looks, mine, outcome, mishaps>>

-----------------------------------------------------------------------------
(* Requests.  An answer without a job id starts nothing; a refused request *)
(* raises out of the run, which persists nothing.                          *)

Unanswered == Mishap /\ UNCHANGED itemVars

Requested(f) == StartJob(f) /\ UNCHANGED <<open, declared, landed, real>>

Refused(f) ==
  /\ ~Accepts(f)
  /\ End("raised")
  /\ UNCHANGED <<itemVars, row, mishaps>>

\* _record_job.
Record(j) ==
  /\ mine' = j
  /\ pc' = "persist"
  /\ UNCHANGED <<row, sees, held, flying, todo, missed, pending, reread,
                 missing, looks, outcome>>

SingleInFlight ==
  /\ pc = "single"
  /\ \E j \in flying[Anchor] : Record(j)
  /\ UNCHANGED <<itemVars, mishaps>>

RequestAnchor ==
  \/ Requested(Anchor) /\ Record(NewJob) /\ UNCHANGED mishaps
  \/ Accepts(Anchor) /\ Unanswered /\ End("failed") /\ UNCHANGED row
  \/ Refused(Anchor)

ImportSingle ==
  /\ pc = "single"
  /\ flying[Anchor] = {}
  /\ RequestAnchor

\* updatePlaceholderComponentCount, when no file was found on the shape.
Declare ==
  /\ pc = "declare"
  /\ open \/ held # {}
  /\ declared' = IF held = {} THEN Cardinality(sees) ELSE declared
  /\ todo' = sees
  /\ pc' = "extras"
  /\ UNCHANGED <<open, landed, real, jobs, row, sees, held, flying, missed,
                 pending, reread, missing, looks, mine, outcome, mishaps>>

\* The provider cannot tell what the anchor contributes: no budget to declare.
Undecided ==
  /\ pc = "declare"
  /\ held = {}
  /\ Mishap
  /\ End("failed")
  /\ UNCHANGED <<itemVars, row>>

\* The placeholder to declare on was promoted meanwhile.
DeclareRefused ==
  /\ pc = "declare"
  /\ ~open /\ held = {}
  /\ End("raised")
  /\ UNCHANGED <<itemVars, row, mishaps>>

\* An extra that is attached or in flight is not imported again.
PassOver(e) ==
  /\ pc = "extras"
  /\ e \in held \/ flying[e] # {}
  /\ pending' = IF e \in held THEN pending ELSE pending \cup flying[e]
  /\ todo' = todo \ {e}
  /\ UNCHANGED <<itemVars, row, pc, sees, held, flying, missed, reread,
                 missing, looks, mine, outcome, mishaps>>

ToImport(e) == pc = "extras" /\ e \notin held /\ flying[e] = {}

ImportExtra(e) ==
  /\ ToImport(e)
  /\ Requested(e)
  /\ pending' = pending \cup {NewJob}
  /\ todo' = todo \ {e}
  /\ UNCHANGED <<row, pc, sees, held, flying, missed, reread, missing,
                 looks, mine, outcome, mishaps>>

ExtraUnanswered(e) ==
  /\ ToImport(e)
  /\ Accepts(e)
  /\ Unanswered
  /\ missed' = TRUE
  /\ todo' = todo \ {e}
  /\ UNCHANGED <<row, pc, sees, held, flying, pending, reread, missing,
                 looks, mine, outcome>>

ExtraRefused(e) == ToImport(e) /\ Refused(e)

\* A component without a job: the anchor is not imported.
LeaveIncomplete ==
  /\ pc = "extras"
  /\ todo = {}
  /\ missed
  /\ Fails

SkipWaiting ==
  /\ pc = "extras"
  /\ todo = {}
  /\ ~missed
  /\ pc' = "anchor"
  /\ UNCHANGED <<itemVars, row, runVars, outcome, mishaps>>

StartWaiting ==
  /\ pc = "extras"
  /\ todo = {}
  /\ ~missed
  /\ pending' = pending \cup flying[Anchor]
  /\ pc' = "poll"
  /\ UNCHANGED <<itemVars, row, sees, held, flying, todo, missed, reread,
                 missing, looks, mine, outcome, mishaps>>

-----------------------------------------------------------------------------
(* _wait_for_components_to_land: the jobs are polled; the shape is read    *)
(* when the number of pending ones changed.                                *)

Awaited == IF flying[Anchor] = {} THEN sees ELSE Expected

\* A job that cannot be read is still running.
Poll ==
  /\ pc = "poll"
  /\ pending' \in SUBSET pending
  /\ {j \in pending : ~Stopped(j)} \subseteq pending'
  /\ Reliable => \A j \in pending' : ~Stopped(j)
  /\ pc' = IF reread \/ pending' # pending THEN "look" ELSE "judge"
  /\ UNCHANGED <<itemVars, row, sees, held, flying, todo, missed, reread,
                 missing, looks, mine, outcome, mishaps>>

\* The shape answers, or cannot be read and is taken to miss everything.
Look ==
  /\ pc = "look"
  /\ \/ missing' = Awaited \ ShapeFiles
     \/ ~Reliable /\ missing' = Awaited
  /\ reread' = FALSE
  /\ pc' = "judge"
  /\ UNCHANGED <<itemVars, row, sees, held, flying, todo, missed, pending,
                 looks, mine, outcome, mishaps>>

AllStopped ==
  /\ pc = "judge"
  /\ pending = {}
  /\ pc' = IF flying[Anchor] = {} THEN "anchor" ELSE "verdict"
  /\ UNCHANGED <<itemVars, row, runVars, outcome, mishaps>>

AllLanded ==
  /\ pc = "judge"
  /\ pending = {}
  /\ missing = {}
  /\ pc' = IF flying[Anchor] = {} THEN "anchor" ELSE "verdict"
  /\ UNCHANGED <<itemVars, row, runVars, outcome, mishaps>>

ConfirmAgain ==
  /\ pc = "judge"
  /\ pending = {} /\ missing # {}
  /\ looks' = looks - 1
  /\ reread' = TRUE
  /\ pc' = "poll"
  /\ UNCHANGED <<itemVars, row, sees, held, flying, todo, missed, pending,
                 missing, mine, outcome, mishaps>>

\* Every job has stopped and a file is missing: look again.
Confirm ==
  /\ pc = "judge"
  /\ pending = {} /\ missing # {}
  /\ looks > 1
  /\ looks' = looks - 1
  /\ reread' = TRUE
  /\ pc' = "poll"
  /\ UNCHANGED <<itemVars, row, sees, held, flying, todo, missed, pending,
                 missing, mine, outcome, mishaps>>

NeverLanded ==
  /\ pc = "judge"
  /\ pending = {} /\ missing # {}
  /\ looks = 1
  /\ Fails

WaitOn ==
  /\ pc = "judge"
  /\ pending # {}
  /\ pc' = "poll"
  /\ UNCHANGED <<itemVars, row, runVars, outcome, mishaps>>

ExpireWhenStopped == pc = "judge" /\ pending = {} /\ Fails

\* The bound of the wait, checked only while a job is pending.
Expire ==
  /\ pc = "judge"
  /\ pending # {}
  /\ Fails

-----------------------------------------------------------------------------
(* The anchor, last.  If an earlier run sent it, its job has evaluated the *)
(* placeholder by now: _placeholder_still_open tells how.                  *)

ImportAnchor ==
  /\ pc = "anchor"
  /\ RequestAnchor

RecordPromoted ==
  /\ pc = "verdict"
  /\ ~open
  /\ real # {}
  /\ \E j \in flying[Anchor] : Record(j)
  /\ UNCHANGED <<itemVars, mishaps>>

StillOpen ==
  /\ pc = "verdict"
  /\ open \/ ~Reliable
  /\ Fails

\* persist_ingest_state.
Persist ==
  /\ pc = "persist"
  /\ row' = [row EXCEPT !.job = mine]
  /\ End("ingested")
  /\ UNCHANGED <<itemVars, mishaps>>

\* The process dies, or a call of Vidispine or of the database raises.
Die ==
  /\ pc # "idle"
  /\ Mishap
  /\ End("raised")
  /\ UNCHANGED <<itemVars, row>>

-----------------------------------------------------------------------------

RunStep ==
  \/ CreateItem \/ Examine
  \/ CreateShape \/ ReuseShape \/ RefuseShape \/ ListJobs
  \/ SingleInFlight \/ ImportSingle
  \/ Undecided \/ Declare \/ DeclareRefused
  \/ \E e \in todo :
       PassOver(e) \/ ImportExtra(e) \/ ExtraUnanswered(e) \/ ExtraRefused(e)
  \/ LeaveIncomplete \/ StartWaiting
  \/ Poll \/ Look \/ AllLanded \/ Confirm \/ NeverLanded \/ WaitOn \/ Expire
  \/ ImportAnchor \/ RecordPromoted \/ StillOpen \/ Persist

\* How a job of the item goes on, when nothing goes wrong.
JobStep(j) ==
  /\ JobAttaches(j) \/ JobEnds(j) \/ JobMissesShape(j)
  /\ UNCHANGED <<row, pc, runVars, outcome, mishaps>>

JobGoesWrong(j) ==
  /\ Mishap
  /\ JobFails(j)
  /\ UNCHANGED <<row, pc, runVars, outcome>>

Next ==
  \/ StartRun
  \/ RunStep
  \/ Die
  \/ \E j \in JobIds : JobStep(j) \/ JobGoesWrong(j)

Spec == Init /\ [][Next]_vars

\* A run goes on, and its wait does not outlast its bound; the scans recur.
FairSpec ==
  /\ Spec
  /\ WF_vars(StartRun)
  /\ WF_vars(RunStep)
  /\ SF_vars(Expire)

\* A job that was accepted ends, if Vidispine works.
LiveSpec ==
  /\ FairSpec
  /\ \A j \in 1..MaxJobs : WF_vars(j \in JobIds /\ JobStep(j))

-----------------------------------------------------------------------------

\* The multi-component path asks for the anchor's import only when every
\* extra it knows of is on the shape: the anchor's job evaluates the
\* placeholder once (_import_multi_component, "THE WAIT").
AnchorLast ==
  [][\A j \in JobIds' \ JobIds : jobs'[j].file = Anchor => sees \subseteq Attached]_vars

\* No import is requested for a file while an earlier run's job for it is
\* still coming: the rival would be accepted and land as a second component
\* (_in_flight_component_files).
NoRivalImport ==
  [][real = {} => \A j \in JobIds' \ JobIds : Coming(jobs'[j].file) = {}]_vars

\* An item whose shape is real holds every file of the clip.
PromotedWhole == real # {} => Files \subseteq real

\* A row that has its job is not looked at again: the job is an import of
\* the anchor, and once it has attached the anchor the shape is real, never
\* a placeholder nothing re-evaluates.
RecordedPromotes ==
  row.job # NoJob =>
    /\ row.job \in JobIds
    /\ jobs[row.job].file = Anchor
    /\ jobs[row.job].status \in {"attached", "landed"} => real # {}

\* A component lands once: a file that is attached, or whose import is in
\* flight, is not imported again.  The shape is read before the jobs are
\* listed, and a component that lands between the two is imported twice.
ImportedOnce == \A f \in Files : landed[f] <= 1

\* A real shape holding files never reaches the placeholder's resolution.
\* It does when the anchor's job promotes it between the two shape queries:
\* the item then gets a second, empty placeholder.
RealShapeSkipped == ~(open /\ real # {})

\* Every run comes to an end: no wait outlasts its bound.
RunsEnd == []<>(pc = "idle")

\* Why a scan no longer brings the clip forward.
Unrecorded == real # {} /\ Incomplete
Clogged == open /\ (Anchor \in Attached \/ ExtrasLanded > Cardinality(Attached \cap Extras))

\* The clip's import converges: the row gets its job, or the shape was
\* promoted for a run that did not live to record it, or the placeholder is
\* one that no run can close.
Converges == <>[](row.job # NoJob \/ Unrecorded \/ Clogged)

-----------------------------------------------------------------------------
(* What all this is for, seen from the row and the item's media.           *)

\* What the job on the row has come to.
RecordedJob ==
  IF row.job = NoJob THEN "none"
  ELSE CASE jobs[row.job].status \in {"running", "closing"}  -> "coming"
         [] jobs[row.job].status \in {"attached", "landed"} -> "delivered"
         [] OTHER                                           -> "lost"

Promise == INSTANCE ImportPromise WITH
             Clip <- Files, named <- row.named, recorded <- RecordedJob, media <- real

\* The import keeps what it promises: whatever runs die and whatever jobs
\* fail, the item's media go from none to the whole clip in one step, the
\* row names the item by then, and a job is recorded once and never as
\* having delivered what the item does not hold.
ImplementsPromise == Promise!Spec

=============================================================================
