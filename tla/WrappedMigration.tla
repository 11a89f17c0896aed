-------------------------- MODULE WrappedMigration --------------------------
(***************************************************************************)
(* wrapped/executor.py, and the plan and apply actions of the command that *)
(* drives it (migrate_wrapped_items.py), for ONE item.  Every step of      *)
(* apply may be the run's last: what outlives it is the row, the item, its *)
(* files and the clip.  The disk, Vidispine's index and Portal's archiving *)
(* change under the migration.  Rows are independent of each other; a dry  *)
(* run writes nothing; the run is whole, without `stop_before`.            *)
(* Definitions named after a fault (PlanReadsAny, PostAgain, ...) are the  *)
(* broken variants the properties are tried against; nothing uses them.    *)
(***************************************************************************)
EXTENDS Naturals, FiniteSets

CONSTANTS
  Originals,    \* the camera files the item is to be re-pointed to
  Taped,        \* those the P5 archive knows (`entry`)
  Overlapping,  \* plan may run while apply does
  MaxMishaps    \* bound on deaths, failing calls and files that go away

ASSUME MigrationAssumption ==
  /\ Originals # {}
  /\ Taped \subseteq Originals
  /\ Overlapping \in BOOLEAN
  /\ MaxMishaps \in Nat

VARIABLES
  disk,      \* the originals that are files on the rushes storage
  entity,    \* what Vidispine's index holds for each original's path
  shapes,    \* the item's shapes tagged `original`
  labelled,  \* <<shape, original>>: the component has its metadata
  summed,    \* the item's own archive fields are written
  file,      \* the wrapped file
  clip,      \* the Clip row names the first original (SHAPE_POSTED)
  row,       \* WrappedMigration: verdict, phase, plan
  drafting,  \* plan found the row's phase empty and is at work on it
  draft,     \* its verdict and plan
  pc,        \* where apply's executor is
  doing,     \* the phase it is in
  mem,       \* its copy of the plan
  found,     \* found_ids
  todo,      \* originals its loop has not reached
  optIn,     \* --delete-online-wrapped
  mishaps    \* how many happened

worldVars == <<disk, entity>>
itemVars == <<shapes, labelled, summed, file, clip>>
planVars == <<drafting, draft>>
applyVars == <<pc, doing, mem, found, todo, optIn>>
vars == <<worldVars, itemVars, row, planVars, applyVars, mishaps>>

Wrapped == 0                            \* the shape naming the wrapped file
Posted == shapes \ {Wrapped}            \* shapes naming the originals

EntityStates == {"none", "CLOSED", "ARCHIVED", "LOST"}

\* A plan.  Its file ids are those of the originals' own entities, so the
\* originals that have one stand for them.
Plan == [kind   : {"none", "wrap", "complete"},
         onDisk : SUBSET Originals,
         bound  : SUBSET Originals,   \* have a file_id
         shape  : Nat,                \* new_shape_id
         hashed : SUBSET Originals,   \* have a sha1
         kept   : BOOLEAN]            \* wrapped_kept

EmptyPlan == [kind |-> "none", onDisk |-> {}, bound |-> {}, shape |-> Wrapped,
              hashed |-> {}, kept |-> FALSE]

Verdicts == {"none", "ready", "already-migrated", "refused"}

\* WRAP_PHASES and COMPLETE_PHASES, as "what comes next"; the empty phase is
\* "none".
WrapNextUnclipped ==
  [none              |-> "files_registered",
   files_registered  |-> "shape_posted",
   shape_posted      |-> "metadata_written",
   metadata_written  |-> "old_shape_removed",
   old_shape_removed |-> "verified",
   verified          |-> "done"]

WrapNext ==
  [none              |-> "files_registered",
   files_registered  |-> "shape_posted",
   shape_posted      |-> "metadata_written",
   metadata_written  |-> "old_shape_removed",
   old_shape_removed |-> "clip_updated",
   clip_updated      |-> "verified",
   verified          |-> "done"]

CompleteNext ==
  [none             |-> "metadata_written",
   metadata_written |-> "verified",
   verified         |-> "done"]

NextPhase(kind) == IF kind = "wrap" THEN WrapNext ELSE CompleteNext

\* The first step of each phase.
Entry ==
  [files_registered  |-> "probe",
   shape_posted      |-> "post",
   metadata_written  |-> "hash",
   old_shape_removed |-> "detach",
   clip_updated      |-> "clip",
   verified          |-> "verify",
   done              |-> "finish"]

Phases == DOMAIN Entry
PCs == {Entry[p] : p \in Phases}
         \cup {"idle", "lookup", "register", "label", "delete", "save"}

\* What a saved phase says of the saved plan.
PlanFits ==
  row.plan.kind = "wrap" =>
    /\ row.phase # "none" => row.plan.bound = Originals
    /\ row.phase \notin {"none", "files_registered"} => row.plan.shape \in Posted

Typed ==
  /\ disk \in SUBSET Originals
  /\ entity \in [Originals -> EntityStates]
  /\ shapes \in SUBSET Nat
  /\ labelled \in SUBSET (Nat \X Originals)
  /\ summed \in BOOLEAN
  /\ file \in {"online", "offline", "elsewhere", "gone"}
  /\ clip \in BOOLEAN
  /\ row \in [verdict : Verdicts, phase : Phases \cup {"none"}, plan : Plan]
  /\ drafting \in BOOLEAN
  /\ draft \in [verdict : Verdicts, plan : Plan]
  /\ pc \in PCs
  /\ doing \in Phases \cup {"none"}
  /\ mem \in Plan
  /\ found \in SUBSET Originals
  /\ todo \in SUBSET Originals
  /\ optIn \in BOOLEAN
  /\ mishaps \in 0..MaxMishaps

TypeOK == Typed /\ PlanFits

NoDraft == [verdict |-> "none", plan |-> EmptyPlan]

\* An item with its wrapped shape, or one migrated in place before this code.
Init ==
  /\ disk \in SUBSET Originals
  /\ entity \in [Originals -> EntityStates]
  /\ shapes \in {{Wrapped}, {1}}
  /\ labelled = {}
  /\ summed = FALSE
  /\ file \in {"online", "elsewhere"}
  /\ clip = FALSE
  /\ row = [verdict |-> "none", phase |-> "none", plan |-> EmptyPlan]
  /\ drafting = FALSE
  /\ draft = NoDraft
  /\ pc = "idle"
  /\ doing = "none"
  /\ mem = EmptyPlan
  /\ found = {}
  /\ todo = {}
  /\ optIn = FALSE
  /\ mishaps = 0

Mishap == mishaps < MaxMishaps /\ mishaps' = mishaps + 1

-----------------------------------------------------------------------------
(* plan.                                                                   *)

Known == {o \in Originals : entity[o] # "none"}

\* _located_problem: an original neither on disk nor in P5, or a tape-only
\* one bound to a stale entity.
Unlocated == {o \in Originals \ disk : o \notin Taped \/ entity[o] \notin {"none", "ARCHIVED"}}

\* plan_item, on the item as it is now.
Drafted ==
  LET plan == [EmptyPlan EXCEPT !.onDisk = disk]
  IN  IF Cardinality(shapes) = 1 /\ Wrapped \notin shapes
      THEN [verdict |-> "already-migrated",
            plan |-> [plan EXCEPT !.kind = "complete", !.bound = Originals,
                                  !.shape = CHOOSE s \in shapes : TRUE]]
      ELSE IF shapes = {Wrapped} /\ Unlocated = {}
      THEN [verdict |-> "ready",
            plan |-> [plan EXCEPT !.kind = "wrap", !.bound = Known]]
      ELSE [verdict |-> "refused", plan |-> EmptyPlan]

PlanReadsAny ==
  /\ ~drafting
  /\ Overlapping \/ pc = "idle"
  /\ drafting' = TRUE
  /\ draft' = Drafted
  /\ UNCHANGED <<worldVars, itemVars, row, applyVars, mishaps>>

\* A row whose phase is not empty is left alone.
PlanReads ==
  /\ ~drafting
  /\ Overlapping \/ pc = "idle"
  /\ row.phase = "none"
  /\ drafting' = TRUE
  /\ draft' = Drafted
  /\ UNCHANGED <<worldVars, itemVars, row, applyVars, mishaps>>

\* A read of it fails: the row says so (verdict ERROR), with an empty plan.
PlanErrs ==
  /\ ~drafting
  /\ Overlapping \/ pc = "idle"
  /\ row.phase = "none"
  /\ Mishap
  /\ drafting' = TRUE
  /\ draft' = [verdict |-> "refused", plan |-> EmptyPlan]
  /\ UNCHANGED <<worldVars, itemVars, row, applyVars>>

\* update_or_create: the verdict and the plan, not the phase.
PlanWrites ==
  /\ drafting
  /\ row' = [row EXCEPT !.verdict = draft.verdict, !.plan = draft.plan]
  /\ drafting' = FALSE
  /\ draft' = NoDraft
  /\ UNCHANGED <<worldVars, itemVars, applyVars, mishaps>>

PlanDies ==
  /\ drafting
  /\ Mishap
  /\ drafting' = FALSE
  /\ draft' = NoDraft
  /\ UNCHANGED <<worldVars, itemVars, row, applyVars>>

-----------------------------------------------------------------------------
(* apply: Executor.run.                                                    *)

\* The run of the row is over: done, failed or killed.
Leave ==
  /\ pc' = "idle"
  /\ doing' = "none"
  /\ mem' = EmptyPlan
  /\ found' = {}
  /\ todo' = {}
  /\ optIn' = FALSE

Enter(phase) == doing' = phase /\ pc' = Entry[phase]

StartAfresh ==
  /\ pc = "idle"
  /\ Overlapping \/ ~drafting
  /\ row.verdict \in {"ready", "already-migrated"}
  /\ row.phase = "none"
  /\ mem' = row.plan
  /\ Enter(NextPhase(row.plan.kind)[row.phase])
  /\ optIn' \in BOOLEAN
  /\ UNCHANGED <<worldVars, itemVars, row, planVars, found, todo, mishaps>>

\* The row resumes after its phase; a phase its plan does not know raises.
StartApply ==
  /\ pc = "idle"
  /\ Overlapping \/ ~drafting
  /\ row.verdict \in {"ready", "already-migrated"}
  /\ row.phase \in DOMAIN NextPhase(row.plan.kind)
  /\ mem' = row.plan
  /\ Enter(NextPhase(row.plan.kind)[row.phase])
  /\ optIn' \in BOOLEAN
  /\ UNCHANGED <<worldVars, itemVars, row, planVars, found, todo, mishaps>>

\* A StepError: the run ends, the row keeps its phase and its plan.
Refuse == Leave /\ UNCHANGED <<worldVars, itemVars, row, planVars, mishaps>>

\* The end of a phase: only the phase and the plan are saved.
Save ==
  /\ pc = "save"
  /\ row' = [row EXCEPT !.phase = doing, !.plan = mem]
  /\ IF doing = "done"
     THEN Leave
     ELSE /\ Enter(NextPhase(mem.kind)[doing])
          /\ UNCHANGED <<mem, found, todo, optIn>>
  /\ UNCHANGED <<worldVars, itemVars, planVars, mishaps>>

\* A step that only moves the run on.
Goto(step) == pc' = step /\ UNCHANGED <<doing, found, optIn>>

-----------------------------------------------------------------------------
(* _register_files.                                                        *)

Disappeared == mem.onDisk \ disk

\* Its planned on_disk may be stale: probed again before any write.
Probe ==
  /\ pc = "probe"
  /\ Disappeared \subseteq Taped \ mem.bound
  /\ mem' = [mem EXCEPT !.onDisk = @ \cap disk]
  /\ Goto("lookup")
  /\ UNCHANGED <<worldVars, itemVars, row, planVars, todo, mishaps>>

ProbeRefuses ==
  /\ pc = "probe"
  /\ ~(Disappeared \subseteq Taped \ mem.bound)
  /\ Refuse

\* Entities of the originals without an id that may not be reused.
Stale == {o \in Known \ (mem.bound \cup mem.onDisk) : entity[o] # "ARCHIVED"}

LookupAny ==
  /\ pc = "lookup"
  /\ found' = Known \ mem.bound
  /\ todo' = Originals \ mem.bound
  /\ pc' = "register"
  /\ UNCHANGED <<worldVars, itemVars, row, planVars, doing, mem, optIn, mishaps>>

Lookup ==
  /\ pc = "lookup"
  /\ Stale = {}
  /\ found' = Known \ mem.bound
  /\ todo' = Originals \ mem.bound
  /\ pc' = "register"
  /\ UNCHANGED <<worldVars, itemVars, row, planVars, doing, mem, optIn, mishaps>>

LookupRefuses ==
  /\ pc = "lookup"
  /\ Stale # {}
  /\ Refuse

Register(o) ==
  /\ pc = "register"
  /\ o \in todo
  /\ entity' = IF o \in found THEN entity
               ELSE [entity EXCEPT ![o] = IF o \in mem.onDisk THEN "CLOSED" ELSE "ARCHIVED"]
  /\ mem' = [mem EXCEPT !.bound = @ \cup {o}]
  /\ todo' = todo \ {o}
  /\ UNCHANGED <<disk, itemVars, row, planVars, pc, doing, found, optIn, mishaps>>

Registered ==
  /\ pc = "register"
  /\ todo = {}
  /\ Goto("save")
  /\ UNCHANGED <<worldVars, itemVars, row, planVars, mem, todo, mishaps>>

-----------------------------------------------------------------------------
(* _post_shape: a shape that names the originals is adopted; one is posted *)
(* only beside the wrapped shape alone.                                    *)

AdoptUnrecorded ==
  /\ pc = "post"
  /\ Posted # {}
  /\ Goto("save")
  /\ UNCHANGED <<worldVars, itemVars, row, planVars, mem, todo, mishaps>>

Adopt ==
  /\ pc = "post"
  /\ \E s \in Posted : mem' = [mem EXCEPT !.shape = s]
  /\ Goto("save")
  /\ UNCHANGED <<worldVars, itemVars, row, planVars, todo, mishaps>>

NewShape == Cardinality(Posted) + 1

PostAgain ==
  /\ pc = "post"
  /\ shapes' = shapes \cup {NewShape}
  /\ mem' = [mem EXCEPT !.shape = NewShape]
  /\ Goto("save")
  /\ UNCHANGED <<worldVars, labelled, summed, file, clip, row, planVars, todo, mishaps>>

\* shape/create adds a shape, whatever is there.
Post ==
  /\ pc = "post"
  /\ shapes = {Wrapped}
  /\ shapes' = shapes \cup {NewShape}
  /\ mem' = [mem EXCEPT !.shape = NewShape]
  /\ Goto("save")
  /\ UNCHANGED <<worldVars, labelled, summed, file, clip, row, planVars, todo, mishaps>>

-----------------------------------------------------------------------------
(* _write_metadata.                                                        *)

ToHash == mem.onDisk \ mem.hashed

\* disk.sha1 raises on a file that is gone.
Hash ==
  /\ pc = "hash"
  /\ mem.shape \in shapes
  /\ ToHash \subseteq disk
  /\ mem' = [mem EXCEPT !.hashed = @ \cup ToHash]
  /\ todo' = Originals
  /\ Goto("label")
  /\ UNCHANGED <<worldVars, itemVars, row, planVars, mishaps>>

HashFails ==
  /\ pc = "hash"
  /\ ~(ToHash \subseteq disk)
  /\ Refuse

LabelOne(o) ==
  /\ pc = "label"
  /\ o \in todo
  /\ labelled' = labelled \cup {<<mem.shape, o>>}
  /\ todo' = {}
  /\ UNCHANGED <<worldVars, shapes, summed, file, clip, row, planVars, pc, doing, mem,
                 found, optIn, mishaps>>

Label(o) ==
  /\ pc = "label"
  /\ o \in todo
  /\ labelled' = labelled \cup {<<mem.shape, o>>}
  /\ todo' = todo \ {o}
  /\ UNCHANGED <<worldVars, shapes, summed, file, clip, row, planVars, pc, doing, mem,
                 found, optIn, mishaps>>

Summarise ==
  /\ pc = "label"
  /\ todo = {}
  /\ summed' = TRUE
  /\ Goto("save")
  /\ UNCHANGED <<worldVars, shapes, labelled, file, clip, row, planVars, mem, todo, mishaps>>

-----------------------------------------------------------------------------

\* _detach_wrapped.
Detach ==
  /\ pc = "detach"
  /\ shapes' = shapes \ {Wrapped}
  /\ Goto("save")
  /\ UNCHANGED <<worldVars, labelled, summed, file, clip, row, planVars, mem, todo, mishaps>>

\* _update_clip.
UpdateClip ==
  /\ pc = "clip"
  /\ clip' = TRUE
  /\ Goto("save")
  /\ UNCHANGED <<worldVars, shapes, labelled, summed, file, row, planVars, mem, todo, mishaps>>

\* verify_item, for a plan.
Verifies(plan) ==
  /\ shapes = {plan.shape}
  /\ plan.bound = Originals
  /\ \A o \in Taped : <<plan.shape, o>> \in labelled

Verify ==
  /\ pc = "verify"
  /\ Verifies(mem)
  /\ Goto("save")
  /\ UNCHANGED <<worldVars, itemVars, row, planVars, mem, todo, mishaps>>

\* _finish, when there is no wrapped file to decide about.
FinishWithout ==
  /\ pc = "finish"
  /\ mem.kind = "complete" \/ file = "elsewhere"
  /\ Goto("save")
  /\ UNCHANGED <<worldVars, itemVars, row, planVars, mem, todo, mishaps>>

HasFile == mem.kind = "wrap" /\ file # "elsewhere"

Keep ==
  /\ pc = "finish"
  /\ HasFile
  /\ ~optIn
  /\ mem' = [mem EXCEPT !.kept = TRUE]
  /\ Goto("save")
  /\ UNCHANGED <<worldVars, itemVars, row, planVars, todo, mishaps>>

\* file_state, asked again now: only an online file is deleted.
Recheck ==
  /\ pc = "finish"
  /\ HasFile
  /\ optIn
  /\ Goto(IF file = "online" THEN "delete" ELSE "save")
  /\ UNCHANGED <<worldVars, itemVars, row, planVars, mem, todo, mishaps>>

Delete ==
  /\ pc = "delete"
  /\ file' = "gone"
  /\ Goto("save")
  /\ UNCHANGED <<worldVars, shapes, labelled, summed, clip, row, planVars, mem, todo, mishaps>>

-----------------------------------------------------------------------------
(* What the run does not do itself.                                        *)

\* The process is killed, or a call raises.
Die ==
  /\ pc # "idle"
  /\ Mishap
  /\ Leave
  /\ UNCHANGED <<worldVars, itemVars, row, planVars>>

DiskLoses(o) ==
  /\ o \in disk
  /\ Mishap
  /\ disk' = disk \ {o}
  /\ UNCHANGED <<entity, itemVars, row, planVars, applyVars>>

\* Vidispine's own scan of the rushes storage.
IndexNotices(o) ==
  /\ \/ o \in disk /\ entity[o] \in {"none", "LOST"} /\ entity' = [entity EXCEPT ![o] = "CLOSED"]
     \/ o \notin disk /\ entity[o] = "CLOSED" /\ entity' = [entity EXCEPT ![o] = "LOST"]
  /\ UNCHANGED <<disk, itemVars, row, planVars, applyVars, mishaps>>

GoesOffline ==
  /\ file = "online"
  /\ Mishap
  /\ file' = "offline"
  /\ UNCHANGED <<worldVars, shapes, labelled, summed, clip, row, planVars, applyVars>>

-----------------------------------------------------------------------------

ApplyStep ==
  \/ Save
  \/ Probe \/ ProbeRefuses \/ Lookup \/ LookupRefuses
  \/ \E o \in Originals : Register(o)
  \/ Registered
  \/ Adopt \/ Post
  \/ Hash \/ HashFails
  \/ \E o \in Originals : Label(o)
  \/ Summarise
  \/ Detach \/ UpdateClip \/ Verify
  \/ FinishWithout \/ Keep \/ Recheck \/ Delete

Next ==
  \/ PlanReads \/ PlanErrs \/ PlanWrites \/ PlanDies
  \/ StartApply \/ ApplyStep
  \/ Die
  \/ \E o \in Originals : DiskLoses(o) \/ IndexNotices(o)
  \/ GoesOffline

Spec == Init /\ [][Next]_vars

\* A command that was started goes on; the operator runs both of them again.
FairSpec ==
  /\ Spec
  /\ WF_vars(ApplyStep)
  /\ WF_vars(PlanWrites)
  /\ SF_vars(PlanReads)
  /\ SF_vars(StartApply)

-----------------------------------------------------------------------------

\* A row is done, or has cost the wrapped file, only when the item's one
\* original shape names the originals with their archive handles and the
\* clip names them too (verify_item and _finish, across resumed runs).
DoneIsVerified ==
  row.plan.kind = "wrap" /\ (row.phase = "done" \/ file = "gone") =>
    /\ Verifies(row.plan)
    /\ summed
    /\ clip
    /\ row.phase = "done" /\ file = "online" => row.plan.kept

\* An original the plan holds to be on tape only has an entity that says so:
\* no stale entity of a deleted file is reused (_register_files,
\* _located_problem).
TapeOnlyArchived ==
  row.plan.kind = "wrap" /\ row.phase # "none" =>
    \A o \in Originals \ row.plan.onDisk : entity[o] = "ARCHIVED"

\* "A row whose phase is non-empty is frozen against plan": its verdict and
\* its kind stay, ids and hashes are only added, and phases only advance.
PlanKept ==
  [][row.phase # "none" =>
       /\ row'.verdict = row.verdict
       /\ row'.plan.kind = row.plan.kind
       /\ row.plan.bound \subseteq row'.plan.bound
       /\ row.plan.hashed \subseteq row'.plan.hashed
       /\ row.plan.shape # Wrapped => row'.plan.shape = row.plan.shape]_vars

\* The item never loses its media: one original shape at least, its
\* originals stated once, the wrapped file deleted last.
Says(tagged) ==
  CASE tagged = {Wrapped} -> "wrapped"
    [] Wrapped \in tagged /\ Cardinality(tagged \ {Wrapped}) = 1 -> "both"
    [] Wrapped \notin tagged /\ Cardinality(tagged) = 1 -> "originals"
    [] OTHER -> "broken"

Custody == INSTANCE ItemCustody WITH stated <- Says(shapes)

ImplementsCustody == Custody!Spec

\* A row that no run can take further: a file the plan holds to be on disk
\* went away before it was hashed, and its phase keeps it from plan.
Stranded ==
  /\ row.phase \in {"files_registered", "shape_posted"}
  /\ ~(row.plan.onDisk \subseteq row.plan.hashed \cup disk)

\* The migration of a row ends: done, refused by plan, or stranded.
Settles == <>[](row.phase = "done" \/ row.verdict = "refused" \/ Stranded)

=============================================================================
