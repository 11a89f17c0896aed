------------------------- MODULE MigrationTheorems -------------------------
(***************************************************************************)
(* Proofs about WrappedMigration when plan and apply take turns: types,    *)
(* what a done row says, and that the item's media are kept.               *)
(***************************************************************************)
EXTENDS WrappedMigration, FiniteSetTheorems, TLAPS

-----------------------------------------------------------------------------
(* The inductive invariant, in parts.                                      *)

\* Which phase follows which.
Follows(kind, p, q) ==
  IF kind = "wrap"
  THEN \/ p = "none" /\ q = "files_registered"
       \/ p = "files_registered" /\ q = "shape_posted"
       \/ p = "shape_posted" /\ q = "metadata_written"
       \/ p = "metadata_written" /\ q = "old_shape_removed"
       \/ p = "old_shape_removed" /\ q = "clip_updated"
       \/ p = "clip_updated" /\ q = "verified"
       \/ p = "verified" /\ q = "done"
  ELSE \/ p = "none" /\ q = "metadata_written"
       \/ p = "metadata_written" /\ q = "verified"
       \/ p = "verified" /\ q = "done"

\* A verdict that apply takes up says which kind of plan there is.
Kinded(verdict, kind) ==
  /\ verdict = "ready" => kind = "wrap"
  /\ verdict = "already-migrated" => kind = "complete"

Writable == {"ready", "already-migrated"}

\* plan writes to rows without a phase only, and apply starts rows it may.
RowsInOrder ==
  /\ drafting => pc = "idle" /\ row.phase = "none"
  /\ ~drafting => draft = NoDraft
  /\ Kinded(row.verdict, row.plan.kind)
  /\ Kinded(draft.verdict, draft.plan.kind)
  /\ row.phase # "none" => row.verdict \in Writable

Steps ==
  [files_registered  |-> {"probe", "lookup", "register"},
   shape_posted      |-> {"post"},
   metadata_written  |-> {"hash", "label"},
   old_shape_removed |-> {"detach"},
   clip_updated      |-> {"clip"},
   verified          |-> {"verify"},
   done              |-> {"finish", "delete"}]

\* A run works on the phase that follows its row's.
RunsInOrder ==
  /\ pc = "idle" => doing = "none"
  /\ pc # "idle" =>
       /\ row.verdict \in Writable
       /\ mem.kind = row.plan.kind
       /\ Follows(mem.kind, row.phase, doing)
       /\ pc \in Steps[doing] \cup {"save"}

\* The run's copy of the plan is the row's, completed.
PlanCompletes ==
  pc # "idle" =>
    /\ doing # "files_registered" => /\ mem.bound = row.plan.bound
                                     /\ mem.onDisk = row.plan.onDisk
    /\ doing # "shape_posted" => mem.shape = row.plan.shape
    /\ row.plan.bound \subseteq mem.bound
    /\ row.plan.hashed \subseteq mem.hashed
    /\ mem.onDisk \subseteq row.plan.onDisk

\* The phases in which a wrap row has its own shape, and that one alone.
WithShape == {"shape_posted", "metadata_written", "old_shape_removed",
              "clip_updated", "verified", "done"}
Alone == {"old_shape_removed", "clip_updated", "verified", "done"}

\* There is one shape of the originals at most, and a row knows it in time.
ShapesKept ==
  /\ shapes \in {{Wrapped}, {1}, {Wrapped, 1}}
  /\ row.plan.kind = "wrap" =>
       /\ row.phase # "none" => row.plan.bound = Originals
       /\ row.phase \notin WithShape => row.plan.shape = Wrapped
       /\ row.phase \in WithShape => 1 \in shapes /\ row.plan.shape = 1
       /\ row.phase \in Alone => shapes = {1}
  /\ draft.plan.kind = "wrap" => draft.plan.shape = Wrapped
  /\ pc = "register" => Originals \ todo \subseteq mem.bound
  /\ pc = "save" /\ doing = "files_registered" => mem.bound = Originals
  /\ pc = "save" /\ doing = "shape_posted" => 1 \in shapes /\ mem.shape = 1
  /\ pc = "save" /\ doing = "old_shape_removed" => shapes = {1}
  /\ pc = "delete" => mem.kind = "wrap" /\ file \in {"online", "offline"}

\* The phases in which the metadata is written, and those in which the clip is.
WithMetadata == {"metadata_written", "old_shape_removed", "clip_updated",
                 "verified", "done"}
WithClip == {"clip_updated", "verified", "done"}

\* What a wrap row's phase says has been written.
WorkDone ==
  /\ row.plan.kind = "wrap" =>
       /\ row.phase \in WithMetadata => summed /\ {1} \X Originals \subseteq labelled
       /\ row.phase \in WithClip => clip
       /\ row.phase = "done" /\ file = "online" => row.plan.kept
  /\ pc # "idle" /\ mem.kind = "wrap" =>
       /\ pc = "label" => {1} \X (Originals \ todo) \subseteq labelled
       /\ pc = "save" /\ doing = "metadata_written" =>
            summed /\ {1} \X Originals \subseteq labelled
       /\ pc = "save" /\ doing = "clip_updated" => clip
       /\ pc = "save" /\ doing = "done" /\ file = "online" => mem.kept
  /\ file = "gone" => row.plan.kind = "wrap" /\ row.phase \in {"verified", "done"}

\* A plan's ids of originals not on disk are those of archived entities.
Archived(plan) ==
  plan.kind = "wrap" => \A o \in plan.bound \ plan.onDisk : entity[o] = "ARCHIVED"

TapeKept ==
  /\ Archived(row.plan)
  /\ Archived(draft.plan)
  /\ pc # "idle" => Archived(mem)
  /\ pc = "register" =>
       /\ todo \cap mem.bound = {}
       /\ \A o \in found \ mem.onDisk : entity[o] = "ARCHIVED"

-----------------------------------------------------------------------------
(* Types.                                                                  *)

Moves == {"probe", "lookup", "register", "post", "hash", "label", "detach",
          "clip", "verify", "finish", "delete", "save", "idle"}

\* The phases and steps, as sets.
LEMMA PhaseSets ==
  /\ Phases = {"files_registered", "shape_posted", "metadata_written",
               "old_shape_removed", "clip_updated", "verified", "done"}
  /\ PCs = Moves
  /\ \A p \in Phases : Entry[p] \in PCs
  BY DEF Phases, PCs, Entry, Moves

\* NextPhase is the order of WRAP_PHASES and COMPLETE_PHASES.
LEMMA PhasesFollow ==
  ASSUME NEW kind, NEW p \in DOMAIN NextPhase(kind)
  PROVE  /\ Follows(kind, p, NextPhase(kind)[p])
         /\ NextPhase(kind)[p] \in Phases
<1>1. CASE kind = "wrap"
  <2>1. p \in {"none", "files_registered", "shape_posted", "metadata_written",
               "old_shape_removed", "clip_updated", "verified"}
    BY <1>1 DEF NextPhase, WrapNext
  <2> QED
    BY <1>1, <2>1, PhaseSets DEF NextPhase, WrapNext, Follows
<1>2. CASE kind # "wrap"
  <2>1. p \in {"none", "metadata_written", "verified"}
    BY <1>2 DEF NextPhase, CompleteNext
  <2> QED
    BY <1>2, <2>1, PhaseSets DEF NextPhase, CompleteNext, Follows
<1> QED
  BY <1>1, <1>2

\* A phase starts with one of its own steps.
LEMMA FirstSteps ==
  \A p \in Phases :
    /\ Entry[p] \in Steps[p]
    /\ Entry[p] \in {"probe", "post", "hash", "detach", "clip", "verify", "finish"}
  BY PhaseSets DEF Entry, Steps

\* Every phase but the last has a next one in the plans that reach it.
LEMMA PhasesGoOn ==
  ASSUME NEW kind, NEW p, NEW q, Follows(kind, p, q), q # "done"
  PROVE  q \in DOMAIN NextPhase(kind)
  BY DEF Follows, NextPhase, WrapNext, CompleteNext

\* The empty plan is a plan.
LEMMA EmptyTyped == EmptyPlan \in Plan
  BY DEF EmptyPlan, Plan, Wrapped

\* Completing a plan gives a plan.
LEMMA PlanCompleted ==
  ASSUME NEW p \in Plan, NEW S \in SUBSET Originals, NEW s \in Nat
  PROVE  /\ [p EXCEPT !.onDisk = S] \in Plan
         /\ [p EXCEPT !.bound = S] \in Plan
         /\ [p EXCEPT !.hashed = S] \in Plan
         /\ [p EXCEPT !.shape = s] \in Plan
         /\ [p EXCEPT !.kept = TRUE] \in Plan
  BY DEF Plan

\* plan_item answers a verdict and a plan.
LEMMA DraftTyped == Typed => Drafted \in [verdict : Verdicts, plan : Plan]
<1> SUFFICES ASSUME Typed PROVE Drafted \in [verdict : Verdicts, plan : Plan]
  OBVIOUS
<1>1. /\ disk \in SUBSET Originals /\ Known \in SUBSET Originals /\ shapes \in SUBSET Nat
      /\ Originals \in SUBSET Originals
  BY DEF Typed, Known
<1>2. EmptyPlan \in Plan
  BY EmptyTyped
<1> DEFINE plan == [EmptyPlan EXCEPT !.onDisk = disk]
<1>3. plan \in Plan
  BY <1>1, <1>2, PlanCompleted
<1>4. [plan EXCEPT !.kind = "wrap", !.bound = Known] \in Plan
  BY <1>1, <1>3 DEF Plan
<1>5. ASSUME Cardinality(shapes) = 1
      PROVE  [plan EXCEPT !.kind = "complete", !.bound = Originals,
                          !.shape = CHOOSE s \in shapes : TRUE] \in Plan
  <2>1. shapes # {}
    BY <1>5, FS_EmptySet
  <2>2. (CHOOSE s \in shapes : TRUE) \in Nat
    BY <1>1, <2>1
  <2> QED
    BY <1>3, <2>2 DEF Plan
<1> QED
  BY <1>2, <1>4, <1>5 DEF Drafted, Verdicts

\* A run that is over leaves its memory well typed.
LEMMA LeaveTyped ==
  Leave => /\ pc' \in PCs /\ doing' \in Phases \cup {"none"} /\ mem' \in Plan
           /\ found' \in SUBSET Originals /\ todo' \in SUBSET Originals /\ optIn' \in BOOLEAN
  BY PhaseSets, EmptyTyped DEF Leave, Moves

\* Mishaps stay within their bound.
LEMMA MishapTyped == Typed /\ Mishap => mishaps' \in 0..MaxMishaps
  BY MigrationAssumption DEF Typed, Mishap

\* shape/create is asked for beside the wrapped shape alone.
LEMMA PostsFirst == shapes = {Wrapped} => Posted = {} /\ NewShape = 1
<1> SUFFICES ASSUME shapes = {Wrapped} PROVE Posted = {} /\ NewShape = 1
  OBVIOUS
<1>1. Posted = {}
  BY DEF Posted
<1> QED
  BY <1>1, FS_EmptySet DEF NewShape

\* Every step keeps the types.
LEMMA TypesHold == Typed /\ RunsInOrder /\ [Next]_vars => Typed'
<1> SUFFICES ASSUME Typed, RunsInOrder, [Next]_vars PROVE Typed'
  OBVIOUS
<1> USE DEF Typed
<1>1. CASE UNCHANGED vars
  BY <1>1 DEF vars, worldVars, itemVars, planVars, applyVars
<1>2. CASE PlanReads
  BY <1>2, DraftTyped DEF PlanReads, worldVars, itemVars, applyVars
<1>3. CASE PlanErrs
  <2>1. draft' \in [verdict : Verdicts, plan : Plan]
    BY <1>3, EmptyTyped DEF PlanErrs, Verdicts
  <2> QED
    BY <1>3, <2>1, MishapTyped DEF PlanErrs, worldVars, itemVars, applyVars
<1>4. CASE PlanWrites \/ PlanDies
  <2>1. NoDraft \in [verdict : Verdicts, plan : Plan]
    BY EmptyTyped DEF NoDraft, Verdicts
  <2> QED
    BY <1>4, <2>1, MishapTyped DEF PlanWrites, PlanDies, worldVars, itemVars, applyVars
<1>5. CASE StartApply
  <2>1. NextPhase(row.plan.kind)[row.phase] \in Phases
    BY <1>5, PhasesFollow DEF StartApply
  <2> QED
    BY <1>5, <2>1, PhaseSets DEF StartApply, Enter, worldVars, itemVars, planVars
<1>6. CASE ProbeRefuses \/ LookupRefuses \/ HashFails \/ Die
  <2>1. Leave /\ UNCHANGED <<worldVars, itemVars, row, planVars>> /\ mishaps' \in 0..MaxMishaps
    BY <1>6, MishapTyped DEF ProbeRefuses, LookupRefuses, HashFails, Die, Refuse
  <2> QED
    BY <2>1, LeaveTyped DEF worldVars, itemVars, planVars
<1>7. ASSUME NEW o \in Originals, DiskLoses(o) \/ IndexNotices(o) PROVE Typed'
  BY <1>7, MishapTyped
     DEF DiskLoses, IndexNotices, EntityStates, itemVars, planVars, applyVars
<1>8. CASE GoesOffline
  BY <1>8, MishapTyped DEF GoesOffline, worldVars, planVars, applyVars
<1>9. CASE Save
  <2>1. row' \in [verdict : Verdicts, phase : Phases \cup {"none"}, plan : Plan]
    BY <1>9 DEF Save
  <2>2. CASE doing = "done"
    BY <1>9, <2>1, <2>2, LeaveTyped DEF Save, worldVars, itemVars, planVars
  <2>3. CASE doing # "done"
    <3>1. NextPhase(mem.kind)[doing] \in Phases
      BY <1>9, <2>3, PhasesFollow, PhasesGoOn DEF Save, RunsInOrder
    <3> QED
      BY <1>9, <2>1, <2>3, <3>1, PhaseSets DEF Save, Enter, worldVars, itemVars, planVars
  <2> QED
    BY <2>2, <2>3
<1>10. CASE Probe \/ Lookup \/ Registered
  <2>1. Known \in SUBSET Originals /\ mem.onDisk \cap disk \in SUBSET Originals
    BY DEF Known
  <2>2. [mem EXCEPT !.onDisk = mem.onDisk \cap disk] \in Plan
    BY <2>1, PlanCompleted
  <2>3. mem' \in Plan
    BY <1>10, <2>2 DEF Probe, Lookup, Registered
  <2> QED
    BY <1>10, <2>1, <2>3, PhaseSets
       DEF Probe, Lookup, Registered, Goto, Moves, worldVars, itemVars, planVars
<1>11. ASSUME NEW o \in Originals, Register(o) PROVE Typed'
  <2>1. mem' \in Plan
    BY <1>11, PlanCompleted DEF Register, Plan
  <2> QED
    BY <1>11, <2>1 DEF Register, EntityStates, itemVars, planVars
<1>12. CASE Adopt
  <2>1. PICK s \in shapes : mem' = [mem EXCEPT !.shape = s]
    BY <1>12 DEF Adopt, Posted
  <2>2. mem' \in Plan
    BY <2>1, PlanCompleted
  <2> QED
    BY <1>12, <2>2, PhaseSets DEF Adopt, Goto, Moves, worldVars, itemVars, planVars
<1>13. CASE Post
  <2>1. NewShape \in Nat
    BY <1>13, PostsFirst DEF Post
  <2>2. mem' \in Plan
    BY <1>13, <2>1, PlanCompleted DEF Post
  <2> QED
    BY <1>13, <2>1, <2>2, PhaseSets DEF Post, Goto, Moves, worldVars, planVars
<1>14. CASE Hash
  <2>1. mem.hashed \cup ToHash \in SUBSET Originals
    BY DEF ToHash, Plan
  <2>2. mem' \in Plan
    BY <1>14, <2>1, PlanCompleted DEF Hash
  <2> QED
    BY <1>14, <2>2, PhaseSets DEF Hash, Goto, Moves, worldVars, itemVars, planVars
<1>15. ASSUME NEW o \in Originals, Label(o) PROVE Typed'
  <2>1. mem.shape \in Nat
    BY DEF Plan
  <2> QED
    BY <1>15, <2>1 DEF Label, worldVars, planVars
<1>16. CASE Summarise \/ Detach \/ UpdateClip \/ Verify
  BY <1>16, PhaseSets
     DEF Summarise, Detach, UpdateClip, Verify, Goto, Moves, worldVars, itemVars, planVars
<1>17. CASE FinishWithout \/ Keep \/ Recheck \/ Delete
  <2>1. mem' \in Plan
    BY <1>17, PlanCompleted DEF FinishWithout, Keep, Recheck, Delete
  <2> QED
    BY <1>17, <2>1, PhaseSets
       DEF FinishWithout, Keep, Recheck, Delete, Goto, Moves, worldVars, itemVars, planVars
<1> QED
  BY <1>1, <1>2, <1>3, <1>4, <1>5, <1>6, <1>7, <1>8, <1>9, <1>10, <1>11, <1>12, <1>13,
     <1>14, <1>15, <1>16, <1>17 DEF Next, ApplyStep
-----------------------------------------------------------------------------
(* Order.                                                                  *)

\* The verdict plan_item answers fits the kind of its plan.
LEMMA DraftKinded == Kinded(Drafted.verdict, Drafted.plan.kind)
<1> DEFINE plan == [EmptyPlan EXCEPT !.onDisk = disk]
<1>1. [plan EXCEPT !.kind = "complete", !.bound = Originals,
                   !.shape = CHOOSE s \in shapes : TRUE].kind = "complete"
  BY DEF EmptyPlan
<1>2. [plan EXCEPT !.kind = "wrap", !.bound = Known].kind = "wrap"
  BY DEF EmptyPlan
<1> HIDE DEF plan
<1> QED
  BY <1>1, <1>2 DEF Drafted, Kinded, plan

\* Every step keeps rows in order.
LEMMA RowsStayInOrder ==
  Typed /\ ~Overlapping /\ RowsInOrder /\ RunsInOrder /\ [Next]_vars => RowsInOrder'
<1> SUFFICES ASSUME Typed, ~Overlapping, RowsInOrder, RunsInOrder, [Next]_vars
             PROVE  RowsInOrder'
  OBVIOUS
<1> USE DEF RowsInOrder, Kinded
<1>1. CASE UNCHANGED vars
  BY <1>1 DEF vars, planVars, applyVars
<1>2. CASE PlanReads \/ PlanErrs
  <2>1. Kinded(draft'.verdict, draft'.plan.kind)
    BY <1>2, DraftKinded DEF PlanReads, PlanErrs
  <2> QED
    BY <1>2, <2>1 DEF PlanReads, PlanErrs, applyVars
<1>3. CASE PlanWrites \/ PlanDies
  <2>1. Kinded(NoDraft.verdict, NoDraft.plan.kind)
    BY DEF NoDraft
  <2>2. draft' = NoDraft /\ ~drafting' /\ pc' = pc /\ row'.phase = "none"
    BY <1>3 DEF PlanWrites, PlanDies, Typed, applyVars
  <2>3. row' = row \/ (row'.verdict = draft.verdict /\ row'.plan = draft.plan)
    BY <1>3 DEF PlanWrites, PlanDies, Typed
  <2> QED
    BY <2>1, <2>2, <2>3
<1>4. CASE StartApply
  BY <1>4 DEF StartApply, planVars
<1>5. CASE Save
  BY <1>5 DEF Save, RunsInOrder, Typed, planVars, Leave, Enter
<1>6. CASE ProbeRefuses \/ LookupRefuses \/ HashFails \/ Die
  BY <1>6 DEF ProbeRefuses, LookupRefuses, HashFails, Die, Refuse, Leave, planVars
<1>7. CASE Probe \/ Lookup \/ Registered \/ Adopt \/ Post \/ Hash
  BY <1>7 DEF Probe, Lookup, Registered, Adopt, Post, Hash, planVars
<1>8. ASSUME NEW o \in Originals, Register(o) \/ Label(o) PROVE RowsInOrder'
  BY <1>8 DEF Register, Label, planVars
<1>9. CASE Summarise \/ Detach \/ UpdateClip \/ Verify
  BY <1>9 DEF Summarise, Detach, UpdateClip, Verify, planVars
<1>10. CASE FinishWithout \/ Keep \/ Recheck \/ Delete
  BY <1>10 DEF FinishWithout, Keep, Recheck, Delete, planVars
<1>11. ASSUME NEW o \in Originals, DiskLoses(o) \/ IndexNotices(o) \/ GoesOffline
       PROVE  RowsInOrder'
  BY <1>11 DEF DiskLoses, IndexNotices, GoesOffline, planVars, applyVars
<1> QED
  BY <1>1, <1>2, <1>3, <1>4, <1>5, <1>6, <1>7, <1>8, <1>9, <1>10, <1>11, MigrationAssumption
     DEF Next, ApplyStep

\* Every step keeps runs in order.
LEMMA RunsStayInOrder ==
  Typed /\ ~Overlapping /\ RowsInOrder /\ RunsInOrder /\ [Next]_vars => RunsInOrder'
<1> SUFFICES ASSUME Typed, ~Overlapping, RowsInOrder, RunsInOrder, [Next]_vars
             PROVE  RunsInOrder'
  OBVIOUS
<1> USE DEF RunsInOrder
<1>1. CASE UNCHANGED vars
  BY <1>1 DEF vars, applyVars
<1>2. CASE PlanReads \/ PlanErrs \/ PlanWrites \/ PlanDies
  BY <1>2 DEF PlanReads, PlanErrs, PlanWrites, PlanDies, RowsInOrder, applyVars
<1>3. CASE StartApply
  <2>1. Entry[doing'] \in Steps[doing'] \ {"idle"} /\ Follows(row.plan.kind, row.phase, doing')
    BY <1>3, PhasesFollow, PhaseSets, FirstSteps DEF StartApply, Enter
  <2> QED
    BY <1>3, <2>1 DEF StartApply, Enter, Writable
<1>4. CASE Save
  <2>1. row'.phase = doing /\ row'.plan = mem /\ row'.verdict = row.verdict
    BY <1>4 DEF Save, Typed
  <2>2. CASE doing = "done"
    BY <1>4, <2>2 DEF Save, Leave
  <2>3. CASE doing # "done"
    <3>1. doing \in DOMAIN NextPhase(mem.kind)
      BY <1>4, <2>3, PhasesGoOn DEF Save
    <3>2. Entry[doing'] \in Steps[doing'] \ {"idle"} /\ Follows(mem.kind, doing, doing')
      BY <1>4, <2>3, <3>1, PhasesFollow, FirstSteps DEF Save, Enter
    <3> QED
      BY <1>4, <2>1, <2>3, <3>2 DEF Save, Enter
  <2> QED
    BY <2>2, <2>3
<1>5. CASE ProbeRefuses \/ LookupRefuses \/ HashFails \/ Die
  BY <1>5 DEF ProbeRefuses, LookupRefuses, HashFails, Die, Refuse, Leave
<1>6. CASE Probe \/ Lookup \/ Registered \/ Adopt \/ Post \/ Hash
  BY <1>6
     DEF Probe, Lookup, Registered, Adopt, Post, Hash, Goto, Steps, Typed, Plan, Follows
<1>7. ASSUME NEW o \in Originals, Register(o) \/ Label(o) PROVE RunsInOrder'
  BY <1>7 DEF Register, Label, Typed, Plan
<1>8. CASE Summarise \/ Detach \/ UpdateClip \/ Verify
  BY <1>8 DEF Summarise, Detach, UpdateClip, Verify, Goto
<1>9. CASE FinishWithout \/ Keep \/ Recheck \/ Delete
  BY <1>9 DEF FinishWithout, Keep, Recheck, Delete, Goto, Steps, Typed, Plan, Follows
<1>10. ASSUME NEW o \in Originals, DiskLoses(o) \/ IndexNotices(o) \/ GoesOffline
       PROVE  RunsInOrder'
  BY <1>10 DEF DiskLoses, IndexNotices, GoesOffline, applyVars
<1> QED
  BY <1>1, <1>2, <1>3, <1>4, <1>5, <1>6, <1>7, <1>8, <1>9, <1>10, MigrationAssumption
     DEF Next, ApplyStep

\* Where a run is says which phase it works on, and which its row has.
LEMMA StepOf ==
  ASSUME Typed, RunsInOrder
  PROVE  /\ pc \in {"probe", "lookup", "register"} =>
              doing = "files_registered" /\ mem.kind = "wrap" /\ row.phase = "none"
         /\ pc = "post" =>
              doing = "shape_posted" /\ mem.kind = "wrap" /\ row.phase = "files_registered"
         /\ pc \in {"hash", "label"} =>
              /\ doing = "metadata_written"
              /\ mem.kind = "wrap" => row.phase = "shape_posted"
         /\ pc = "detach" =>
              doing = "old_shape_removed" /\ mem.kind = "wrap" /\ row.phase = "metadata_written"
         /\ pc = "clip" =>
              doing = "clip_updated" /\ mem.kind = "wrap" /\ row.phase = "old_shape_removed"
         /\ pc = "verify" =>
              /\ doing = "verified"
              /\ mem.kind = "wrap" => row.phase = "clip_updated"
         /\ pc \in {"finish", "delete"} => doing = "done" /\ row.phase = "verified"
<1>1. SUFFICES ASSUME pc # "idle", pc # "save" PROVE
         /\ pc \in {"probe", "lookup", "register"} => doing = "files_registered"
         /\ pc = "post" => doing = "shape_posted"
         /\ pc \in {"hash", "label"} => doing = "metadata_written"
         /\ pc = "detach" => doing = "old_shape_removed"
         /\ pc = "clip" => doing = "clip_updated"
         /\ pc = "verify" => doing = "verified"
         /\ pc \in {"finish", "delete"} => doing = "done"
  BY DEF RunsInOrder, Follows
<1>2. pc \in Steps[doing] /\ doing \in Phases
  BY <1>1 DEF RunsInOrder, Typed, Follows
<1> QED
  BY <1>2, PhaseSets DEF Steps

\* What the end of a phase does.
LEMMA SaveWrites ==
  ASSUME Typed, RunsInOrder, Save
  PROVE  /\ row'.plan = mem /\ row'.phase = doing
         /\ UNCHANGED <<worldVars, itemVars, planVars>>
         /\ pc' = "idle" \/ mem' = mem
         /\ pc' \in {"idle", "probe", "post", "hash", "detach", "clip", "verify", "finish"}
<1>1. CASE doing = "done"
  BY <1>1 DEF Typed, Save, Leave
<1>2. CASE doing # "done"
  <2>1. NextPhase(mem.kind)[doing] \in Phases
    BY <1>2, PhasesFollow, PhasesGoOn DEF Save, RunsInOrder
  <2> QED
    BY <1>2, <2>1, FirstSteps DEF Typed, Save, Enter
<1> QED
  BY <1>1, <1>2

\* What the start of a run does.
LEMMA StartReads ==
  ASSUME Typed, StartApply
  PROVE  /\ mem' = row.plan
         /\ UNCHANGED <<worldVars, itemVars, row, planVars>>
         /\ pc' \in {"probe", "post", "hash", "detach", "clip", "verify", "finish"}
  BY FirstSteps, PhasesFollow DEF Typed, StartApply, Enter

\* The ends of a run, and the steps that only move it on.
LEMMA RunLeaves ==
  ASSUME ProbeRefuses \/ LookupRefuses \/ HashFails \/ Die
  PROVE  /\ UNCHANGED <<worldVars, itemVars, row, planVars>>
         /\ pc' = "idle"
  BY DEF ProbeRefuses, LookupRefuses, HashFails, Die, Refuse, Leave

\* Every step keeps the run's plan a completion of the row's.
LEMMA PlanStaysCompleted ==
  Typed /\ ~Overlapping /\ RowsInOrder /\ RunsInOrder /\ PlanCompletes /\ [Next]_vars
    => PlanCompletes'
<1> SUFFICES ASSUME Typed, ~Overlapping, RowsInOrder, RunsInOrder, PlanCompletes, [Next]_vars
             PROVE  PlanCompletes'
  OBVIOUS
<1> USE DEF PlanCompletes
<1>1. CASE UNCHANGED vars
  BY <1>1 DEF vars, applyVars
<1>2. CASE PlanReads \/ PlanErrs \/ PlanWrites \/ PlanDies
  BY <1>2 DEF PlanReads, PlanErrs, PlanWrites, PlanDies, RowsInOrder, applyVars
<1>3. CASE StartApply
  BY <1>3, StartReads
<1>4. CASE Save
  BY <1>4, SaveWrites
<1>5. CASE ProbeRefuses \/ LookupRefuses \/ HashFails \/ Die
  BY <1>5, RunLeaves
<1>6. CASE Probe \/ Lookup \/ Registered \/ Adopt \/ Post \/ Hash
  BY <1>6, StepOf DEF Probe, Lookup, Registered, Adopt, Post, Hash, Goto, Typed, Plan
<1>7. ASSUME NEW o \in Originals, Register(o) \/ Label(o) PROVE PlanCompletes'
  BY <1>7, StepOf DEF Register, Label, Typed, Plan
<1>8. CASE Summarise \/ Detach \/ UpdateClip \/ Verify
  BY <1>8 DEF Summarise, Detach, UpdateClip, Verify, Goto
<1>9. CASE FinishWithout \/ Keep \/ Recheck \/ Delete
  BY <1>9 DEF FinishWithout, Keep, Recheck, Delete, Goto, Typed, Plan
<1>10. ASSUME NEW o \in Originals, DiskLoses(o) \/ IndexNotices(o) \/ GoesOffline
       PROVE  PlanCompletes'
  BY <1>10 DEF DiskLoses, IndexNotices, GoesOffline, applyVars
<1> QED
  BY <1>1, <1>2, <1>3, <1>4, <1>5, <1>6, <1>7, <1>8, <1>9, <1>10, MigrationAssumption
     DEF Next, ApplyStep

-----------------------------------------------------------------------------
(* Shapes.                                                                 *)

\* A plan to wrap knows no new shape yet.
LEMMA DraftShape == Drafted.plan.kind = "wrap" => Drafted.plan.shape = Wrapped
<1> DEFINE plan == [EmptyPlan EXCEPT !.onDisk = disk]
<1>1. [plan EXCEPT !.kind = "complete", !.bound = Originals,
                   !.shape = CHOOSE s \in shapes : TRUE].kind = "complete"
  BY DEF EmptyPlan
<1>2. [plan EXCEPT !.kind = "wrap", !.bound = Known].shape = Wrapped /\ EmptyPlan.kind = "none"
  BY DEF EmptyPlan
<1> HIDE DEF plan
<1> QED
  BY <1>1, <1>2 DEF Drafted, plan

\* Every step keeps the shapes.
LEMMA ShapesStayKept ==
  Typed /\ ~Overlapping /\ RowsInOrder /\ RunsInOrder /\ PlanCompletes /\ ShapesKept
    /\ [Next]_vars
    => ShapesKept'
<1> SUFFICES ASSUME Typed, ~Overlapping, RowsInOrder, RunsInOrder, PlanCompletes, ShapesKept,
                    [Next]_vars
             PROVE  ShapesKept'
  OBVIOUS
<1> USE DEF ShapesKept, Wrapped
<1>1. CASE UNCHANGED vars
  BY <1>1 DEF vars, itemVars, planVars, applyVars
<1>2. CASE PlanReads \/ PlanErrs
  <2>1. draft'.plan.kind = "wrap" => draft'.plan.shape = Wrapped
    BY <1>2, DraftShape DEF PlanReads, PlanErrs, EmptyPlan
  <2> QED
    BY <1>2, <2>1 DEF PlanReads, PlanErrs, itemVars, applyVars
<1>3. CASE PlanWrites \/ PlanDies
  <2>1. NoDraft.plan.kind = "none"
    BY DEF NoDraft, EmptyPlan
  <2>2. draft' = NoDraft /\ row'.phase = "none" /\ UNCHANGED <<itemVars, applyVars>>
    BY <1>3 DEF PlanWrites, PlanDies, Typed, RowsInOrder
  <2>3. row' = row \/ row'.plan = draft.plan
    BY <1>3 DEF PlanWrites, PlanDies, Typed
  <2> QED
    BY <2>1, <2>2, <2>3 DEF WithShape, Alone, itemVars, applyVars
<1>4. CASE StartApply
  BY <1>4, StartReads DEF itemVars, planVars
<1>5. CASE Save
  <2>1. mem.kind = row.plan.kind /\ Follows(mem.kind, row.phase, doing) /\ pc = "save"
    BY <1>5 DEF Save, RunsInOrder
  <2>2. mem.kind = "wrap" =>
          /\ mem.bound = Originals
          /\ doing \notin WithShape => mem.shape = Wrapped
          /\ doing \in WithShape => 1 \in shapes /\ mem.shape = 1
          /\ doing \in Alone => shapes = {1}
    BY <2>1 DEF PlanCompletes, Follows, WithShape, Alone
  <2> QED
    BY <1>5, <2>2, SaveWrites DEF itemVars, planVars
<1>6. CASE ProbeRefuses \/ LookupRefuses \/ HashFails \/ Die
  BY <1>6, RunLeaves DEF itemVars, planVars
<1>7. CASE Probe \/ Lookup \/ Registered \/ Hash
  <2>1. CASE Probe
    BY <2>1 DEF Probe, Goto, itemVars, planVars
  <2>2. CASE Lookup
    BY <2>2, StepOf DEF Lookup, itemVars, planVars
  <2>3. CASE Registered
    <3>1. mem.bound \subseteq Originals
      BY DEF Typed, Plan
    <3> QED
      BY <2>3, <3>1, StepOf DEF Registered, Goto, itemVars, planVars
  <2>4. CASE Hash
    BY <2>4, StepOf DEF Hash, Goto, itemVars, planVars
  <2> QED
    BY <1>7, <2>1, <2>2, <2>3, <2>4
<1>8. CASE Adopt
  <2>1. PICK s \in Posted : mem' = [mem EXCEPT !.shape = s]
    BY <1>8 DEF Adopt
  <2>2. s = 1
    BY <2>1 DEF Posted
  <2> QED
    BY <1>8, <2>1, <2>2, StepOf DEF Adopt, Posted, Goto, itemVars, planVars, Typed, Plan
<1>9. CASE Post
  BY <1>9, StepOf, PostsFirst DEF Post, Goto, planVars, Typed, Plan, WithShape, Alone
<1>10. ASSUME NEW o \in Originals, Register(o) \/ Label(o) PROVE ShapesKept'
  BY <1>10, StepOf DEF Register, Label, Typed, Plan, itemVars, planVars
<1>11. CASE Detach
  <2>1. doing = "old_shape_removed" /\ 1 \in shapes
    BY <1>11, StepOf DEF Detach, RunsInOrder, WithShape
  <2> QED
    BY <1>11, <2>1 DEF Detach, Goto, planVars
<1>12. CASE Summarise \/ UpdateClip \/ Verify
  BY <1>12, StepOf DEF Summarise, UpdateClip, Verify, Goto, itemVars, planVars
<1>13. CASE FinishWithout \/ Keep \/ Recheck \/ Delete
  BY <1>13, StepOf
     DEF FinishWithout, Keep, Recheck, Delete, HasFile, Goto, Typed, Plan, itemVars,
         planVars
<1>14. ASSUME NEW o \in Originals, DiskLoses(o) \/ IndexNotices(o) \/ GoesOffline
       PROVE  ShapesKept'
  BY <1>14 DEF DiskLoses, IndexNotices, GoesOffline, itemVars, planVars, applyVars
<1> QED
  BY <1>1, <1>2, <1>3, <1>4, <1>5, <1>6, <1>7, <1>8, <1>9, <1>10, <1>11, <1>12, <1>13,
     <1>14,
     MigrationAssumption
     DEF Next, ApplyStep

-----------------------------------------------------------------------------
(* Work.                                                                   *)

\* Every step keeps the work of earlier phases.
LEMMA WorkStaysDone ==
  Typed /\ ~Overlapping /\ RowsInOrder /\ RunsInOrder /\ PlanCompletes /\ ShapesKept
    /\ WorkDone /\ [Next]_vars
    => WorkDone'
<1> SUFFICES ASSUME Typed, ~Overlapping, RowsInOrder, RunsInOrder, PlanCompletes, ShapesKept,
                    WorkDone, [Next]_vars
             PROVE  WorkDone'
  OBVIOUS
<1> USE DEF WorkDone
<1>1. CASE UNCHANGED vars
  BY <1>1 DEF vars, itemVars, applyVars
<1>2. CASE PlanReads \/ PlanErrs
  BY <1>2 DEF PlanReads, PlanErrs, itemVars, applyVars
<1>3. CASE PlanWrites \/ PlanDies
  <2>1. row.phase = "none" /\ row'.phase = "none" /\ UNCHANGED <<itemVars, applyVars>>
    BY <1>3 DEF PlanWrites, PlanDies, Typed, RowsInOrder
  <2>2. pc' = "idle"
    BY <1>3, <2>1 DEF PlanWrites, PlanDies, RowsInOrder, applyVars
  <2> QED
    BY <2>1, <2>2 DEF WithMetadata, WithClip, itemVars
<1>4. CASE StartApply
  BY <1>4, StartReads DEF itemVars
<1>5. CASE Save
  <2>1. mem.kind = row.plan.kind /\ Follows(mem.kind, row.phase, doing) /\ pc = "save"
    BY <1>5 DEF Save, RunsInOrder
  <2>2. mem.kind = "wrap" =>
          /\ doing \in WithMetadata => summed /\ {1} \X Originals \subseteq labelled
          /\ doing \in WithClip => clip
          /\ doing = "done" /\ file = "online" => mem.kept
    BY <2>1 DEF Follows, WithMetadata, WithClip
  <2>3. file = "gone" => mem.kind = "wrap" /\ doing \in {"verified", "done"}
    BY <2>1 DEF Follows
  <2> QED
    BY <1>5, <2>2, <2>3, SaveWrites DEF itemVars
<1>6. CASE ProbeRefuses \/ LookupRefuses \/ HashFails \/ Die
  BY <1>6, RunLeaves DEF itemVars
<1>7. CASE Probe \/ Lookup \/ Registered \/ Adopt
  BY <1>7, StepOf DEF Probe, Lookup, Registered, Adopt, Goto, itemVars
<1>8. CASE Post
  BY <1>8, StepOf DEF Post, Goto
<1>9. CASE Hash
  BY <1>9, StepOf DEF Hash, Goto, itemVars
<1>10. ASSUME NEW o \in Originals, Register(o) PROVE WorkDone'
  BY <1>10, StepOf DEF Register, itemVars
<1>11. ASSUME NEW o \in Originals, Label(o) PROVE WorkDone'
  <2>1. mem.kind = "wrap" => mem.shape = 1
    BY <1>11, StepOf DEF Label, PlanCompletes, ShapesKept, WithShape, RunsInOrder
  <2> QED
    BY <1>11, <2>1 DEF Label
<1>12. CASE Summarise \/ Detach \/ UpdateClip \/ Verify
  <2>1. CASE Summarise
    <3>1. mem.kind = "wrap" => {1} \X Originals \subseteq labelled
      BY <2>1 DEF Summarise
    <3>2. doing = "metadata_written"
      BY <2>1, StepOf DEF Summarise
    <3> QED
      BY <2>1, <3>1, <3>2 DEF Summarise, Goto
  <2>2. CASE Detach
    BY <2>2, StepOf DEF Detach, Goto
  <2>3. CASE UpdateClip
    BY <2>3, StepOf DEF UpdateClip, Goto
  <2>4. CASE Verify
    BY <2>4, StepOf DEF Verify, Goto, itemVars
  <2> QED
    BY <1>12, <2>1, <2>2, <2>3, <2>4
<1>13. CASE FinishWithout \/ Recheck
  BY <1>13, StepOf DEF FinishWithout, Recheck, Goto, itemVars
<1>14. CASE Keep
  <2>1. mem'.kept /\ mem'.kind = mem.kind
    BY <1>14 DEF Keep, Typed, Plan
  <2> QED
    BY <1>14, <2>1, StepOf DEF Keep, Goto, itemVars
<1>15. CASE Delete
  <2>1. row.plan.kind = "wrap" /\ row.phase = "verified" /\ doing = "done"
    BY <1>15, StepOf DEF Delete, ShapesKept, RunsInOrder
  <2> QED
    BY <1>15, <2>1 DEF Delete, Goto
<1>16. ASSUME NEW o \in Originals, DiskLoses(o) \/ IndexNotices(o) \/ GoesOffline
       PROVE  WorkDone'
  BY <1>16 DEF DiskLoses, IndexNotices, GoesOffline, itemVars, applyVars
<1> QED
  BY <1>1, <1>2, <1>3, <1>4, <1>5, <1>6, <1>7, <1>8, <1>9, <1>10, <1>11, <1>12, <1>13,
     <1>14,
     <1>15, <1>16, MigrationAssumption
     DEF Next, ApplyStep

-----------------------------------------------------------------------------
(* Tape.                                                                   *)

\* A plan binds an original off disk to an archived entity only.
LEMMA DraftArchived == Typed => Archived(Drafted.plan)
<1> SUFFICES ASSUME Typed, NEW o \in Drafted.plan.bound \ Drafted.plan.onDisk,
                    Drafted.plan.kind = "wrap"
             PROVE  entity[o] = "ARCHIVED"
  BY DEF Archived
<1> DEFINE plan == [EmptyPlan EXCEPT !.onDisk = disk]
<1>1. [plan EXCEPT !.kind = "complete", !.bound = Originals,
                   !.shape = CHOOSE s \in shapes : TRUE].kind = "complete"
  BY DEF EmptyPlan
<1> DEFINE wrap == [plan EXCEPT !.kind = "wrap", !.bound = Known]
<1>2. wrap.bound = Known /\ wrap.onDisk = disk /\ EmptyPlan.kind = "none"
  BY DEF EmptyPlan
<1> HIDE DEF plan
<1>3. Unlocated = {} /\ o \in Known \ disk
  <2>1. Drafted.plan = wrap /\ Unlocated = {}
    BY <1>1, <1>2 DEF Drafted, plan
  <2> QED
    BY <1>2, <2>1
<1> QED
  BY <1>3 DEF Known, Unlocated

\* An entity's archived state lasts, unless its file is registered again.
LEMMA StaysArchived ==
  ASSUME Typed, NEW o \in Originals, DiskLoses(o) \/ IndexNotices(o), NEW p \in Originals,
         entity[p] = "ARCHIVED"
  PROVE  entity'[p] = "ARCHIVED"
  BY DEF Typed, DiskLoses, IndexNotices

\* Every step keeps those bindings.
LEMMA TapeStaysKept ==
  Typed /\ ~Overlapping /\ RowsInOrder /\ RunsInOrder /\ PlanCompletes /\ TapeKept
    /\ [Next]_vars
    => TapeKept'
<1> SUFFICES ASSUME Typed, ~Overlapping, RowsInOrder, RunsInOrder, PlanCompletes, TapeKept,
                    [Next]_vars
             PROVE  TapeKept'
  OBVIOUS
<1> USE DEF TapeKept
<1>1. CASE UNCHANGED vars
  BY <1>1 DEF vars, worldVars, planVars, applyVars, Archived
<1>2. CASE PlanReads \/ PlanErrs
  <2>1. Archived(EmptyPlan)
    BY DEF Archived, EmptyPlan
  <2>2. Archived(draft'.plan)
    BY <1>2, <2>1, DraftArchived DEF PlanReads, PlanErrs
  <2> QED
    BY <1>2, <2>2 DEF PlanReads, PlanErrs, worldVars, applyVars, Archived
<1>3. CASE PlanWrites \/ PlanDies
  <2>1. Archived(NoDraft.plan)
    BY DEF Archived, NoDraft, EmptyPlan
  <2>2. row'.plan \in {row.plan, draft.plan} /\ draft' = NoDraft
    BY <1>3 DEF PlanWrites, PlanDies, Typed
  <2> QED
    BY <1>3, <2>1, <2>2 DEF PlanWrites, PlanDies, worldVars, applyVars, Archived
<1>4. CASE StartApply
  BY <1>4, StartReads DEF worldVars, planVars, Archived
<1>5. CASE Save
  <2>1. pc # "idle"
    BY <1>5 DEF Save
  <2> QED
    BY <1>5, <2>1, SaveWrites DEF worldVars, planVars, Archived
<1>6. CASE ProbeRefuses \/ LookupRefuses \/ HashFails \/ Die
  BY <1>6, RunLeaves DEF worldVars, planVars, Archived
<1>7. CASE Probe
  <2>1. mem.bound \ (mem.onDisk \cap disk) \subseteq mem.bound \ mem.onDisk
    BY <1>7 DEF Probe, Disappeared
  <2>2. mem'.kind = mem.kind /\ mem'.bound = mem.bound /\ mem'.onDisk = mem.onDisk \cap disk
    BY <1>7 DEF Probe, Typed, Plan
  <2> QED
    BY <1>7, <2>1, <2>2 DEF Probe, Goto, worldVars, planVars, Archived
<1>8. CASE Lookup
  <2>1. \A o \in found' \ mem.onDisk : entity[o] = "ARCHIVED"
    BY <1>8 DEF Lookup, Stale
  <2> QED
    BY <1>8, <2>1 DEF Lookup, worldVars, planVars, Archived
<1>9. ASSUME NEW o \in Originals, Register(o) PROVE TapeKept'
  <2>1. /\ mem' = [mem EXCEPT !.bound = @ \cup {o}] /\ mem \in Plan
        /\ pc = "register" /\ o \in todo /\ todo' = todo \ {o}
        /\ UNCHANGED <<row, draft, pc, found>>
    BY <1>9 DEF Register, Typed, planVars
  <2>2. o \notin mem.bound /\ o \notin row.plan.bound
    BY <2>1 DEF PlanCompletes
  <2>3. \A p \in Originals \ {o} : entity'[p] = entity[p]
    BY <1>9 DEF Register, Typed
  <2>4. o \in found => entity' = entity
    BY <1>9 DEF Register
  <2>5. o \notin mem.onDisk => entity'[o] = "ARCHIVED"
    BY <1>9, <2>1, <2>4 DEF Register, Typed
  <2>6. mem.bound \subseteq Originals /\ row.plan.bound \subseteq Originals /\ found \subseteq Originals
    BY DEF Typed, Plan
  <2>7. mem'.bound = mem.bound \cup {o} /\ mem'.onDisk = mem.onDisk /\ mem'.kind = mem.kind
    BY <2>1 DEF Plan
  <2>8. Archived(row.plan)'
    BY <2>1, <2>2, <2>3, <2>6 DEF Archived
  <2>9. Archived(mem)'
    BY <2>1, <2>2, <2>3, <2>5, <2>6, <2>7 DEF Archived
  <2>10. draft = NoDraft
    BY <2>1 DEF RowsInOrder
  <2>11. Archived(draft.plan)'
    BY <2>1, <2>10 DEF Archived, NoDraft, EmptyPlan
  <2> QED
    BY <2>1, <2>3, <2>4, <2>5, <2>6, <2>7, <2>8, <2>9, <2>11
<1>10. CASE Registered
  BY <1>10 DEF Registered, Goto, worldVars, planVars, Archived
<1>11. CASE Adopt \/ Post \/ Hash \/ Keep
  <2>1. /\ mem'.kind = mem.kind /\ mem'.bound = mem.bound /\ mem'.onDisk = mem.onDisk
        /\ pc # "idle" /\ pc' # "register"
        /\ UNCHANGED <<entity, row, draft>>
    BY <1>11 DEF Adopt, Post, Hash, Keep, Goto, Typed, Plan, worldVars, planVars
  <2> QED
    BY <2>1 DEF Archived
<1>12. ASSUME NEW o \in Originals, Label(o) PROVE TapeKept'
  BY <1>12 DEF Label, worldVars, planVars, Archived
<1>13. CASE Summarise \/ Detach \/ UpdateClip \/ Verify
  BY <1>13 DEF Summarise, Detach, UpdateClip, Verify, Goto, worldVars, planVars, Archived
<1>14. CASE FinishWithout \/ Recheck \/ Delete
  BY <1>14 DEF FinishWithout, Recheck, Delete, Goto, worldVars, planVars, Archived
<1>15. ASSUME NEW o \in Originals, DiskLoses(o) \/ IndexNotices(o) PROVE TapeKept'
  <2>1. UNCHANGED <<row, draft, pc, mem, found, todo>>
    BY <1>15 DEF DiskLoses, IndexNotices, planVars, applyVars
  <2>2. /\ row.plan.bound \subseteq Originals /\ draft.plan.bound \subseteq Originals
        /\ mem.bound \subseteq Originals /\ found \subseteq Originals
    BY DEF Typed, Plan
  <2> QED
    BY <1>15, <2>1, <2>2, StaysArchived DEF Archived
<1>16. CASE GoesOffline
  BY <1>16 DEF GoesOffline, worldVars, planVars, applyVars, Archived
<1> QED
  BY <1>1, <1>2, <1>3, <1>4, <1>5, <1>6, <1>7, <1>8, <1>9, <1>10, <1>11, <1>12, <1>13,
     <1>14,
     <1>15, <1>16, MigrationAssumption
     DEF Next, ApplyStep

-----------------------------------------------------------------------------
(* The invariant, and what it gives.                                       *)

Kept ==
  /\ Typed
  /\ RowsInOrder
  /\ RunsInOrder
  /\ PlanCompletes
  /\ ShapesKept
  /\ WorkDone
  /\ TapeKept

\* A row without a plan satisfies the invariant.
LEMMA StartsKept == Init => Kept
<1> SUFFICES ASSUME Init PROVE Kept
  OBVIOUS
<1>1. row.plan = EmptyPlan /\ row.verdict = "none" /\ row.phase = "none" /\ draft = NoDraft
  BY DEF Init
<1>2. EmptyPlan.kind = "none" /\ NoDraft.plan = EmptyPlan /\ NoDraft.verdict = "none"
  BY DEF EmptyPlan, NoDraft
<1>3. Typed
  <2>1. NoDraft \in [verdict : Verdicts, plan : Plan]
    BY EmptyTyped DEF NoDraft, Verdicts
  <2>2. row \in [verdict : Verdicts, phase : Phases \cup {"none"}, plan : Plan]
    BY EmptyTyped DEF Init, Verdicts
  <2>3. shapes \in SUBSET Nat /\ mishaps \in 0..MaxMishaps
    BY MigrationAssumption DEF Init, Wrapped
  <2>4. /\ labelled \in SUBSET (Nat \X Originals) /\ found \in SUBSET Originals
        /\ todo \in SUBSET Originals
    BY DEF Init
  <2>5. pc \in PCs /\ mem \in Plan
    BY EmptyTyped, PhaseSets DEF Init, Moves
  <2> QED
    BY <2>1, <2>2, <2>3, <2>4, <2>5 DEF Init, Typed
<1>4. RowsInOrder /\ RunsInOrder
  BY <1>1, <1>2 DEF Init, RowsInOrder, RunsInOrder, Kinded
<1>5. PlanCompletes /\ ShapesKept /\ WorkDone
  BY <1>1, <1>2 DEF Init, PlanCompletes, ShapesKept, WorkDone
<1>6. TapeKept
  BY <1>1, <1>2 DEF Init, TapeKept, Archived
<1> QED
  BY <1>3, <1>4, <1>5, <1>6 DEF Kept

\* The invariant is inductive when plan and apply take turns.
LEMMA StaysKept == ~Overlapping /\ Kept /\ [Next]_vars => Kept'
  BY TypesHold, RowsStayInOrder, RunsStayInOrder, PlanStaysCompleted, ShapesStayKept,
     WorkStaysDone, TapeStaysKept
  DEF Kept

\* The invariant holds of every behaviour.
LEMMA MigrationInvariant == ~Overlapping /\ Spec => []Kept
<1> SUFFICES ASSUME ~Overlapping PROVE Spec => []Kept
  OBVIOUS
<1>1. Kept /\ [Next]_vars => Kept'
  BY StaysKept
<1> QED
  BY <1>1, StartsKept, PTL DEF Spec

\* Every variable keeps its type, and a saved phase comes with the file ids
\* and the shape it stands for (Executor.run saves both at once).
THEOREM MigrationTypeCorrect == ~Overlapping /\ Spec => []TypeOK
<1> SUFFICES ASSUME ~Overlapping PROVE Spec => []TypeOK
  OBVIOUS
<1>1. Kept => TypeOK
  <2>1. SUFFICES ASSUME Kept PROVE PlanFits
    BY DEF Kept, TypeOK
  <2>2. row.phase \in Phases \cup {"none"}
    BY <2>1 DEF Kept, Typed
  <2>3. row.phase \notin {"none", "files_registered"} => row.phase \in WithShape
    BY <2>2, PhaseSets DEF WithShape
  <2> QED
    BY <2>1, <2>3 DEF Kept, ShapesKept, PlanFits, Posted, Wrapped
<1> QED
  BY <1>1, MigrationInvariant, PTL

\* A row is done, or the wrapped file deleted, only when the item's original
\* shape, its archive handles and the clip are what the plan says
\* (Executor._verify, Executor._finish).
THEOREM DoneRowsVerified == ~Overlapping /\ Spec => []DoneIsVerified
<1> SUFFICES ASSUME ~Overlapping PROVE Spec => []DoneIsVerified
  OBVIOUS
<1>1. Kept => DoneIsVerified
  <2>1. SUFFICES ASSUME Kept, row.plan.kind = "wrap", row.phase = "done" \/ file = "gone"
                 PROVE  /\ Verifies(row.plan)
                        /\ summed
                        /\ clip
                        /\ row.phase = "done" /\ file = "online" => row.plan.kept
    BY DEF DoneIsVerified
  <2>2. row.phase \in {"verified", "done"}
    BY <2>1 DEF Kept, WorkDone
  <2>3. summed /\ clip /\ {1} \X Originals \subseteq labelled
    BY <2>1, <2>2 DEF Kept, WorkDone, WithMetadata, WithClip
  <2>4. row.phase = "done" /\ file = "online" => row.plan.kept
    BY <2>1 DEF Kept, WorkDone
  <2>5. shapes = {row.plan.shape} /\ row.plan.shape = 1 /\ row.plan.bound = Originals
    BY <2>1, <2>2 DEF Kept, ShapesKept, WithShape, Alone
  <2> QED
    BY <2>3, <2>4, <2>5, MigrationAssumption DEF Verifies
<1> QED
  BY <1>1, MigrationInvariant, PTL

\* An original that a started row holds to be on tape only is bound to an
\* archived entity (Executor._register_files).
THEOREM TapeOnlyBound == ~Overlapping /\ Spec => []TapeOnlyArchived
<1> SUFFICES ASSUME ~Overlapping PROVE Spec => []TapeOnlyArchived
  OBVIOUS
<1>1. Kept => TapeOnlyArchived
  BY DEF Kept, ShapesKept, TapeKept, Archived, TapeOnlyArchived
<1> QED
  BY <1>1, MigrationInvariant, PTL

\* The steps that leave the row, the shapes and the wrapped file alone.
LEMMA StepKinds ==
  ASSUME [Next]_vars
  PROVE  \/ UNCHANGED <<row, shapes, file>>
         \/ (PlanWrites \/ Save) /\ UNCHANGED <<shapes, file>>
         \/ (Post \/ Detach \/ Delete \/ GoesOffline) /\ UNCHANGED row
<1>1. CASE UNCHANGED vars
  BY <1>1 DEF vars, itemVars
<1>2. CASE PlanReads \/ PlanErrs \/ PlanWrites \/ PlanDies \/ StartApply \/ Save
  BY <1>2 DEF PlanReads, PlanErrs, PlanWrites, PlanDies, StartApply, Save, itemVars
<1>3. CASE ProbeRefuses \/ LookupRefuses \/ HashFails \/ Die
  BY <1>3, RunLeaves DEF itemVars
<1>4. CASE Probe \/ Lookup \/ Registered \/ Adopt \/ Hash
  BY <1>4 DEF Probe, Lookup, Registered, Adopt, Hash, itemVars
<1>5. CASE Summarise \/ UpdateClip \/ Verify \/ FinishWithout \/ Keep \/ Recheck
  BY <1>5 DEF Summarise, UpdateClip, Verify, FinishWithout, Keep, Recheck, itemVars
<1>6. CASE Post \/ Detach \/ Delete \/ GoesOffline
  BY <1>6 DEF Post, Detach, Delete, GoesOffline
<1>7. ASSUME NEW o \in Originals, Register(o) \/ Label(o) \/ DiskLoses(o) \/ IndexNotices(o)
      PROVE  UNCHANGED <<row, shapes, file>>
  BY <1>7 DEF Register, Label, DiskLoses, IndexNotices, itemVars
<1> QED
  BY <1>1, <1>2, <1>3, <1>4, <1>5, <1>6, <1>7 DEF Next, ApplyStep

\* Once a row has a phase its verdict and its kind of plan stay, and apply
\* only completes the plan (WrappedMigration's docstring).
THEOREM PlansKept == ~Overlapping /\ Spec => PlanKept
<1> SUFFICES ASSUME ~Overlapping PROVE Spec => PlanKept
  OBVIOUS
<1> DEFINE Keeps ==
      row.phase # "none" =>
        /\ row'.verdict = row.verdict
        /\ row'.plan.kind = row.plan.kind
        /\ row.plan.bound \subseteq row'.plan.bound
        /\ row.plan.hashed \subseteq row'.plan.hashed
        /\ row.plan.shape # Wrapped => row'.plan.shape = row.plan.shape
<1>1. Kept /\ [Next]_vars => [Keeps]_vars
  <2>1. SUFFICES ASSUME Kept, [Next]_vars, row.phase # "none" PROVE Keeps
    OBVIOUS
  <2>2. CASE UNCHANGED row
    BY <2>2
  <2>3. CASE PlanWrites
    BY <2>1, <2>3 DEF PlanWrites, Kept, RowsInOrder
  <2>4. CASE Save
    <3>1. /\ mem.kind = row.plan.kind /\ Follows(mem.kind, row.phase, doing)
          /\ pc # "idle" /\ row'.plan = mem /\ row'.verdict = row.verdict
      BY <2>1, <2>4, SaveWrites DEF Save, Kept, RunsInOrder, Typed
    <3>2. row.plan.bound \subseteq mem.bound /\ row.plan.hashed \subseteq mem.hashed
      BY <2>1, <3>1 DEF Kept, PlanCompletes
    <3>3. row.plan.shape # Wrapped => mem.shape = row.plan.shape
      BY <2>1, <3>1 DEF Kept, PlanCompletes, ShapesKept, Follows, WithShape
    <3> QED
      BY <3>1, <3>2, <3>3
  <2> QED
    BY <2>1, <2>2, <2>3, <2>4, StepKinds
<1> QED
  BY <1>1, MigrationInvariant, PTL DEF Spec, PlanKept

-----------------------------------------------------------------------------
(* The migration keeps what ItemCustody promises.                          *)

\* What the three sets of shapes a migration passes through state.
LEMMA SaysWhat ==
  /\ Says({Wrapped}) = "wrapped"
  /\ Says({Wrapped, 1}) = "both"
  /\ Says({1}) = "originals"
<1>1. Says({Wrapped}) = "wrapped"
  <2>1. Cardinality({Wrapped} \ {Wrapped}) # 1
    BY FS_EmptySet
  <2> QED
    BY <2>1 DEF Says
<1>2. Says({Wrapped, 1}) = "both"
  <2>1. {Wrapped, 1} \ {Wrapped} = {1} /\ {Wrapped, 1} # {Wrapped}
    BY DEF Wrapped
  <2>2. Cardinality({1}) = 1
    BY FS_Singleton
  <2> QED
    BY <2>1, <2>2 DEF Says
<1>3. Says({1}) = "originals"
  <2>1. Wrapped \notin {1} /\ {1} # {Wrapped}
    <3>1. Wrapped # 1
      BY DEF Wrapped
    <3> QED
      BY <3>1
  <2>2. Cardinality({1}) = 1
    BY FS_Singleton
  <2> QED
    BY <2>1, <2>2 DEF Says
<1> QED
  BY <1>1, <1>2, <1>3

\* Every step is a step of ItemCustody or leaves its variables alone.
LEMMA CustodyStep == Kept /\ [Next]_vars => [Custody!Next]_Custody!vars
<1> SUFFICES ASSUME Kept, [Next]_vars PROVE [Custody!Next]_Custody!vars
  OBVIOUS
<1>1. CASE UNCHANGED <<shapes, file>>
  BY <1>1 DEF Custody!vars
<1>2. CASE Post
  <2>1. shapes = {Wrapped} /\ shapes' = {Wrapped, 1} /\ file' = file
    BY <1>2, PostsFirst DEF Post
  <2>2. Says(shapes) = "wrapped" /\ Says(shapes') = "both"
    BY <2>1, SaysWhat
  <2> QED
    BY <2>1, <2>2 DEF Custody!Next, Custody!StateOriginals
<1>3. CASE Detach
  <2>1. shapes \in {{1}, {Wrapped, 1}} /\ shapes' = {1} /\ file' = file
    <3>1. 1 \in shapes
      BY <1>3, StepOf DEF Detach, Kept, ShapesKept, RunsInOrder, WithShape
    <3> QED
      BY <1>3, <3>1 DEF Detach, Kept, ShapesKept, Wrapped
  <2>2. Says(shapes) \in {"both", "originals"} /\ Says(shapes') = "originals"
    BY <2>1, SaysWhat
  <2> QED
    BY <2>1, <2>2 DEF Custody!Next, Custody!RetireWrapped, Custody!vars
<1>4. CASE Delete
  <2>1. mem.kind = "wrap" /\ file \in {"online", "offline"} /\ row.phase = "verified"
    BY <1>4, StepOf DEF Delete, Kept, ShapesKept
  <2>2. shapes = {1} /\ shapes' = shapes
    BY <1>4, <2>1 DEF Delete, Kept, ShapesKept, RunsInOrder, Alone
  <2>3. Says(shapes) = "originals" /\ Says(shapes') = Says(shapes)
    BY <2>2, SaysWhat
  <2> QED
    BY <1>4, <2>1, <2>3 DEF Delete, Custody!Next, Custody!DeleteWrapped
<1>5. CASE GoesOffline
  <2>1. Says(shapes') = Says(shapes)
    BY <1>5 DEF GoesOffline
  <2> QED
    BY <1>5, <2>1 DEF GoesOffline, Custody!Next, Custody!GoesOffline
<1> QED
  BY <1>1, <1>2, <1>3, <1>4, <1>5, StepKinds

\* Whatever dies and however often it resumes, the item has an original shape
\* at every moment, states its originals once, and the wrapped file is deleted
\* last (Executor._post_shape, _detach_wrapped, _finish).
THEOREM KeepsCustody == ~Overlapping /\ Spec => ImplementsCustody
<1> SUFFICES ASSUME ~Overlapping PROVE Spec => Custody!Spec
  BY DEF ImplementsCustody
<1>1. Init => Custody!Init
  BY SaysWhat DEF Init, Custody!Init
<1> QED
  BY <1>1, CustodyStep, MigrationInvariant, PTL DEF Spec, Custody!Spec

=============================================================================
