--------------------------- MODULE VidispineItem ---------------------------
(***************************************************************************)
(* One Vidispine item while a clip is imported into it, as the comments    *)
(* and the calls of models/clip.py describe the server (external code).    *)
(*                                                                         *)
(* The item has at most one placeholder shape, with a declared number of   *)
(* extra components, and at most one real `original` shape.  An import     *)
(* request starts a job; the budget is checked when the request is made,   *)
(* against the files LANDED, and never again.  Only the anchor's job       *)
(* evaluates the placeholder, once, when it attaches the anchor.           *)
(***************************************************************************)
EXTENDS Integers, Sequences, FiniteSets

CONSTANTS
  Anchor,    \* the clip's main media file
  Extras,    \* its other importable media files
  LateFiles, \* a job may end before its file is visible on the shape
  MaxJobs    \* bound on the import jobs ever started

ASSUME ItemAssumption ==
  /\ Anchor \notin Extras
  /\ IsFiniteSet(Extras)
  /\ LateFiles \in BOOLEAN
  /\ MaxJobs \in Nat

VARIABLES
  open,      \* a placeholder shape exists
  declared,  \* its declared number of extra components
  landed,    \* how many components of each file it holds
  real,      \* files of the real original shape; {}: there is none
  jobs       \* the import jobs started, in order: their file and status

itemVars == <<open, declared, landed, real, jobs>>

Files == Extras \cup {Anchor}

\* Still coming: running, attached (the file is on the shape, the job has
\* not ended).  Terminal: closing (the file is not visible yet), landed,
\* failed (FAILED_TOTAL or ABORTED: no file).
ComingStatuses == {"running", "attached"}
TerminalStatuses == {"closing", "landed", "failed"}

Job == [file : Files, status : ComingStatuses \cup TerminalStatuses]

JobIds == DOMAIN jobs

ItemTypeOK ==
  /\ open \in BOOLEAN
  /\ declared \in 0..Cardinality(Extras)
  /\ landed \in [Files -> Nat]
  /\ real \subseteq Files
  /\ jobs \in Seq(Job)
  /\ Len(jobs) <= MaxJobs

ItemInit ==
  /\ open = FALSE
  /\ declared = 0
  /\ landed = [f \in Files |-> 0]
  /\ real = {}
  /\ jobs = << >>

-----------------------------------------------------------------------------

Attached == {f \in Files : landed[f] > 0}

\* What a shape query finds on the placeholder or else on the real shape.
ShapeFiles == IF open THEN Attached ELSE real

Stopped(j) == jobs[j].status \in TerminalStatuses

Coming(f) == {j \in JobIds : jobs[j].file = f /\ ~Stopped(j)}

\* How many components the extras have there; <<f, i>> is the i-th of f.
ExtrasLanded == Cardinality(UNION {{f} \X (1 .. landed[f]) : f \in Extras})

NewJob == Len(jobs) + 1

\* The request-time check (and the bound on jobs); a request it turns down is the 400.
Accepts(f) ==
  /\ NewJob <= MaxJobs
  /\ open
  /\ IF f = Anchor THEN landed[Anchor] = 0 /\ ExtrasLanded <= declared
                   ELSE ExtrasLanded < declared

StartJob(f) ==
  /\ Accepts(f)
  /\ jobs' = Append(jobs, [file |-> f, status |-> "running"])

OpenPlaceholder ==
  /\ ~open
  /\ open' = TRUE
  /\ declared' = 0
  /\ landed' = [f \in Files |-> 0]

-----------------------------------------------------------------------------

\* The placeholder becomes the real shape when every slot is filled.
Attach(f) ==
  LET now == [landed EXCEPT ![f] = @ + 1]
      promotes == f = Anchor /\ ExtrasLanded >= declared
  IN  IF promotes
      THEN /\ open' = FALSE
           /\ real' = real \cup {g \in Files : now[g] > 0}
           /\ landed' = [g \in Files |-> 0]
           /\ declared' = 0
      ELSE /\ landed' = now
           /\ UNCHANGED <<open, real, declared>>

\* A running job attaches its file, then ends, or the other way round.
JobAttaches(j) ==
  /\ open
  /\ \/ jobs[j].status = "running"
        /\ jobs' = [jobs EXCEPT ![j].status = "attached"]
     \/ jobs[j].status = "closing"
        /\ jobs' = [jobs EXCEPT ![j].status = "landed"]
  /\ Attach(jobs[j].file)

JobEnds(j) ==
  /\ \/ jobs[j].status = "running" /\ open /\ LateFiles
        /\ jobs' = [jobs EXCEPT ![j].status = "closing"]
     \/ jobs[j].status = "attached"
        /\ jobs' = [jobs EXCEPT ![j].status = "landed"]
  /\ UNCHANGED <<open, declared, landed, real>>

Fail(j, statuses) ==
  /\ jobs[j].status \in statuses
  /\ jobs' = [jobs EXCEPT ![j].status = "failed"]
  /\ UNCHANGED <<open, declared, landed, real>>

JobFails(j) == Fail(j, {"running"})

\* Nothing to attach to: the job was for a placeholder that is gone.
JobMissesShape(j) == ~open /\ Fail(j, {"running", "closing"})

=============================================================================
