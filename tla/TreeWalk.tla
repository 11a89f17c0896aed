------------------------------ MODULE TreeWalk ------------------------------
(***************************************************************************)
(* scan/coordinator.py: walk_tree and the dispatcher it drives.  One       *)
(* coordinator thread expands folders, hands them out and releases their   *)
(* reports; with workers > 1 the folders run on a ThreadPoolExecutor and   *)
(* finish in any order.                                                    *)
(***************************************************************************)
EXTENDS ScanTree, FiniteSets

CONSTANTS
  Pooled,         \* TRUE: PoolDispatcher; FALSE: SequentialDispatcher
  MaxWorkers,     \* threads of the pool
  MaxIdleRounds   \* MAX_IDLE_ROUNDS

ASSUME PoolAssumption ==
  /\ Pooled \in BOOLEAN
  /\ MaxWorkers \in Nat \ {0}
  /\ MaxIdleRounds \in Nat \ {0}

VARIABLES
  pc,        \* where the coordinator thread is
  stack,     \* the LIFO work list, one frame per expansion (see NextUp)
  pending,   \* pending_keys: enqueued or in flight
  ready,     \* completed, not yet releasable
  released,  \* the folders whose lines were emitted, in emission order
  seen,      \* seen_real_paths
  noted,     \* children each folder's lines call "Already walked"
  queue,     \* submitted futures no thread has taken
  running,   \* futures a thread is inside
  finished,  \* futures done and not gathered
  fed,       \* PoolDispatcher._fed
  batch,     \* gathered outcomes not processed yet
  idle       \* idle_rounds

walkVars == <<stack, pending, ready, released, seen, noted>>
poolVars == <<queue, running, finished, fed>>
vars == <<world, pc, walkVars, poolVars, batch, idle>>

PCs == {"start", "loop", "gather", "absorb", "release",
        "done", "aborted", "interrupted"}

TypeOK ==
  /\ world \in Worlds
  /\ pc \in PCs
  /\ stack \in Seq((SUBSET Folders) \ {{}})
  /\ pending \in SUBSET Folders
  /\ ready \in SUBSET Folders
  /\ released \in Seq(Folders)
  /\ seen \in SUBSET Places
  /\ noted \in [Folders -> SUBSET Folders]
  /\ queue \in Seq(Folders)
  /\ running \in SUBSET Folders
  /\ finished \in SUBSET Folders
  /\ fed \in BOOLEAN
  /\ batch \in SUBSET Folders
  /\ idle \in Nat

Init ==
  /\ world \in Worlds
  /\ pc = "start"
  /\ stack = << >>
  /\ pending = {}
  /\ ready = {}
  /\ released = << >>
  /\ seen = {world.place[Root]}
  /\ noted = [f \in Folders |-> {}]
  /\ queue = << >>
  /\ running = {}
  /\ finished = {}
  /\ fed = FALSE
  /\ batch = {}
  /\ idle = 0

-----------------------------------------------------------------------------
(* Definitions named after a fault (PushAnyway, ExpandForgetting, ...) are  *)
(* the broken variants the properties are tried against; nothing uses them. *)
(*                                                                         *)
(* The work list.  `stack.extend(reversed(children))` followed by pops     *)
(* takes the children of the latest expansion in sibling order, then goes  *)
(* back to the expansion before: a frame is the set of one expansion's     *)
(* children not dispatched yet, and the least of the top frame is next.    *)

Stacked == UNION {stack[i] : i \in 1..Len(stack)}

PushAnyway(frame) == Append(stack, frame)

Push(frame) == IF frame = {} THEN stack ELSE Append(stack, frame)

NextUpUnreversed(k) ==
  stack # << >> /\ k \in stack[Len(stack)]
                /\ \A s \in stack[Len(stack)] \ {k} : KeyLess(s, k)

NextUp(k) == stack # << >> /\ IsLeast(k, stack[Len(stack)])

Pop(k) ==
  LET top == Len(stack)
  IN  IF stack[top] = {k} THEN SubSeq(stack, 1, top - 1)
                          ELSE [stack EXCEPT ![top] = @ \ {k}]

ExpandForgetting(k) ==
  LET kids == Children(k, seen)
  IN  /\ pending' = (pending \ {k}) \cup kids
      /\ stack' = Push(kids)
      /\ seen' = seen
      /\ noted' = [noted EXCEPT ![k] = Eligible(k) \ kids]

\* enqueue(): the children become pending before their parent is recorded.
Expand(k) ==
  LET kids == Children(k, seen)
  IN  /\ pending' = (pending \ {k}) \cup kids
      /\ stack' = Push(kids)
      /\ seen' = seen \cup {world.place[c] : c \in kids}
      /\ noted' = [noted EXCEPT ![k] = Eligible(k) \ kids]

\* record() without children.
Record(k) ==
  /\ pending' = pending \ {k}
  /\ ready' = ready \cup {k}

-----------------------------------------------------------------------------
(* The coordinator.                                                        *)

\* The root container is expanded, never dispatched and never reported...
ExpandRoot ==
  /\ pc = "start"
  /\ ~RootFails
  /\ Expand(Root)
  /\ pc' = "release"
  /\ UNCHANGED <<world, ready, released, poolVars, batch, idle>>

\* ...except when it cannot be listed, which is a failure with key ().
FailRoot ==
  /\ pc = "start"
  /\ RootFails
  /\ Record(Root)
  /\ pc' = "release"
  /\ UNCHANGED <<world, stack, released, seen, noted, poolVars, batch, idle>>

\* SequentialDispatcher runs the worker inside dispatch(), so the exception
\* of a raising worker comes out there.
DispatchRaises(k) ==
  \/ world.fate[k] = "rejected"
  \/ world.fate[k] = "raises" /\ ~Pooled

DispatchFailsUnrecorded(k) ==
  /\ pc = "loop"
  /\ NextUp(k)
  /\ DispatchRaises(k)
  /\ stack' = Pop(k)
  /\ pc' = "release"
  /\ UNCHANGED <<world, pending, ready, released, seen, noted, poolVars, batch, idle>>

\* dispatch() raised: the folder is booked as a failure, its lines are
\* released, and `continue` skips the gather of this round.
DispatchFails(k) ==
  /\ pc = "loop"
  /\ NextUp(k)
  /\ DispatchRaises(k)
  /\ stack' = Pop(k)
  /\ Record(k)
  /\ pc' = "release"
  /\ UNCHANGED <<world, released, seen, noted, poolVars, batch, idle>>

Submit(k) ==
  /\ Pooled
  /\ queue' = Append(queue, k)
  /\ fed' = TRUE
  /\ UNCHANGED finished

RunNow(k) ==
  /\ ~Pooled
  /\ finished' = finished \cup {k}
  /\ UNCHANGED <<queue, fed>>

Dispatch(k) ==
  /\ pc = "loop"
  /\ NextUp(k)
  /\ ~DispatchRaises(k)
  /\ stack' = Pop(k)
  /\ Submit(k) \/ RunNow(k)
  /\ pc' = "gather"
  /\ UNCHANGED <<world, pending, ready, released, seen, noted, running, batch, idle>>

AtGatherAfterDispatch == pc = "gather"

\* gather() is called after each dispatch and, once the stack is empty, on
\* its own for as long as folders are outstanding.
AtGather ==
  \/ pc = "gather"
  \/ pc = "loop" /\ stack = << >> /\ pending # {}

Queued == {queue[i] : i \in 1..Len(queue)}

\* PoolDispatcher._pending: submitted and not gathered.
Booked == Queued \cup running \cup finished

GatherPollFedOnce ==
  /\ ~Pooled \/ fed \/ Booked = {}
  /\ UNCHANGED fed

\* gather() answers at once while work is still being fed...
GatherPoll ==
  /\ ~Pooled \/ fed \/ Booked = {}
  /\ fed' = (fed /\ Booked = {})

\* ...and waits for a completion once the feed has stopped.
GatherWait ==
  /\ Pooled
  /\ ~fed
  /\ Booked # {}
  /\ finished # {}
  /\ UNCHANGED fed

\* idle_rounds: rounds that brought nothing and had nothing left to feed.
CountIdle ==
  idle' = IF finished # {} THEN 0 ELSE IF stack = << >> THEN idle + 1 ELSE idle

Gather ==
  /\ AtGather
  /\ GatherPoll \/ GatherWait
  /\ batch' = finished
  /\ finished' = {}
  /\ CountIdle
  /\ pc' = IF finished # {} THEN "absorb"
           ELSE IF idle' > MaxIdleRounds THEN "aborted" ELSE "release"
  /\ UNCHANGED <<world, walkVars, queue, running>>

\* wait() answers a set, so a batch is processed in any order.
NextInBatch(k) ==
  /\ pc = "absorb"
  /\ k \in batch
  /\ batch' = batch \ {k}
  /\ pc' = IF batch = {k} THEN "release" ELSE "absorb"

AbsorbClosedDescending(k) ==
  /\ NextInBatch(k)
  /\ world.fate[k] # "expands"
  /\ Expand(k)
  /\ ready' = ready \cup {k}
  /\ UNCHANGED <<world, released, poolVars, idle>>

\* No descent below k: DOUBT, a failed worker, or a directory that does not
\* list (whose error is appended to k's own lines).
AbsorbClosed(k) ==
  /\ NextInBatch(k)
  /\ world.fate[k] # "expands"
  /\ Record(k)
  /\ UNCHANGED <<world, stack, released, seen, noted, poolVars, idle>>

AbsorbOpen(k) ==
  /\ NextInBatch(k)
  /\ world.fate[k] = "expands"
  /\ Expand(k)
  /\ ready' = ready \cup {k}
  /\ UNCHANGED <<world, released, poolVars, idle>>

BelowFloorOfStack(k) == \A p \in Stacked : KeyLess(k, p)

BelowFloorOfPool(k) == \A p \in Booked : KeyLess(k, p)

\* Smaller than every key enqueued or in flight: whatever is discovered
\* later is a descendant of one of those.
BelowFloor(k) == \A p \in pending : KeyLess(k, p)

ReleaseNext(k) ==
  /\ pc = "release"
  /\ IsLeast(k, ready)
  /\ BelowFloor(k)
  /\ ready' = ready \ {k}
  /\ released' = Append(released, k)
  /\ UNCHANGED <<world, pc, stack, pending, seen, noted, poolVars, batch, idle>>

ReleaseEnds ==
  /\ pc = "release"
  /\ ~ \E k \in ready : IsLeast(k, ready) /\ BelowFloor(k)
  /\ pc' = "loop"
  /\ UNCHANGED <<world, walkVars, poolVars, batch, idle>>

\* The loop condition fails.  The release() after the loop finds nothing:
\* every round ends with one.
Finish ==
  /\ pc = "loop"
  /\ stack = << >>
  /\ pending = {}
  /\ pc' = "done"
  /\ UNCHANGED <<world, walkVars, poolVars, batch, idle>>

\* The run dies (a raising emit, Ctrl-C): scan_tree's
\* shutdown(wait=False, cancel_futures=True) drops what is queued and leaves
\* the threads inside their folders alone.
Interrupt ==
  /\ pc \notin {"done", "aborted", "interrupted"}
  /\ pc' = "interrupted"
  /\ queue' = << >>
  /\ UNCHANGED <<world, walkVars, running, finished, fed, batch, idle>>

-----------------------------------------------------------------------------
(* The pool.                                                               *)

StartWorker ==
  /\ queue # << >>
  /\ Cardinality(running) < MaxWorkers
  /\ running' = running \cup {Head(queue)}
  /\ queue' = Tail(queue)
  /\ UNCHANGED <<world, pc, walkVars, finished, fed, batch, idle>>

EndWorker(k) ==
  /\ k \in running
  /\ running' = running \ {k}
  /\ finished' = finished \cup {k}
  /\ UNCHANGED <<world, pc, walkVars, queue, fed, batch, idle>>

-----------------------------------------------------------------------------

Coordinator ==
  \/ ExpandRoot
  \/ FailRoot
  \/ \E k \in Folders : DispatchFails(k)
  \/ \E k \in Folders : Dispatch(k)
  \/ Gather
  \/ \E k \in Folders : AbsorbClosed(k)
  \/ \E k \in Folders : AbsorbOpen(k)
  \/ \E k \in Folders : ReleaseNext(k)
  \/ ReleaseEnds
  \/ Finish

\* The run is over and the threads are idle.
Terminated ==
  /\ pc \in {"done", "aborted", "interrupted"}
  /\ running = {}
  /\ UNCHANGED vars

Next ==
  \/ Coordinator
  \/ StartWorker
  \/ \E k \in Folders : EndWorker(k)
  \/ Interrupt
  \/ Terminated

Spec == Init /\ [][Next]_vars

\* The coordinator's loop never sleeps but in gather(), and process_folder
\* returns: that is what the code relies on, and all it relies on.
Fairness ==
  /\ WF_vars(Coordinator)
  /\ WF_vars(StartWorker)
  /\ \A k \in Folders : WF_vars(EndWorker(k))

FairSpec == Spec /\ Fairness

-----------------------------------------------------------------------------
(* Properties.                                                             *)

Released == {released[i] : i \in 1..Len(released)}

\* Every folder the walk has enqueued (or the root that failed).
Known == pending \cup ready \cup Released

\* Lines go out in merge-key order: whatever order the workers finish in,
\* what has been printed is sorted, and nothing still to be printed or still
\* to be walked sorts before it (walk_tree's release floor).
ReportOrdered ==
  /\ \A i, j \in 1..Len(released) :
       i < j => KeyLess(released[i], released[j])
  /\ \A r \in Released : \A k \in pending \cup ready : KeyLess(r, k)

\* No folder is lost, and none is handled twice: an enqueued folder waits in
\* the stack, the pool or the batch until it is recorded, is in exactly one
\* of these, and is reported when the walk ends (walk_tree's pending_keys
\* against PoolDispatcher._pending).
AccountedFor ==
  /\ pc # "interrupted" => pending = Stacked \cup Booked \cup batch
  /\ \A i, j \in 1..Len(stack) : i # j => stack[i] \cap stack[j] = {}
  /\ \A i, j \in 1..Len(queue) : i # j => queue[i] # queue[j]
  /\ Stacked \cap (Booked \cup batch) = {}
  /\ Queued \cap (running \cup finished \cup batch) = {}
  /\ running \cap (finished \cup batch) = {}
  /\ finished \cap batch = {}
  /\ pending \cap (ready \cup Released) = {}
  /\ ready \cap Released = {}
  /\ pc = "done" => Known = Released

\* One physical directory is walked once, whichever path reaches it first
\* (NFR-1: two scans of one directory race to ingest the same clips).
OnePlaceOneWalk ==
  \A f, g \in Known : world.place[f] = world.place[g] => f = g

\* The walk never goes below a folder in DOUBT, a failed folder, a folder
\* claimed by its parent's clips or a filtered one, and never enqueues one
\* of the last two itself.
AuthorizedDescent == Known \subseteq Reported

\* Neither dispatcher starves the loop into its RuntimeError: an empty
\* answer of gather() with nothing left to dispatch is followed by one that
\* waits.
NeverGivesUp == pc # "aborted"

\* Without two paths of one directory, what a finished walk has printed is a
\* function of the tree alone: each folder it owes a report on stands where
\* its key puts it, and no line calls a child already walked.  No dispatcher,
\* no number of workers and no order of completion shows in the output
\* (walk_tree's "byte-identical output").
OutputDetermined ==
  pc = "done" /\ Unaliased =>
    /\ Released = Reported
    /\ \A i \in 1..Len(released) :
         Cardinality({f \in Reported : KeyLess(f, released[i])}) = i - 1
    /\ \A f \in Folders : noted[f] = {}

\* The folders the walk has not come across.
Unknown == Folders \ Known

\* Steps left in the loop's round, and the polls the feed still pays for.
RoundLeft ==
  CASE pc = "start" -> 5 [] pc = "gather" -> 4 [] pc = "absorb" -> 3
    [] pc = "release" -> 2 [] pc = "loop" -> 1 [] OTHER -> 0

PollsLeft == IF fed THEN 2 ELSE 0

\* What the walk has left to do: how far each folder is from its report, and
\* where the loop stands.
Fuel ==
  14 * Cardinality(Unknown) + 13 * Cardinality(Stacked)
  + 7 * Cardinality(Queued) + 6 * Cardinality(running) + 5 * Cardinality(finished)
  + 2 * Cardinality(batch) + Cardinality(ready) + PollsLeft + RoundLeft

\* No step is for nothing: whatever the schedule, and without any fairness,
\* the loop and the pool take finitely many steps.  In particular gather()'s
\* polls never spin (PoolDispatcher._fed, walk_tree's idle rounds).
Dwindles == [][Fuel' < Fuel]_vars

\* The walk ends, unless it is interrupted.
Terminates == <>(pc \in {"done", "interrupted"})

\* The walk implements the abstract report: same folders, same order, at any
\* number of workers (walk_tree's "byte-identical output"), provided no
\* directory has two paths.
ReportStatus ==
  CASE pc = "done" -> "complete"
    [] pc = "interrupted" -> "cut"
    [] pc = "aborted" -> "aborted"
    [] OTHER -> "running"

Report == INSTANCE ScanReport WITH report <- released, status <- ReportStatus

ImplementsReport == Report!Spec

=============================================================================
