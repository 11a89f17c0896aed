---------------------------- MODULE MigrationBatch ----------------------------
(***************************************************************************)
(* The loops of migrate_wrapped_items over the rows of many items: in the  *)
(* order of the items, at most --limit of them, each on its own; apply     *)
(* gives up after --max-failures rows that failed one after the other.     *)
(* Every run starts at the first row again.                                *)
(***************************************************************************)
EXTENDS Naturals, FiniteSets, FiniteSetsExt

CONSTANTS
  Rows,        \* 1 .. n, in the order of their items
  Limits,      \* what --limit may be; 0 is none
  MaxFailures,
  MaxMishaps

VARIABLES
  work, limit,
  hopeless,    \* the rows that fail at every attempt
  finished,    \* the rows whose work is done
  queue,       \* what this run will still attempt
  inARow,      \* the failures since the last success
  pc,
  runs,        \* how many runs have ended
  mishaps

options == <<work, limit, hopeless>>
vars == <<options, finished, queue, inARow, pc, runs, mishaps>>

Works == {"plan", "apply", "relocate", "backfill-original-filename"}
EnoughRuns == Cardinality(Rows) + MaxMishaps

Init ==
  /\ work \in Works /\ limit \in Limits
  /\ hopeless \in SUBSET Rows
  /\ finished = {} /\ queue = {} /\ inARow = 0
  /\ pc = "idle" /\ runs = 0
  /\ mishaps = 0

Mishap == mishaps < MaxMishaps /\ mishaps' = mishaps + 1
Before(r, S) == {q \in S : q < r}

\* Broken: apply takes its rows as the other actions do.
SelectsAll == Rows

\* Only apply leaves out what is done: a clip is planned again, a relocated row
\* is checked again, a name is compared again.
Selects == IF work = "apply" THEN Rows \ finished ELSE Rows

Queue == {r \in Selects : limit = 0 \/ Cardinality(Before(r, Selects)) < limit}

\* Broken: the failures are counted over all runs.
BeginCounting ==
  /\ pc = "idle" /\ runs < EnoughRuns
  /\ queue' = Queue
  /\ pc' = "rows"
  /\ UNCHANGED <<options, finished, inARow, runs, mishaps>>

Begin ==
  /\ pc = "idle" /\ runs < EnoughRuns
  /\ queue' = Queue
  /\ inARow' = 0
  /\ pc' = "rows"
  /\ UNCHANGED <<options, finished, runs, mishaps>>

Succeed(r) ==
  /\ pc = "rows" /\ queue # {} /\ r = Min(queue) /\ r \notin hopeless
  /\ finished' = finished \cup {r}
  /\ queue' = queue \ {r}
  /\ inARow' = 0
  /\ UNCHANGED <<options, pc, runs, mishaps>>

\* The row keeps its error, and the loop goes on with the next.
Fail(r) ==
  /\ pc = "rows" /\ queue # {} /\ r = Min(queue)
  /\ IF r \in hopeless THEN UNCHANGED mishaps ELSE Mishap
  /\ inARow' = inARow + 1
  /\ queue' = IF work = "apply" /\ inARow' >= MaxFailures THEN {} ELSE queue \ {r}
  /\ UNCHANGED <<options, finished, pc, runs>>

End ==
  /\ pc = "rows" /\ queue = {}
  /\ pc' = "idle" /\ runs' = runs + 1
  /\ UNCHANGED <<options, finished, queue, inARow, mishaps>>

\* The process dies: the rest of the queue waits for the next run.
Die ==
  /\ pc = "rows" /\ queue # {}
  /\ Mishap
  /\ queue' = {}
  /\ UNCHANGED <<options, finished, inARow, pc, runs>>

Next == \/ Begin \/ End \/ Die
        \/ \E r \in Rows : Succeed(r) \/ Fail(r)

Spec == Init /\ [][Next]_vars

-----------------------------------------------------------------------------
TypeOK ==
  /\ work \in Works /\ limit \in Limits
  /\ hopeless \cup finished \cup queue \subseteq Rows
  /\ pc \in {"idle", "rows"}
  /\ inARow <= Cardinality(Rows) /\ runs <= EnoughRuns /\ mishaps <= MaxMishaps

\* Rows that stand before r in every run, for good.
InTheWay(r) == IF work = "apply" THEN Before(r, hopeless) ELSE Before(r, Rows)

\* After a run for every row and every mishap, a row that can be done is done,
\* unless the rows in its way fill the limit, or apply gives up on them.
OnlyTheBlockedWait ==
  runs = EnoughRuns =>
    \A r \in Rows \ (finished \cup hopeless) :
      \/ limit # 0 /\ Cardinality(InTheWay(r)) >= limit
      \/ work = "apply" /\ Cardinality(InTheWay(r)) >= MaxFailures
=============================================================================
