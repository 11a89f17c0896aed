------------------------------ MODULE ScanTree ------------------------------
(***************************************************************************)
(* The tree one scan walks, as the coordinator meets it: what the disk,    *)
(* the run's filters and the workers answer about each folder.  The walk   *)
(* lists every directory at most once and runs every worker at most once,  *)
(* so those answers are fixed for a run: they are chosen in the initial    *)
(* state from Worlds and never change.                                     *)
(***************************************************************************)
EXTENDS MergeKeys, FiniteSets

CONSTANTS
  Folders,  \* the folders of the tree, by merge key; contains Root
  Places,   \* physical directories: what os.path.realpath answers
  Worlds    \* the answers a run may meet

\* What becomes of a folder handed to the dispatcher:
\*   expands     its outcome authorizes descent and its directory lists
\*   unlistable  its outcome authorizes descent, its directory does not list
\*               (or its storage does not resolve)
\*   doubt       consumed_subdirs is None: process_folder reports a failed or
\*               incomplete pass, and descent is not authorized
\*   raises      the worker raises, or the future was cancelled
\*   rejected    the executor refuses the submission
Fates == {"expands", "unlistable", "doubt", "raises", "rejected"}

World ==
  [fate     : [Folders -> Fates],
   consumed : SUBSET Folders,  \* claimed by the clips of their parent folder
   skip     : SUBSET Folders,  \* names that --skip matches
   only     : SUBSET Folders,  \* names that --only matches (all, without it)
   shoot    : SUBSET Folders,  \* names --startwith and the date window match
   place    : [Folders -> Places]]

ASSUME FoldersAssumption ==
  /\ Folders \subseteq Key
  /\ IsFiniteSet(Folders)
  /\ Root \in Folders
  /\ \A f \in Folders : \A n \in 0..Len(f) : SubSeq(f, 1, n) \in Folders

ASSUME WorldsAssumption ==
  /\ Worlds \subseteq World
  /\ \A w \in Worlds : w.fate[Root] \in {"expands", "unlistable"}

VARIABLE world

-----------------------------------------------------------------------------

RootFails == world.fate[Root] = "unlistable"

\* should_scan_entry: the operator's two filters at every depth, the two
\* shoot-folder filters at depth 1 only.
ShouldScan(c) ==
  /\ c \notin world.skip
  /\ c \in world.only
  /\ Len(c) = 1 => c \in world.shoot

\* The names a folder's own clips already cover.  The root container has no
\* clips: its expansion passes frozenset().
ConsumedBy(k) == IF k = Root THEN {} ELSE world.consumed

Eligible(k) ==
  {c \in Folders : IsChild(c, k) /\ c \notin ConsumedBy(k) /\ ShouldScan(c)}

\* The eligible children that _child_items turns into work items, given the
\* real paths seen so far: the first of the siblings that share a place, and
\* only when nothing else reached that place before.
Children(k, seen) ==
  {c \in Eligible(k) :
     /\ world.place[c] \notin seen
     /\ \A d \in Eligible(k) : KeyLess(d, c) => world.place[d] # world.place[c]}

\* No directory has two paths: no bind mount and no hard-linked directory.
Unaliased ==
  \A f, g \in Folders : world.place[f] = world.place[g] => f = g

\* Everything above f let the walk come down to f.
Reached(f) ==
  \A p \in Folders \ {Root} :
    Within(f, p) => /\ world.fate[Parent(p)] = "expands"
                    /\ p \in Eligible(Parent(p))

\* The folders a run owes a report on.
Reported ==
  IF RootFails THEN {Root} ELSE {f \in Folders \ {Root} : Reached(f)}

=============================================================================
