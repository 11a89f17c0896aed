# TapelessIngest: a verification development

TapelessIngest is a Cantemo Portal plugin (Python, Django).  It scans storage
folders for the clips of camera cards, persists a row per clip, imports each
clip's files into the Vidispine media server, and re-points items of an older
"wrapped" scheme to their original camera files.  Nothing in it is a server
with a lock of its own: a scan, a REST request and a management command may all
be at work on the same rows, the other side of every call is a job queue that
runs on by itself, and any of these processes may be killed between two calls.

This directory holds TLA+ models of its concurrent and resumable parts, the TLC
configurations that check them on small instances, and proofs, checked by
TLAPS, of the properties for every value of the constants.

The components modelled:

| component | code | modules |
|---|---|---|
| the tree walk | `scan/coordinator.py` | `MergeKeys`, `ScanTree`, `ScanReport` (abstract), `TreeWalk`, `MCTreeWalk`; proofs `MergeKeyTheorems`, `TreeWalkTheorems`, `TreeWalkOrder` |
| the import of one clip | `models/clip.py`, `models/folder.py`, `scan/ingestion.py` | `VidispineItem` (external), `ImportPromise` (abstract), `ComponentImport`, `MCComponentImport`; proofs `ImportTheorems` |
| the wrapped-item migration | `wrapped/executor.py`, `wrapped/planner.py`, `migrate_wrapped_items.py` | `ItemCustody` (abstract), `WrappedMigration`; proofs `MigrationTheorems` |
| the clip row and its writers | `models/clip.py`, `models/folder.py`, `scan/persistence.py`, `utilities.py`, `views.py` | `ClipRow`; proofs `ClipRowTheorems` |
| the scan of one folder | `models/folder.py`, `scan/discovery.py`, `scan/verification.py`, `scan/extraction.py` | `FolderScan`, `Parts`, `MCParts`; proofs `ScanTheorems` |
| the equivalence gate | `scan/equivalence.py`, `verify_discovery_equivalence.py` | `EquivalenceGate`, `Parts`, `MCParts`; proofs `PartsTheorems` |
| the relocation and the command's loops | `wrapped/relocate.py`, `migrate_wrapped_items.py` | `EntityCustody` (abstract), `Relocation`, `MigrationBatch`, `Parts`, `MCParts`; proofs `PartsTheorems` |
| the shape documents of RED and BRAW | `providers/red.py`, `providers/braw.py`, `models/clip.py` | `ShapeDocument`, `Parts`, `MCParts`; proofs `PartsTheorems` |

`PROJECT.json` has, for every definition, the lines it models; for every
property, a plausible bug that it catches; and the hazards of the code with the
properties that watch them.

## Running

    tlc -workers 2 -config walk_pool.cfg MCTreeWalk
    tlc -workers 2 -config import_resume.cfg MCComponentImport
    tlc -workers 2 -config migration_resume.cfg WrappedMigration
    tlc -workers 2 -config clip_row.cfg ClipRow
    tlc -workers 2 -config parts.cfg MCParts
    tlapm TreeWalkOrder.tla          (likewise the other proof modules)

## Inventory

| part | state it keeps | operations | talks to | hard behaviour | what makes it correct |
|---|---|---|---|---|---|
| tree walk (`scan/coordinator.py`) | work list, pending and ready keys, seen paths, futures | expand, dispatch, gather, release, interrupt | the pool's threads, which run `process_folder` | folders finish in any order, fail, are refused; two paths of one directory; Ctrl-C | every folder reported once, in order; descent only where a folder's clips are settled; one walk per directory; the loop ends |
| index discovery (`scan/discovery.py`) | a search_after cursor, the reported total | pages, shortfall | Vidispine's index | a short page, a ceiling, an index that changes | a truncated answer withholds descent, never passes for an empty folder |
| file verification (`scan/verification.py`) | directory listings, for one scan | list once, confirm a miss on disk | the file system | files that come and go | a miss is never decided from a cached listing alone |
| extraction (`scan/extraction.py`, `adapters`, `context`) | none | group files into clips, `consumed_subdirs`, doubt | providers | index and disk disagree | a card's internals are never walked as folders |
| scan persistence (`scan/persistence.py`, `models/folder.py`) | Clip, ClipFile, ClipMetadata, Folder rows | plan, upsert, stale deletes | the database; other scans | two scans of one folder; an ingest beside a scan | location and ingest columns are kept; recovered ids fill NULLs only |
| ingest ladder (`scan/ingestion.py`) | none | `will_ingest`, `is_incomplete_import`, dedupe, hash recovery | clip rows | a half-imported clip | neither abandoned nor re-imported for ever |
| clip import (`models/clip.py`) | the row's item, job and status | create_item, import_file, waits, persist | Vidispine's shapes and jobs | jobs outlive runs; reads go stale; deaths; 400s | the anchor last; no file imported twice; promoted whole; converges |
| shape-document route (`models/clip.py`) | the item's shapes | `_post_shape_document` | Vidispine | shape/create always adds | posted once |
| deletion listener (`utilities.py`) | clip rows | reset on item deletion | Portal's signals, ingests | a full `save()` beside an UPDATE | a dead item's id never comes back |
| REST views (`views.py`) | none | start a scan or an import | the above | a second importer | the same as the above |
| scan commands (`management/commands`) | none | drive a scan, `--workers`, interruption | the walk, the import | recurring runs | the same as the above |
| migration (`wrapped/executor.py`, `planner.py`, `relocate.py`, command) | WrappedMigration rows: verdict, phase, plan, the values for an undo by hand | plan, apply, relocate, realign | Vidispine, the rushes disk, the P5 archive | killed between an effect and its save; a plan that went stale | media never lost; effects never doubled; done means verified |
| documents and templates (`wrapped/shape.py`, `span`, `templates`, ...) | none | build, parse | | | data |
| providers (`providers/`) | a cache of instances | recognise, probe, build a shape document | brawprobe, REDline, XML | a take with a hole, a neighbour's segment, a probe that prints nonsense | a shape states the whole take, and only what was measured |
| equivalence gate (`scan/equivalence.py`) | verdicts per tree | walk thrice, compare, waive, conclude | both discoveries | the reference slips, the tree moves | no slip is charged to the index, no loss passes for agreement |
| one-off tools, settings, forms, brawprobe | | | | | configuration, I/O |

How they meet: a scan (command or REST) walks the tree; the pool runs
`process_folder` on each folder; that discovers, verifies, extracts, persists
and then ingests the folder's clips.  The walk sees of all this only an outcome
(descend, doubt, failure).  An import starts jobs that Vidispine runs on its
own; the next scan meets what they and a dead run left.  The migration works on
other items, beside all of it.

## The tree walk

`walk_tree` holds a LIFO work list, hands folders to a dispatcher (sequential,
or a ThreadPoolExecutor), gathers outcomes in whatever order the threads
finish, expands the folders whose outcome authorizes descent, and releases each
folder's lines as soon as nothing pending sorts before its merge key.

*State.*  `stack` is the list the code extends with reversed children, one
frame per expansion; `pending` is pending_keys, `ready` the ready heap,
`released` the lines emitted, `seen` seen_real_paths, `queue`, `running` and
`finished` the futures, `fed` and `idle` the dispatcher's flag and the loop's
counter.  `world` is what disk, filters and workers answer; each directory is
listed and each worker run once per walk, so it is fixed for a behaviour.

*Actions.*  One per block of the loop: ExpandRoot, FailRoot, Dispatch,
DispatchFails, Gather, AbsorbOpen, AbsorbClosed, ReleaseNext, ReleaseEnds,
Finish, Interrupt; StartWorker and EndWorker are the pool's threads.

*Abstract specification.*  `ScanReport` says what a reader of the output may
rely on: the folders the scan owes a report on, in order, or a prefix of that.

| run | instance | shows |
|---|---|---|
| `walk_pool` | 7 folders, 2 workers, worlds with up to two folders that do not expand, or one left out by each filter | nothing lost or doubled, no descent without authorization, the finished report a function of the tree alone, ScanReport implemented, every step closer to the end, the walk ends (and never in its RuntimeError) |
| `walk_aliased` | the same tree with two paths of one directory: siblings, cousins, uncle, root | the directory is walked once, the output stays ordered |
| `walk_sequential` | the sequential dispatcher, every world | the output is that of a recursive depth-first walk |
| `walk_aliased_output` | as `walk_aliased` | VIOLATED: "byte-identical output"; which of two paths is walked depends on the threads |

Bounds: two levels, siblings at both and two workers are enough for a folder to
finish before, during and after everything it is ordered against.  Fairness:
the loop sleeps only in gather, threads run, `process_folder` returns; an
interruption is never required.

*Proved*, for any tree, world, number of workers and MAX_IDLE_ROUNDS:
`TypeCorrect`, `NothingLost`, `PlacesWalkedOnce`, `OrderKept`,
`DescentAuthorized`, `GiveUpUnreachable` (NeverGivesUp, which `Terminates`
implies on the instance), and `WalkImplementsReport` (when no directory has two
paths).  Assumptions: the folders are a finite prefix-closed set of keys, and the
root is either listed or not.  None of the properties is inductive
alone.  `Bookkeeping` says that a pending folder is in exactly one of stack,
queue, thread, finished set and batch, that frames are disjoint and that the
place of an enqueued folder is seen.  `Settled` adds that a round starts with
nothing left to release, `Patience` that an idle round has stopped the feed, so
that the next gather waits, and `Discovery` that every owed folder is reported,
ready or below a pending one: with the order of `MergeKeyTheorems` (what is
below a key sorts after it, and before its next sibling) the release floor is
then a floor for the folders nobody has seen yet.

Two theorems say what the pool changes: nothing but the time.  `OutputOfTheTree`
(OutputDetermined, in `TreeWalkOrder`): when no directory has two paths, a walk
that was not interrupted has printed the owed folders in merge-key order, a
sequence that the tree and the outcomes determine and the threads do not.  It
follows from `OrderKept`, `DescentAuthorized` and `Settled` at the end of the
loop: the rank of a key among the owed folders is its place in the
output.  `EveryStepCounts` (Dwindles) is the termination argument without
fairness: `Fuel` sums what each folder still has to go through and what the loop
still has to do, and every step of loop or thread lowers it, so no schedule
makes a walk go on for ever.  What is left to `Terminates` (liveness, only
checked) is that the walk does not stop short.  `SameOutput` compares with a
recursive walk and is only checked: a recursive definition is out of the
prover's reach.

## The import of one clip

A clip is an anchor file and its extra components.  A run names an item
(`create_item`), asks for its shapes, creates or resumes a placeholder, lists
the jobs still running, declares the number of extras, asks for the import of
those that are missing, waits for all of them to be attached, asks for the
anchor's and records its job.  Vidispine evaluates the placeholder once, when
the anchor's job attaches: full, it becomes the real shape; not full, it stays
a placeholder for ever.

*State.*  `VidispineItem` is the server as the comments of clip.py measured it:
`open`, `declared`, `landed` the placeholder, `real` the promoted shape, `jobs`
every job ever started.  `row` is the clip's item_id and job_id; the other
variables are the run's locals, each under its name in the source or named for
it, forgotten when the run ends or dies.

*Actions.*  One per block of `ingest`, `import_file`,
`_get_or_create_placeholder_shape`, `_import_single_component`,
`_import_multi_component` and `_wait_for_components_to_land`; a job attaches,
ends, fails, or finds its shape gone, between any two of them.  Die is a kill
or a raising call anywhere.

*Abstractions.* One clip and one item; its runs follow one another (a second
importer is in ClipRow, where an import is one step); replace is off; the anchor
declares video of its own. The status column is a function of the row
here.  createPlaceholder and the UPDATE that follows are one step: a death
between them leaves an item no row names; ClipRow takes the two apart.  An
unreadable shape misses every file.  The shape-document route is in
ShapeDocument; clips without files and foreign items are not modelled.

*Abstract specification.*  `ImportPromise` is what somebody who only sees the
row and the media may rely on: an item is named, the media arrive whole and at
once, a job goes on the row after that or while the one that brings them runs,
and then it brings them, unless that very job fails.

| run | instance | shows |
|---|---|---|
| `import_resume` | 2 extras, reads reliable, one mishap anywhere | a real shape is whole, a recorded job promotes, no rival import, ImportPromise implemented, the import converges |
| `import_unreliable` | 1 extra; jobs and shapes that cannot be read, files visible late, runs that see no extra | the anchor comes last, and every run ends |
| `import_second_shape` | 1 extra, one death | VIOLATED: a real shape never reaches the placeholder's resolution; it does when it is promoted between the two queries |
| `import_landing_window` | 2 extras, no mishap | VIOLATED: an attached file is not imported again; it is when it lands between the shape query and the job listing |

Bounds: MaxJobs is 8 in `import_resume` and is never reached; in
`import_unreliable` it is 3 and acts as a server that refuses further requests.
MaxMishaps bounds deaths, failed jobs, empty answers and undecided budgets.
Two extras let one be attached, in flight or missing independently of another.
Fairness: a run that was started goes on (WF), the scans recur (WF), the wait
has a monotonic deadline (SF on its expiry: it is enabled again and again while
the wait polls); for convergence, Vidispine finishes the jobs it accepted.

`Converges` has two excuses, and both are states of the real program:
`Unrecorded`, a shape promoted for a run that died before it wrote the job (the
later runs answer "skipped" and never write one), and `Clogged`, a placeholder
that no run can close (an anchor attached too early, or a component twice).

*Proved*, for any extras, jobs and mishaps: `ImportTypeCorrect`;
`AnchorComesLast`, readable or not; `NoRivals`, when jobs can be read;
`PromotionWhole` and `RecordedJobPromotes` (RecordedPromotes), when every run
sees every extra.  The invariants: `Knows`
(what the wait read as attached is attached as long as the placeholder it read
is open), `Lists` (the listing covers every coming job of a file that may still
be asked for), `Whole` (an anchor's job that can still attach finds the extras
attached to the placeholder), and for the recorded job `AnchorPromotes` (a job
that attached the anchor promoted the placeholder) and `Recorded` (what a run
takes for the anchor's job is one).  With every extra attached the placeholder
holds at least as many components as there are extras, and no more were
declared (`FullWhenAllAttached`): this is why the anchor's job promotes.

`KeepsPromise` is the refinement of ImportPromise, under the same premise: each
action is one step of the promise or none.  It needs `RowFirst` beside the
invariants above: no job and no medium before the row names the item.  It says
more than they do together.  A ladder that takes a row with a job for an
incomplete one (`IncompleteWithJob`, the mutant of this property) breaks neither
PromotedWhole nor RecordedPromotes: every shape is whole and every recorded job
promotes.  Only the order in which row and media move tells.  Only checked:
`Converges` and `RunsEnd` (liveness), and the violations.

## The wrapped-item migration

`plan` reads an item, the disk, the index and the P5 archive, and writes a row:
a verdict and a plan (wrap it, complete it, or refuse it).  `apply` takes the
row through its phases: register the originals' files, post the shape that
names them, write the metadata, take the tag off the wrapped shape, update the
clip, verify, and keep or delete the wrapped file.  The row's phase and plan
are saved after each phase, so an interrupted one is done again by the next
apply, on an item that has its effects already.

*State.*  `row` is verdict, phase, plan; `draft` what a plan command is about
to write; `mem` apply's copy of the plan and `pc`, `doing`, `found`, `todo`
where its executor is; `shapes`, `labelled`, `summed`, `file`, `clip` the item,
its wrapped file and its clip row; `disk` and `entity` the world.  A plan's
file ids are those of the originals' own entities, so the set of originals that
have one stands for them.

*Actions.*  PlanReads, PlanErrs, PlanWrites, PlanDies; StartApply and Save (the
loop of `Executor.run`); one to four steps per phase; a StepError or a death
at any of them ends the run with the row as last saved.  Meanwhile originals
leave the disk (DiskLoses), Vidispine notices files that came or went
(IndexNotices), and Portal archives the wrapped file (GoesOffline).

*Abstractions.* One row: rows share nothing but the loop that takes them one by
one.  The planner's technical sources and most of its refusals are one verdict; a
dry run, `stop_before` and realignment are not modelled (a rollback is no
operation: the row keeps the values for an undo by hand, executor.py:9); the
relocation has a module of its own below.  The checks of verify_item on the
low-resolution shapes and on the duration may fail at any time: that is a death
of the run.

*Abstract specification.*  `ItemCustody`: the item has an original shape at
every moment, its originals are stated once, and the wrapped file is deleted
after they took its place.

| run | instance | shows |
|---|---|---|
| `migration_resume` | 2 originals, one in P5; on disk or not, every entity state; wrapped or migrated in place; the deletion option on or off at each run; 2 mishaps | a done row is verified and flagged, a tape-only original is bound to an archived entity only, a started row is only completed, ItemCustody implemented, every row settles |
| `migration_overlap` | the same, plan and apply at once, no mishap | VIOLATED: "a row whose phase is non-empty is frozen against plan" |

Bounds: an original in P5 and one that is not take the two branches of every
test on `entry`; two mishaps let a run die in a phase that was entered after
another death or after a file went away.  Fairness: a command that was started
goes on (WF), and the operator runs both again (SF: they are possible again and
again, not continuously).  `Settles` allows a row to be `Stranded`: a file the
plan holds to be on disk goes away after its registration and before its hash.
The hash then raises at every apply, and the phase keeps plan away.

*Proved*, for any originals and any number of mishaps, when plan and apply take
turns: `MigrationTypeCorrect`, `DoneRowsVerified`, `TapeOnlyBound`,
`PlansKept` and `KeepsCustody`, the refinement of ItemCustody.  The premise
~Overlapping is needed: `migration_overlap` is the counterexample.  The
invariant `Kept` has seven parts: types; rows and runs in order (plan writes
rows without a phase only, a run works on the phase that follows its row's);
the run's plan completes the row's; there is one shape of the originals at
most, and the row knows it from shape_posted on; what each phase says was done
was done; ids of originals that are not on disk are those of archived entities.
Only checked: `Settles` (liveness).

## The clip row

A Clip row is written by scans that also import (the recurring command), by
pages (a scan made for a browser; the clips come back in the body of a POST,
which is not read again), and by the listener that Portal calls when an item is
deleted.  Each reads the row once, works on its copy for minutes and writes
columns back.  There is no lock.

*State.*  `row` is item_id, job and status; `folder` the Folder row, whose
uniqueness makes one of two first scans fail; `life` and `media` the items in
Vidispine; `mem` each process's copy; `signal` the listener's.  Two history
variables carry the argument: `stale` is who works on a copy that somebody has
outdated since, and `crossed` becomes true when one of them acts on it.

*Actions.*  Read, Write, WriteFails (the persistence unit), Post (the page),
Create, Record, Resume, Refuse, Gate, Send, SendFails, Save (the import from
`create_item` to `persist_ingest_state`), DeleteItem, ListenerReads,
ListenerSaves, and Die anywhere.

*Abstractions.*  The import of an item is one step (Send): how its files reach
it is the subject of ComponentImport and ShapeDocument.  One clip, whose
provider imports by job or by shape document; it has a hash.  A deleted item
that `Clip.item` still has in its cache is found by Resume and refused by a
later call.  ClipFile and ClipMetadata rows are not modelled, nor are the
location columns of the clip row: that an upsert keeps them is not watched, and
RecordedStays speaks for the recorded item id alone.

| run | instance | shows |
|---|---|---|
| `clip_row` | the command and one page; an older item under the same hash, live or not; 4 items; 2 mishaps (deaths, refusals, failed transactions, deletions) | no placeholder is forgotten, no media stated twice, an id stays that an import recorded, and every clip settles |

Bounds: two importers are enough for every pair of steps to interleave, and the
listener is a third writer; two mishaps let a run die on the traces of another
death or beside a deletion.  MaxItems is 4, the most that can be created within
the mishaps (a fifth adds no state).  Fairness: the command recurs (WF on Read of
a scanner), who was started goes on, Portal calls its listeners.  The user need
not post.

What the excuses say.  `crossed` is the honest limit of the code: two importers
at once, or the listener beside an import, can leave a forgotten item, media
stated twice, or the item of one and the job of the other in the row (the
UPDATE of create_item at clip.py:1624 keeps the job column: `Jammed`, a row
that no run retries).  The properties show that this takes an outdated copy
and nothing less.  `lost` is the item whose creator died between
createPlaceholder and the UPDATE.  `Wedged` is a row that names a deleted item
nobody told the listener of: every run refuses it and only an operator heals it.

*Proved*, for any number of scanners, pages, items and mishaps:
`RowTypeCorrect`, `PlaceholdersNamed`, `MediaStatedOnce`, `RowBeforeImport`
(ImportsHaveARow: an import has its row; no run checks it) and `IdsStay` (the
action property RecordedStays).  The invariant `Kept` says what the copy of a
process that is not stale still has in common with the row, block by block
(`InSync`): before the write, the row or the row with a recovered id where it
has none; before `create_item`, the row itself; before the UPDATE, a row without
an item; after it, the same item.  Each action keeps it, since a write that
changes the row outdates every other copy.  Only checked: `Settles` (liveness).

## The scan of one folder

One pass of `Folder._scan_pass`: the index is asked what the folder holds, each
hit is looked up on the disk, the segments of a take are left to their anchor,
the providers identify the rest, clips are built and written, and the pass
decides whether the tree walk may go below and which children it must not
enter.

*State.*  `rows` and `disk` are what the index and the storage hold, `indexed`
and `stayed` what they held all the time; `fetched`, `hits`, `cursor`, `seen`,
`total`, `more` are the paging; `listed` the cache of directory listings;
`clips`, `extras`, `orphans`, `wrong` what became of each file; `unmade`,
`errors`, `descent`, `consumed` the verdict.

*Actions.*  Prefetch (a page by search_after), FetchPage (a page by from and
size), FetchBucket (a folder's share of the prefetch), Read of one hit and the
ways it fails, Assemble, and the three ends Authorize, Withhold, NotWritten;
IndexMoves and DiskMoves at any point.

*Abstractions.*  Files are numbers in the order of their paths; what a provider
declares (extensions, sub-paths, raw filters, suffixes it groups) is the set of
files it selects.  What it reads in a file is an identity (umid) or a failure.

The run `parts` (below) checks these properties of it.  `DescentSound`: the walk is
never sent into a child whose files are part of this folder's clips.
`NothingSilent`: a file that index and disk held all the time becomes a clip,
stays with its anchor's, or is reported.  `SegmentsTogether`: a segment never
becomes a clip of its own beside an anchor that lay there. `ScanDwindles`: every
step leaves the pass less to do (mishaps that may still come, else pages, else
phases, else hits of the page), so the paging, which goes on for as long as
pages are full, ends.  The excuses of the first two are states of the program:

  - `Skipped`: the legacy query pages by from and size over an index that
    moves.  A hit that shifts over a page boundary is missed and yet enough
    hits were counted; the comment at folder.py:1030 takes the count for the
    proof of completeness.  Index discovery (at this commit only the equivalence
    gate prefetches one) closes this, except when an answer lacks a hit and
    another file makes up the number.
  - `Overwritten`: a clip remembers the file that made its row and the last one
    it was given (`_clip_directories`).  With three files in three directories
    the middle one is forgotten; with a row that an earlier scan wrote for
    another place, so is the first.
  - `Sheltered`: an extra whose anchor was no hit goes unreported where another
    clip of its directory was made.  An anchor is a file of the same directory:
    the siblings of a segment are sought in its own listing.

*Proved*, for any files, identities, providers and page size, and any number of
moves and faults: `TheWalkStaysOut` (DescentSound), `NoMediumIsSilent`
(NothingSilent), `AnchorsTakeTheirSegments` (SegmentsTogether) and
`EveryScanDwindles` (ScanDwindles, the end of a scan without
fairness).  Assumptions: the files are finitely many, numbered from 1, and a page
has room for a hit. The invariant is `ScanHolds`.  `ScanPhases` says what each
phase has not done yet; `ScanListings` that a listing that was read has all that
stayed in its directory, and that a file became a clip only where it had no
sibling then. `ScanDiscovery` is the argument for completeness.  For the
prefetch: whatever the index held all the time and sorts before the cursor was
fetched, unless an answer lacked a hit; and if one did, an index that stood
still shows it in the count.  For the pages: no hit is counted twice, those
counted rank before the cursor, so `seen >= total` leaves no room for a hit that
was not seen.  This is where `Skipped` is needed, and nowhere else.  `ScanKept`
says what a clip remembers: its hits come in order, so the first and the last
file are the least and the greatest.  `ScanEnds`, the two properties of a pass
that is over, is kept by what the last step reads off `ScanHolds`.

## The equivalence gate

`verify_discovery_equivalence` walks every tree of a corpus twice with the
legacy query and once with the index, and says whether the index may replace
the query.  The reference is not exact: its slips change what a folder consumes
and hence which folders are walked at all.

*State.*  `corpus` and `waivers` are the input files; `tree` the files of the
tree under comparison and `blind` those that the index path does not find;
`runs` the three walks; `charged`, `withheld`, `used`, `entries` the
comparison; `verdict` and `exit` the result.

*Actions.*  Load, Refuse, WalkTree, WalkRaises, TreeMoves, Compare, NextEntry,
Conclude.

*Abstractions.*  A tree has three folders below its root: a shoot whose clips
consume the card below it, and one beside.  The root is a container that no
walk hands to the collector.  The tuple of a file is the file and the folder
that reports it.  `ChargedWithCause`: while the tree holds still, a file is
charged only when the index misses that very file, or when both reference walks
slipped past it.  `AgreedIsTrue`: an entry agrees only if what the index misses
was missed by both reference walks too, lies where the reference was withheld,
or is covered by a waiver of its own.  A folder that one side only has walked
cannot be waived: this is the code's rule, and the model keeps it.

*Proved*, for any files, waivers and corpora: `SlipsAreNotCharged`
(ChargedWithCause) and `AgreementIsTrue` (AgreedIsTrue).  Assumption: a file
lies in one of the tree's three folders.  The invariant `GateKept`: the walks so
far are two of the reference and then one of the index; while the tree stands
still each saw what a reading of the tree, less its own slips, sees; and what
was concluded is what the comparison says of them.  The argument for the charge
is `SlipTaints`: a slip that only one of the reference walks made makes the two
differ in the very folder where it would be charged, which is then withheld.
The same difference is why an agreement cannot rest on a slip of one walk.

## The relocation and the command's loops

`relocate` follows a shoot folder that was renamed after its files were
archived: it moves each entity (Vidispine makes a new one in state OPEN and
swaps it into the shape), archives it again, renames the item's field and the
clip's file, saves the plan, file by file, and then verifies the row.

*State.*  `plan`, `shape`, `entity`, `field`, `clip`, `portal` are the row, the
item's shape, the entities by path and state, the original filename, the Clip's
file and Portal's own rows; `todo`, `again`, `resumed` the run.

*Actions.*  One per write: RewritePortal, Select, Refuse, Preflight, Close,
Move, Archive, Name, UpdateClip, SavePlan, Recheck, Verify.  Die anywhere;
someone registers a file at the new path or at the old one when it is free
(Squat), the storage scan drops an OPEN entity (Lose), the item or the clip is
edited by hand (Meddle).  A stranger at the old path refuses the row if it comes
before the pre-pass, and is moved in the original's place if it comes after:
it is in no shape, which ends the run.
That Vidispine refuses a path that is taken is an assumption about it; the
pre-pass reads its originals in one step.

`Settled`: a run that reports the row relocated leaves it whole.  A row that this
command has touched is not called a pre-existing failure, and a row given up by
the verification keeps no entity open (OwnFailure, its second half).  The comment
"Never leave a killed run's entity OPEN" (relocate.py:125) holds for that
verdict only: a refusal of *another* original (two entities, or none) is raised
before it and leaves the entity of the first one open.

*Abstract specification.*  `EntityCustody` looks at the entities alone: the one
a component names is replaced once, is archived or dropped while it is open, and
the row records the move only when it is archived and, for the first original,
when neither the item's name nor the Clip says the old place.  Nothing is taken
back, whoever dies or meddles.  `EntitiesInCustody` states that the relocation
implements it.

`MigrationBatch` is the loop over rows: `--limit`, `--max-failures`, a row that
always fails.  `OnlyTheBlockedWait`: after enough runs, the rows that were
never done are those which the limit or the failures of rows before them shut
out.  Only apply leaves out what is done, so plan, relocate and the backfill
with `--limit` take the same first rows at every run; the docstring of
relocate.py ("until the row verifies") reads otherwise.

*Proved*, for any originals, rows, limits and numbers of mishaps:
`RelocatedRowsAreWhole` (Settled), `RelocationKeepsCustody` (EntitiesInCustody,
the refinement) and `EveryFreeRowIsReached` (OnlyTheBlockedWait).  Assumptions:
the originals are numbers and 1 is among them, the rows are finitely many,
`--max-failures` is positive (the command refuses another).  `MoveKept` says of
every original that one copy of its entity exists, where the shape and the plan
agree with it (`OneCopy`); what each step of a file leaves for the next
(`StepsLeave`: the entity archived before the name, the name before the clip,
the clip before the plan); and that an entity this run finds open at its new
path is one it remembers to have met (`Remembered`, for OwnFailure).  The
refinement needs no more: `StepsLeave` is the guard of every step that
records.  `BatchKept` counts: a run that ended has done a row or met a mishap
(`Owed`), for every row that the rows before it do not block; so after a run for
each row and each mishap none is left.

## The shape documents of RED and BRAW

Where Vidispine can deduce nothing, the provider states the shape itself.

*State.*  `index`, `wav` are what the storage knows beside the anchor;
`stored` the clip's metadata, each with who said it (the probe, or the camera
under the same name); `extras`, `sound` what the import found; `document` and
`shapes` what was composed and posted.

*Actions.*  ReadRed, ReadBraw and their failure; Route, FindSegments,
FindSound, QueryFails, Compose, SoundUnreadable, Post, PostRefused, Skip,
Again, and IndexMoves.

`DocumentWhole`: an item gets one shape at most, and it names every segment the
storage knew, in order, nothing of a neighbour with a longer stem, the sound
that was found, and no number that only the camera claimed.  A last segment
that the storage has not indexed yet cannot be noticed by any of this, and a
shape once posted is skipped ever after.  The sound is sought by the name
REDline gives the clip, so a renamed take posts without it.  The docstring
in red.py says that the container is segment 001; the code names the clip's main
file, which is a later segment if that one was alone when it was scanned.

*Proved*, for takes of any length and any number of mishaps:
`PostedShapeIsWhole` (DocumentWhole).  The invariant `DocumentKept`: a number
that is usable was said by the probe; the segments found are the take's among
what the storage knew then; a document about to be posted is whole, and so is
the one posted.  That the segments are named in order needs the step of
`ComposedIsWhole`: as many numbers as files, and none missing, are the numbers
from 1 up.

## The run of the parts

`Parts` sets the last five modules side by side: they share no state, so a
behaviour has one of them as its subject, chosen at the start, and the others
are parked.  `MCParts` gives the constants their values.  The proofs are about
`Parts`: a step of a behaviour is a step of its subject (`SubjectSteps`), so
each component's invariant is kept by its own actions alone.

| run | instance | shows |
|---|---|---|
| `parts` | scan: 6 files (a take of three segments, an unreadable file, one clip in two card directories), pages of two; gate: two trees of three files, a nested and an unratified corpus; relocation: two originals, applied, spanned or in progress; batch: three rows, all of them or two at a time; document: takes of up to three segments beside a neighbour's | the properties above of the five parts, and their types |

Bounds: two mishaps for the scan, the gate and the document (a move of the
index and one of the disk, or a fault on top of a move), three for the
relocation (a death, an interference and a second death), one for the loops.
Pages of two make a boundary fall inside the take.  Deadlock is not checked:
every part ends.  No fairness is assumed: there is no liveness property here.

All of the run's properties are proved as well; `PartsTyped` is the type invariant,
from the five invariants together.

## What the models found

| where | what |
|---|---|
| `scan/coordinator.py:1006` | with two paths of one directory, a pooled walk does not print what a sequential one prints |
| `models/clip.py:3608` | the shape is read before the jobs are listed: a component that lands in between is imported twice |
| `models/clip.py:1802` | a shape promoted between the two shape queries is taken for none: a second placeholder is created |
| `migrate_wrapped_items.py:411` | plan tests the phase, reads for seconds, and writes whatever the phase is by then |

Met on the way, and too small for a run of their own: the excuses listed with
FolderScan and ClipRow; the OPEN entity and the repeated first rows of the
relocation; the wrapped file that Portal archives between the question for its
state and its deletion (executor.py:361, :364), which goes although "any other
state keeps the file"; and a docstring of `unclaimed_hits_doubt`
(extraction.py:573) by which a stray file that every provider declines is no
cause for doubt: the scan books "No UMID" for it, which is an error, and in a
folder without clips it is.

## Reading the modules

The definitions named after a fault (`PushAnyway`, `SkipWaiting`, `PostAgain`,
...) are broken variants of the definition that follows them.  No action uses
them; each shows that a property notices such a bug.

Three kinds of statement are out of the prover's reach and stay with TLC:
liveness under fairness, induction over data, and anything that depends on a
recursive operator (there is one, in `MCTreeWalk`).

## Plan

Done: the tree walk, the import of one clip, plan and apply of the migration,
the clip row, the scan of one folder, the gate, the relocation and the loops,
the shape documents.

Left, in this order:

1. The import with two importers inside one item: ComponentImport has one run
   at a time, ClipRow one step per import.
2. The migration's realign, dry run and `stop_before`.
3. dedupe by UMID, replace, file-less clips; the component count.

## Not modelled

The documents and templates of the migration, the parsing of P2 and XDCAM, the
rendering of reports, settings, forms, one-off tools and brawprobe: data and
I/O, in which nothing depends on the order of events.  The provider cache and
the log attribution: one `setdefault` and one lock, which are their own
argument.  Transport, retries of requests and authentication.
