----------------------------- MODULE FolderScan -----------------------------
(***************************************************************************)
(* One pass of Folder._scan_pass over one folder: ask the index what it    *)
(* holds (by from/size pages, or out of an index prefetched by             *)
(* search_after), look every hit up on the disk, fold the segments of a    *)
(* take into its first one, have the providers identify the rest, build    *)
(* the clips, write them, and decide which children the tree walk may      *)
(* descend into.  The index and the disk disagree, and both move while the *)
(* pass runs.                                                              *)
(*                                                                         *)
(* Files are numbers, in the order of their paths.  What the providers     *)
(* declare (names, sub-paths, raw filters) is which files they select.     *)
(***************************************************************************)
EXTENDS Naturals, FiniteSets, FiniteSetsExt

CONSTANTS
  Files,       \* a set of numbers
  Home,        \* [Files -> Here or the child directory that holds the file]
  Here,
  Take,        \* [Files -> the stem before _NNN]
  Number,      \* [Files -> NNN, 0 for a name without one]
  Umids,       \* the ways the files may share identities: [Files -> umid]
  NoUmid,      \* the identity of a file that no provider can read
  Providers,
  Subpaths,    \* [Providers -> the children its sub-paths lead into]
  Names,       \* [Providers -> the files its extensions fit]
  Unguarded,   \* the providers offered every file whatever its extension
  Grouped,     \* [Providers -> the files whose suffix it groups in segments]
  Raw,         \* [Providers -> the files its raw filters select]
  Reads,       \* [Providers -> the files it contributes metadata to]
  PageSize,
  Known,       \* the identities that an earlier scan may have met elsewhere
  Missing,     \* how many files the index, the disk or both lack at first
  MaxMishaps   \* moves of the index or the disk, and faults

VARIABLES
  request,   \* which discovery serves what part of the folder
  umid,      \* the identities of the files
  known,     \* the clips whose row an earlier scan wrote, for another place
  rows,      \* the index
  disk,
  indexed,   \* the files the index has held since the pass began
  stayed,    \* the files that have been on the disk since
  moved,     \* the index moved while it was being paged
  lossy,     \* an answer lacked a hit
  pc,
  cursor,    \* from, or search_after
  fetched,   \* the hits of the prefetched index
  hits,      \* the hits of this page not looked at yet
  seen,      \* how many hits the pages had
  total,     \* how many the index reports
  more,      \* the page was full
  listed,    \* per directory: its names when first listed
  verified,  \* the hits found on the disk
  records,   \* the files of this page that were identified
  matched,   \* the providers that identified something
  clips,     \* the files whose clip was built
  kept,      \* per clip: the file that made it, 0 for an old row, and the last
  extras,    \* the segments left to their anchor
  orphans,   \* the segments without one
  wrong,     \* the files with an error of their own
  unmade,    \* the directories whose extras are reported to have no clip
  errors,    \* the other errors
  descent,   \* the walk may go on below this folder
  consumed,  \* and these are the children it shall not enter
  mishaps

asked == <<request, umid, known>>
index == <<rows, indexed, moved>>
store == <<disk, stayed>>
paging == <<cursor, fetched, seen, total, more, lossy>>
work == <<listed, verified, records, matched, extras, orphans>>
built == <<clips, kept>>
verdict == <<unmade, errors, descent, consumed>>
vars == <<asked, index, store, paging, hits, pc, work, built, wrong, verdict, mishaps>>

Homes == {Home[f] : f \in Files}
Listing == [state : {"unlisted", "read", "failed"}, names : SUBSET Files]

\* legacy or index; a paged request starts at first, the others want the
\* whole folder; count builds no clip.
Requests ==
  [discovery : {"legacy", "index"}, ask : {"all", "count"}, first : {0}]
  \cup [discovery : {"legacy", "index"}, ask : {"page"}, first : {0, PageSize}]

\* Only a pass over the whole folder can say what was consumed.
MayBeComplete == request.ask = "all"

Init ==
  /\ request \in Requests
  /\ umid \in Umids
  /\ known \in SUBSET Known
  /\ rows \in SUBSET Files /\ disk \in SUBSET Files
  /\ Cardinality(Files \ (rows \cap disk)) <= Missing
  /\ indexed = rows /\ stayed = disk
  /\ moved = FALSE /\ lossy = FALSE
  /\ pc = "start"
  /\ cursor = request.first
  /\ fetched = {} /\ hits = {} /\ seen = 0 /\ total = 0 /\ more = FALSE
  /\ listed = [d \in Homes |-> [state |-> "unlisted", names |-> {}]]
  /\ verified = {} /\ records = {} /\ matched = {} /\ clips = {}
  /\ kept = [u \in {umid[f] : f \in Files} |-> [first |-> 0, last |-> 0]]
  /\ extras = {} /\ orphans = {} /\ wrong = {}
  /\ unmade = {} /\ errors = {} /\ descent = FALSE /\ consumed = {}
  /\ mishaps = 0

Mishap == mishaps < MaxMishaps /\ mishaps' = mishaps + 1
Rank(f, S) == Cardinality({g \in S : g < f})
FirstOf(S) == {f \in S : Rank(f, S) < PageSize}

-----------------------------------------------------------------------------
(* What the folder's query selects. *)

\* In the folder itself, or where some provider's sub-path leads.
InReach(f) == Home[f] \in {Here} \cup UNION {Subpaths[p] : p \in Providers}

\* Named as some provider's extensions want it.
Fits(f) == \E p \in Providers : f \in Names[p]

\* By a provider's own filter, wherever the file lies.
RawSelected(f) == \E p \in Providers : f \in Raw[p]

Selected(S) == {f \in S : (InReach(f) /\ Fits(f)) \/ RawSelected(f)}

\* The pass raises; the walk is told that the folder failed.
Raise(reason) ==
  /\ pc' = "done"
  /\ errors' = errors \cup {reason}
  /\ UNCHANGED <<unmade, descent, consumed>>

\* The index has no pages to offer: it answers for a folder at once.
RefusePage ==
  /\ pc = "start"
  /\ request.discovery = "index" /\ request.ask = "page"
  /\ Raise("refused")
  /\ UNCHANGED <<asked, index, store, paging, hits, work, built, wrong, mishaps>>

\* The storage has no root to join the path to.
NoRoot ==
  /\ pc = "start"
  /\ Mishap
  /\ Raise("no root")
  /\ UNCHANGED <<asked, index, store, paging, hits, work, built, wrong>>

Begin ==
  /\ pc = "start"
  /\ request.discovery = "legacy" \/ request.ask # "page"
  /\ pc' = IF request.discovery = "index" THEN "prefetch" ELSE "fetch"
  /\ UNCHANGED <<asked, index, store, paging, hits, work, built, wrong, verdict, mishaps>>

-----------------------------------------------------------------------------
(* Discovery. *)

\* All of them, or all but one.
Most(whole, part) ==
  \/ part = whole /\ UNCHANGED mishaps
  \/ Mishap /\ Cardinality(part) + 1 = Cardinality(whole)

\* An answer may lack a hit.
Delivered(page, got) == Most(page, got) /\ lossy' = (lossy \/ got # page)

\* The hits behind the last one, in the order of their paths.
NextPage == FirstOf({f \in rows : f > cursor})

\* Broken: the cursor is that of the first page for ever.
CursorOfFirst(page) == IF cursor = 0 THEN Max(page) ELSE cursor

CursorAfter(page) == Max(page)

\* A hit may be missing from the answer, or have no parent to be filed under:
\* then it still fills its page.
Filling(page, got, filed) == Cardinality(IF filed THEN got ELSE page)

\* Fewer hits than the index said it has.
Short(held, reported) == Cardinality(held) < reported

\* One search_after page; the total is that of the first.  A page that is not
\* full ends the stream, which must not be short.
Prefetch ==
  /\ pc = "prefetch"
  /\ \E got \in SUBSET NextPage, filed \in BOOLEAN :
       /\ Delivered(NextPage, got)
       /\ fetched' = fetched \cup got
       /\ total' = IF cursor = 0 THEN Cardinality(rows) ELSE total
       /\ IF Filling(NextPage, got, filed) = PageSize
          THEN cursor' = CursorAfter(NextPage) /\ UNCHANGED <<pc, verdict>>
          ELSE /\ UNCHANGED cursor
               /\ IF Short(fetched', total')
                  THEN Raise("short index")
                  ELSE pc' = "fetch" /\ UNCHANGED verdict
  /\ UNCHANGED <<asked, index, store, seen, more, hits, work, built, wrong>>

Counting == request.ask = "count"

\* A page of the query, by from and size.  The loop goes on while pages are
\* full; each answer brings its own total.
FetchPage ==
  /\ pc = "fetch" /\ request.discovery = "legacy"
  /\ LET all == Selected(rows)
         page == FirstOf({f \in all : Rank(f, all) >= cursor})
     IN  \E got \in SUBSET page :
           /\ Delivered(page, got)
           /\ hits' = IF Counting THEN {} ELSE got
           /\ total' = Cardinality(all)
           /\ seen' = seen + Cardinality(got)
           /\ more' = (request.ask # "page" /\ Cardinality(got) = PageSize)
           /\ cursor' = cursor + PageSize
  /\ pc' = "read"
  /\ UNCHANGED <<asked, index, store, fetched, work, built, wrong, verdict>>

\* The folder's share of the prefetched index (hits_for).
FetchBucket ==
  /\ pc = "fetch" /\ request.discovery = "index"
  /\ hits' = IF Counting THEN {} ELSE Selected(fetched)
  /\ total' = Cardinality(Selected(fetched))
  /\ seen' = Cardinality(Selected(fetched))
  /\ pc' = "read"
  /\ UNCHANGED <<asked, index, store, cursor, fetched, more, lossy, work, built,
                 wrong, verdict, mishaps>>

QueryFails ==
  /\ pc \in {"prefetch", "fetch"}
  /\ Mishap
  /\ Raise("query")
  /\ UNCHANGED <<asked, index, store, paging, hits, work, built, wrong>>

-----------------------------------------------------------------------------
(* One hit: is it there, is it a segment, what is it. *)

Offered(f) == {p \in Providers : f \in Names[p] \/ p \in Unguarded}

\* A provider groups only the names it is offered.
Grouping(f) == \E p \in Offered(f) : f \in Grouped[p]

Siblings(f, names) == {g \in names : Take[g] = Take[f] /\ Number[g] > 0} \ {f}

\* Broken: the anchor is sought among the files discovery returned.
RoleByIndex(f, names) ==
  IF ~Grouping(f) \/ Number[f] <= 1 THEN "clip"
  ELSE LET near == Siblings(f, verified \cup hits)
       IN  CASE near = {} -> "clip"
             [] \E g \in near : Number[g] = 1 -> "extra"
             [] OTHER -> "orphan"

\* An anchor and a file without increment become clips; a segment is left to
\* its anchor, is an orphan when there are only others like it, and stands
\* alone when there is nothing beside it.
Role(f, names) ==
  IF ~Grouping(f) \/ Number[f] <= 1 THEN "clip"
  ELSE LET near == Siblings(f, names)
       IN  CASE near = {} -> "clip"
             [] \E g \in near : Number[g] = 1 -> "extra"
             [] OTHER -> "orphan"

\* The directory is listed once per pass, when first needed; one that cannot
\* be listed has no names.
List(d) ==
  \/ /\ listed[d].state # "unlisted"
     /\ UNCHANGED <<listed, mishaps>>
  \/ /\ listed[d].state = "unlisted"
     /\ listed' = [listed EXCEPT ![d] =
                     [state |-> "read", names |-> {g \in disk : Home[g] = d}]]
     /\ UNCHANGED mishaps
  \/ /\ listed[d].state = "unlisted"
     /\ Mishap
     /\ listed' = [listed EXCEPT ![d] = [state |-> "failed", names |-> {}]]

\* A name the listing lacks is looked for once more.
Exists(f) == f \in listed'[Home[f]].names \cup disk

\* Identification fails for a file nobody can read or that has gone.
Identified(f) == umid[f] # NoUmid /\ f \in disk

Read(f) ==
  /\ pc = "read" /\ hits # {} /\ f = Min(hits)
  /\ hits' = hits \ {f}
  /\ List(Home[f])
  /\ verified' = IF Exists(f) THEN verified \cup {f} ELSE verified
  /\ LET role == IF Exists(f) THEN Role(f, listed'[Home[f]].names) ELSE "ghost"
         known_as == role = "clip" /\ Identified(f)
     IN  /\ extras' = IF role = "extra" THEN extras \cup {f} ELSE extras
         /\ orphans' = IF role = "orphan" THEN orphans \cup {f} ELSE orphans
         /\ records' = IF known_as THEN records \cup {f} ELSE records
         /\ wrong' = IF role = "ghost" \/ (role = "clip" /\ ~known_as)
                     THEN wrong \cup {f} ELSE wrong
  /\ UNCHANGED <<asked, index, store, paging, pc, matched, built, verdict>>

\* A provider breaks on a file that the disk holds.
ReadBreaks(f) ==
  /\ pc = "read" /\ hits # {} /\ f = Min(hits)
  /\ listed[Home[f]].state # "unlisted"
  /\ f \in disk /\ Role(f, listed[Home[f]].names) = "clip"
  /\ Mishap
  /\ hits' = hits \ {f}
  /\ verified' = verified \cup {f}
  /\ wrong' = wrong \cup {f}
  /\ UNCHANGED <<asked, index, store, paging, pc, listed, records, matched,
                 extras, orphans, built, verdict>>

\* The page is read: its clips are built, one of them perhaps not.  A clip of
\* several files is given each of them in turn and keeps the last.
Assemble ==
  /\ pc = "read" /\ hits = {}
  /\ \E good \in SUBSET records :
       /\ Most(records, good)
       /\ LET of(u) == {f \in good : umid[f] = u}
              born(u) == clips \cap {f \in Files : umid[f] = u} = {} /\ u \notin known
          IN  kept' = [u \in DOMAIN kept |->
                        IF of(u) = {} THEN kept[u]
                        ELSE [first |-> IF born(u) THEN Min(of(u)) ELSE kept[u].first,
                              last |-> Max(of(u))]]
       /\ clips' = clips \cup good
       /\ wrong' = wrong \cup (records \ good)
       /\ matched' = matched \cup
                     {p \in Providers : \E f \in good : p \in Offered(f) /\ f \in Reads[p]}
  /\ records' = {}
  /\ pc' = IF more THEN "fetch" ELSE "conclude"
  /\ UNCHANGED <<asked, index, store, paging, hits, listed, verified, extras,
                 orphans, verdict>>

-----------------------------------------------------------------------------
(* The verdict. *)

\* The places on the rows of this pass's clips, old rows apart.
ClipHomes == {Home[kept[umid[f]].first] : f \in {g \in clips : kept[umid[g]].first # 0}}

\* The children that hold a file of a clip, as far as the clips remember, and
\* those the sub-paths of the matched providers lead into.
Children ==
  (ClipHomes \cup {Home[kept[umid[f]].last] : f \in clips}
             \cup UNION {Subpaths[p] : p \in matched}) \ {Here}

\* Broken: an extra is left to its anchor, found or not.
UnmadeNever == {}

\* Extras in a directory that no clip of this pass claims.
Unmade ==
  IF MayBeComplete THEN {Home[f] : f \in extras} \ ClipHomes ELSE {}

Reports ==
  (IF orphans # {} THEN {"orphans"} ELSE {})
  \cup (IF \E d \in Homes : listed[d].state = "failed" THEN {"listing"} ELSE {})

\* Files were there, none became a clip, and something went wrong.
Doubt ==
  /\ verified # {} /\ clips = {}
  /\ wrong # {} \/ Unmade # {} \/ Reports # {}

\* Broken: a loop that ended is taken for a folder that was seen.
WholeByExit == ~more

Whole == seen >= total

\* The rows are not written: nothing that was found may be used.
NotWritten ==
  /\ pc = "conclude"
  /\ Mishap
  /\ pc' = "done"
  /\ unmade' = Unmade
  /\ errors' = errors \cup Reports \cup {"persist"}
  /\ clips' = {}
  /\ UNCHANGED <<asked, index, store, paging, hits, work, kept, wrong, descent,
                 consumed>>

\* The whole folder was seen and there is no doubt: the walk goes below, but
\* not into what the clips consumed.
Authorize ==
  /\ pc = "conclude"
  /\ MayBeComplete /\ Whole /\ ~Doubt
  /\ pc' = "done"
  /\ unmade' = Unmade
  /\ errors' = errors \cup Reports
  /\ descent' = TRUE
  /\ consumed' = Children
  /\ UNCHANGED <<asked, index, store, paging, hits, work, built, wrong, mishaps>>

\* In doubt the walk stays out of everything below; only a pass that could
\* have known says so.
Withhold ==
  /\ pc = "conclude"
  /\ ~MayBeComplete \/ ~Whole \/ Doubt
  /\ pc' = "done"
  /\ unmade' = Unmade
  /\ errors' = errors \cup Reports
               \cup (IF MayBeComplete THEN {IF Whole THEN "doubt" ELSE "short"} ELSE {})
  /\ UNCHANGED <<asked, index, store, paging, hits, work, built, wrong, descent,
                 consumed, mishaps>>

-----------------------------------------------------------------------------
(* Meanwhile. *)

\* The index learns of a file or forgets one.
IndexMoves(f) ==
  /\ pc \notin {"start", "done"}
  /\ Mishap
  /\ rows' = IF f \in rows THEN rows \ {f} ELSE rows \cup {f}
  /\ indexed' = indexed \ {f}
  /\ moved' = (moved \/ more \/ pc = "prefetch")
  /\ UNCHANGED <<asked, store, paging, hits, pc, work, built, wrong, verdict>>

\* A file comes or goes.
DiskMoves(f) ==
  /\ pc \notin {"start", "done"}
  /\ Mishap
  /\ disk' = IF f \in disk THEN disk \ {f} ELSE disk \cup {f}
  /\ stayed' = stayed \ {f}
  /\ UNCHANGED <<asked, index, paging, hits, pc, work, built, wrong, verdict>>

Next ==
  \/ RefusePage \/ NoRoot \/ Begin
  \/ Prefetch \/ FetchPage \/ FetchBucket \/ QueryFails
  \/ \E f \in Files : Read(f) \/ ReadBreaks(f)
  \/ Assemble
  \/ NotWritten \/ Authorize \/ Withhold
  \/ \E f \in Files : IndexMoves(f) \/ DiskMoves(f)

Spec == Init /\ [][Next]_vars

-----------------------------------------------------------------------------
TypeOK ==
  /\ request \in Requests
  /\ rows \cup disk \cup indexed \cup stayed \subseteq Files
  /\ pc \in {"start", "prefetch", "fetch", "read", "conclude", "done"}
  /\ fetched \cup hits \cup verified \cup records \cup clips \subseteq Files
  /\ listed \in [Homes -> Listing]
  /\ matched \subseteq Providers
  /\ extras \cup orphans \cup wrong \subseteq Files
  /\ unmade \subseteq Homes
  /\ consumed \subseteq Homes \cup UNION {Subpaths[p] : p \in Providers}
  /\ {descent, moved, lossy, more} \subseteq BOOLEAN
  /\ mishaps \in 0 .. MaxMishaps

\* What index and disk held from the beginning to the end of the pass.
Steady == indexed \cap stayed \cap Selected(Files)

\* Paging by from and size over an index that moves may skip a hit and still
\* count enough of them; a prefetch does so only when an answer lacked a hit
\* and another file made up the number.
Skipped == moved /\ (lossy \/ request.discovery = "legacy")

\* A clip remembers the file that made its row and the last it was given
\* (_clip_directories): one in between is forgotten, and so is the first when
\* the row is an earlier scan's.
Overwritten(f) ==
  \E g \in clips :
    /\ g > f /\ umid[g] = umid[f]
    /\ \/ umid[f] \in known
       \/ \E e \in clips : e < f /\ umid[e] = umid[f]

\* The walk is never sent into a child that this folder's clips are made of:
\* every file that could be seen lies outside, in a consumed child, or is
\* reported beside clips that were made.
DescentSound ==
  descent /\ ~Skipped =>
    \A f \in Steady :
      \/ Home[f] \in consumed \cup {Here}
      \/ clips # {} /\ f \in wrong \cup extras \cup orphans
      \/ Overwritten(f)

Anchor(f) ==
  {g \in Files : Home[g] = Home[f] /\ Take[g] = Take[f] /\ Number[g] = 1}

\* The anchor was no hit, and another clip of its directory keeps the extra
\* from being reported.
Sheltered(f) == Anchor(f) \cap Steady = {} /\ Home[f] \in ClipHomes

\* No medium disappears without a word: a pass over the whole folder that was
\* not refused makes a clip of a file, leaves it to its anchor's clip, or
\* reports it.
NothingSilent ==
  pc = "done" /\ MayBeComplete /\ ~Skipped
    /\ errors \cap {"refused", "no root", "short index", "query", "persist", "short"} = {} =>
    \A f \in Steady :
      \/ f \in clips \cup wrong
      \/ f \in orphans /\ "orphans" \in errors
      \/ f \in extras /\ \/ Anchor(f) \cap (clips \cup wrong) # {}
                         \/ Home[f] \in unmade
                         \/ Sheltered(f)

\* A segment whose anchor lay on the disk all the time never becomes a clip of
\* its own, unless its directory could not be listed, which is reported.
SegmentsTogether ==
  \A f \in clips :
    \/ ~Grouping(f) \/ Number[f] <= 1
    \/ Anchor(f) \cap stayed = {}
    \/ listed[Home[f]].state = "failed"

\* What is still ahead of the paging: files of the prefetch, ranks of the query.
Ahead ==
  IF request.discovery = "index" THEN {f \in Files : f > cursor}
  ELSE {n \in 1 .. Cardinality(Files) : n > cursor}

\* A page that is not the last leads back to the next one.
Phase ==
  CASE pc = "start" -> 6
    [] pc = "prefetch" -> 5
    [] pc = "read" /\ more -> 4
    [] pc = "fetch" -> 3
    [] pc = "read" /\ ~more -> 2
    [] pc = "conclude" -> 1
    [] OTHER -> 0

\* A step of the pass leaves less: of the mishaps that may still come, else of
\* the pages, else of the phases, else of the hits on this page.
Nearer ==
  \/ mishaps' > mishaps
  \/ /\ mishaps' = mishaps
     /\ \/ Ahead' \subseteq Ahead /\ Ahead' # Ahead
        \/ Ahead' = Ahead /\ Phase' < Phase
        \/ Ahead' = Ahead /\ Phase' = Phase /\ hits' \subseteq hits /\ hits' # hits
=============================================================================
