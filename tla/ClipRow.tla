------------------------------ MODULE ClipRow -------------------------------
(***************************************************************************)
(* One row of the Clip table, and everybody who writes it: scans that also *)
(* import (the recurring command), pages (a scan made for a browser, whose *)
(* clips come back later in the body of a POST), and the listener that     *)
(* Portal calls when an item is deleted.  Nobody locks anything: each of   *)
(* them reads the row once, works on its copy for minutes, and writes the  *)
(* copy's columns back.                                                    *)
(*                                                                         *)
(* Items are numbered.  Item 0 is the one an older storage may hold under  *)
(* the same hash; the others are the placeholders the plugin creates, in   *)
(* order.  The import of one item is one step here: it is the subject of   *)
(* ComponentImport.                                                        *)
(***************************************************************************)
EXTENDS Naturals, FiniteSets

CONSTANTS
  Scanners,     \* the processes of scan_tapeless_dir and of POST "__all__"
  Pages,        \* the browsers that show a folder and post some of its clips
  MaxItems,     \* placeholders Vidispine can still create
  MaxMishaps,   \* deaths, refusals, failed transactions and item deletions
  None          \* no item

ASSUME ProcsDiffer == Scanners \cap Pages = {}
ASSUME BoundsAreNat == MaxItems \in Nat /\ MaxMishaps \in Nat
ASSUME NoneIsNobody ==
  None \notin 0 .. MaxItems /\ None \notin Scanners \cup Pages /\ None # "listener"
ASSUME ListenerIsApart == "listener" \notin Scanners \cup Pages

VARIABLES
  route,     \* how the clip's provider imports: by "import" job or "document"
  folder,    \* the Folder row of the clip's folder exists
  row,       \* the Clip row
  life,      \* per item: not created yet, live or deleted
  media,     \* per item: original shapes stated, or imports accepted
  pc,        \* per process: its next block
  mem,       \* per process: its copy of the row
  signal,    \* the listener: the deleted item it handles, and its copy
  stale,     \* who works on a copy that somebody has outdated
  crossed,   \* somebody wrote from a copy that was outdated
  lost,      \* items whose creator died before it wrote their name
  mishaps

vars == <<route, folder, row, life, media, pc, mem, signal, stale, crossed,
          lost, mishaps>>

Procs == Scanners \cup Pages
Created == 1 .. MaxItems
Items == {0} \cup Created
Listener == "listener"

Statuses == {"absent", "not_imported", "placeholder", "posted"}
Row == [item : Items \cup {None}, job : BOOLEAN, status : Statuses]

NoRow == [item |-> None, job |-> FALSE, status |-> "absent"]
NewRow == [NoRow EXCEPT !.status = "not_imported"]

\* A copy also knows whether its item id came from hash recovery, and whether
\* its process found no Folder row.
Copy == [row : Row, recovered : BOOLEAN, newfolder : BOOLEAN]
NoCopy == [row |-> NoRow, recovered |-> FALSE, newfolder |-> FALSE]
Idle == [of |-> None, copy |-> NoRow]

Init ==
  /\ route \in {"import", "document"}
  /\ folder \in BOOLEAN
  /\ row = NoRow
  /\ \E old \in {"unborn", "live"} :
       life = [i \in Items |-> IF i = 0 THEN old ELSE "unborn"]
  /\ media = [i \in Items |-> IF i = 0 THEN 1 ELSE 0]
  /\ pc = [p \in Procs |-> "idle"]
  /\ mem = [p \in Procs |-> NoCopy]
  /\ signal = Idle
  /\ stale = {}
  /\ crossed = FALSE
  /\ lost = {}
  /\ mishaps = 0

-----------------------------------------------------------------------------
(* Who holds a copy, and what a write of the row does to the others. *)

Holders == {p \in Procs : pc[p] # "idle"}
           \cup (IF signal.copy # NoRow THEN {Listener} ELSE {})

\* w acted, on a copy that was outdated if crossing; outdated are now also the
\* copies in others, except w's own.  After a first crossing nobody is counted.
Outdates(w, others, crossing) ==
  /\ crossed' = (crossed \/ crossing)
  /\ stale' = IF crossed' THEN {} ELSE (stale \cup others) \ {w}

\* w writes the row from its copy: a change outdates every other copy.
Touch(w) ==
  Outdates(w, IF row' = row THEN {} ELSE Holders, w \in stale /\ row' # row)

Mishap == mishaps < MaxMishaps /\ mishaps' = mishaps + 1

Go(p, next) == pc' = [pc EXCEPT ![p] = next]

\* p ends; it forgets its copy.
End(p) ==
  /\ Go(p, IF p \in Pages THEN "left" ELSE "idle")
  /\ mem' = [mem EXCEPT ![p] = NoCopy]

-----------------------------------------------------------------------------
(* A scan of the clip's folder. *)

\* The last import left a placeholder and no job (is_incomplete_import).
Incomplete(r) == r.item # None /\ ~r.job /\ r.status = "placeholder"

\* Broken: a clip that has an item is never looked at again.
WillIngestOnce(r) == r.item = None

\* The ladder; the clip has a hash, and replace is off (will_ingest).
WillIngest(r) == r.item = None \/ Incomplete(r)

\* Hash recovery asks for an item only when the copy has none, and only a
\* command names legacy storages (needs_hash_recovery, recover_item_id).
Recoverable(p, r) ==
  IF p \in Scanners /\ r.item = None /\ life[0] = "live" THEN {0} ELSE {}

\* The folder row and the clip row are read; an absent clip is built new.
Read(p) ==
  /\ pc[p] = "idle"
  /\ LET seen == IF row = NoRow THEN NewRow ELSE row
     IN  \E back \in Recoverable(p, seen) \cup {seen.item} :
           mem' = [mem EXCEPT ![p] =
                     [row |-> [seen EXCEPT !.item = back],
                      recovered |-> back # seen.item,
                      newfolder |-> ~folder]]
  /\ Go(p, "write")
  /\ stale' = stale \ {p}
  /\ UNCHANGED <<route, folder, row, life, media, signal, crossed, lost, mishaps>>

\* Broken: a recovered id goes over whatever the row has.
FilledOver(c) == IF c.recovered THEN [row EXCEPT !.item = c.row.item] ELSE row

\* A recovered id goes where there is none.
Filled(c) ==
  IF c.recovered /\ row.item = None THEN [row EXCEPT !.item = c.row.item] ELSE row

\* An absent row is inserted whole; an existing one keeps its ingest columns.
Upserted(c) == IF row = NoRow THEN c.row ELSE Filled(c)

\* The written folder's clips are imported, as far as the ladder asks for it.
Ingests(p) == p \in Scanners /\ WillIngest(mem[p].row)

\* persist_scan_results: one transaction.  A Folder row inserted meanwhile by
\* another scan violates its uniqueness and rolls everything back.
Write(p) ==
  /\ pc[p] = "write"
  /\ ~(mem[p].newfolder /\ folder)
  /\ folder' = TRUE
  /\ row' = Upserted(mem[p])
  /\ CASE p \in Pages -> Go(p, "shown") /\ UNCHANGED mem
       [] Ingests(p) -> Go(p, "create") /\ UNCHANGED mem
       [] p \in Scanners /\ ~Ingests(p) -> End(p)
  /\ crossed' = crossed
  /\ stale' = IF row' = row \/ crossed THEN stale ELSE stale \cup (Holders \ {p})
  /\ UNCHANGED <<route, life, media, signal, lost, mishaps>>

\* The transaction fails: no clip of this folder is imported by this run.
WriteFails(p) ==
  /\ pc[p] = "write"
  /\ \/ mem[p].newfolder /\ folder /\ UNCHANGED mishaps
     \/ Mishap
  /\ End(p)
  /\ UNCHANGED <<route, folder, row, life, media, signal, stale, crossed, lost>>

\* The user posts a clip: its copy is the request's body, read by nobody
\* again, and retry_incomplete stays off.
Post(p) ==
  /\ pc[p] = "shown"
  /\ Go(p, "create")
  /\ UNCHANGED <<route, folder, row, life, media, mem, signal, stale, crossed,
                 lost, mishaps>>

-----------------------------------------------------------------------------
(* Clip.ingest, from the item to the row. *)

Set(p, r) == mem' = [mem EXCEPT ![p].row = r]

\* create_item: the copy names no item, so a placeholder is created.
Create(p) ==
  /\ pc[p] = "create" /\ mem[p].row.item = None
  /\ \E i \in Created :
       /\ life[i] = "unborn"
       /\ \A j \in Created : life[j] = "unborn" => i <= j
       /\ life' = [life EXCEPT ![i] = "live"]
       /\ Set(p, [mem[p].row EXCEPT !.item = i, !.status = "placeholder"])
  /\ Go(p, "record")
  /\ Outdates(None, {}, p \in stale)
  /\ UNCHANGED <<route, folder, row, media, signal, lost, mishaps>>

\* Broken: the item is named by the write-back alone.
RecordNothing(p) ==
  /\ pc[p] = "record"
  /\ Go(p, "gate")
  /\ UNCHANGED <<route, folder, row, life, media, mem, signal, stale, crossed,
                 lost, mishaps>>

\* The placeholder is made durable: item and status in one UPDATE, which
\* matches nothing when there is no row.
Record(p) ==
  /\ pc[p] = "record"
  /\ row' = IF row = NoRow THEN row
            ELSE [row EXCEPT !.item = mem[p].row.item, !.status = "placeholder"]
  /\ Go(p, "gate")
  /\ Touch(p)
  /\ UNCHANGED <<route, folder, life, media, mem, signal, lost, mishaps>>

\* create_item finds the item (a deleted one may still be in Clip.item's
\* cache).  It goes on only to retry an import without a job.
Resume(p) ==
  /\ pc[p] = "create" /\ mem[p].row.item # None
  /\ Go(p, IF p \in Scanners /\ Incomplete(mem[p].row) THEN "gate" ELSE "save")
  /\ UNCHANGED <<route, folder, row, life, media, mem, signal, stale, crossed,
                 lost, mishaps>>

\* An item that Vidispine cannot resolve is refused, whether create_item or a
\* later query meets it; what was raised skips the write-back.
Refuse(p) ==
  /\ pc[p] \in {"create", "gate", "send"}
  /\ mem[p].row.item # None
  /\ life[mem[p].row.item] = "dead"
  /\ End(p)
  /\ UNCHANGED <<route, folder, row, life, media, signal, stale, crossed, lost,
                 mishaps>>

\* Broken: a resumed run posts again.
GateOpen(p) ==
  /\ pc[p] = "gate"
  /\ life[mem[p].row.item] = "live"
  /\ Go(p, "send")
  /\ Set(p, [mem[p].row EXCEPT !.status = "placeholder"])
  /\ UNCHANGED <<route, folder, row, life, media, signal, stale, crossed, lost,
                 mishaps>>

\* The shapes and the jobs are read.  Stated or imported already: the run
\* skips the clip, or takes the running job over.
Gate(p) ==
  /\ pc[p] = "gate"
  /\ LET i == mem[p].row.item
     IN  /\ life[i] = "live"
         /\ IF media[i] > 0
            THEN /\ Go(p, "save")
                 /\ \E job \in {mem[p].row.job, route = "import"} :
                      Set(p, [mem[p].row EXCEPT !.job = job])
            ELSE /\ Go(p, "send")
                 /\ Set(p, [mem[p].row EXCEPT !.status = "placeholder"])
  /\ UNCHANGED <<route, folder, row, life, media, signal, stale, crossed, lost,
                 mishaps>>

\* The import is asked for, or the shape document posted.
Send(p) ==
  /\ pc[p] = "send"
  /\ LET i == mem[p].row.item
     IN  /\ life[i] = "live"
         /\ media' = [media EXCEPT ![i] = @ + 1]
  /\ Set(p, IF route = "import" THEN [mem[p].row EXCEPT !.job = TRUE]
            ELSE [mem[p].row EXCEPT !.status = "posted"])
  /\ Go(p, "save")
  /\ Outdates(p, {q \in Procs : pc[q] = "send" /\ mem[q].row.item = mem[p].row.item},
              p \in stale)
  /\ UNCHANGED <<route, folder, row, life, signal, lost, mishaps>>

\* Vidispine refuses, or answers without a job: the clip failed.
SendFails(p) ==
  /\ pc[p] = "send"
  /\ Mishap
  /\ Go(p, "save")
  /\ UNCHANGED <<route, folder, row, life, media, mem, signal, stale, crossed,
                 lost>>

\* Broken: what the run holds beside the columns reaches the row.
SaveAll(p) ==
  /\ pc[p] = "save"
  /\ row' = [mem[p].row EXCEPT !.job = p]
  /\ End(p)
  /\ Touch(p)
  /\ UNCHANGED <<route, folder, life, media, signal, lost, mishaps>>

\* persist_ingest_state writes every ingest column of the copy, also for a
\* clip that was skipped.
Save(p) ==
  /\ pc[p] = "save"
  /\ row' = mem[p].row
  /\ End(p)
  /\ Touch(p)
  /\ UNCHANGED <<route, folder, life, media, signal, lost, mishaps>>

\* The process is killed, or a call raises; before Record the new item's name
\* goes with it.
Die(p) ==
  /\ pc[p] \notin {"idle", "left", "shown"}
  /\ Mishap
  /\ lost' = IF pc[p] = "record" THEN lost \cup {mem[p].row.item} ELSE lost
  /\ End(p)
  /\ UNCHANGED <<route, folder, row, life, media, signal, stale, crossed>>

-----------------------------------------------------------------------------
(* Deletion. *)

\* An item is deleted, in Portal (which tells the listener) or behind it.
DeleteItem(i) ==
  /\ life[i] = "live" /\ signal = Idle
  /\ Mishap
  /\ life' = [life EXCEPT ![i] = "dead"]
  /\ \E told \in BOOLEAN :
       signal' = IF told THEN [Idle EXCEPT !.of = i] ELSE Idle
  /\ Outdates(None, {p \in Procs : mem[p].row.item = i}, FALSE)
  /\ UNCHANGED <<route, folder, row, media, pc, mem, lost>>

\* ClipResetWithItemDeletion reads the rows that name the item.
ListenerReads ==
  /\ signal # Idle /\ signal.copy = NoRow
  /\ signal' = IF row.item = signal.of THEN [signal EXCEPT !.copy = row] ELSE Idle
  /\ stale' = stale \ {Listener}
  /\ UNCHANGED <<route, folder, row, life, media, pc, mem, crossed, lost, mishaps>>

\* It saves its whole copy, reset.
ListenerSaves ==
  /\ signal.copy # NoRow
  /\ row' = NewRow
  /\ signal' = Idle
  /\ Touch(Listener)
  /\ UNCHANGED <<route, folder, life, media, pc, mem, lost, mishaps>>

-----------------------------------------------------------------------------
Proceed(p) ==
  \/ Write(p) \/ WriteFails(p) \/ Create(p) \/ Record(p)
  \/ Resume(p) \/ Refuse(p) \/ Gate(p) \/ Send(p) \/ SendFails(p) \/ Save(p)

Next ==
  \/ \E p \in Procs : Read(p) \/ Proceed(p) \/ Post(p) \/ Die(p)
  \/ \E i \in Items : DeleteItem(i)
  \/ ListenerReads
  \/ ListenerSaves

Spec == Init /\ [][Next]_vars

\* The command recurs, whoever was started goes on, Portal calls its
\* listeners.  A user need not post.
Fairness ==
  /\ \A p \in Procs : WF_vars(Proceed(p))
  /\ \A p \in Scanners : WF_vars(Read(p))
  /\ WF_vars(ListenerReads \/ ListenerSaves)

FairSpec == Spec /\ Fairness

-----------------------------------------------------------------------------
TypeOK ==
  /\ route \in {"import", "document"} /\ folder \in BOOLEAN
  /\ row \in Row
  /\ life \in [Items -> {"unborn", "live", "dead"}]
  /\ media \in [Items -> Nat]
  /\ pc \in [Procs -> {"idle", "write", "shown", "create", "record", "gate",
                       "send", "save", "left"}]
  /\ mem \in [Procs -> Copy]
  /\ signal \in [of : Items \cup {None}, copy : Row]
  /\ stale \subseteq Procs \cup {Listener}
  /\ crossed \in BOOLEAN
  /\ lost \subseteq Created
  /\ mishaps \in 0 .. MaxMishaps

\* A placeholder the plugin created is never forgotten: it is named by the
\* row, or about to be, unless its creator died before the UPDATE or somebody
\* wrote from an outdated copy.
NoneForgotten ==
  \A i \in Created :
    \/ life[i] # "live" \/ row.item = i \/ i \in lost \/ crossed
    \/ \E p \in Procs : pc[p] = "record" /\ mem[p].row.item = i

\* Media are stated once per item: however often a run dies between the request and
\* the row, the next one finds what it did.
StatedOnce == crossed \/ \A i \in Created : media[i] <= 1

\* A clip is never imported without its row.
ImportsHaveARow ==
  \A p \in Scanners : pc[p] \in {"create", "record", "gate", "send", "save"} => row # NoRow

\* An id that an import recorded is displaced by nobody but a reset or a
\* write from an outdated copy; in particular by no recovered id.
RecordedStays ==
  [][ row.item \in Created /\ life[row.item] = "live" /\ ~crossed'
        => row'.item = row.item ]_vars

\* The clip ends with a live item that has its media; or its row names a
\* deleted one, which every run refuses and only an operator heals; or an
\* outdated copy left the job of another item in it, and no run retries it.
Settled ==
  /\ row.item # None
  /\ life[row.item] = "live"
  /\ media[row.item] > 0
Wedged == row.item # None /\ life[row.item] = "dead"
Jammed == crossed /\ row.job
Settles == <>[](Settled \/ Wedged \/ Jammed)
=============================================================================
