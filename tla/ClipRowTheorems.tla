-------------------------- MODULE ClipRowTheorems --------------------------
(***************************************************************************)
(* Proofs about ClipRow: whoever works on a copy that nobody has outdated  *)
(* neither forgets a placeholder, nor states media twice, nor displaces an *)
(* id that an import recorded.                                             *)
(***************************************************************************)
EXTENDS ClipRow, TLAPS

-----------------------------------------------------------------------------
(* The inductive invariant. *)

Busy(p) == pc[p] \notin {"idle", "left"}

\* A row that exists has a status, and so has every copy.
StatusKept ==
  /\ row.status = "absent" => row = NoRow
  /\ \A p \in Procs : Busy(p) => mem[p].row.status # "absent"

\* Past its write, a process knows that the row exists.
RowWritten == \A p \in Procs : Busy(p) /\ pc[p] # "write" => row # NoRow

\* The import names its item before it asks for anything.
ItemNamed ==
  /\ \A p \in Procs : pc[p] = "record" => mem[p].row.item \in Created
  /\ \A p \in Procs : pc[p] \in {"gate", "send", "save"} => mem[p].row.item # None

\* The listener handles an item that is gone.
ListenerTold ==
  /\ signal.of \in Items => life[signal.of] = "dead"
  /\ signal.copy # NoRow => signal.of \in Items /\ signal.copy.item = signal.of

\* What the copy of p has in common with the row.
InSync(p) ==
  /\ pc[p] = "write" =>
       \/ row = NoRow
       \/ mem[p].row = row
       \/ /\ row.item = None /\ mem[p].recovered
          /\ mem[p].row = [row EXCEPT !.item = mem[p].row.item]
  /\ pc[p] \in {"shown", "create"} => mem[p].row = row
  /\ pc[p] = "record" => row.item = None
  /\ pc[p] \in {"gate", "send", "save"} => mem[p].row.item = row.item
  /\ pc[p] = "send" => media[mem[p].row.item] = 0

\* Nobody else has changed what a process that is not stale holds.
CopiesHold ==
  ~crossed =>
    /\ \A p \in Procs : p \notin stale => InSync(p)
    /\ Listener \notin stale /\ signal.copy # NoRow => signal.copy = row

Kept ==
  /\ TypeOK
  /\ StatusKept /\ RowWritten /\ ItemNamed /\ ListenerTold
  /\ CopiesHold
  /\ NoneForgotten /\ StatedOnce

-----------------------------------------------------------------------------
(* Facts about the constants. *)

\* Items, processes and the listener are told apart.
LEMMA Apart ==
  /\ None \notin Items /\ Created \subseteq Items /\ 0 \notin Created
  /\ None \notin Procs /\ None # Listener /\ Listener \notin Procs
  BY NoneIsNobody, ListenerIsApart, BoundsAreNat DEF Items, Created, Procs, Listener

\* Mishaps stay within their bound.
LEMMA MishapTyped == TypeOK /\ Mishap => mishaps' \in 0 .. MaxMishaps
  BY BoundsAreNat DEF TypeOK, Mishap

\* The copy of a process that holds none.
LEMMA NoCopyTyped == NoCopy \in Copy
  BY DEF NoCopy, NoRow, Copy, Row, Statuses

\* A process that ends leaves everything well typed.
LEMMA EndTyped ==
  ASSUME TypeOK, NEW p \in Procs, End(p)
  PROVE  /\ pc' \in [Procs -> {"idle", "write", "shown", "create", "record", "gate",
                               "send", "save", "left"}]
         /\ mem' \in [Procs -> Copy]
  BY NoCopyTyped DEF TypeOK, End, Go

\* The first state.
LEMMA Begins == Init => Kept
<1> SUFFICES ASSUME Init PROVE Kept
  OBVIOUS
<1>1. NoRow \in Row /\ NoCopy \in Copy /\ NoRow.status = "absent"
  BY DEF NoRow, NoCopy, Row, Copy, Statuses
<1>2. Idle \in [of : Items \cup {None}, copy : Row]
  BY <1>1 DEF Idle
<1>3. life \in [Items -> {"unborn", "live", "dead"}] /\ media \in [Items -> Nat]
  BY DEF Init
<1>4. mishaps \in 0 .. MaxMishaps
  BY BoundsAreNat DEF Init
<1>5. TypeOK
  BY <1>1, <1>2, <1>3, <1>4 DEF Init, TypeOK
<1>6. NoneForgotten
  <2>1. \A i \in Created : life[i] = "unborn"
    BY Apart DEF Init
  <2> QED
    BY <2>1 DEF NoneForgotten
<1>7. StatedOnce
  BY Apart DEF Init, StatedOnce
<1> QED
  BY <1>1, <1>5, <1>6, <1>7, Apart DEF Init, Kept, StatusKept, RowWritten, ItemNamed,
     ListenerTold, CopiesHold, InSync, Busy, Idle

\* A process takes a fresh copy: what differs is the id it recovered.
LEMMA ReadKeeps ==
  ASSUME Kept, NEW p \in Procs, Read(p)
  PROVE  Kept'
<1> DEFINE read == IF row = NoRow THEN NewRow ELSE row
           kept(back) == [row |-> [read EXCEPT !.item = back],
                          recovered |-> back # read.item, newfolder |-> ~folder]
<1>a. PICK back \in Recoverable(p, read) \cup {read.item} :
        mem' = [mem EXCEPT ![p] = kept(back)]
  BY DEF Read
<1>b. read \in Row /\ read.status # "absent" /\ back \in Items \cup {None}
  <2>1. NewRow \in Row /\ NewRow.status # "absent"
    BY DEF NewRow, NoRow, Row, Statuses
  <2>2. read \in Row /\ read.status # "absent"
    BY <2>1 DEF Kept, TypeOK, StatusKept
  <2>3. read.item \in Items \cup {None}
    BY <2>2 DEF Row
  <2>4. Recoverable(p, read) \subseteq Items
    BY DEF Recoverable, Items
  <2> QED
    BY <1>a, <2>2, <2>3, <2>4
<1>c. kept(back) \in Copy /\ kept(back).row.status # "absent"
  BY <1>b DEF Kept, TypeOK, Copy, Row
<1>d. mem' \in [Procs -> Copy] /\ mem'[p] = kept(back)
  BY <1>a, <1>c DEF Kept, TypeOK
<1>e. \/ row = NoRow
      \/ mem'[p].row = row
      \/ /\ row.item = None /\ mem'[p].recovered
         /\ mem'[p].row = [row EXCEPT !.item = mem'[p].row.item]
  <2>1. CASE back = read.item
    <3>1. [read EXCEPT !.item = back] = read
      BY <1>b, <2>1 DEF Row
    <3> QED
      BY <1>d, <3>1
  <2>2. CASE back # read.item
    <3>1. read.item = None
      BY <1>a, <2>2 DEF Recoverable
    <3>a. mem'[p].recovered = (back # read.item)
      BY <1>d
    <3>b. mem'[p].row = [read EXCEPT !.item = back]
      BY <1>d
    <3>2. mem'[p].recovered /\ mem'[p].row = [read EXCEPT !.item = back]
      BY <2>2, <3>a, <3>b
    <3>3. mem'[p].row.item = back
      BY <1>b, <3>2
    <3>4. row # NoRow => read = row
      OBVIOUS
    <3> HIDE DEF read
    <3> QED
      BY <3>1, <3>2, <3>3, <3>4
  <2> QED
    BY <2>1, <2>2
<1>1. TypeOK'
  BY <1>d DEF Kept, TypeOK, Read, Go
<1>2. StatusKept'
  BY DEF Kept, TypeOK, StatusKept, Read, NewRow, Busy, Go
<1>3. RowWritten'
  BY DEF Kept, TypeOK, RowWritten, Read, Busy, Go
<1>4. ItemNamed'
  BY DEF Kept, TypeOK, ItemNamed, Read, Go
<1>5. ListenerTold'
  BY DEF Kept, TypeOK, ListenerTold, Read
<1>6. CopiesHold'
  <2> SUFFICES ASSUME ~crossed' PROVE CopiesHold'
    BY DEF CopiesHold
  <2>1. InSync(p)'
    BY <1>e DEF Kept, TypeOK, Read, Go, InSync
  <2>2. ASSUME NEW q \in Procs, q # p, q \notin stale' PROVE InSync(q)'
    BY <1>a, <2>2 DEF Kept, TypeOK, CopiesHold, Read, Go, InSync
  <2> QED
    BY <2>1, <2>2, Apart DEF Kept, CopiesHold, Read
<1>7. NoneForgotten'
  BY DEF Kept, TypeOK, NoneForgotten, Read, Go
<1>8. StatedOnce'
  BY DEF Kept, TypeOK, StatedOnce, Read
<1> QED
  BY <1>1, <1>2, <1>3, <1>4, <1>5, <1>6, <1>7, <1>8 DEF Kept

\* The transaction leaves p with the row as its copy, unless p was outdated.
LEMMA WriteKeeps ==
  ASSUME Kept, NEW p \in Procs, Write(p)
  PROVE  Kept'
<1>a. p \in Pages \/ p \in Scanners
  BY DEF Procs
<1>b. PICK at \in {"shown", "create", "idle", "left"} :
        /\ pc' = [pc EXCEPT ![p] = at]
        /\ IF at \in {"shown", "create"} THEN UNCHANGED mem
           ELSE mem' = [mem EXCEPT ![p] = NoCopy]
  BY <1>a DEF Write, End, Go
<1>c. row' \in Row /\ row'.status # "absent" /\ row' # NoRow
  BY DEF Kept, TypeOK, StatusKept, Busy, Write, Upserted, Filled, Row, Copy, NoRow
<1>d. mem' \in [Procs -> Copy]
  <2>1. CASE at \in {"shown", "create"}
    BY <1>b, <2>1 DEF Kept, TypeOK
  <2>2. CASE at \notin {"shown", "create"}
    BY <1>b, <2>2, NoCopyTyped DEF Kept, TypeOK
  <2> QED
    BY <2>1, <2>2
<1>e. row.item # None => row'.item = row.item
  BY DEF Kept, TypeOK, Write, Upserted, Filled, NoRow
<1>f. ASSUME ~crossed, p \notin stale PROVE mem[p].row = row'
  <2> DEFINE c == mem[p]
  <2>0. c.row \in Row /\ row \in Row
    BY DEF Kept, TypeOK, Copy
  <2>1. \/ row = NoRow
        \/ c.row = row
        \/ row.item = None /\ c.recovered /\ c.row = [row EXCEPT !.item = c.row.item]
    BY <1>f DEF Kept, CopiesHold, InSync, Write
  <2>2. row' = IF row = NoRow THEN c.row
               ELSE IF c.recovered /\ row.item = None
                    THEN [row EXCEPT !.item = c.row.item] ELSE row
    BY DEF Write, Upserted, Filled
  <2>3. CASE row = NoRow
    BY <2>2, <2>3
  <2>4. CASE row # NoRow /\ c.row = row
    BY <2>0, <2>2, <2>4 DEF Row
  <2>5. CASE /\ row # NoRow /\ row.item = None /\ c.recovered
             /\ c.row = [row EXCEPT !.item = c.row.item]
    BY <2>2, <2>5
  <2> QED
    BY <2>1, <2>3, <2>4, <2>5
<1>1. TypeOK'
  BY <1>b, <1>c, <1>d DEF Kept, TypeOK, Write, Holders
<1>2. StatusKept'
  BY <1>b, <1>c DEF Kept, TypeOK, StatusKept, Write, Busy
<1>3. RowWritten'
  BY <1>c DEF RowWritten
<1>4. ItemNamed'
  BY <1>b DEF Kept, TypeOK, ItemNamed
<1>5. ListenerTold'
  BY DEF Kept, TypeOK, ListenerTold, Write
<1>6. CopiesHold'
  <2> SUFFICES ASSUME ~crossed' PROVE CopiesHold'
    BY DEF CopiesHold
  <2>1. ASSUME p \notin stale' PROVE InSync(p)'
    BY <1>b, <1>f, <2>1 DEF Kept, TypeOK, InSync, Write
  <2>2. ASSUME NEW q \in Procs, q # p, q \notin stale' PROVE InSync(q)'
    <3>1. CASE row' = row
      BY <1>b, <2>2, <3>1 DEF Kept, TypeOK, CopiesHold, InSync, Write
    <3>2. CASE row' # row
      BY <1>b, <2>2, <3>2 DEF Kept, TypeOK, InSync, Holders, Write
    <3> QED
      BY <3>1, <3>2
  <2>3. Listener \notin stale' /\ signal'.copy # NoRow => signal'.copy = row'
    BY Apart DEF Kept, CopiesHold, Holders, Write
  <2> QED
    BY <2>1, <2>2, <2>3 DEF CopiesHold
<1>7. NoneForgotten'
  BY <1>b, <1>e, Apart DEF Kept, TypeOK, NoneForgotten, Write
<1>8. StatedOnce'
  BY DEF Kept, TypeOK, StatedOnce, Write
<1> QED
  BY <1>1, <1>2, <1>3, <1>4, <1>5, <1>6, <1>7, <1>8 DEF Kept

\* Nothing is written.
LEMMA WriteFailsKeeps ==
  ASSUME Kept, NEW p \in Procs, WriteFails(p)
  PROVE  Kept'
<1>1. TypeOK'
  BY EndTyped, MishapTyped DEF Kept, TypeOK, WriteFails
<1>2. StatusKept'
  BY DEF Kept, TypeOK, StatusKept, WriteFails, End, Busy, Go
<1>3. RowWritten'
  BY DEF Kept, TypeOK, RowWritten, WriteFails, End, Busy, Go
<1>4. ItemNamed'
  BY DEF Kept, TypeOK, ItemNamed, WriteFails, End, Go
<1>5. ListenerTold'
  BY DEF Kept, TypeOK, ListenerTold, WriteFails
<1>6. CopiesHold'
  BY DEF Kept, TypeOK, CopiesHold, WriteFails, End, InSync, Go
<1>7. NoneForgotten'
  BY DEF Kept, TypeOK, NoneForgotten, WriteFails, End, Go
<1>8. StatedOnce'
  BY DEF Kept, TypeOK, StatedOnce, WriteFails
<1> QED
  BY <1>1, <1>2, <1>3, <1>4, <1>5, <1>6, <1>7, <1>8 DEF Kept

\* The copy of a page is the row it was shown.
LEMMA PostKeeps ==
  ASSUME Kept, NEW p \in Procs, Post(p)
  PROVE  Kept'
<1>1. TypeOK'
  BY DEF Kept, TypeOK, Post, Go
<1>2. StatusKept'
  BY DEF Kept, TypeOK, StatusKept, Post, Busy, Go
<1>3. RowWritten'
  BY DEF Kept, TypeOK, RowWritten, Post, Busy
<1>4. ItemNamed'
  BY DEF Kept, TypeOK, ItemNamed, Post, Go
<1>5. ListenerTold'
  BY DEF Kept, TypeOK, ListenerTold, Post
<1>6. CopiesHold'
  BY DEF Kept, TypeOK, CopiesHold, Post, InSync, Go
<1>7. NoneForgotten'
  BY DEF Kept, TypeOK, NoneForgotten, Post, Go
<1>8. StatedOnce'
  BY DEF Kept, TypeOK, StatedOnce, Post
<1> QED
  BY <1>1, <1>2, <1>3, <1>4, <1>5, <1>6, <1>7, <1>8 DEF Kept

\* A new item is about to be named.
LEMMA CreateKeeps ==
  ASSUME Kept, NEW p \in Procs, Create(p)
  PROVE  Kept'
<1>1. TypeOK'
  <2>1. PICK i \in Created : /\ life' = [life EXCEPT ![i] = "live"]
                             /\ Set(p, [mem[p].row EXCEPT !.item = i, !.status = "placeholder"])
    BY DEF Create
  <2> DEFINE s == [mem[p].row EXCEPT !.item = i, !.status = "placeholder"]
  <2>a. mem[p] \in Copy /\ mem[p].row \in Row
    BY DEF Kept, TypeOK, Copy
  <2>b. s \in Row
    BY <2>a, Apart DEF Row, Statuses
  <2>2. mem' \in [Procs -> Copy]
    BY <2>1, <2>b DEF Kept, TypeOK, Set, Copy
  <2>3. life' \in [Items -> {"unborn", "live", "dead"}]
    BY <2>1 DEF Kept, TypeOK
  <2> QED
    BY <2>2, <2>3 DEF Kept, TypeOK, Create, Go, Outdates
<1>2. StatusKept'
  BY DEF Kept, TypeOK, StatusKept, Create, Set, Busy, Go
<1>3. RowWritten'
  BY DEF Kept, TypeOK, RowWritten, Create, Busy
<1>4. ItemNamed'
  BY DEF Kept, TypeOK, ItemNamed, Create, Set, Go
<1>5. ListenerTold'
  BY DEF Kept, TypeOK, ListenerTold, Create
<1>6. CopiesHold'
  BY Apart DEF Kept, TypeOK, CopiesHold, Create, Set, Outdates, InSync, Go
<1>7. NoneForgotten'
  BY DEF Kept, TypeOK, NoneForgotten, Create, Set, Outdates, Go
<1>8. StatedOnce'
  BY DEF Kept, TypeOK, StatedOnce, Create, Outdates
<1> QED
  BY <1>1, <1>2, <1>3, <1>4, <1>5, <1>6, <1>7, <1>8 DEF Kept

\* The row names the item; every other copy is outdated.
LEMMA RecordKeeps ==
  ASSUME Kept, NEW p \in Procs, Record(p)
  PROVE  Kept'
<1>a. row # NoRow /\ mem[p].row.item \in Created
  BY DEF Kept, RowWritten, ItemNamed, Busy, Record
<1>b. row' = [row EXCEPT !.item = mem[p].row.item, !.status = "placeholder"]
  BY <1>a DEF Record
<1>c. row' \in Row /\ row'.item = mem[p].row.item /\ row'.status = "placeholder"
  BY <1>a, <1>b, Apart DEF Kept, TypeOK, Row, Statuses
<1>d. row' # NoRow
  BY <1>c DEF NoRow
<1>e. ~crossed' /\ row' # row => p \notin stale /\ row.item = None
  BY DEF Kept, CopiesHold, InSync, Record, Touch, Outdates
<1>1. TypeOK'
  BY DEF Kept, TypeOK, Record, Touch, Outdates, Holders, Row, Copy, Statuses, Go
<1>2. StatusKept'
  BY DEF Kept, TypeOK, StatusKept, Record, Busy, Go
<1>3. RowWritten'
  BY <1>d DEF RowWritten
<1>4. ItemNamed'
  BY Apart DEF Kept, TypeOK, ItemNamed, Record, Go
<1>5. ListenerTold'
  BY DEF Kept, TypeOK, ListenerTold, Record
<1>6. CopiesHold'
  <2> SUFFICES ASSUME ~crossed' PROVE CopiesHold'
    BY DEF CopiesHold
  <2>1. InSync(p)'
    BY <1>c DEF Kept, TypeOK, InSync, Record, Go
  <2>2. ASSUME NEW q \in Procs, q # p, q \notin stale' PROVE InSync(q)'
    <3>1. CASE row' = row
      BY <2>2, <3>1 DEF Kept, TypeOK, CopiesHold, InSync, Record, Go, Touch, Outdates
    <3>2. CASE row' # row
      BY <2>2, <3>2 DEF Kept, TypeOK, InSync, Holders, Record, Go, Touch, Outdates
    <3> QED
      BY <3>1, <3>2
  <2>3. Listener \notin stale' /\ signal'.copy # NoRow => signal'.copy = row'
    BY Apart DEF Kept, CopiesHold, Holders, Record, Touch, Outdates
  <2> QED
    BY <2>1, <2>2, <2>3 DEF CopiesHold
<1>7. NoneForgotten'
  <2> SUFFICES ASSUME NEW i \in Created, life[i] = "live", row'.item # i, i \notin lost, ~crossed'
               PROVE  \E q \in Procs : pc'[q] = "record" /\ mem'[q].row.item = i
    BY DEF NoneForgotten, Record
  <2>1. ~crossed /\ row.item # i
    BY <1>e, Apart DEF Record, Touch, Outdates
  <2>2. PICK q \in Procs : pc[q] = "record" /\ mem[q].row.item = i
    BY <2>1 DEF Kept, NoneForgotten
  <2>3. q # p
    BY <1>c, <2>2
  <2> QED
    BY <2>2, <2>3 DEF Kept, TypeOK, Record, Go
<1>8. StatedOnce'
  BY DEF Kept, TypeOK, StatedOnce, Record, Touch, Outdates
<1> QED
  BY <1>1, <1>2, <1>3, <1>4, <1>5, <1>6, <1>7, <1>8 DEF Kept

\* The item is the row's.
LEMMA ResumeKeeps ==
  ASSUME Kept, NEW p \in Procs, Resume(p)
  PROVE  Kept'
<1>1. TypeOK'
  BY DEF Kept, TypeOK, Resume, Go
<1>2. StatusKept'
  BY DEF Kept, TypeOK, StatusKept, Resume, Busy, Go
<1>3. RowWritten'
  BY DEF Kept, TypeOK, RowWritten, Resume, Busy
<1>4. ItemNamed'
  BY DEF Kept, TypeOK, ItemNamed, Resume, Go
<1>5. ListenerTold'
  BY DEF Kept, TypeOK, ListenerTold, Resume
<1>6. CopiesHold'
  BY DEF Kept, TypeOK, CopiesHold, Resume, InSync, Go
<1>7. NoneForgotten'
  BY DEF Kept, TypeOK, NoneForgotten, Resume, Go
<1>8. StatedOnce'
  BY DEF Kept, TypeOK, StatedOnce, Resume
<1> QED
  BY <1>1, <1>2, <1>3, <1>4, <1>5, <1>6, <1>7, <1>8 DEF Kept

\* A run that is refused leaves the row alone.
LEMMA RefuseKeeps ==
  ASSUME Kept, NEW p \in Procs, Refuse(p)
  PROVE  Kept'
<1>1. TypeOK'
  BY DEF Kept, TypeOK, Refuse, End, NoCopy, Row, Copy, Statuses, NoRow, Go
<1>2. StatusKept'
  BY DEF Kept, TypeOK, StatusKept, Refuse, End, Busy, Go
<1>3. RowWritten'
  BY DEF Kept, TypeOK, RowWritten, Refuse, Busy
<1>4. ItemNamed'
  BY DEF Kept, TypeOK, ItemNamed, Refuse, End, Go
<1>5. ListenerTold'
  BY DEF Kept, TypeOK, ListenerTold, Refuse
<1>6. CopiesHold'
  BY DEF Kept, TypeOK, CopiesHold, Refuse, End, InSync, Go
<1>7. NoneForgotten'
  BY DEF Kept, TypeOK, NoneForgotten, Refuse, End, Go
<1>8. StatedOnce'
  BY DEF Kept, TypeOK, StatedOnce, Refuse
<1> QED
  BY <1>1, <1>2, <1>3, <1>4, <1>5, <1>6, <1>7, <1>8 DEF Kept

\* What is read of the item decides; its name stays.
LEMMA GateKeeps ==
  ASSUME Kept, NEW p \in Procs, Gate(p)
  PROVE  Kept'
<1>a. PICK r : /\ mem' = [mem EXCEPT ![p].row = r]
               /\ r \in Row /\ r.item = mem[p].row.item /\ r.status # "absent"
  <2>1. mem[p].row \in Row /\ mem[p].row.status # "absent"
    BY DEF Kept, TypeOK, Copy, StatusKept, Busy, Gate
  <2>2. CASE media[mem[p].row.item] > 0
    <3>1. PICK job \in {mem[p].row.job, route = "import"} :
            Set(p, [mem[p].row EXCEPT !.job = job])
      BY <2>2 DEF Gate
    <3> DEFINE s == [mem[p].row EXCEPT !.job = job]
    <3>2. job \in BOOLEAN
      BY <2>1 DEF Row
    <3>3. s \in Row /\ s.item = mem[p].row.item /\ s.status # "absent"
      BY <2>1, <3>2 DEF Row
    <3> QED
      BY <3>1, <3>3 DEF Set
  <2>3. CASE ~(media[mem[p].row.item] > 0)
    <3> DEFINE s == [mem[p].row EXCEPT !.status = "placeholder"]
    <3>1. s \in Row /\ s.item = mem[p].row.item /\ s.status # "absent"
      BY <2>1 DEF Row, Statuses
    <3> QED
      BY <2>3, <3>1 DEF Gate, Set
  <2> QED
    BY <2>2, <2>3
<1>b. PICK at \in {"save", "send"} :
        /\ pc' = [pc EXCEPT ![p] = at]
        /\ at = "send" => ~(media[mem[p].row.item] > 0)
  BY DEF Gate, Go
<1>c. mem' \in [Procs -> Copy] /\ mem'[p].row = r
  BY <1>a DEF Kept, TypeOK, Copy
<1>d. mem[p].row.item \in Items
  BY DEF Kept, TypeOK, ItemNamed, Copy, Row, Gate
<1>1. TypeOK'
  BY <1>b, <1>c DEF Kept, TypeOK, Gate
<1>2. StatusKept'
  BY <1>a, <1>b DEF Kept, TypeOK, StatusKept, Busy, Gate
<1>3. RowWritten'
  BY DEF Kept, TypeOK, RowWritten, Gate, Busy
<1>4. ItemNamed'
  BY <1>a, <1>b DEF Kept, TypeOK, ItemNamed, Gate
<1>5. ListenerTold'
  BY DEF Kept, TypeOK, ListenerTold, Gate
<1>6. CopiesHold'
  <2> SUFFICES ASSUME ~crossed' PROVE CopiesHold'
    BY DEF CopiesHold
  <2>1. ASSUME p \notin stale' PROVE InSync(p)'
    <3>1. r.item = row.item
      BY <1>a, <2>1 DEF Kept, CopiesHold, InSync, Gate
    <3>2. ~(media[mem[p].row.item] > 0) => media[mem[p].row.item] = 0
      BY <1>d DEF Kept, TypeOK
    <3> QED
      BY <1>a, <1>b, <1>c, <3>1, <3>2 DEF Kept, TypeOK, InSync, Gate
  <2>2. ASSUME NEW q \in Procs, q # p, q \notin stale' PROVE InSync(q)'
    BY <1>a, <1>b, <2>2 DEF Kept, TypeOK, CopiesHold, InSync, Gate
  <2> QED
    BY <2>1, <2>2 DEF Kept, CopiesHold, Gate
<1>7. NoneForgotten'
  BY DEF Kept, TypeOK, ListenerTold, NoneForgotten, Gate, Set, Row, Go
<1>8. StatedOnce'
  BY DEF Kept, TypeOK, StatedOnce, Gate
<1> QED
  BY <1>1, <1>2, <1>3, <1>4, <1>5, <1>6, <1>7, <1>8 DEF Kept

\* Media are stated where there were none; who was about to do the same is outdated.
LEMMA SendKeeps ==
  ASSUME Kept, NEW p \in Procs, Send(p)
  PROVE  Kept'
<1>a. mem[p].row.item \in Items
  BY DEF Kept, TypeOK, ItemNamed, Copy, Row, Send
<1>b. media' = [media EXCEPT ![mem[p].row.item] = @ + 1] /\ media' \in [Items -> Nat]
  BY <1>a DEF Kept, TypeOK, Send
<1>c. PICK r : /\ mem' = [mem EXCEPT ![p].row = r]
               /\ r \in Row /\ r.item = mem[p].row.item
  <2>1. mem[p].row \in Row
    BY DEF Kept, TypeOK, Copy
  <2> DEFINE s == IF route = "import" THEN [mem[p].row EXCEPT !.job = TRUE]
                  ELSE [mem[p].row EXCEPT !.status = "posted"]
  <2>2. s \in Row /\ s.item = mem[p].row.item
    BY <2>1 DEF Row, Statuses
  <2>3. mem' = [mem EXCEPT ![p].row = s]
    BY DEF Send, Set
  <2> QED
    BY <2>2, <2>3
<1>d. mem' \in [Procs -> Copy] /\ mem'[p].row = r
  BY <1>c DEF Kept, TypeOK, Copy
<1>e. ~crossed' => ~crossed /\ p \notin stale /\ media[mem[p].row.item] = 0
  BY DEF Kept, CopiesHold, InSync, Send, Outdates
<1>1. TypeOK'
  BY <1>b, <1>d DEF Kept, TypeOK, Send, Go, Outdates
<1>2. StatusKept'
  BY DEF Kept, TypeOK, StatusKept, Send, Set, Busy, Go
<1>3. RowWritten'
  BY DEF Kept, TypeOK, RowWritten, Send, Busy
<1>4. ItemNamed'
  BY DEF Kept, TypeOK, ItemNamed, Send, Set, Go
<1>5. ListenerTold'
  BY DEF Kept, TypeOK, ListenerTold, Send
<1>6. CopiesHold'
  <2> SUFFICES ASSUME ~crossed' PROVE CopiesHold'
    BY DEF CopiesHold
  <2>1. InSync(p)'
    BY <1>c, <1>d, <1>e DEF Kept, TypeOK, CopiesHold, InSync, Send, Go
  <2>2. ASSUME NEW q \in Procs, q # p, q \notin stale' PROVE InSync(q)'
    <3>1. q \notin stale /\ ~(pc[q] = "send" /\ mem[q].row.item = mem[p].row.item)
      BY <2>2 DEF Send, Outdates
    <3>2. pc'[q] = pc[q] /\ mem'[q] = mem[q]
      BY <1>c, <2>2 DEF Kept, TypeOK, Send, Go
    <3>3. pc[q] = "send" => media'[mem[q].row.item] = media[mem[q].row.item]
      BY <1>b, <3>1 DEF Kept, TypeOK
    <3> QED
      BY <1>e, <2>2, <3>1, <3>2, <3>3 DEF Kept, CopiesHold, InSync, Send
  <2>3. Listener \notin stale' /\ signal'.copy # NoRow => signal'.copy = row'
    BY <1>e DEF Kept, CopiesHold, Send, Outdates
  <2> QED
    BY <2>1, <2>2, <2>3 DEF CopiesHold
<1>7. NoneForgotten'
  BY DEF Kept, TypeOK, NoneForgotten, Send, Set, Outdates, Go
<1>8. StatedOnce'
  BY <1>b, <1>e DEF Kept, TypeOK, StatedOnce
<1> QED
  BY <1>1, <1>2, <1>3, <1>4, <1>5, <1>6, <1>7, <1>8 DEF Kept

\* A refused request changes nothing.
LEMMA SendFailsKeeps ==
  ASSUME Kept, NEW p \in Procs, SendFails(p)
  PROVE  Kept'
<1>1. TypeOK'
  BY MishapTyped DEF Kept, TypeOK, SendFails, Go
<1>2. StatusKept'
  BY DEF Kept, TypeOK, StatusKept, SendFails, Busy, Go
<1>3. RowWritten'
  BY DEF Kept, TypeOK, RowWritten, SendFails, Busy
<1>4. ItemNamed'
  BY DEF Kept, TypeOK, ItemNamed, SendFails, Go
<1>5. ListenerTold'
  BY DEF Kept, TypeOK, ListenerTold, SendFails
<1>6. CopiesHold'
  BY DEF Kept, TypeOK, CopiesHold, SendFails, InSync, Go
<1>7. NoneForgotten'
  BY DEF Kept, TypeOK, NoneForgotten, SendFails, Go
<1>8. StatedOnce'
  BY DEF Kept, TypeOK, StatedOnce, SendFails
<1> QED
  BY <1>1, <1>2, <1>3, <1>4, <1>5, <1>6, <1>7, <1>8 DEF Kept

\* The write-back of a copy in step with the row keeps its item.
LEMMA SaveKeeps ==
  ASSUME Kept, NEW p \in Procs, Save(p)
  PROVE  Kept'
<1>a. row' \in Row /\ row'.status # "absent" /\ row' # NoRow
  BY DEF Kept, TypeOK, StatusKept, Busy, Save, Copy, NoRow
<1>b. ~crossed' => ~crossed /\ row'.item = row.item
  BY DEF Kept, CopiesHold, InSync, Save, Touch, Outdates
<1>1. TypeOK'
  BY DEF Kept, TypeOK, Save, Touch, Outdates, Holders, End, NoCopy, Row, Copy, Statuses,
     NoRow, Go
<1>2. StatusKept'
  BY DEF Kept, TypeOK, StatusKept, Save, End, Busy, Go
<1>3. RowWritten'
  BY <1>a DEF RowWritten
<1>4. ItemNamed'
  BY DEF Kept, TypeOK, ItemNamed, Save, End, Go
<1>5. ListenerTold'
  BY DEF Kept, TypeOK, ListenerTold, Save
<1>6. CopiesHold'
  BY Apart DEF Kept, TypeOK, ItemNamed, CopiesHold, Save, Touch, Outdates, Holders, End,
     InSync, Go
<1>7. NoneForgotten'
  BY <1>b DEF Kept, TypeOK, NoneForgotten, Save, End, Go
<1>8. StatedOnce'
  BY DEF Kept, TypeOK, StatedOnce, Save, Touch, Outdates
<1> QED
  BY <1>1, <1>2, <1>3, <1>4, <1>5, <1>6, <1>7, <1>8 DEF Kept

\* An item that nobody named is lost with its creator.
LEMMA DieKeeps ==
  ASSUME Kept, NEW p \in Procs, Die(p)
  PROVE  Kept'
<1>1. TypeOK'
  BY EndTyped, MishapTyped DEF Kept, TypeOK, Die, ItemNamed
<1>2. StatusKept'
  BY DEF Kept, TypeOK, StatusKept, Die, End, Busy, Go
<1>3. RowWritten'
  BY DEF Kept, TypeOK, RowWritten, Die, End, Busy, Go
<1>4. ItemNamed'
  BY DEF Kept, TypeOK, ItemNamed, Die, End, Go
<1>5. ListenerTold'
  BY DEF Kept, TypeOK, ListenerTold, Die
<1>6. CopiesHold'
  BY DEF Kept, TypeOK, CopiesHold, Die, End, InSync, Go
<1>7. NoneForgotten'
  BY DEF Kept, TypeOK, NoneForgotten, Die, End, Go
<1>8. StatedOnce'
  BY DEF Kept, TypeOK, StatedOnce, Die
<1> QED
  BY <1>1, <1>2, <1>3, <1>4, <1>5, <1>6, <1>7, <1>8 DEF Kept

\* An item is deleted: copies of its row are outdated, and it is live no more.
LEMMA DeleteKeeps ==
  ASSUME Kept, NEW i \in Items, DeleteItem(i)
  PROVE  Kept'
<1>1. TypeOK'
  <2>1. PICK told \in BOOLEAN : signal' = IF told THEN [Idle EXCEPT !.of = i] ELSE Idle
    BY DEF DeleteItem
  <2>2. NoRow \in Row
    BY DEF NoRow, Row, Statuses
  <2>3. signal' \in [of : Items \cup {None}, copy : Row]
    BY <2>1, <2>2 DEF Idle
  <2> QED
    BY <2>3, MishapTyped DEF Kept, TypeOK, DeleteItem, Outdates
<1>2. StatusKept' /\ RowWritten' /\ ItemNamed'
  BY DEF Kept, StatusKept, RowWritten, ItemNamed, Busy, DeleteItem
<1>3. ListenerTold'
  BY DEF Kept, TypeOK, ListenerTold, DeleteItem, Idle
<1>4. CopiesHold'
  <2> SUFFICES ASSUME ~crossed' PROVE CopiesHold'
    BY DEF CopiesHold
  <2>1. signal'.copy = NoRow
    BY DEF DeleteItem, Idle
  <2>2. ~crossed /\ \A q \in Procs : q \notin stale' => q \notin stale
    BY Apart DEF DeleteItem, Outdates
  <2> QED
    BY <2>1, <2>2 DEF Kept, CopiesHold, InSync, DeleteItem
<1>5. NoneForgotten' /\ StatedOnce'
  BY DEF Kept, TypeOK, NoneForgotten, StatedOnce, DeleteItem, Outdates
<1> QED
  BY <1>1, <1>2, <1>3, <1>4, <1>5 DEF Kept

\* The listener takes its copy.
LEMMA ListenerReadsKeeps == Kept /\ ListenerReads => Kept'
<1> SUFFICES ASSUME Kept, ListenerReads PROVE Kept'
  OBVIOUS
<1>1. TypeOK'
  <2>1. NoRow \in Row
    BY DEF NoRow, Row, Statuses
  <2> QED
    BY <2>1 DEF Kept, TypeOK, ListenerReads, Idle
<1>2. StatusKept' /\ RowWritten' /\ ItemNamed'
  BY DEF Kept, StatusKept, RowWritten, ItemNamed, Busy, ListenerReads
<1>3. ListenerTold'
  <2>1. signal.of \in Items
    BY DEF Kept, TypeOK, ListenerReads, Idle
  <2> QED
    BY <2>1, Apart DEF Kept, TypeOK, ListenerTold, ListenerReads, Idle
<1>4. CopiesHold'
  BY Apart DEF Kept, TypeOK, CopiesHold, InSync, ListenerReads, Idle
<1>5. NoneForgotten' /\ StatedOnce'
  BY DEF Kept, NoneForgotten, StatedOnce, ListenerReads
<1> QED
  BY <1>1, <1>2, <1>3, <1>4, <1>5 DEF Kept

\* The listener's save resets a row that names a deleted item, or crosses.
LEMMA ListenerSavesKeeps == Kept /\ ListenerSaves => Kept'
<1> SUFFICES ASSUME Kept, ListenerSaves PROVE Kept'
  OBVIOUS
<1>a. NewRow \in Row /\ NewRow.status = "not_imported" /\ NewRow # NoRow /\ NewRow.item = None
  BY DEF NewRow, NoRow, Row, Statuses
<1>b. Idle \in [of : Items \cup {None}, copy : Row] /\ Idle.copy = NoRow /\ Idle.of = None
  BY DEF Idle, NoRow, Row, Statuses
<1>c. ~crossed' => /\ ~crossed
                   /\ row' = row \/ (row.item \in Items /\ life[row.item] = "dead")
  <2>1. signal.copy # NoRow => signal.copy.item \in Items /\ life[signal.copy.item] = "dead"
    BY DEF Kept, ListenerTold
  <2>2. ~crossed' => ~crossed /\ (row' = row \/ signal.copy = row)
    BY DEF Kept, CopiesHold, ListenerSaves, Touch, Outdates
  <2>3. signal.copy # NoRow
    BY DEF ListenerSaves
  <2> QED
    BY <2>1, <2>2, <2>3
<1>1. TypeOK'
  BY <1>a, <1>b DEF Kept, TypeOK, ListenerSaves, Touch, Outdates, Holders
<1>2. StatusKept' /\ RowWritten' /\ ItemNamed'
  BY <1>a DEF Kept, StatusKept, RowWritten, ItemNamed, Busy, ListenerSaves
<1>3. ListenerTold'
  BY <1>b, Apart DEF ListenerTold, ListenerSaves
<1>4. CopiesHold'
  <2> SUFFICES ASSUME ~crossed' PROVE CopiesHold'
    BY DEF CopiesHold
  <2>1. ASSUME NEW q \in Procs, q \notin stale' PROVE InSync(q)'
    <3>1. CASE row' = row
      BY <2>1, <3>1, <1>c, Apart DEF Kept, CopiesHold, InSync, ListenerSaves, Touch,
         Outdates
    <3>2. CASE row' # row
      <4>1. pc[q] = "idle"
        BY <2>1, <3>2, Apart DEF ListenerSaves, Touch, Outdates, Holders
      <4> QED
        BY <4>1 DEF InSync, ListenerSaves
    <3> QED
      BY <3>1, <3>2
  <2> QED
    BY <2>1, <1>b DEF CopiesHold, ListenerSaves
<1>5. NoneForgotten'
  BY <1>c DEF Kept, TypeOK, NoneForgotten, ListenerSaves
<1>6. StatedOnce'
  BY <1>c DEF Kept, StatedOnce, ListenerSaves
<1> QED
  BY <1>1, <1>2, <1>3, <1>4, <1>5, <1>6 DEF Kept

-----------------------------------------------------------------------------
(* The theorems. *)

\* Every step keeps the invariant.
LEMMA StepKeeps == Kept /\ [Next]_vars => Kept'
<1> SUFFICES ASSUME Kept, [Next]_vars PROVE Kept'
  OBVIOUS
<1>1. ASSUME NEW p \in Procs, Read(p) \/ Proceed(p) \/ Post(p) \/ Die(p) PROVE Kept'
  BY <1>1, ReadKeeps, WriteKeeps, WriteFailsKeeps, PostKeeps, CreateKeeps, RecordKeeps,
     ResumeKeeps, RefuseKeeps, GateKeeps, SendKeeps, SendFailsKeeps, SaveKeeps, DieKeeps DEF
     Proceed
<1>2. ASSUME NEW i \in Items, DeleteItem(i) PROVE Kept'
  BY <1>2, DeleteKeeps
<1>3. CASE ListenerReads
  BY <1>3, ListenerReadsKeeps
<1>4. CASE ListenerSaves
  BY <1>4, ListenerSavesKeeps
<1>5. CASE UNCHANGED vars
  BY <1>5 DEF vars, Kept, TypeOK, StatusKept, RowWritten, ItemNamed, ListenerTold,
     CopiesHold, InSync, Busy, NoneForgotten, StatedOnce
<1> QED
  BY <1>1, <1>2, <1>3, <1>4, <1>5 DEF Next

\* The invariant holds throughout.
THEOREM Holds == Spec => []Kept
  BY Begins, StepKeeps, PTL DEF Spec

\* Row, items, copies and the listener keep their types.
THEOREM RowTypeCorrect == Spec => []TypeOK
<1>1. Kept => TypeOK
  BY DEF Kept
<1> QED
  BY <1>1, Holds, PTL

\* A placeholder the plugin created is never forgotten, by create_item or by
\* anybody who writes the row later, but for a death before the UPDATE and for
\* writes from an outdated copy.
THEOREM PlaceholdersNamed == Spec => []NoneForgotten
<1>1. Kept => NoneForgotten
  BY DEF Kept
<1> QED
  BY <1>1, Holds, PTL

\* Media are stated at most once per item, however often runs die between the
\* request and the row, as long as nobody acts on an outdated copy.
THEOREM MediaStatedOnce == Spec => []StatedOnce
<1>1. Kept => StatedOnce
  BY DEF Kept
<1> QED
  BY <1>1, Holds, PTL

\* Folder._ingest_pass imports only what persist_scan_results has written.
THEOREM RowBeforeImport == Spec => []ImportsHaveARow
<1>1. Kept => ImportsHaveARow
  BY DEF Kept, RowWritten, ImportsHaveARow, Busy, Procs
<1> QED
  BY <1>1, Holds, PTL

\* A step of the row's owner that displaces the id of a live created item
\* crosses.
LEMMA StepStays ==
  Kept /\ [Next]_vars => (row.item \in Created /\ life[row.item] = "live" /\ ~crossed'
                            => row'.item = row.item)
<1> SUFFICES ASSUME Kept, [Next]_vars, row.item \in Created, life[row.item] = "live", ~crossed'
             PROVE  row'.item = row.item
  OBVIOUS
<1>a. row.item # None
  BY Apart
<1>1. ASSUME NEW p \in Procs, Write(p) PROVE row'.item = row.item
  BY <1>1, <1>a DEF Kept, TypeOK, Write, Upserted, Filled, NoRow
<1>2. ASSUME NEW p \in Procs, Record(p) PROVE row'.item = row.item
  BY <1>2, <1>a DEF Kept, CopiesHold, InSync, Record, Touch, Outdates
<1>3. ASSUME NEW p \in Procs, Save(p) PROVE row'.item = row.item
  BY <1>3 DEF Kept, CopiesHold, InSync, Save, Touch, Outdates
<1>4. CASE ListenerSaves
  <2>1. ~crossed /\ (row' # row => signal.copy = row)
    BY <1>4 DEF Kept, CopiesHold, ListenerSaves, Touch, Outdates
  <2>2. signal.copy = row => life[row.item] = "dead"
    BY <1>4 DEF Kept, ListenerTold, ListenerSaves
  <2> QED
    BY <2>1, <2>2
<1>5. ASSUME row' = row PROVE row'.item = row.item
  BY <1>5
<1> QED
  BY <1>1, <1>2, <1>3, <1>4, <1>5 DEF Next, Proceed, Read, WriteFails, Create, Resume,
     Refuse, Gate, Send, SendFails, Post, Die, DeleteItem, ListenerReads, vars

\* An id that an import recorded is displaced neither by a recovered one nor
\* by the write-back of another run, unless that works on an outdated copy.
THEOREM IdsStay == Spec => RecordedStays
<1>1. Kept /\ [Next]_vars =>
        [row.item \in Created /\ life[row.item] = "live" /\ ~crossed'
           => row'.item = row.item]_vars
  BY StepStays
<1> QED
  BY <1>1, Holds, PTL DEF Spec, RecordedStays
=============================================================================
