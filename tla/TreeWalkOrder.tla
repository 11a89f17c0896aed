---------------------------- MODULE TreeWalkOrder ----------------------------
(***************************************************************************)
(* What the report of walk_tree says and in which order, for every tree,   *)
(* world, number of workers and schedule.                                  *)
(***************************************************************************)
EXTENDS TreeWalkTheorems

(***************************************************************************)
(* A step, seen from the report: a folder is expanded, or closed, or its   *)
(* lines are released, or nothing moves.                                   *)
(***************************************************************************)
Expanding(k) ==
  /\ Expand(k)
  /\ world' = world
  /\ Released' = Released
  /\ \/ /\ k = Root
        /\ pc = "start"
        /\ ~RootFails
        /\ ready' = ready
     \/ /\ k \in pending
        /\ world.fate[k] = "expands"
        /\ ready' = ready \cup {k}

Closing(k) ==
  /\ Record(k)
  /\ world' = world
  /\ Released' = Released
  /\ seen' = seen
  /\ \/ /\ k = Root
        /\ pc = "start"
        /\ RootFails
     \/ /\ k \in pending
        /\ world.fate[k] # "expands"

Releasing(k) ==
  /\ IsLeast(k, ready)
  /\ BelowFloor(k)
  /\ ready' = ready \ {k}
  /\ released' = Append(released, k)
  /\ Released' = Released \cup {k}
  /\ UNCHANGED <<world, pending, seen>>

Still ==
  /\ UNCHANGED <<world, pending, ready, released, seen>>
  /\ Released' = Released

(***************************************************************************)
(* Every step of the walk is one of these, and only the first one and an   *)
(* interruption leave "start".                                             *)
(***************************************************************************)
LEMMA StepKinds ==
  ASSUME TypeOK, Bookkeeping, [Next]_vars
  PROVE  /\ \/ /\ Still
               /\ pc' \notin {"start", "interrupted"} => pc \notin {"start", "interrupted"}
            \/ /\ \E k \in Folders : Expanding(k) \/ Closing(k) \/ Releasing(k)
               /\ pc' # "start"
               /\ pc # "interrupted"
         /\ released' = released \/ \E k \in Folders : Releasing(k)
<1>1. CASE ExpandRoot
  <2>1. Expanding(Root) /\ Root \in Folders /\ pc' = "release" /\ pc = "start"
        /\ released' = released
    BY <1>1, WorldTyped DEF ExpandRoot, Expanding, Released
  <2>2. QED
    BY <2>1
<1>2. CASE FailRoot
  <2>1. Closing(Root) /\ Root \in Folders /\ pc' = "release" /\ pc = "start"
        /\ released' = released
    BY <1>2, WorldTyped DEF FailRoot, Closing, Released
  <2>2. QED
    BY <2>1
<1>3. ASSUME NEW k \in Folders, DispatchFails(k)
      PROVE  Closing(k) /\ pc' = "release" /\ pc = "loop" /\ released' = released
  <2>1. k \in Stacked
    BY <1>3, PopStep DEF DispatchFails, Bookkeeping
  <2>2. k \in pending
    BY <2>1 DEF Bookkeeping, Partition
  <2>3. world.fate[k] # "expands"
    BY <1>3 DEF DispatchFails, DispatchRaises
  <2>4. QED
    BY <1>3, <2>2, <2>3 DEF DispatchFails, Closing, Released
<1>4. ASSUME NEW k \in Folders, Dispatch(k)
      PROVE  Still /\ pc = "loop"
  BY <1>4 DEF Dispatch, Still, Released
<1>5. CASE Gather
  BY <1>5 DEF Gather, AtGather, walkVars, Still, Released
<1>6. ASSUME NEW k \in Folders, AbsorbClosed(k)
      PROVE  Closing(k) /\ pc = "absorb" /\ pc' \in {"absorb", "release"}
             /\ released' = released
  <2>1. k \in pending
    BY <1>6 DEF AbsorbClosed, NextInBatch, Bookkeeping, Partition
  <2>2. QED
    BY <1>6, <2>1 DEF AbsorbClosed, NextInBatch, Closing, Released
<1>7. ASSUME NEW k \in Folders, AbsorbOpen(k)
      PROVE  Expanding(k) /\ pc = "absorb" /\ pc' \in {"absorb", "release"}
             /\ released' = released
  <2>1. k \in pending
    BY <1>7 DEF AbsorbOpen, NextInBatch, Bookkeeping, Partition
  <2>2. QED
    BY <1>7, <2>1 DEF AbsorbOpen, NextInBatch, Expanding, Released
<1>8. ASSUME NEW k \in Folders, ReleaseNext(k)
      PROVE  Releasing(k) /\ pc = "release" /\ pc' = pc
  <2>1. Released' = Released \cup {k}
    BY <1>8, ListSteps DEF ReleaseNext
  <2>2. QED
    BY <1>8, <2>1 DEF ReleaseNext, Releasing
<1>9. CASE ReleaseEnds \/ Finish
  BY <1>9 DEF ReleaseEnds, Finish, walkVars, Still, Released
<1>10. CASE StartWorker \/ \E k \in Folders : EndWorker(k)
  <2>1. Still /\ pc' = pc
    BY <1>10 DEF StartWorker, EndWorker, walkVars, Still, Released
  <2>2. QED
    BY <2>1 DEF Still
<1>11. CASE Interrupt
  BY <1>11 DEF Interrupt, walkVars, Still, Released
<1>12. CASE Terminated \/ UNCHANGED vars
  <2>1. Still /\ pc' = pc
    BY <1>12 DEF Terminated, vars, walkVars, Still, Released
  <2>2. QED
    BY <2>1 DEF Still
<1>13. \/ ExpandRoot \/ FailRoot \/ Gather \/ ReleaseEnds \/ Finish
       \/ StartWorker \/ Interrupt \/ Terminated \/ UNCHANGED vars
       \/ \E k \in Folders : \/ DispatchFails(k) \/ Dispatch(k) \/ AbsorbClosed(k)
                             \/ AbsorbOpen(k) \/ ReleaseNext(k) \/ EndWorker(k)
  BY DEF Next, Coordinator
<1>14. QED
  <2>1. CASE \E k \in Folders : \/ DispatchFails(k) \/ AbsorbClosed(k)
                                \/ AbsorbOpen(k) \/ ReleaseNext(k)
    BY <2>1, <1>3, <1>6, <1>7, <1>8
  <2>2. CASE \E k \in Folders : Dispatch(k)
    BY <2>2, <1>4 DEF Still
  <2>3. QED
    BY <1>1, <1>2, <1>5, <1>9, <1>10, <1>11, <1>12, <1>13, <2>1, <2>2

-----------------------------------------------------------------------------

(***************************************************************************)
(* No folder is walked through two paths: an expansion enqueues folders    *)
(* whose places are new, and different from one another.                   *)
(***************************************************************************)
THEOREM PlacesWalkedOnce == Spec => []OnePlaceOneWalk
<1>1. Init => OnePlaceOneWalk
  <2> SUFFICES ASSUME Init PROVE OnePlaceOneWalk
    OBVIOUS
  <2>1. Released = {}
    BY EmptySeq DEF Init, Released
  <2>2. QED
    BY <2>1 DEF Init, OnePlaceOneWalk, Known
<1>2. TypeOK /\ Bookkeeping /\ OnePlaceOneWalk /\ [Next]_vars => OnePlaceOneWalk'
  <2> SUFFICES ASSUME TypeOK, Bookkeeping, OnePlaceOneWalk, [Next]_vars
               PROVE  OnePlaceOneWalk'
    OBVIOUS
  <2>1. CASE Still
    BY <2>1 DEF Still, OnePlaceOneWalk, Known
  <2>2. ASSUME NEW k \in Folders, Expanding(k)
        PROVE  OnePlaceOneWalk'
    <3> DEFINE kids == Children(k, seen)
    <3>1. /\ kids \in SUBSET Folders
          /\ pending' = (pending \ {k}) \cup kids
      BY <2>2, ExpandStep DEF Expanding, Bookkeeping
    <3>2. Known' \subseteq Known \cup kids
      BY <2>2, <3>1 DEF Expanding, Known
    <3>3. \A c \in kids : world.place[c] \notin seen
      BY DEF Children
    <3>4. \A f \in Known : world.place[f] \in seen
      BY DEF Bookkeeping, Enrolled
    <3>5. ASSUME NEW c \in kids, NEW d \in kids, world.place[c] = world.place[d]
          PROVE  c = d
      <4>1. c \in Key /\ d \in Key
        BY <3>1, WorldTyped
      <4>2. c = d \/ KeyLess(c, d) \/ KeyLess(d, c)
        BY <4>1, KeyLessTotal
      <4>3. ~KeyLess(c, d) /\ ~KeyLess(d, c)
        BY <3>5 DEF Children
      <4>4. QED
        BY <4>2, <4>3
    <3> HIDE DEF kids
    <3>6. world' = world
      BY <2>2 DEF Expanding
    <3>7. QED
      BY <3>2, <3>3, <3>4, <3>5, <3>6 DEF OnePlaceOneWalk
  <2>3. ASSUME NEW k \in Folders, Closing(k)
        PROVE  OnePlaceOneWalk'
    <3>1. world' = world /\ (Known' \subseteq Known \/ (Known = {} /\ Known' \subseteq {k}))
      BY <2>3 DEF Closing, Record, Known, Bookkeeping, Phases
    <3>2. QED
      BY <3>1 DEF OnePlaceOneWalk
  <2>4. ASSUME NEW k \in Folders, Releasing(k)
        PROVE  OnePlaceOneWalk'
    <3>1. world' = world /\ Known' \subseteq Known
      BY <2>4 DEF Releasing, IsLeast, Known
    <3>2. QED
      BY <3>1 DEF OnePlaceOneWalk
  <2>5. QED
    BY <2>1, <2>2, <2>3, <2>4, StepKinds
<1>3. QED
  BY <1>1, <1>2, TypeCorrect, BookkeepingInvariant, PTL DEF Spec

(***************************************************************************)
(* Lines go out in merge-key order.  A folder is released below every      *)
(* pending key and first among the ready ones; what an expansion adds sorts *)
(* after its parent, which was still pending.                              *)
(***************************************************************************)
THEOREM OrderKept == Spec => []ReportOrdered
<1>1. Init => ReportOrdered
  <2> SUFFICES ASSUME Init PROVE ReportOrdered
    OBVIOUS
  <2>1. released = << >> /\ Released = {}
    BY EmptySeq DEF Init, Released
  <2>2. QED
    BY <2>1, EmptySeq DEF ReportOrdered
<1>2. TypeOK /\ Bookkeeping /\ ReportOrdered /\ [Next]_vars => ReportOrdered'
  <2> SUFFICES ASSUME TypeOK, Bookkeeping, ReportOrdered, [Next]_vars
               PROVE  ReportOrdered'
    OBVIOUS
  <2>1. released \in Seq(Folders) /\ pending \in SUBSET Folders
        /\ ready \in SUBSET Folders /\ Released \in SUBSET Folders
    <3>1. \A i \in 1..Len(released) : released[i] \in Folders
      BY ElementOfSeq DEF TypeOK
    <3>2. QED
      BY <3>1 DEF TypeOK, Released
  <2>2. \A f \in Folders : f \in Key
    BY FoldersAssumption
  <2>3. released' = released =>
          \A i, j \in 1..Len(released') :
             i < j => KeyLess(released'[i], released'[j])
    BY DEF ReportOrdered
  <2>4. CASE Still
    BY <2>4 DEF Still, ReportOrdered, Released
  <2>5. ASSUME NEW k \in Folders, Expanding(k), released' = released
        PROVE  ReportOrdered'
    <3> DEFINE kids == Children(k, seen)
    <3>1. /\ kids \in SUBSET Folders
          /\ pending' = (pending \ {k}) \cup kids
          /\ Released' = Released
      BY <2>5, ExpandStep DEF Expanding, Bookkeeping
    <3>2. ASSUME NEW r \in Released PROVE k \in pending /\ KeyLess(r, k)
      <4>1. pc # "start"
        BY DEF Bookkeeping, Phases, Known
      <4>2. k \in pending
        BY <2>5, <4>1 DEF Expanding
      <4>3. QED
        BY <4>2 DEF ReportOrdered
    <3>3. ASSUME NEW r \in Released, NEW c \in kids PROVE KeyLess(r, c)
      <4>1. IsChild(c, k)
        BY DEF Children, Eligible
      <4>2. r \in Key /\ k \in Key /\ c \in Key
        BY <2>1, <2>2, <3>1
      <4>3. KeyLess(r, k) /\ KeyLess(k, c)
        BY <3>2, <4>1, <4>2, ChildSortsAfter
      <4>4. QED
        BY <4>2, <4>3, KeyLessTransitive
    <3>4. ready' \subseteq ready \cup {k}
      BY <2>5 DEF Expanding
    <3> HIDE DEF kids
    <3>5. \A r \in Released' : \A q \in pending' \cup ready' : KeyLess(r, q)
      BY <3>1, <3>2, <3>3, <3>4 DEF ReportOrdered
    <3>6. QED
      BY <2>3, <2>5, <3>5 DEF ReportOrdered
  <2>6. ASSUME NEW k \in Folders, Closing(k), released' = released
        PROVE  ReportOrdered'
    <3>1. /\ pending' = pending \ {k}
          /\ ready' = ready \cup {k}
          /\ Released' = Released
      BY <2>6 DEF Closing, Record
    <3>2. ASSUME NEW r \in Released PROVE k \in pending
      BY <2>6 DEF Closing, Bookkeeping, Phases, Known
    <3>3. \A r \in Released' : \A q \in pending' \cup ready' : KeyLess(r, q)
      BY <3>1, <3>2 DEF ReportOrdered
    <3>4. QED
      BY <2>3, <2>6, <3>3 DEF ReportOrdered
  <2>7. ASSUME NEW k \in Folders, Releasing(k)
        PROVE  ReportOrdered'
    <3>1. /\ k \in ready
          /\ released' = Append(released, k)
          /\ Released' = Released \cup {k}
          /\ pending' = pending
          /\ ready' = ready \ {k}
          /\ \A q \in pending \cup (ready \ {k}) : KeyLess(k, q)
      BY <2>7 DEF Releasing, IsLeast, BelowFloor
    <3>2. /\ Len(released') = Len(released) + 1
          /\ \A i \in 1..Len(released) : released'[i] = released[i]
          /\ released'[Len(released) + 1] = k
          /\ Len(released) \in Nat
      BY <2>1, <3>1, AppendProperties, LenProperties
    <3>3. ASSUME NEW i \in 1..Len(released'), NEW j \in 1..Len(released'), i < j
          PROVE  KeyLess(released'[i], released'[j])
      <4>1. i \in 1..Len(released)
        BY <3>2, <3>3
      <4>2. CASE j \in 1..Len(released)
        BY <3>2, <3>3, <4>1, <4>2 DEF ReportOrdered
      <4>3. CASE j = Len(released) + 1
        <5>1. released[i] \in Released
          BY <4>1 DEF Released
        <5>2. KeyLess(released[i], k)
          BY <3>1, <5>1 DEF ReportOrdered
        <5>3. QED
          BY <3>2, <4>1, <4>3, <5>2
      <4>4. QED
        BY <3>2, <4>2, <4>3
    <3>4. \A r \in Released' : \A q \in pending' \cup ready' : KeyLess(r, q)
      BY <3>1 DEF ReportOrdered
    <3>5. QED
      BY <3>3, <3>4 DEF ReportOrdered
  <2>8. QED
    BY <2>4, <2>5, <2>6, <2>7, StepKinds
<1>3. QED
  BY <1>1, <1>2, TypeCorrect, BookkeepingInvariant, PTL DEF Spec

-----------------------------------------------------------------------------

(***************************************************************************)
(* A folder on the way down to a child of k is that child, or is on the    *)
(* way down to k.                                                          *)
(***************************************************************************)
LEMMA WayDown ==
  ASSUME NEW k \in Key, NEW c \in Key, IsChild(c, k),
         NEW p \in Key, Within(c, p), p # c
  PROVE  Within(k, p)
<1>1. /\ Len(c) = Len(k) + 1
      /\ Len(p) <= Len(c)
      /\ \A j \in 1..Len(k) : c[j] = k[j]
      /\ \A j \in 1..Len(p) : c[j] = p[j]
  BY DEF IsChild, Within
<1>2. Len(k) \in Nat /\ Len(p) \in Nat /\ Len(c) \in Nat
  BY LenProperties DEF Key
<1>3. Len(p) # Len(c)
  <2> SUFFICES ASSUME Len(p) = Len(c) PROVE FALSE
    OBVIOUS
  <2>1. p = c
    BY <1>1, SeqEqual DEF Key
  <2>2. QED
    BY <2>1
<1>4. Len(p) <= Len(k) /\ 1..Len(p) \subseteq 1..Len(k)
  BY <1>1, <1>2, <1>3
<1>5. QED
  BY <1>1, <1>4 DEF Within

(***************************************************************************)
(* The walk enqueues nothing but what the tree, the filters and the        *)
(* workers let it come down to.                                            *)
(***************************************************************************)
LEMMA ChildReported ==
  ASSUME TypeOK, NEW k \in Folders, world.fate[k] = "expands",
         k = Root \/ k \in Reported, NEW c \in Eligible(k), ~RootFails
  PROVE  c \in Reported
<1>1. c \in Folders /\ IsChild(c, k) /\ c \in Key /\ k \in Key
  BY WorldTyped DEF Eligible
<1>2. Parent(c) = k
  BY <1>1, ParentOfChild
<1>3. c # Root
  <2>1. Len(c) = Len(k) + 1 /\ Len(k) \in Nat
    BY <1>1, LenProperties DEF IsChild, Key
  <2>2. QED
    BY <2>1, EmptySeq DEF Root
<1>4. ASSUME NEW p \in Folders \ {Root}, Within(c, p)
      PROVE  /\ world.fate[Parent(p)] = "expands"
             /\ p \in Eligible(Parent(p))
  <2>1. p \in Key
    BY WorldTyped
  <2>2. CASE p = c
    BY <2>2, <1>2
  <2>3. CASE p # c
    <3>1. Within(k, p)
      BY <1>1, <1>4, <2>1, <2>3, WayDown
    <3>2. k # Root
      <4>1. Len(p) <= Len(k) /\ Len(p) \in Nat /\ Len(p) # 0
        BY <2>1, <3>1, EmptySeq, LenProperties DEF Within, Root, Key
      <4>2. QED
        BY <4>1, EmptySeq DEF Root
    <3>3. QED
      BY <1>4, <3>1, <3>2 DEF Reported, Reached
  <2>4. QED
    BY <2>2, <2>3
<1>5. QED
  BY <1>1, <1>3, <1>4 DEF Reported, Reached

(***************************************************************************)
(* The walk never goes where it was not authorized to.                     *)
(***************************************************************************)
THEOREM DescentAuthorized == Spec => []AuthorizedDescent
<1>1. Init => AuthorizedDescent
  <2> SUFFICES ASSUME Init PROVE AuthorizedDescent
    OBVIOUS
  <2>1. Released = {}
    BY EmptySeq DEF Init, Released
  <2>2. QED
    BY <2>1 DEF Init, AuthorizedDescent, Known
<1>2. TypeOK /\ Bookkeeping /\ AuthorizedDescent /\ [Next]_vars => AuthorizedDescent'
  <2> SUFFICES ASSUME TypeOK, Bookkeeping, Known \subseteq Reported, [Next]_vars
               PROVE  (Known \subseteq Reported)'
    BY DEF AuthorizedDescent
  <2>1. ASSUME world' = world PROVE Reported' = Reported
    BY <2>1 DEF Reported, RootFails, Reached, Eligible, ConsumedBy, ShouldScan
  <2>2. CASE Still
    BY <2>1, <2>2 DEF Still, Known
  <2>3. ASSUME NEW k \in Folders, Expanding(k)
        PROVE  (Known \subseteq Reported)'
    <3> DEFINE kids == Children(k, seen)
    <3>1. /\ kids \in SUBSET Eligible(k)
          /\ pending' = (pending \ {k}) \cup kids
      BY <2>3, ExpandStep, WorldTyped DEF Expanding, Bookkeeping
    <3>2. ~RootFails /\ world.fate[k] = "expands" /\ (k = Root \/ k \in Reported)
      <4>1. CASE k = Root /\ ~RootFails
        <5>1. world.fate[Root] \in {"expands", "unlistable"}
          BY WorldsAssumption DEF TypeOK
        <5>2. QED
          BY <4>1, <5>1 DEF RootFails
      <4>2. CASE k \in pending /\ world.fate[k] = "expands"
        <5>1. k \in Reported
          BY <4>2 DEF Known
        <5>2. ~RootFails
          BY <5>1, <4>2 DEF Reported, RootFails
        <5>3. QED
          BY <4>2, <5>1, <5>2
      <4>3. QED
        BY <2>3, <4>1, <4>2 DEF Expanding
    <3>3. kids \subseteq Reported
      BY <3>1, <3>2, ChildReported
    <3>4. Known' \subseteq Known \cup kids
      BY <2>3, <3>1 DEF Expanding, Known
    <3> HIDE DEF kids
    <3>5. Reported' = Reported
      BY <2>1, <2>3 DEF Expanding
    <3>6. QED
      BY <3>3, <3>4, <3>5
  <2>4. ASSUME NEW k \in Folders, Closing(k)
        PROVE  (Known \subseteq Reported)'
    <3>1. k \in Reported
      BY <2>4 DEF Closing, Known, Reported
    <3>2. Known' \subseteq Known \cup {k} /\ Reported' = Reported
      BY <2>1, <2>4 DEF Closing, Record, Known
    <3>3. QED
      BY <3>1, <3>2
  <2>5. ASSUME NEW k \in Folders, Releasing(k)
        PROVE  (Known \subseteq Reported)'
    <3>1. Known' \subseteq Known /\ Reported' = Reported
      BY <2>1, <2>5 DEF Releasing, IsLeast, Known
    <3>2. QED
      BY <3>1
  <2>6. QED
    BY <2>2, <2>3, <2>4, <2>5, StepKinds
<1>3. QED
  BY <1>1, <1>2, TypeCorrect, BookkeepingInvariant, PTL DEF Spec

-----------------------------------------------------------------------------

(***************************************************************************)
(* What the coordinator knows of its own idleness: it counts to one only   *)
(* when the feed has stopped, so that its next gather() waits.             *)
(***************************************************************************)
Patience ==
  /\ pc # "aborted"
  /\ ~Pooled => queue = << >> /\ running = {}
  /\ \/ idle = 0
     \/ /\ idle = 1
        /\ ~fed
        /\ stack = << >>
        /\ pc \in {"release", "loop", "done", "interrupted"}

(***************************************************************************)
(* gather() is never called with nothing in the pool: it answers nothing   *)
(* only when it was fed, and is not fed any more.                          *)
(***************************************************************************)
LEMMA GatherFeeds ==
  ASSUME Bookkeeping, Patience, Gather
  PROVE  /\ finished = {} => fed /\ ~fed'
         /\ fed' => fed
<1>1. Booked # {}
  <2>1. CASE pc = "gather"
    BY <2>1 DEF Bookkeeping, Phases
  <2>2. CASE pc = "loop" /\ stack = << >> /\ pending # {}
    <3>1. Stacked = {}
      BY <2>2, EmptySeq DEF Stacked
    <3>2. QED
      BY <2>2, <3>1 DEF Bookkeeping, Partition, Phases
  <2>3. QED
    BY <2>1, <2>2 DEF Gather, AtGather
<1>2. ~Pooled => finished # {}
  BY <1>1, EmptySeq DEF Patience, Booked, Queued
<1>3. CASE GatherPoll
  <2>1. ~Pooled \/ fed
    BY <1>3, <1>1 DEF GatherPoll
  <2>2. fed' = FALSE
    BY <1>3, <1>1 DEF GatherPoll
  <2>3. QED
    BY <1>2, <2>1, <2>2
<1>4. CASE GatherWait
  BY <1>4 DEF GatherWait
<1>5. QED
  BY <1>3, <1>4 DEF Gather

(***************************************************************************)
(* An empty answer with an empty work list is given once.                  *)
(***************************************************************************)
LEMMA GatherPatient ==
  ASSUME TypeOK, Bookkeeping, Patience, Gather
  PROVE  Patience'
<1>1. pc = "gather" => idle = 0
  BY DEF Patience
<1>2. /\ finished = {} => fed /\ ~fed'
      /\ ~fed => ~fed'
  BY GatherFeeds
<1>3. finished = {} => idle = 0
  BY <1>2 DEF Patience
<1>4. idle' = IF finished # {} THEN 0 ELSE IF stack = << >> THEN 1 ELSE 0
  BY <1>3 DEF Gather, CountIdle
<1>5. ~(idle' > MaxIdleRounds)
  BY <1>4, PoolAssumption
<1>6. /\ stack' = stack /\ queue' = queue /\ running' = running
      /\ pc' = IF finished # {} THEN "absorb" ELSE "release"
  BY <1>5 DEF Gather, walkVars
<1>7. QED
  BY <1>2, <1>4, <1>6 DEF Patience

(***************************************************************************)
(* The coordinator never counts past one idle round.                       *)
(***************************************************************************)
LEMMA PatienceInvariant == Spec => []Patience
<1>1. Init => Patience
  BY DEF Init, Patience
<1>2. TypeOK /\ Bookkeeping /\ Patience /\ [Next]_vars => Patience'
  <2> SUFFICES ASSUME TypeOK, Bookkeeping, Patience, [Next]_vars
               PROVE  Patience'
    OBVIOUS
  <2>1. CASE ExpandRoot \/ FailRoot
    BY <2>1 DEF ExpandRoot, FailRoot, poolVars, Patience
  <2>2. ASSUME NEW k \in Folders, DispatchFails(k)
        PROVE  Patience'
    BY <2>2 DEF DispatchFails, NextUp, poolVars, Patience
  <2>3. ASSUME NEW k \in Folders, Dispatch(k)
        PROVE  Patience'
    BY <2>3 DEF Dispatch, NextUp, Submit, RunNow, Patience
  <2>4. CASE Gather
    BY <2>4, GatherPatient
  <2>5. ASSUME NEW k \in Folders, AbsorbClosed(k) \/ AbsorbOpen(k)
        PROVE  Patience'
    BY <2>5 DEF AbsorbClosed, AbsorbOpen, NextInBatch, poolVars, Patience
  <2>6. CASE ReleaseEnds \/ Finish \/ \E k \in Folders : ReleaseNext(k)
    BY <2>6 DEF ReleaseEnds, Finish, ReleaseNext, walkVars, poolVars, Patience
  <2>7. CASE StartWorker \/ \E k \in Folders : EndWorker(k)
    BY <2>7 DEF StartWorker, EndWorker, walkVars, Patience
  <2>8. CASE Interrupt
    BY <2>8 DEF Interrupt, walkVars, Patience
  <2>9. CASE Terminated \/ UNCHANGED vars
    BY <2>9 DEF Terminated, vars, walkVars, poolVars, Patience
  <2>10. QED
    BY <2>1, <2>2, <2>3, <2>4, <2>5, <2>6, <2>7, <2>8, <2>9
       DEF Next, Coordinator
<1>3. QED
  BY <1>1, <1>2, TypeCorrect, BookkeepingInvariant, PTL DEF Spec

(***************************************************************************)
(* The RuntimeError of walk_tree is unreachable.                           *)
(***************************************************************************)
THEOREM GiveUpUnreachable == Spec => []NeverGivesUp
<1>1. Patience => NeverGivesUp
  BY DEF Patience, NeverGivesUp
<1>2. QED
  BY <1>1, PatienceInvariant, PTL

-----------------------------------------------------------------------------

\* The loop starts a round with nothing left to release, and ends with
\* nothing left at all.
Settled ==
  /\ pc = "loop" => ~ \E k \in ready : IsLeast(k, ready) /\ BelowFloor(k)
  /\ pc = "done" => pending = {} /\ ready = {}

(***************************************************************************)
(* A round starts when the release loop found nothing more: with nothing   *)
(* pending, the least ready folder is below the floor, so there is none.   *)
(***************************************************************************)
LEMMA SettledInvariant == Spec => []Settled
<1>1. Init => Settled
  BY DEF Init, Settled
<1>2. TypeOK /\ Bookkeeping /\ Settled /\ [Next]_vars => Settled'
  <2> SUFFICES ASSUME TypeOK, Bookkeeping, Settled, [Next]_vars
               PROVE  Settled'
    OBVIOUS
  <2>1. CASE ReleaseEnds
    BY <2>1 DEF ReleaseEnds, walkVars, Settled, IsLeast, BelowFloor
  <2>2. CASE Finish
    <3>1. /\ pending = {} /\ pending' = {} /\ ready' = ready /\ pc' = "done"
          /\ ~ \E k \in ready : IsLeast(k, ready) /\ BelowFloor(k)
      BY <2>2 DEF Finish, walkVars, Settled
    <3>2. ~ \E k \in ready : IsLeast(k, ready)
      BY <3>1 DEF BelowFloor
    <3>3. ready \in SUBSET Key /\ IsFiniteSet(ready)
      BY FoldersAssumption, FS_Subset DEF TypeOK
    <3>4. ready = {}
      BY <3>2, <3>3, LeastExists DEF IsLeast
    <3>5. QED
      BY <3>1, <3>4 DEF Settled
  <2>3. CASE StartWorker \/ \E k \in Folders : EndWorker(k)
    BY <2>3 DEF StartWorker, EndWorker, walkVars, Settled, IsLeast, BelowFloor
  <2>4. CASE Terminated \/ UNCHANGED vars
    BY <2>4 DEF Terminated, vars, walkVars, Settled, IsLeast, BelowFloor
  <2>5. CASE ExpandRoot \/ FailRoot \/ Gather \/ Interrupt
    BY <2>5 DEF ExpandRoot, FailRoot, Gather, Interrupt, Settled
  <2>6. CASE \E k \in Folders : \/ DispatchFails(k) \/ Dispatch(k) \/ AbsorbClosed(k)
                                \/ AbsorbOpen(k) \/ ReleaseNext(k)
    BY <2>6 DEF DispatchFails, Dispatch, AbsorbClosed, AbsorbOpen, NextInBatch,
                ReleaseNext, Settled
  <2>7. QED
    BY <2>1, <2>2, <2>3, <2>4, <2>5, <2>6 DEF Next, Coordinator
<1>3. QED
  BY <1>1, <1>2, TypeCorrect, BookkeepingInvariant, PTL DEF Spec

(***************************************************************************)
(* No folder is lost or doubled, and nothing stays behind when the walk is *)
(* done.                                                                   *)
(***************************************************************************)
THEOREM NothingLost == Spec => []AccountedFor
<1>1. Bookkeeping /\ Settled => AccountedFor
  BY DEF Bookkeeping, Partition, Enrolled, DisjointFrames, Distinct, Settled,
         AccountedFor, Known
<1>2. QED
  BY <1>1, BookkeepingInvariant, SettledInvariant, PTL

-----------------------------------------------------------------------------
(***************************************************************************)
(* The refinement of ScanReport.                                           *)
(***************************************************************************)

\* The tree is found from the top: a known folder's parent is recorded, a
\* seen place is a known folder's, and a folder owed a report is recorded or
\* lies below a pending one.
Discovery ==
  /\ Unaliased
  /\ \A s \in seen : \E f \in Known \cup {Root} : world.place[f] = s
  /\ \A c \in Known \ {Root} :
       Parent(c) = Root \/ Parent(c) \in ready \cup Released
  /\ pc \notin {"start", "interrupted"} =>
       \A w \in Reported :
         w \in ready \cup Released \/ \E p \in pending : Within(w, p)

(***************************************************************************)
(* The first folder on the way from k down to w.                           *)
(***************************************************************************)
LEMMA FirstStepDown ==
  ASSUME NEW k \in Folders, NEW w \in Folders, Within(w, k), w # k
  PROVE  \E c \in Folders : IsChild(c, k) /\ Within(w, c) /\ Parent(c) = k /\ c # Root
<1> DEFINE n == Len(k) + 1
<1> DEFINE c == SubSeq(w, 1, n)
<1>1. k \in Key /\ w \in Key
  BY FoldersAssumption
<1>2. Len(k) \in Nat /\ Len(w) \in Nat
  BY <1>1, LenProperties DEF Key
<1>3. Len(k) # Len(w)
  <2> SUFFICES ASSUME Len(k) = Len(w) PROVE FALSE
    OBVIOUS
  <2>1. w = k
    BY <1>1, SeqEqual DEF Within, Key
  <2>2. QED
    BY <2>1
<1>4. n \in 0..Len(w) /\ n >= 1
  BY <1>2, <1>3 DEF Within
<1>5. c \in Folders
  BY <1>4, FoldersAssumption
<1>6. /\ Len(c) = n
      /\ \A j \in 1..n : c[j] = w[j]
  BY <1>1, <1>2, <1>4 DEF Key
<1>7. Within(w, c) /\ IsChild(c, k)
  BY <1>2, <1>4, <1>6 DEF Within, IsChild
<1>8. c \in Key
  BY <1>5, FoldersAssumption
<1>9. Parent(c) = k /\ c # Root
  BY <1>1, <1>7, <1>8, ParentOfChild
<1>10. QED
  BY <1>5, <1>7, <1>9

(***************************************************************************)
(* A folder owed a report below k: k let the walk down.                    *)
(***************************************************************************)
LEMMA DownThrough ==
  ASSUME TypeOK, NEW k \in Reported \cup {Root}, NEW w \in Reported,
         Within(w, k), w # k
  PROVE  /\ ~RootFails
         /\ world.fate[k] = "expands"
         /\ \E c \in Eligible(k) : Within(w, c) /\ Parent(c) = k /\ c # Root
<1>1. k \in Folders /\ w \in Folders
  BY WorldTyped DEF Reported
<1>2. PICK c \in Folders :
        IsChild(c, k) /\ Within(w, c) /\ Parent(c) = k /\ c # Root
  BY <1>1, FirstStepDown
<1>3. ~RootFails
  BY DEF Reported
<1>4. Reached(w)
  BY <1>3 DEF Reported
<1>5. world.fate[k] = "expands" /\ c \in Eligible(k)
  BY <1>2, <1>4 DEF Reached
<1>6. QED
  BY <1>2, <1>3, <1>5

(***************************************************************************)
(* Without aliases an expansion enqueues every eligible child: none of     *)
(* them was known, and none shares its directory with a sibling.           *)
(***************************************************************************)
LEMMA ExpandsWhole ==
  ASSUME TypeOK, Bookkeeping, AuthorizedDescent, Discovery,
         NEW k \in Folders, Expanding(k), NEW c \in Eligible(k)
  PROVE  c \in Children(k, seen)
<1>1. c \in Folders /\ c \in Key /\ k \in Key /\ IsChild(c, k)
  BY WorldTyped DEF Eligible
<1>2. Parent(c) = k /\ c # Root
  BY <1>1, ParentOfChild
<1>3. c \notin Known
  <2>1. CASE pc = "start"
    BY <2>1 DEF Bookkeeping, Phases
  <2>2. CASE k \in pending /\ world.fate[k] = "expands"
    <3>1. k \in Reported
      BY <2>2 DEF AuthorizedDescent, Known
    <3>2. k # Root
      BY <2>2, <3>1 DEF Reported, RootFails
    <3>3. k \notin ready \cup Released
      BY <2>2 DEF Bookkeeping, Enrolled
    <3>4. QED
      BY <1>2, <3>2, <3>3 DEF Discovery
  <2>3. QED
    BY <2>1, <2>2 DEF Expanding
<1>4. Known \subseteq Folders
  BY WorldTyped DEF AuthorizedDescent, Reported
<1>5. world.place[c] \notin seen
  <2> SUFFICES ASSUME world.place[c] \in seen PROVE FALSE
    OBVIOUS
  <2>1. PICK f \in Known \cup {Root} : world.place[f] = world.place[c]
    BY DEF Discovery
  <2>2. f = c
    BY <1>1, <1>4, <2>1, WorldTyped DEF Discovery, Unaliased
  <2>3. QED
    BY <1>2, <1>3, <2>1, <2>2
<1>6. ASSUME NEW d \in Eligible(k), KeyLess(d, c)
      PROVE  world.place[d] # world.place[c]
  <2>1. d \in Folders /\ d # c
    BY <1>1, <1>6, WorldTyped, KeyLessIrreflexive
  <2>2. QED
    BY <1>1, <2>1 DEF Discovery, Unaliased
<1>7. QED
  BY <1>5, <1>6 DEF Children

(***************************************************************************)
(* An expansion of k leaves no folder owed a report below k undiscovered.  *)
(***************************************************************************)
LEMMA ExpandDiscovers ==
  ASSUME TypeOK, Bookkeeping, AuthorizedDescent, Discovery,
         NEW k \in Folders, Expanding(k), NEW w \in Reported, Within(w, k), w # k
  PROVE  \E c \in pending' : Within(w, c)
<1>1. k \in Reported \cup {Root}
  BY DEF Expanding, AuthorizedDescent, Known
<1>2. PICK c \in Eligible(k) : Within(w, c)
  BY <1>1, DownThrough
<1>3. c \in Children(k, seen)
  BY ExpandsWhole
<1>4. c \in pending'
  BY <1>3, ExpandStep DEF Expanding, Bookkeeping
<1>5. QED
  BY <1>2, <1>4

(***************************************************************************)
(* Without aliases, discovery is complete at every step.                   *)
(***************************************************************************)
LEMMA DiscoveryStarts == Init /\ Unaliased => Discovery
<1> SUFFICES ASSUME Init, Unaliased PROVE Discovery
  OBVIOUS
<1>1. Known = {}
  BY EmptySeq DEF Init, Known, Released
<1>2. QED
  BY <1>1 DEF Init, Discovery

(***************************************************************************)
(* Expanding, closing and releasing folders keep discovery complete.       *)
(***************************************************************************)
LEMMA DiscoveryStep ==
  TypeOK /\ Bookkeeping /\ AuthorizedDescent /\ Discovery /\ [Next]_vars
    => Discovery'
<1> SUFFICES ASSUME TypeOK, Bookkeeping, AuthorizedDescent, Discovery, [Next]_vars
             PROVE  Discovery'
  OBVIOUS
<1>1. ASSUME world' = world
      PROVE  Unaliased' /\ Reported' = Reported
  BY <1>1 DEF Discovery, Unaliased, Reported, RootFails, Reached, Eligible,
              ConsumedBy, ShouldScan
<1>2. CASE /\ Still
           /\ pc' \notin {"start", "interrupted"} => pc \notin {"start", "interrupted"}
  BY <1>1, <1>2 DEF Still, Discovery, Known
<1>3. ASSUME NEW k \in Folders, Expanding(k), pc # "interrupted"
      PROVE  Discovery'
  <2> DEFINE kids == Children(k, seen)
  <2>1. /\ kids \in SUBSET Eligible(k)
        /\ pending' = (pending \ {k}) \cup kids
        /\ seen' = seen \cup {world.place[c] : c \in kids}
        /\ world' = world
        /\ Released' = Released
        /\ ready \subseteq ready'
        /\ k = Root \/ (k \in pending /\ ready' = ready \cup {k})
    BY <1>3, WorldTyped DEF Expanding, Expand
  <2>2. k # Root => k \in ready'
    BY <2>1
  <2>3. \A c \in kids : Parent(c) = k
    BY <2>1, WorldTyped, ParentOfChild DEF Eligible
  <2> HIDE DEF kids
  <2>4. (\A s \in seen : \E f \in Known \cup {Root} : world.place[f] = s)'
    <3>1. Known \cup kids \subseteq Known' \cup {Root}
      BY <2>1 DEF Known
    <3>2. QED
      BY <2>1, <3>1 DEF Discovery
  <2>5. (\A c \in Known \ {Root} :
           Parent(c) = Root \/ Parent(c) \in ready \cup Released)'
    <3>1. Known' \subseteq Known \cup kids
      BY <2>1, <1>3 DEF Known, Expanding
    <3>2. QED
      BY <2>1, <2>2, <2>3, <3>1 DEF Discovery
  <2>6. ASSUME NEW w \in Reported
        PROVE  w \in ready' \cup Released' \/ \E p \in pending' : Within(w, p)
    <3>1. CASE Within(w, k) /\ w # k
      BY <1>3, <3>1, ExpandDiscovers
    <3>2. CASE w = k /\ k # Root
      BY <2>2, <3>2
    <3>3. CASE w = k /\ k = Root
      <4>1. RootFails
        BY <3>3 DEF Reported
      <4>2. world.fate[k] # "expands"
        BY <3>3, <4>1 DEF RootFails
      <4>3. QED
        BY <1>3, <4>1, <4>2 DEF Expanding
    <3>4. CASE ~Within(w, k)
      <4>1. k # Root
        BY <3>4, EmptySeq, WorldTyped DEF Within, Root, Reported, Key
      <4>2. pc # "start"
        BY <1>3, <4>1 DEF Expanding, Bookkeeping, Phases, Known
      <4>3. QED
        BY <1>3, <2>1, <3>4, <4>2 DEF Discovery
    <3>5. QED
      BY <3>1, <3>2, <3>3, <3>4
  <2>7. QED
    BY <1>1, <2>1, <2>4, <2>5, <2>6 DEF Discovery
<1>4. ASSUME NEW k \in Folders, Closing(k), pc # "interrupted"
      PROVE  Discovery'
  <2>1. /\ pending' = pending \ {k}
        /\ ready' = ready \cup {k}
        /\ UNCHANGED <<world, seen>>
        /\ Released' = Released
    BY <1>4 DEF Closing, Record
  <2>2. Known \subseteq Known' /\ Known' \subseteq Known \cup {k}
    BY <2>1 DEF Known
  <2>3. k = Root \/ k \in Known
    BY <1>4 DEF Closing, Known
  <2>4. ASSUME NEW w \in Reported
        PROVE  w \in ready' \cup Released' \/ \E p \in pending' : Within(w, p)
    <3>1. k \in Reported
      BY <1>4 DEF Closing, Reported, AuthorizedDescent, Known
    <3>2. CASE Within(w, k) /\ w # k
      <4>1. world.fate[k] = "expands" /\ ~RootFails
        BY <3>1, <3>2, DownThrough
      <4>2. QED
        BY <1>4, <4>1 DEF Closing
    <3>3. CASE w = k
      BY <2>1, <3>3
    <3>4. CASE ~Within(w, k)
      <4>1. k # Root
        BY <3>4, EmptySeq, WorldTyped DEF Within, Root, Reported, Key
      <4>2. pc # "start"
        BY <1>4, <4>1 DEF Closing, Bookkeeping, Phases, Known
      <4>3. QED
        BY <1>4, <2>1, <3>4, <4>2 DEF Discovery
    <3>5. QED
      BY <3>2, <3>3, <3>4
  <2>5. QED
    BY <1>1, <2>1, <2>2, <2>3, <2>4 DEF Discovery
<1>5. ASSUME NEW k \in Folders, Releasing(k), pc # "interrupted"
      PROVE  Discovery'
  <2>1. /\ ready' \cup Released' = ready \cup Released
        /\ Known' = Known
        /\ UNCHANGED <<world, pending, seen>>
        /\ k \in ready
    BY <1>5 DEF Releasing, IsLeast, Known
  <2>2. pc # "start"
    BY <2>1 DEF Bookkeeping, Phases, Known
  <2>3. QED
    BY <1>1, <1>5, <2>1, <2>2 DEF Discovery
<1>6. QED
  BY <1>2, <1>3, <1>4, <1>5, StepKinds

(***************************************************************************)
(* The abstract report owes what the walk still has to print.              *)
(***************************************************************************)
LEMMA OwedFolders == Report!Owed = Reported \ Released
<1>1. \A k : Report!Eligible(k) = Eligible(k)
  BY DEF Report!Eligible, Eligible, Report!ConsumedBy, ConsumedBy,
         Report!ShouldScan, ShouldScan, Report!IsChild, IsChild,
         Report!Within, Within, Report!Root, Root
<1>2. \A f : Report!Reached(f) = Reached(f)
  BY <1>1 DEF Report!Reached, Reached, Report!Within, Within,
              Report!Parent, Parent, Report!Root, Root
<1>3. Report!RootFails = RootFails
  BY DEF Report!RootFails, RootFails, Report!Root, Root
<1>4. Report!Reported = Reported
  BY <1>2, <1>3 DEF Report!Reported, Reported, Report!Root, Root
<1>5. QED
  BY <1>4 DEF Report!Owed, Released

(***************************************************************************)
(* A released folder is the least the report still owes.                   *)
(***************************************************************************)
LEMMA ReleaseIsNext ==
  ASSUME TypeOK, Bookkeeping, AuthorizedDescent, Discovery,
         NEW k \in Folders, Releasing(k), pc = "release"
  PROVE  k \in Report!Owed /\ Report!IsLeast(k, Report!Owed)
<1>1. k \in Reported \ Released
  BY DEF Releasing, IsLeast, AuthorizedDescent, Known, Bookkeeping, Enrolled
<1>2. ASSUME NEW w \in (Reported \ Released) \ {k}
      PROVE  KeyLess(k, w)
  <2>1. CASE w \in ready
    BY <2>1 DEF Releasing, IsLeast
  <2>2. CASE w \notin ready
    <3>1. PICK p \in pending : Within(w, p)
      BY <2>2 DEF Discovery
    <3>2. p \in Key /\ w \in Key /\ k \in Key
      BY WorldTyped DEF TypeOK, Reported
    <3>3. KeyLess(k, p)
      BY <3>1 DEF Releasing, BelowFloor
    <3>4. p = w \/ KeyLess(p, w)
      BY <3>1, <3>2, WithinSortsAfter
    <3>5. QED
      BY <3>2, <3>3, <3>4, KeyLessTransitive
  <2>3. QED
    BY <2>1, <2>2
<1>3. \A a, b : Report!KeyLess(a, b) = KeyLess(a, b)
  BY DEF Report!KeyLess, KeyLess
<1>4. QED
  BY <1>1, <1>2, <1>3, OwedFolders DEF Report!IsLeast

(***************************************************************************)
(* With no directory reached by two paths, the walk implements the report: *)
(* whatever the dispatcher, the number of workers and the order in which   *)
(* they finish, the same folders are printed in the same order, all of     *)
(* them when the walk is done.                                             *)
(***************************************************************************)
THEOREM WalkImplementsReport == Spec /\ Unaliased => ImplementsReport
<1>1. Init => Report!Init
  BY EmptySeq DEF Init, Report!Init, ReportStatus
<1>2. /\ TypeOK /\ Bookkeeping /\ AuthorizedDescent /\ Discovery
      /\ NeverGivesUp' /\ Settled' /\ [Next]_vars
      => [Report!Next]_(Report!vars)
  <2> SUFFICES ASSUME TypeOK, Bookkeeping, AuthorizedDescent, Discovery,
                      NeverGivesUp', Settled', [Next]_vars
               PROVE  [Report!Next]_(Report!vars)
    OBVIOUS
  <2>1. ASSUME NEW k \in Folders, ReleaseNext(k)
        PROVE  Report!Next
    <3>1. Released' = Released \cup {k}
      BY <2>1, ListSteps DEF ReleaseNext
    <3>2. Releasing(k) /\ pc = "release"
      BY <2>1, <3>1 DEF ReleaseNext, Releasing
    <3>3. k \in Report!Owed /\ Report!IsLeast(k, Report!Owed)
      BY <3>2, ReleaseIsNext
    <3>4. Report!Grow
      BY <2>1, <3>3 DEF ReleaseNext, Report!Grow, ReportStatus
    <3>5. QED
      BY <3>4 DEF Report!Next
  <2>2. CASE Finish
    <3>1. pc = "loop" /\ pc' = "done" /\ UNCHANGED <<world, released>>
          /\ pending = {} /\ ready = {}
      BY <2>2 DEF Finish, walkVars, Settled
    <3>2. Report!Owed = {}
      BY <3>1, OwedFolders DEF Discovery
    <3>3. Report!Complete
      BY <3>1, <3>2 DEF Report!Complete, ReportStatus
    <3>4. QED
      BY <3>3 DEF Report!Next
  <2>3. CASE Interrupt
    <3>1. Report!Cut
      BY <2>3 DEF Interrupt, walkVars, Report!Cut, ReportStatus, NeverGivesUp
    <3>2. QED
      BY <3>1 DEF Report!Next
  <2>4. ASSUME UNCHANGED <<world, released>>,
               ReportStatus' = ReportStatus
        PROVE  UNCHANGED Report!vars
    BY <2>4 DEF Report!vars
  <2>5. CASE \/ ExpandRoot \/ FailRoot \/ Gather \/ ReleaseEnds
             \/ \E k \in Folders : \/ DispatchFails(k) \/ Dispatch(k)
                                  \/ AbsorbClosed(k) \/ AbsorbOpen(k)
    <3>1. UNCHANGED <<world, released>>
      BY <2>5 DEF ExpandRoot, FailRoot, Gather, ReleaseEnds, DispatchFails,
                  Dispatch, AbsorbClosed, AbsorbOpen, walkVars
    <3>2. /\ pc \in {"start", "loop", "gather", "absorb", "release"}
          /\ pc' \in {"start", "loop", "gather", "absorb", "release"}
      BY <2>5 DEF ExpandRoot, FailRoot, Gather, AtGather, ReleaseEnds,
                  DispatchFails, Dispatch, AbsorbClosed, AbsorbOpen,
                  NextInBatch, NeverGivesUp
    <3>3. ReportStatus' = ReportStatus
      BY <3>2 DEF ReportStatus
    <3>4. QED
      BY <2>4, <3>1, <3>3
  <2>6. CASE StartWorker \/ (\E k \in Folders : EndWorker(k)) \/ Terminated
             \/ UNCHANGED vars
    <3>1. UNCHANGED <<world, released, pc>>
      BY <2>6 DEF StartWorker, EndWorker, Terminated, vars, walkVars
    <3>2. QED
      BY <2>4, <3>1 DEF ReportStatus
  <2>7. QED
    BY <2>1, <2>2, <2>3, <2>5, <2>6 DEF Next, Coordinator
<1>3. QED
  BY <1>1, <1>2, DiscoveryStarts, DiscoveryStep, TypeCorrect, BookkeepingInvariant,
     DescentAuthorized, GiveUpUnreachable, SettledInvariant, PTL
     DEF Spec, ImplementsReport, Report!Spec


-----------------------------------------------------------------------------

(***************************************************************************)
(* What has been printed below a line is what was printed before it: there *)
(* are i - 1 folders below the i-th.                                       *)
(***************************************************************************)
LEMMA RankOfLine ==
  ASSUME TypeOK, ReportOrdered, NEW i \in 1..Len(released)
  PROVE  Cardinality({f \in Released : KeyLess(f, released[i])}) = i - 1
<1> DEFINE lower == {f \in Released : KeyLess(f, released[i])}
<1> DEFINE b == [j \in 1..(i - 1) |-> released[j]]
<1>1. /\ \A j \in 1..Len(released) : released[j] \in Key
      /\ Len(released) \in Nat
      /\ i \in Nat \ {0}
  BY FoldersAssumption, ElementOfSeq, LenProperties DEF TypeOK
<1>2. \A j \in 1..(i - 1) : j \in 1..Len(released) /\ j < i
  BY <1>1
<1>3. \A j, m \in 1..Len(released) :
        KeyLess(released[j], released[m]) => ~KeyLess(released[m], released[j])
  BY <1>1, KeyLessTransitive, KeyLessIrreflexive
<1>4. \A j \in 1..Len(released) :
        KeyLess(released[j], released[i]) => j \in 1..(i - 1)
  <2> SUFFICES ASSUME NEW j \in 1..Len(released),
                      KeyLess(released[j], released[i]),
                      ~(j < i)
               PROVE  FALSE
    BY <1>1
  <2>1. j = i \/ i < j
    BY <1>1
  <2>2. QED
    BY <1>1, <1>3, <2>1, KeyLessIrreflexive DEF ReportOrdered
<1>5. b \in [1..(i - 1) -> lower]
  BY <1>2 DEF Released, ReportOrdered
<1>6. \A j, m \in 1..(i - 1) : b[j] = b[m] => j = m
  <2> SUFFICES ASSUME NEW j \in 1..(i - 1), NEW m \in 1..(i - 1),
                      released[j] = released[m], j # m
               PROVE  FALSE
    OBVIOUS
  <2>1. j < m \/ m < j
    BY <1>1
  <2>2. QED
    BY <1>1, <1>2, <2>1, KeyLessIrreflexive DEF ReportOrdered
<1>7. \A f \in lower : \E j \in 1..(i - 1) : b[j] = f
  BY <1>4 DEF Released
<1> HIDE DEF b, lower
<1>8. b \in Bijection(1..(i - 1), lower)
  BY <1>5, <1>6, <1>7 DEF Bijection, Injection, Surjection, IsInjective
<1>9. ExistsBijection(1..(i - 1), lower)
  BY <1>8 DEF ExistsBijection
<1>10. IsFiniteSet(1..(i - 1)) /\ Cardinality(1..(i - 1)) = i - 1
  <2>1. 1 \in Int /\ i - 1 \in Int
    BY <1>1
  <2>2. /\ IsFiniteSet(1..(i - 1))
        /\ Cardinality(1..(i - 1)) = IF 1 > i - 1 THEN 0 ELSE i - 1 - 1 + 1
    BY <2>1, FS_Interval
  <2>3. (IF 1 > i - 1 THEN 0 ELSE i - 1 - 1 + 1) = i - 1
    BY <1>1
  <2>4. QED
    BY <2>2, <2>3
<1>11. Cardinality(lower) = i - 1
  BY <1>9, <1>10, FS_Bijection
<1>12. QED
  BY <1>11 DEF lower

(***************************************************************************)
(* Only an expansion writes a note.                                        *)
(***************************************************************************)
LEMMA NotesStep ==
  ASSUME TypeOK, Bookkeeping, [Next]_vars
  PROVE  /\ world' = world
         /\ noted' = noted \/ \E k \in Folders : Expanding(k)
<1>1. CASE ExpandRoot
  <2>1. Expanding(Root) /\ Root \in Folders
    BY <1>1, WorldTyped DEF ExpandRoot, Expanding, Released
  <2>2. QED
    BY <1>1, <2>1 DEF ExpandRoot
<1>2. ASSUME NEW k \in Folders, AbsorbOpen(k)
      PROVE  Expanding(k) /\ world' = world
  <2>1. k \in pending
    BY <1>2 DEF AbsorbOpen, NextInBatch, Bookkeeping, Partition
  <2>2. QED
    BY <1>2, <2>1 DEF AbsorbOpen, NextInBatch, Expanding, Released
<1>3. CASE FailRoot \/ Gather \/ ReleaseEnds \/ Finish \/ StartWorker \/ Interrupt
           \/ Terminated \/ UNCHANGED vars
  BY <1>3 DEF FailRoot, Gather, ReleaseEnds, Finish, StartWorker, Interrupt,
              Terminated, vars, walkVars
<1>4. CASE \E k \in Folders : \/ DispatchFails(k) \/ Dispatch(k) \/ AbsorbClosed(k)
                              \/ ReleaseNext(k) \/ EndWorker(k)
  BY <1>4 DEF DispatchFails, Dispatch, AbsorbClosed, ReleaseNext, EndWorker, walkVars
<1>5. QED
  BY <1>1, <1>2, <1>3, <1>4 DEF Next, Coordinator

\* Without aliases the walk discovers the whole tree and calls no folder
\* already walked.
Fresh ==
  Unaliased => Discovery /\ \A f \in Folders : noted[f] = {}

(***************************************************************************)
(* Every run over a tree without aliases stays fresh: the children that    *)
(* one expansion takes are all its folder has.                             *)
(***************************************************************************)
LEMMA FreshInvariant == Spec => []Fresh
<1>1. Init => Fresh
  BY DiscoveryStarts DEF Init, Fresh
<1>2. TypeOK /\ Bookkeeping /\ AuthorizedDescent /\ Fresh /\ [Next]_vars => Fresh'
  <2> SUFFICES ASSUME TypeOK, Bookkeeping, AuthorizedDescent, Fresh, [Next]_vars,
                      Unaliased'
               PROVE  Discovery' /\ \A f \in Folders : noted'[f] = {}
    BY DEF Fresh
  <2>1. Unaliased
    BY NotesStep DEF Unaliased
  <2>2. Discovery /\ \A f \in Folders : noted[f] = {}
    BY <2>1 DEF Fresh
  <2>3. Discovery'
    BY <2>2, DiscoveryStep
  <2>4. ASSUME NEW k \in Folders, Expanding(k), NEW f \in Folders
        PROVE  noted'[f] = {}
    <3>1. Eligible(k) \ Children(k, seen) = {}
      BY <2>2, <2>4, ExpandsWhole
    <3>2. noted' = [noted EXCEPT ![k] = Eligible(k) \ Children(k, seen)]
      BY <2>4 DEF Expanding, Expand
    <3>3. noted'[f] = IF f = k THEN {} ELSE noted[f]
      BY <3>1, <3>2 DEF TypeOK
    <3>4. QED
      BY <2>2, <3>3
  <2>5. QED
    BY <2>2, <2>3, <2>4, NotesStep
<1>3. QED
  BY <1>1, <1>2, TypeCorrect, BookkeepingInvariant, DescentAuthorized, PTL DEF Spec

(***************************************************************************)
(* The output of a finished walk is a function of the tree: same lines,    *)
(* each where its key puts it, at any number of workers and in any order   *)
(* of completion.                                                          *)
(***************************************************************************)
THEOREM OutputOfTheTree == Spec => []OutputDetermined
<1>1. TypeOK /\ ReportOrdered /\ AuthorizedDescent /\ Settled /\ Fresh => OutputDetermined
  <2> SUFFICES ASSUME TypeOK, ReportOrdered, AuthorizedDescent, Settled, Fresh,
                      pc = "done", Unaliased
               PROVE  /\ Released = Reported
                      /\ \A i \in 1..Len(released) :
                           Cardinality({f \in Reported : KeyLess(f, released[i])}) = i - 1
                      /\ \A f \in Folders : noted[f] = {}
    BY DEF OutputDetermined
  <2>1. pending = {} /\ ready = {}
    BY DEF Settled
  <2>2. Released = Reported
    BY <2>1 DEF Fresh, Discovery, AuthorizedDescent, Known
  <2>3. QED
    BY <2>2, RankOfLine DEF Fresh
<1>2. QED
  BY <1>1, TypeCorrect, OrderKept, DescentAuthorized, SettledInvariant, FreshInvariant,
     PTL

-----------------------------------------------------------------------------
(***************************************************************************)
(* Every step uses fuel.                                                   *)
(***************************************************************************)

\* The sets the fuel counts are finite.
Countable ==
  /\ IsFiniteSet(Unknown) /\ Cardinality(Unknown) \in Nat
  /\ IsFiniteSet(Stacked) /\ Cardinality(Stacked) \in Nat
  /\ IsFiniteSet(Queued) /\ Cardinality(Queued) \in Nat
  /\ IsFiniteSet(running) /\ Cardinality(running) \in Nat
  /\ IsFiniteSet(finished) /\ Cardinality(finished) \in Nat
  /\ IsFiniteSet(batch) /\ Cardinality(batch) \in Nat
  /\ IsFiniteSet(ready) /\ Cardinality(ready) \in Nat

(***************************************************************************)
(* They are sets of folders.                                               *)
(***************************************************************************)
LEMMA FoldersCounted == TypeOK => Countable
<1> SUFFICES ASSUME TypeOK PROVE Countable
  OBVIOUS
<1>1. \A S \in SUBSET Folders : IsFiniteSet(S) /\ Cardinality(S) \in Nat
  BY FoldersAssumption, FS_Subset, FS_CardinalityType
<1>2. Stacked \in SUBSET Folders /\ Queued \in SUBSET Folders
  BY ElementOfSeq DEF TypeOK, Stacked, Queued
<1>3. Unknown \in SUBSET Folders
  BY DEF Unknown
<1>4. QED
  BY <1>1, <1>2, <1>3 DEF TypeOK, Countable

(***************************************************************************)
(* Moving d out of a set, or into one.                                     *)
(***************************************************************************)
LEMMA OneOut ==
  ASSUME NEW S, IsFiniteSet(S), NEW d \in S
  PROVE  Cardinality(S \ {d}) = Cardinality(S) - 1
BY FS_RemoveElement

LEMMA OneIn ==
  ASSUME NEW S, IsFiniteSet(S), NEW d, d \notin S
  PROVE  Cardinality(S \cup {d}) = Cardinality(S) + 1
BY FS_AddElement

(***************************************************************************)
(* An expansion turns unknown folders into stacked ones, and its own       *)
(* folder into a recorded one.                                             *)
(***************************************************************************)
LEMMA ExpandCounts ==
  ASSUME TypeOK, Bookkeeping, NEW k \in Folders, Expand(k),
         Released' = Released, ready' = ready \/ ready' = ready \cup {k},
         k \in pending => ready' = ready \cup {k},
         ready' = ready \cup {k} => k \in pending
  PROVE  \E n \in Nat :
           /\ Cardinality(Unknown') = Cardinality(Unknown) - n
           /\ Cardinality(Stacked') = Cardinality(Stacked) + n
<1> DEFINE kids == Children(k, seen)
<1>1. /\ kids \in SUBSET Folders
      /\ kids \cap Known = {}
      /\ pending' = (pending \ {k}) \cup kids
      /\ Stacked' = Stacked \cup kids
  BY ExpandStep DEF Bookkeeping
<1> HIDE DEF kids
<1>2. Known' = Known \cup kids
  BY <1>1 DEF Known
<1>3. IsFiniteSet(kids) /\ Cardinality(kids) \in Nat
  BY <1>1, FoldersAssumption, FS_Subset, FS_CardinalityType
<1>4. Countable
  BY FoldersCounted
<1>5. Unknown' = Unknown \ kids
      /\ Unknown \cap kids = kids
  BY <1>1, <1>2 DEF Unknown
<1>6. Stacked \cap kids = {}
  BY <1>1 DEF Bookkeeping, Partition, Known
<1>7. Cardinality(Unknown') = Cardinality(Unknown) - Cardinality(kids)
  <2>1. Cardinality(Unknown \ kids) = Cardinality(Unknown) - Cardinality(Unknown \cap kids)
    BY <1>4, FS_Difference DEF Countable
  <2>2. QED
    BY <1>5, <2>1
<1>8. Cardinality(Stacked') = Cardinality(Stacked) + Cardinality(kids)
  <2>1. Cardinality(Stacked \cup kids)
          = Cardinality(Stacked) + Cardinality(kids) - Cardinality({})
    BY <1>3, <1>4, <1>6, FS_Union DEF Countable
  <2>2. Cardinality({}) = 0
    BY FS_EmptySet
  <2>3. QED
    BY <1>1, <1>3, <1>4, <2>1, <2>2 DEF Countable
<1>9. QED
  BY <1>3, <1>7, <1>8

(***************************************************************************)
(* A step of the loop or of the pool leaves less to do, whatever the       *)
(* schedule: the walk cannot run for ever, and gather() cannot spin.       *)
(***************************************************************************)
THEOREM EveryStepCounts == Spec => Dwindles
<1>1. /\ TypeOK /\ Bookkeeping /\ Patience /\ Patience'
      /\ [Next]_vars
      => [Fuel' < Fuel]_vars
  <2> SUFFICES ASSUME TypeOK, Bookkeeping, Patience, Patience', [Next]_vars
               PROVE  [Fuel' < Fuel]_vars
    OBVIOUS
  <2>1. Countable
    BY FoldersCounted
  <2> USE <2>1 DEF Countable
  <2>2. CASE ExpandRoot
    <3>1. Expand(Root) /\ Root \in Folders /\ Root \notin pending
          /\ pc = "start" /\ pc' = "release"
          /\ UNCHANGED <<ready, released, queue, running, finished, fed, batch>>
      BY <2>2, WorldTyped DEF ExpandRoot, poolVars, Bookkeeping, Phases, Known
    <3>2. Released' = Released /\ Queued' = Queued
      BY <3>1, ListSteps
    <3>3. Root \notin ready
      BY <3>1 DEF Bookkeeping, Phases, Known
    <3>4. PICK n \in Nat :
            /\ Cardinality(Unknown') = Cardinality(Unknown) - n
            /\ Cardinality(Stacked') = Cardinality(Stacked) + n
      BY <3>1, <3>2, <3>3, ExpandCounts
    <3>5. RoundLeft = 5 /\ RoundLeft' = 2
      BY <3>1 DEF RoundLeft
    <3>6. PollsLeft \in 0..2 /\ PollsLeft' = PollsLeft
      BY <3>1 DEF PollsLeft
    <3>7. QED
      BY <3>1, <3>2, <3>4, <3>5, <3>6 DEF Fuel
  <2>3. CASE FailRoot
    <3>1. Root \in Folders /\ Known = {} /\ pc = "start" /\ pc' = "release"
          /\ pending' = pending \ {Root} /\ ready' = ready \cup {Root}
          /\ UNCHANGED <<stack, released, queue, running, finished, fed, batch>>
      BY <2>3, WorldTyped DEF FailRoot, Record, poolVars, Bookkeeping, Phases
    <3>2. Released' = Released /\ Stacked' = Stacked /\ Queued' = Queued
      BY <3>1, ListSteps
    <3>3. Unknown' = Unknown \ {Root} /\ Root \in Unknown
          /\ Root \notin ready
      BY <3>1, <3>2 DEF Unknown, Known
    <3>4. Cardinality(Unknown') = Cardinality(Unknown) - 1
          /\ Cardinality(ready') = Cardinality(ready) + 1
      BY <3>1, <3>3, OneIn, OneOut
    <3>5. RoundLeft = 5 /\ RoundLeft' = 2
      BY <3>1 DEF RoundLeft
    <3>6. PollsLeft \in 0..2 /\ PollsLeft' = PollsLeft
      BY <3>1 DEF PollsLeft
    <3>7. QED
      BY <3>1, <3>2, <3>4, <3>5, <3>6 DEF Fuel
  <2>4. ASSUME NEW k \in Folders, NextUp(k), stack' = Pop(k)
        PROVE  k \in Stacked /\ Cardinality(Stacked') = Cardinality(Stacked) - 1
    <3>1. k \in Stacked /\ Stacked' = Stacked \ {k}
      BY <2>4, PopStep DEF Bookkeeping
    <3>2. QED
      BY <3>1, OneOut
  <2>5. ASSUME NEW k \in Folders, DispatchFails(k)
        PROVE  Fuel' < Fuel
    <3>1. pc = "loop" /\ pc' = "release" /\ NextUp(k) /\ stack' = Pop(k)
          /\ pending' = pending \ {k} /\ ready' = ready \cup {k}
          /\ UNCHANGED <<released, queue, running, finished, fed, batch>>
      BY <2>5 DEF DispatchFails, Record, poolVars
    <3>2. k \in Stacked /\ Cardinality(Stacked') = Cardinality(Stacked) - 1
      BY <2>4, <3>1
    <3>3. k \in pending /\ k \notin ready
      BY <3>2 DEF Bookkeeping, Partition, Enrolled
    <3>4. Cardinality(ready') = Cardinality(ready) + 1
      BY <3>1, <3>3, OneIn
    <3>5. Unknown' = Unknown /\ Queued' = Queued
      BY <3>1, <3>3, ListSteps DEF Unknown, Known
    <3>6. RoundLeft = 1 /\ RoundLeft' = 2
      BY <3>1 DEF RoundLeft
    <3>7. PollsLeft \in 0..2 /\ PollsLeft' = PollsLeft
      BY <3>1 DEF PollsLeft
    <3>8. /\ Cardinality(Unknown') = Cardinality(Unknown)
          /\ Cardinality(Queued') = Cardinality(Queued)
          /\ Cardinality(running') = Cardinality(running)
          /\ Cardinality(finished') = Cardinality(finished)
          /\ Cardinality(batch') = Cardinality(batch)
      BY <3>1, <3>5
    <3>9. QED
      BY <3>2, <3>4, <3>6, <3>7, <3>8 DEF Fuel
  <2>6. ASSUME NEW k \in Folders, Dispatch(k)
        PROVE  Fuel' < Fuel
    <3>1. pc = "loop" /\ pc' = "gather" /\ NextUp(k) /\ stack' = Pop(k)
          /\ UNCHANGED <<pending, ready, released, running, batch>>
      BY <2>6 DEF Dispatch
    <3>2. k \in Stacked /\ Cardinality(Stacked') = Cardinality(Stacked) - 1
      BY <2>4, <3>1
    <3>3. Unknown' = Unknown
      BY <3>1, ListSteps DEF Unknown, Known
    <3>4. CASE Submit(k)
      <4>1. queue' = Append(queue, k) /\ finished' = finished /\ fed' = TRUE
        BY <3>4 DEF Submit
      <4>2. Queued' = Queued \cup {k} /\ k \notin Queued
        BY <3>2, <4>1, ListSteps DEF Bookkeeping, Partition, Booked
      <4>3. Cardinality(Queued') = Cardinality(Queued) + 1
        BY <4>2, OneIn
      <4>4. RoundLeft = 1 /\ RoundLeft' = 4
        BY <3>1 DEF RoundLeft
      <4>5. PollsLeft \in 0..2 /\ PollsLeft' = 2
        BY <4>1 DEF PollsLeft
      <4>6. /\ Cardinality(Unknown') = Cardinality(Unknown)
            /\ Cardinality(running') = Cardinality(running)
            /\ Cardinality(finished') = Cardinality(finished)
            /\ Cardinality(batch') = Cardinality(batch)
            /\ Cardinality(ready') = Cardinality(ready)
        BY <3>1, <3>3, <4>1
      <4>7. QED
        BY <3>2, <4>3, <4>4, <4>5, <4>6 DEF Fuel
    <3>5. CASE RunNow(k)
      <4>1. Queued' = Queued /\ fed' = fed /\ finished' = finished \cup {k}
            /\ k \notin finished
        BY <3>2, <3>5, ListSteps DEF RunNow, Bookkeeping, Partition, Booked
      <4>2. Cardinality(finished') = Cardinality(finished) + 1
        BY <4>1, OneIn
      <4>3. RoundLeft = 1 /\ RoundLeft' = 4
        BY <3>1 DEF RoundLeft
      <4>4. PollsLeft \in 0..2 /\ PollsLeft' = PollsLeft
        BY <4>1 DEF PollsLeft
      <4>5. QED
        BY <3>1, <3>2, <3>3, <4>1, <4>2, <4>3, <4>4 DEF Fuel
    <3>6. QED
      BY <2>6, <3>4, <3>5 DEF Dispatch
  <2>7. CASE Gather
    <3>1. /\ pc \in {"gather", "loop"}
          /\ batch' = finished /\ finished' = {} /\ batch = {}
          /\ UNCHANGED <<stack, pending, ready, released, queue, running>>
      BY <2>7 DEF Gather, AtGather, walkVars, Bookkeeping, Phases
    <3>2. Stacked' = Stacked /\ Queued' = Queued /\ Unknown' = Unknown
      BY <3>1, ListSteps DEF Unknown, Known
    <3>3. Cardinality({}) = 0 /\ (finished # {} => Cardinality(finished) >= 1)
      BY FS_EmptySet
    <3>4. /\ finished # {} => pc' = "absorb"
          /\ finished = {} => pc' = "release"
      BY <2>7 DEF Gather, Patience
    <3>5. /\ finished = {} => fed /\ ~fed'
          /\ fed' => fed
      BY <2>7, GatherFeeds
    <3>6. PollsLeft \in {0, 2} /\ PollsLeft' \in {0, 2}
          /\ PollsLeft' <= PollsLeft
          /\ (finished = {} => PollsLeft' = PollsLeft - 2)
      BY <3>5 DEF PollsLeft
    <3>7. /\ RoundLeft \in {4, 1}
          /\ RoundLeft' = IF finished = {} THEN 2 ELSE 3
      BY <3>1, <3>4 DEF RoundLeft
    <3>8. /\ Cardinality(Unknown') = Cardinality(Unknown)
          /\ Cardinality(Stacked') = Cardinality(Stacked)
          /\ Cardinality(Queued') = Cardinality(Queued)
          /\ Cardinality(running') = Cardinality(running)
          /\ Cardinality(ready') = Cardinality(ready)
          /\ Cardinality(batch') = Cardinality(finished)
          /\ Cardinality(batch) = 0 /\ Cardinality(finished') = 0
          /\ finished = {} => Cardinality(finished) = 0
      BY <3>1, <3>2, <3>3
    <3>9. CASE finished = {}
      <4>1. RoundLeft' = 2 /\ PollsLeft' = PollsLeft - 2 /\ Cardinality(finished) = 0
        BY <3>6, <3>7, <3>8, <3>9
      <4>2. QED
        BY <3>6, <3>7, <3>8, <4>1 DEF Fuel
    <3>10. CASE finished # {}
      <4>1. RoundLeft' = 3 /\ Cardinality(finished) >= 1
        BY <3>3, <3>7, <3>10
      <4>2. QED
        BY <3>6, <3>7, <3>8, <4>1 DEF Fuel
    <3>11. QED
      BY <3>9, <3>10
  <2>8. ASSUME NEW k, NextInBatch(k)
        PROVE  Cardinality(batch') = Cardinality(batch) - 1
    BY <2>8, OneOut DEF NextInBatch
  <2>9. ASSUME NEW k \in Folders, AbsorbClosed(k)
        PROVE  Fuel' < Fuel
    <3>1. pc = "absorb" /\ pc' \in {"absorb", "release"} /\ NextInBatch(k)
          /\ pending' = pending \ {k} /\ ready' = ready \cup {k}
          /\ UNCHANGED <<stack, released, queue, running, finished, fed>>
      BY <2>9 DEF AbsorbClosed, NextInBatch, Record, poolVars
    <3>2. k \in pending /\ k \notin ready
      BY <3>1 DEF NextInBatch, Bookkeeping, Partition, Enrolled
    <3>3. Cardinality(ready') = Cardinality(ready) + 1
      BY <3>1, <3>2, OneIn
    <3>4. Unknown' = Unknown /\ Stacked' = Stacked /\ Queued' = Queued
      BY <3>1, <3>2, ListSteps DEF Unknown, Known
    <3>5. RoundLeft = 3 /\ RoundLeft' \in {2, 3}
      BY <3>1 DEF RoundLeft
    <3>6. PollsLeft \in 0..2 /\ PollsLeft' = PollsLeft
      BY <3>1 DEF PollsLeft
    <3>7. QED
      BY <2>8, <3>1, <3>3, <3>4, <3>5, <3>6 DEF Fuel
  <2>10. ASSUME NEW k \in Folders, AbsorbOpen(k)
         PROVE  Fuel' < Fuel
    <3>1. pc = "absorb" /\ pc' \in {"absorb", "release"} /\ NextInBatch(k)
          /\ ready' = ready \cup {k} /\ Expand(k)
          /\ UNCHANGED <<released, queue, running, finished, fed>>
      BY <2>10 DEF AbsorbOpen, NextInBatch, poolVars
    <3>2. k \in pending /\ k \notin ready
      BY <3>1 DEF NextInBatch, Bookkeeping, Partition, Enrolled
    <3>3. Cardinality(ready') = Cardinality(ready) + 1
      BY <3>1, <3>2, OneIn
    <3>4. Released' = Released /\ Queued' = Queued
      BY <3>1, ListSteps
    <3>5. PICK n \in Nat :
            /\ Cardinality(Unknown') = Cardinality(Unknown) - n
            /\ Cardinality(Stacked') = Cardinality(Stacked) + n
      BY <3>1, <3>2, <3>4, ExpandCounts
    <3>6. RoundLeft = 3 /\ RoundLeft' \in {2, 3}
      BY <3>1 DEF RoundLeft
    <3>7. PollsLeft \in 0..2 /\ PollsLeft' = PollsLeft
      BY <3>1 DEF PollsLeft
    <3>8. QED
      BY <2>8, <3>1, <3>3, <3>4, <3>5, <3>6, <3>7 DEF Fuel
  <2>11. ASSUME NEW k \in Folders, ReleaseNext(k)
         PROVE  Fuel' < Fuel
    <3>1. pc' = pc /\ ready' = ready \ {k} /\ k \in ready
          /\ released' = Append(released, k)
          /\ UNCHANGED <<stack, pending, queue, running, finished, fed, batch>>
      BY <2>11 DEF ReleaseNext, IsLeast, poolVars
    <3>2. Cardinality(ready') = Cardinality(ready) - 1
      BY <3>1, OneOut
    <3>3. Unknown' = Unknown /\ Stacked' = Stacked /\ Queued' = Queued
      BY <3>1, ListSteps DEF Unknown, Known
    <3>4. RoundLeft \in Nat /\ RoundLeft' = RoundLeft
      BY <3>1 DEF RoundLeft
    <3>5. PollsLeft \in 0..2 /\ PollsLeft' = PollsLeft
      BY <3>1 DEF PollsLeft
    <3>6. /\ Cardinality(Unknown') = Cardinality(Unknown)
          /\ Cardinality(Stacked') = Cardinality(Stacked)
          /\ Cardinality(Queued') = Cardinality(Queued)
          /\ Cardinality(running') = Cardinality(running)
          /\ Cardinality(finished') = Cardinality(finished)
          /\ Cardinality(batch') = Cardinality(batch)
      BY <3>1, <3>3
    <3>7. QED
      BY <3>2, <3>4, <3>5, <3>6 DEF Fuel
  <2>12. CASE ReleaseEnds \/ Finish
    <3>1. /\ \/ pc = "release" /\ pc' = "loop"
             \/ pc = "loop" /\ pc' = "done"
          /\ UNCHANGED <<stack, pending, ready, released, queue, running, finished,
                         fed, batch>>
      BY <2>12 DEF ReleaseEnds, Finish, walkVars, poolVars
    <3>2. Unknown' = Unknown /\ Stacked' = Stacked /\ Queued' = Queued
      BY <3>1, ListSteps DEF Unknown, Known
    <3>3. RoundLeft = RoundLeft' + 1 /\ RoundLeft' \in Nat
      BY <3>1 DEF RoundLeft
    <3>4. PollsLeft \in 0..2 /\ PollsLeft' = PollsLeft
      BY <3>1 DEF PollsLeft
    <3>5. QED
      BY <3>1, <3>2, <3>3, <3>4 DEF Fuel
  <2>13. CASE StartWorker
    <3>1. UNCHANGED <<pc, stack, pending, ready, released, finished, fed, batch>>
          /\ queue # << >> /\ queue' = Tail(queue)
          /\ running' = running \cup {Head(queue)}
      BY <2>13 DEF StartWorker, walkVars
    <3>2. /\ Head(queue) \in Queued /\ Head(queue) \notin running
          /\ Queued' = Queued \ {Head(queue)}
      BY <3>1, ListSteps DEF Bookkeeping, Partition
    <3>3. Cardinality(Queued') = Cardinality(Queued) - 1
      BY <3>2, OneOut
    <3>4. Cardinality(running') = Cardinality(running) + 1
      BY <3>1, <3>2, OneIn
    <3>5. Unknown' = Unknown /\ Stacked' = Stacked
      BY <3>1, ListSteps DEF Unknown, Known
    <3>6. RoundLeft \in Nat /\ RoundLeft' = RoundLeft
      BY <3>1 DEF RoundLeft
    <3>7. PollsLeft \in 0..2 /\ PollsLeft' = PollsLeft
      BY <3>1 DEF PollsLeft
    <3>8. /\ Cardinality(Unknown') = Cardinality(Unknown)
          /\ Cardinality(Stacked') = Cardinality(Stacked)
          /\ Cardinality(finished') = Cardinality(finished)
          /\ Cardinality(batch') = Cardinality(batch)
          /\ Cardinality(ready') = Cardinality(ready)
      BY <3>1, <3>5
    <3>9. QED
      BY <3>3, <3>4, <3>6, <3>7, <3>8 DEF Fuel
  <2>14. ASSUME NEW k \in Folders, EndWorker(k)
         PROVE  Fuel' < Fuel
    <3>1. UNCHANGED <<pc, stack, pending, ready, released, queue, fed, batch>>
          /\ k \in running /\ running' = running \ {k}
          /\ finished' = finished \cup {k}
      BY <2>14 DEF EndWorker, walkVars
    <3>2. k \notin finished
      BY <3>1 DEF Bookkeeping, Partition
    <3>3. Cardinality(running') = Cardinality(running) - 1
          /\ Cardinality(finished') = Cardinality(finished) + 1
      BY <3>1, <3>2, OneIn, OneOut
    <3>4. Unknown' = Unknown /\ Stacked' = Stacked /\ Queued' = Queued
      BY <3>1, ListSteps DEF Unknown, Known
    <3>5. RoundLeft \in Nat /\ RoundLeft' = RoundLeft
      BY <3>1 DEF RoundLeft
    <3>6. PollsLeft \in 0..2 /\ PollsLeft' = PollsLeft
      BY <3>1 DEF PollsLeft
    <3>7. QED
      BY <3>1, <3>3, <3>4, <3>5, <3>6 DEF Fuel
  <2>15. CASE Interrupt
    <3>1. UNCHANGED <<stack, pending, ready, released, running, finished, fed, batch>>
          /\ pc \notin {"done", "aborted", "interrupted"} /\ pc' = "interrupted"
          /\ queue' = << >>
      BY <2>15 DEF Interrupt, walkVars
    <3>2. Cardinality(Queued') = 0
      BY <3>1, ListSteps, FS_EmptySet
    <3>3. Unknown' = Unknown /\ Stacked' = Stacked
      BY <3>1, ListSteps DEF Unknown, Known
    <3>4. pc \in {"start", "gather", "absorb", "release", "loop"}
      BY <3>1 DEF TypeOK, PCs
    <3>5. RoundLeft \in 1..5 /\ RoundLeft' = 0
      BY <3>1, <3>4 DEF RoundLeft
    <3>6. PollsLeft \in 0..2 /\ PollsLeft' = PollsLeft
      BY <3>1, <3>4 DEF PollsLeft
    <3>7. /\ Cardinality(Unknown') = Cardinality(Unknown)
          /\ Cardinality(Stacked') = Cardinality(Stacked)
          /\ Cardinality(running') = Cardinality(running)
          /\ Cardinality(finished') = Cardinality(finished)
          /\ Cardinality(batch') = Cardinality(batch)
          /\ Cardinality(ready') = Cardinality(ready)
      BY <3>1, <3>3
    <3>8. QED
      BY <3>2, <3>5, <3>6, <3>7 DEF Fuel
  <2>16. CASE Terminated \/ UNCHANGED vars
    BY <2>16 DEF Terminated
  <2>17. QED
    BY <2>2, <2>3, <2>5, <2>6, <2>7, <2>9, <2>10, <2>11, <2>12, <2>13, <2>14,
       <2>15, <2>16 DEF Next, Coordinator
<1>2. QED
  BY <1>1, TypeCorrect, BookkeepingInvariant, PatienceInvariant, PTL
     DEF Spec, Dwindles

=============================================================================
