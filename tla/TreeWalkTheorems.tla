-------------------------- MODULE TreeWalkTheorems --------------------------
(***************************************************************************)
(* What holds of walk_tree for every tree, every world, every number of    *)
(* workers and every schedule.                                             *)
(***************************************************************************)
EXTENDS TreeWalk, MergeKeyTheorems

(***************************************************************************)
(* Frames of the work list: taking one folder off the top.                 *)
(***************************************************************************)
FramesOf(s) == UNION {s[i] : i \in 1..Len(s)}

DisjointFrames(s) == \A i, j \in 1..Len(s) : i # j => s[i] \cap s[j] = {}

\* The work list s after its next folder, k, was taken.
Popped(s, k) ==
  IF s[Len(s)] = {k} THEN SubSeq(s, 1, Len(s) - 1)
                     ELSE [s EXCEPT ![Len(s)] = @ \ {k}]

\* The work list t is s without its last frame, or with the last frame less k.
Shortened(t, s) ==
  Len(t) = Len(s) - 1 /\ \A i \in 1..(Len(s) - 1) : t[i] = s[i]

Thinned(t, s, k) ==
  /\ Len(t) = Len(s)
  /\ \A i \in 1..Len(s) : t[i] = IF i = Len(s) THEN s[Len(s)] \ {k} ELSE s[i]

\* The work list s after the frame f was pushed.
Pushed(s, f) == IF f = {} THEN s ELSE Append(s, f)

(***************************************************************************)
(* The work list after a pop, frame by frame.                              *)
(***************************************************************************)
LEMMA PopShape ==
  ASSUME NEW S, NEW s \in Seq((SUBSET S) \ {{}}), s # << >>,
         NEW k \in s[Len(s)]
  PROVE  /\ Popped(s, k) \in Seq((SUBSET S) \ {{}})
         /\ s[Len(s)] = {k} => Shortened(Popped(s, k), s)
         /\ s[Len(s)] # {k} => Thinned(Popped(s, k), s, k)
<1> DEFINE n == Len(s)
<1> DEFINE F == (SUBSET S) \ {{}}
<1>1. n \in Nat \ {0} /\ s \in Seq(F) /\ \A i \in 1..n : s[i] \in F
  BY EmptySeq, ElementOfSeq
<1>2. CASE s[n] = {k}
  <2> HIDE DEF F
  <2>1. n - 1 \in Int /\ \A i \in 1..(n - 1) : s[i] \in F
    BY <1>1
  <2>2. /\ SubSeq(s, 1, n - 1) \in Seq(F)
        /\ Len(SubSeq(s, 1, n - 1)) = IF 1 <= n - 1 THEN n - 1 - 1 + 1 ELSE 0
        /\ \A i \in 1..(n - 1 - 1 + 1) : SubSeq(s, 1, n - 1)[i] = s[1 + i - 1]
    BY <2>1, SubSeqProperties
  <2>3. \A m \in Nat \ {0} :
          /\ m - 1 - 1 + 1 = m - 1
          /\ (IF 1 <= m - 1 THEN m - 1 - 1 + 1 ELSE 0) = m - 1
    OBVIOUS
  <2>4. \A i \in 1..(n - 1) : 1 + i - 1 = i
    OBVIOUS
  <2>5. n - 1 - 1 + 1 = n - 1
        /\ (IF 1 <= n - 1 THEN n - 1 - 1 + 1 ELSE 0) = n - 1
    BY <1>1, <2>3
  <2>6. /\ SubSeq(s, 1, n - 1) \in Seq(F)
        /\ Len(SubSeq(s, 1, n - 1)) = n - 1
        /\ \A i \in 1..(n - 1) : SubSeq(s, 1, n - 1)[i] = s[i]
    BY <2>2, <2>4, <2>5
  <2>7. QED
    BY <1>2, <2>6 DEF F, Popped, Shortened
<1>3. CASE s[n] # {k}
  <2> DEFINE e == s[n] \ {k}
  <2>1. n \in 1..Len(s) /\ e \in F
    BY <1>1, <1>3
  <2> HIDE DEF F, e
  <2>2. /\ [s EXCEPT ![n] = e] \in Seq(F)
        /\ Len([s EXCEPT ![n] = e]) = Len(s)
        /\ \A i \in 1..Len(s) : [s EXCEPT ![n] = e][i] = IF i = n THEN e ELSE s[i]
    BY <1>1, <2>1, ExceptSeq
  <2>3. QED
    BY <1>3, <2>2 DEF F, e, Popped, Thinned
<1>4. QED
  BY <1>2, <1>3

(***************************************************************************)
(* Popping the next folder leaves the rest of the work list as it was.     *)
(***************************************************************************)
LEMMA PopFrame ==
  ASSUME NEW S, NEW s \in Seq((SUBSET S) \ {{}}), s # << >>, DisjointFrames(s),
         NEW k \in s[Len(s)]
  PROVE  /\ DisjointFrames(Popped(s, k))
         /\ FramesOf(Popped(s, k)) = FramesOf(s) \ {k}
<1> DEFINE t == Popped(s, k)
<1> DEFINE n == Len(s)
<1>1. /\ s[n] = {k} => Shortened(t, s)
      /\ s[n] # {k} => Thinned(t, s, k)
  BY PopShape
<1>2. n \in Nat \ {0}
  BY EmptySeq
<1>3. \A i \in 1..n : i # n => k \notin s[i]
  BY <1>2 DEF DisjointFrames
<1>4. CASE s[n] = {k}
  <2>1. Len(t) = n - 1 /\ \A i \in 1..(n - 1) : t[i] = s[i]
    BY <1>4, <1>1 DEF Shortened
  <2>2. DisjointFrames(t)
    BY <2>1, <1>2 DEF DisjointFrames
  <2>3. ASSUME NEW x \in FramesOf(t)
        PROVE  x \in FramesOf(s) \ {k}
    BY <2>1, <1>2, <1>3 DEF FramesOf
  <2>4. ASSUME NEW x \in FramesOf(s) \ {k}
        PROVE  x \in FramesOf(t)
    <3>1. PICK i \in 1..n : x \in s[i]
      BY DEF FramesOf
    <3>2. i \in 1..Len(t) /\ t[i] = s[i]
      BY <3>1, <1>4, <2>1, <1>2
    <3>3. QED
      BY <3>1, <3>2 DEF FramesOf
  <2>5. QED
    BY <2>2, <2>3, <2>4
<1>5. CASE s[n] # {k}
  <2>1. /\ Len(t) = n
        /\ \A i \in 1..n : t[i] = IF i = n THEN s[n] \ {k} ELSE s[i]
    BY <1>5, <1>1 DEF Thinned
  <2>2. \A i \in 1..n : t[i] = s[i] \ {k}
    BY <2>1, <1>3
  <2>3. DisjointFrames(t)
    BY <2>1, <2>2 DEF DisjointFrames
  <2>4. FramesOf(t) = FramesOf(s) \ {k}
    BY <2>1, <2>2 DEF FramesOf
  <2>5. QED
    BY <2>3, <2>4
<1>6. QED
  BY <1>4, <1>5

(***************************************************************************)
(* Pushing the children of one expansion adds exactly them.                *)
(***************************************************************************)
LEMMA PushFrame ==
  ASSUME NEW F, NEW s \in Seq(F), NEW f, f = {} \/ f \in F
  PROVE  /\ FramesOf(Pushed(s, f)) = FramesOf(s) \cup f
         /\ DisjointFrames(s) /\ f \cap FramesOf(s) = {} =>
              DisjointFrames(Pushed(s, f))
<1> DEFINE t == Pushed(s, f)
<1>1. CASE f = {}
  BY <1>1 DEF Pushed
<1>2. CASE f # {}
  <2>1. /\ Len(t) = Len(s) + 1
        /\ \A i \in 1..Len(s) : t[i] = s[i]
        /\ t[Len(s) + 1] = f
        /\ Len(s) \in Nat
    BY <1>2, AppendProperties, LenProperties DEF Pushed
  <2> HIDE DEF t
  <2>2. \A i \in 1..Len(t) : i = Len(s) + 1 \/ i \in 1..Len(s)
    BY <2>1
  <2>3. ASSUME DisjointFrames(s), f \cap FramesOf(s) = {}
        PROVE  DisjointFrames(t)
    <3>1. \A i \in 1..Len(s) : f \cap s[i] = {}
      BY <2>3 DEF FramesOf
    <3>2. QED
      BY <2>1, <2>2, <2>3, <3>1 DEF DisjointFrames
  <2>4. FramesOf(t) = FramesOf(s) \cup f
    <3>1. ASSUME NEW x \in FramesOf(t)
          PROVE  x \in FramesOf(s) \cup f
      BY <2>1, <2>2 DEF FramesOf
    <3>2. ASSUME NEW x \in FramesOf(s)
          PROVE  x \in FramesOf(t)
      <4>1. PICK i \in 1..Len(s) : x \in s[i]
        BY DEF FramesOf
      <4>2. i \in 1..Len(t) /\ t[i] = s[i]
        BY <2>1
      <4>3. QED
        BY <4>1, <4>2 DEF FramesOf
    <3>3. ASSUME NEW x \in f
          PROVE  x \in FramesOf(t)
      <4>1. Len(s) + 1 \in 1..Len(t) /\ x \in t[Len(s) + 1]
        BY <2>1, <3>3
      <4>2. QED
        BY <4>1 DEF FramesOf
    <3>4. QED
      BY <3>1, <3>2, <3>3
  <2>5. QED
    BY <2>3, <2>4 DEF t
<1>3. QED
  BY <1>1, <1>2

-----------------------------------------------------------------------------

(***************************************************************************)
(* What a state of the right types says about the world and the children   *)
(* of a folder.                                                            *)
(***************************************************************************)
LEMMA WorldTyped ==
  ASSUME TypeOK
  PROVE  /\ world \in World
         /\ \A k \in Folders : k \in Key
         /\ \A k \in Folders : world.place[k] \in Places
         /\ Root \in Folders
         /\ \A k \in Folders : Eligible(k) \in SUBSET Folders
         /\ \A k \in Folders : Children(k, seen) \in SUBSET Eligible(k)
<1>1. world \in World /\ Folders \subseteq Key /\ Root \in Folders
  BY WorldsAssumption, FoldersAssumption DEF TypeOK
<1>2. \A k \in Folders : world.place[k] \in Places
  BY <1>1 DEF World
<1>3. QED
  BY <1>1, <1>2 DEF Eligible, Children

(***************************************************************************)
(* An expansion keeps the walk's own variables in their types.             *)
(***************************************************************************)
LEMMA ExpandTyped ==
  ASSUME TypeOK, NEW k \in Folders, Expand(k)
  PROVE  /\ pending' \in SUBSET Folders
         /\ stack' \in Seq((SUBSET Folders) \ {{}})
         /\ seen' \in SUBSET Places
         /\ noted' \in [Folders -> SUBSET Folders]
<1> DEFINE kids == Children(k, seen)
<1> DEFINE F == (SUBSET Folders) \ {{}}
<1>1. kids \in SUBSET Folders /\ Eligible(k) \in SUBSET Folders
      /\ \A c \in kids : world.place[c] \in Places
  BY WorldTyped
<1>2. stack' \in Seq(F)
  <2>1. stack' = IF kids = {} THEN stack ELSE Append(stack, kids)
    BY DEF Expand, Push
  <2>2. stack \in Seq(F)
    BY DEF TypeOK
  <2>3. kids # {} => kids \in F
    BY <1>1
  <2> HIDE DEF kids, F
  <2>4. QED
    BY <2>1, <2>2, <2>3, AppendProperties
<1>3. pending' \in SUBSET Folders /\ seen' \in SUBSET Places
  BY <1>1 DEF Expand, TypeOK
<1>4. noted' \in [Folders -> SUBSET Folders]
  BY <1>1 DEF Expand, TypeOK
<1>5. QED
  BY <1>2, <1>3, <1>4

(***************************************************************************)
(* Every variable of the walk keeps its type, and the work list never      *)
(* holds an empty frame.                                                   *)
(***************************************************************************)
THEOREM TypeCorrect == Spec => []TypeOK
<1>1. Init => TypeOK
  <2> SUFFICES ASSUME Init PROVE TypeOK
    OBVIOUS
  <2>1. world \in World /\ Root \in Folders
    BY WorldsAssumption, FoldersAssumption DEF Init
  <2>2. world.place[Root] \in Places
    BY <2>1 DEF World
  <2>3. stack \in Seq((SUBSET Folders) \ {{}}) /\ released \in Seq(Folders)
        /\ queue \in Seq(Folders)
    BY EmptySeq DEF Init
  <2>4. seen \in SUBSET Places /\ noted \in [Folders -> SUBSET Folders]
    BY <2>2 DEF Init
  <2>5. QED
    BY <2>3, <2>4 DEF Init, TypeOK, PCs
<1>2. TypeOK /\ [Next]_vars => TypeOK'
  <2> SUFFICES ASSUME TypeOK, [Next]_vars PROVE TypeOK'
    OBVIOUS
  <2> USE DEF PCs
  <2>1. CASE ExpandRoot
    <3>1. Expand(Root) /\ Root \in Folders
      BY <2>1, WorldTyped DEF ExpandRoot
    <3>2. QED
      BY <2>1, <3>1, ExpandTyped DEF ExpandRoot, poolVars, TypeOK
  <2>2. CASE FailRoot
    BY <2>2, WorldTyped DEF FailRoot, Record, poolVars, TypeOK
  <2>3. ASSUME NEW k \in Folders, NextUp(k), stack' = Pop(k)
        PROVE  stack' \in Seq((SUBSET Folders) \ {{}})
    <3>1. /\ stack \in Seq((SUBSET Folders) \ {{}})
          /\ stack # << >>
          /\ k \in stack[Len(stack)]
          /\ stack' = Popped(stack, k)
      BY <2>3 DEF TypeOK, NextUp, IsLeast, Pop, Popped
    <3>2. QED
      BY <3>1, PopShape
  <2>4. ASSUME NEW k \in Folders, DispatchFails(k)
        PROVE  TypeOK'
    BY <2>4, <2>3 DEF DispatchFails, Record, poolVars, TypeOK
  <2>5. ASSUME NEW k \in Folders, Dispatch(k)
        PROVE  TypeOK'
    <3>1. stack' \in Seq((SUBSET Folders) \ {{}})
      BY <2>5, <2>3 DEF Dispatch
    <3>2. CASE Submit(k)
      BY <2>5, <3>1, <3>2, AppendProperties DEF Dispatch, Submit, TypeOK
    <3>3. CASE RunNow(k)
      BY <2>5, <3>1, <3>3 DEF Dispatch, RunNow, TypeOK
    <3>4. QED
      BY <2>5, <3>2, <3>3 DEF Dispatch
  <2>6. CASE Gather
    <3>1. fed' \in BOOLEAN
      BY <2>6 DEF Gather, GatherPoll, GatherWait, TypeOK
    <3>2. idle' \in Nat
      BY <2>6 DEF Gather, CountIdle, TypeOK
    <3>3. QED
      BY <2>6, <3>1, <3>2 DEF Gather, walkVars, TypeOK
  <2>7. ASSUME NEW k \in Folders, AbsorbClosed(k)
        PROVE  TypeOK'
    BY <2>7 DEF AbsorbClosed, NextInBatch, Record, poolVars, TypeOK
  <2>8. ASSUME NEW k \in Folders, AbsorbOpen(k)
        PROVE  TypeOK'
    <3>1. Expand(k)
      BY <2>8 DEF AbsorbOpen
    <3>2. QED
      BY <2>8, <3>1, ExpandTyped DEF AbsorbOpen, NextInBatch, poolVars, TypeOK
  <2>9. ASSUME NEW k \in Folders, ReleaseNext(k)
        PROVE  TypeOK'
    BY <2>9, AppendProperties DEF ReleaseNext, poolVars, TypeOK
  <2>10. CASE ReleaseEnds
    BY <2>10 DEF ReleaseEnds, walkVars, poolVars, TypeOK
  <2>11. CASE Finish
    BY <2>11 DEF Finish, walkVars, poolVars, TypeOK
  <2>12. CASE StartWorker
    BY <2>12, HeadTailProperties DEF StartWorker, walkVars, TypeOK
  <2>13. ASSUME NEW k \in Folders, EndWorker(k)
        PROVE  TypeOK'
    BY <2>13 DEF EndWorker, walkVars, TypeOK
  <2>14. CASE Interrupt
    BY <2>14 DEF Interrupt, walkVars, TypeOK
  <2>15. CASE Terminated \/ UNCHANGED vars
    BY <2>15 DEF Terminated, vars, walkVars, poolVars, TypeOK
  <2>16. QED
    BY <2>1, <2>2, <2>4, <2>5, <2>6, <2>7, <2>8, <2>9, <2>10, <2>11, <2>12,
       <2>13, <2>14, <2>15 DEF Next, Coordinator
<1>3. QED
  BY <1>1, <1>2, PTL DEF Spec

-----------------------------------------------------------------------------
(* Where the folders are: the bookkeeping of walk_tree and PoolDispatcher. *)
(* Every folder is in one place at a time, and no folder is enqueued twice *)
(* because its physical directory is in seen_real_paths from then on.      *)

(***************************************************************************)
(* Sequences without repetition, as sets of items.                         *)
(***************************************************************************)
Items(q) == {q[i] : i \in 1..Len(q)}

Distinct(q) == \A i, j \in 1..Len(q) : i # j => q[i] # q[j]

(***************************************************************************)
(* Appending a new item adds it and repeats nothing.                       *)
(***************************************************************************)
LEMMA AppendItem ==
  ASSUME NEW S, NEW q \in Seq(S), NEW x \in S
  PROVE  /\ Items(Append(q, x)) = Items(q) \cup {x}
         /\ Distinct(q) /\ x \notin Items(q) => Distinct(Append(q, x))
<1> DEFINE t == Append(q, x)
<1>1. /\ Len(t) = Len(q) + 1
      /\ \A i \in 1..Len(q) : t[i] = q[i]
      /\ t[Len(q) + 1] = x
      /\ Len(q) \in Nat
  BY AppendProperties, LenProperties
<1> HIDE DEF t
<1>2. \A i \in 1..Len(t) : i = Len(q) + 1 \/ i \in 1..Len(q)
  BY <1>1
<1>3. \A i \in 1..Len(q) : i \in 1..Len(t)
  BY <1>1
<1>4. Len(q) + 1 \in 1..Len(t)
  BY <1>1
<1>5. Items(t) = Items(q) \cup {x}
  <2>1. ASSUME NEW y \in Items(t) PROVE y \in Items(q) \cup {x}
    BY <1>1, <1>2 DEF Items
  <2>2. ASSUME NEW y \in Items(q) PROVE y \in Items(t)
    BY <1>1, <1>3 DEF Items
  <2>3. x \in Items(t)
    BY <1>1, <1>4 DEF Items
  <2>4. QED
    BY <2>1, <2>2, <2>3
<1>6. ASSUME Distinct(q), x \notin Items(q) PROVE Distinct(t)
  BY <1>1, <1>2, <1>6 DEF Distinct, Items
<1>7. QED
  BY <1>5, <1>6 DEF t

(***************************************************************************)
(* Taking the first item leaves the others.                                *)
(***************************************************************************)
LEMMA TakeHead ==
  ASSUME NEW S, NEW q \in Seq(S), q # << >>, Distinct(q)
  PROVE  /\ Head(q) \in Items(q)
         /\ Items(Tail(q)) = Items(q) \ {Head(q)}
         /\ Distinct(Tail(q))
<1> DEFINE t == Tail(q)
<1>1. /\ Len(q) \in Nat \ {0}
      /\ Len(t) = Len(q) - 1
      /\ \A i \in 1..Len(t) : t[i] = q[i + 1]
      /\ Head(q) = q[1]
  BY HeadTailProperties, EmptySeq, LenProperties
<1> HIDE DEF t
<1>2. \A i \in 1..Len(t) : i + 1 \in 1..Len(q) /\ i + 1 # 1
  BY <1>1
<1>3. \A j \in 1..Len(q) : j = 1 \/ (j - 1 \in 1..Len(t) /\ (j - 1) + 1 = j)
  BY <1>1
<1>4. 1 \in 1..Len(q)
  BY <1>1
<1>5. ASSUME NEW y \in Items(t) PROVE y \in Items(q) \ {Head(q)}
  BY <1>1, <1>2, <1>4 DEF Items, Distinct
<1>6. ASSUME NEW y \in Items(q) \ {Head(q)} PROVE y \in Items(t)
  <2>1. PICK j \in 1..Len(q) : y = q[j] /\ j # 1
    BY <1>1 DEF Items
  <2>2. j - 1 \in 1..Len(t) /\ t[j - 1] = q[j]
    BY <2>1, <1>1, <1>3
  <2>3. QED
    BY <2>1, <2>2 DEF Items
<1>7. ASSUME NEW i \in 1..Len(t), NEW j \in 1..Len(t), i # j
      PROVE  t[i] # t[j]
  <2>1. i + 1 \in 1..Len(q) /\ j + 1 \in 1..Len(q) /\ i + 1 # j + 1
    BY <1>7, <1>2
  <2>2. QED
    BY <2>1, <1>1 DEF Distinct
<1>8. Head(q) \in Items(q)
  BY <1>1, <1>4 DEF Items
<1>9. QED
  BY <1>5, <1>6, <1>7, <1>8 DEF Distinct, t

-----------------------------------------------------------------------------

(***************************************************************************)
(* The invariant, in three parts.                                          *)
(***************************************************************************)

\* Every pending folder is in the work list, the pool or the batch, and in
\* only one of them (an interrupted pool has dropped its queue).
Partition ==
  /\ Stacked \cup Booked \cup batch \subseteq pending
  /\ pc # "interrupted" => pending = Stacked \cup Booked \cup batch
  /\ DisjointFrames(stack)
  /\ Distinct(queue)
  /\ Stacked \cap (Booked \cup batch) = {}
  /\ Queued \cap (running \cup finished \cup batch) = {}
  /\ running \cap (finished \cup batch) = {}
  /\ finished \cap batch = {}

\* A folder passes from pending to ready to released, and its place is seen
\* as long as the run lasts.
Enrolled ==
  /\ pending \cap (ready \cup Released) = {}
  /\ ready \cap Released = {}
  /\ world.place[Root] \in seen
  /\ \A f \in Known : world.place[f] \in seen

\* What the coordinator's place in its loop says about the rest.
Phases ==
  /\ pc = "start" => Known = {} /\ ~fed /\ idle = 0
  /\ pc \notin {"absorb", "interrupted"} => batch = {}
  /\ pc = "gather" => Booked # {}

Bookkeeping == Partition /\ Enrolled /\ Phases

(***************************************************************************)
(* What one step does to the work list, the queue and the report.          *)
(***************************************************************************)
LEMMA ListSteps ==
  ASSUME TypeOK
  PROVE  /\ stack' = stack => Stacked' = Stacked
         /\ queue' = queue => Queued' = Queued
         /\ released' = released => Released' = Released
         /\ queue' = << >> => Queued' = {} /\ Distinct(queue')
         /\ \A k \in Folders : queue' = Append(queue, k) =>
               /\ Queued' = Queued \cup {k}
               /\ Distinct(queue) /\ k \notin Queued => Distinct(queue')
         /\ \A k \in Folders : released' = Append(released, k) =>
               Released' = Released \cup {k}
         /\ queue # << >> /\ queue' = Tail(queue) /\ Distinct(queue) =>
               /\ Head(queue) \in Queued
               /\ Queued' = Queued \ {Head(queue)}
               /\ Distinct(queue')
<1>1. stack' = stack => Stacked' = Stacked
  BY DEF Stacked
<1>2. queue' = queue => Queued' = Queued
  BY DEF Queued
<1>3. released' = released => Released' = Released
  BY DEF Released
<1>4. queue' = << >> => Queued' = {} /\ Distinct(queue')
  BY EmptySeq DEF Queued, Distinct
<1>5. queue \in Seq(Folders) /\ released \in Seq(Folders)
  BY DEF TypeOK
<1>6. ASSUME NEW k \in Folders, queue' = Append(queue, k)
      PROVE  /\ Queued' = Queued \cup {k}
             /\ Distinct(queue) /\ k \notin Queued => Distinct(queue')
  <2>1. Queued = Items(queue) /\ Queued' = Items(Append(queue, k))
    BY <1>6 DEF Queued, Items
  <2>2. QED
    BY <2>1, <1>5, <1>6, AppendItem
<1>7. ASSUME NEW k \in Folders, released' = Append(released, k)
      PROVE  Released' = Released \cup {k}
  <2>1. Released = Items(released) /\ Released' = Items(Append(released, k))
    BY <1>7 DEF Released, Items
  <2>2. QED
    BY <2>1, <1>5, AppendItem
<1>8. ASSUME queue # << >>, queue' = Tail(queue), Distinct(queue)
      PROVE  /\ Head(queue) \in Queued
             /\ Queued' = Queued \ {Head(queue)}
             /\ Distinct(queue')
  <2>1. Queued = Items(queue) /\ Queued' = Items(Tail(queue))
    BY <1>8 DEF Queued, Items
  <2>2. QED
    BY <2>1, <1>5, <1>8, TakeHead
<1>9. QED
  BY <1>1, <1>2, <1>3, <1>4, <1>6, <1>7, <1>8

(***************************************************************************)
(* The next folder comes off the work list, and only it.                   *)
(***************************************************************************)
LEMMA PopStep ==
  ASSUME TypeOK, Partition, NEW k \in Folders, NextUp(k), stack' = Pop(k)
  PROVE  /\ k \in Stacked
         /\ Stacked' = Stacked \ {k}
         /\ DisjointFrames(stack')
<1>1. /\ stack \in Seq((SUBSET Folders) \ {{}})
      /\ stack # << >>
      /\ k \in stack[Len(stack)]
      /\ DisjointFrames(stack)
      /\ stack' = Popped(stack, k)
  BY DEF TypeOK, NextUp, IsLeast, Pop, Popped, Partition
<1>2. DisjointFrames(stack') /\ FramesOf(stack') = FramesOf(stack) \ {k}
  BY <1>1, PopFrame
<1>3. Len(stack) \in 1..Len(stack)
  BY <1>1, EmptySeq, LenProperties
<1>4. k \in Stacked
  BY <1>1, <1>3 DEF Stacked
<1>5. Stacked = FramesOf(stack) /\ Stacked' = FramesOf(stack')
  BY DEF Stacked, FramesOf
<1>6. QED
  BY <1>2, <1>4, <1>5

(***************************************************************************)
(* An expansion enqueues folders nothing knew of.                          *)
(***************************************************************************)
LEMMA ExpandStep ==
  ASSUME TypeOK, Partition, Enrolled, NEW k \in Folders, Expand(k)
  PROVE  /\ Children(k, seen) \in SUBSET Folders
         /\ Children(k, seen) \cap Known = {}
         /\ pending' = (pending \ {k}) \cup Children(k, seen)
         /\ Stacked' = Stacked \cup Children(k, seen)
         /\ DisjointFrames(stack')
         /\ seen \subseteq seen'
         /\ \A c \in Children(k, seen) : world.place[c] \in seen'
<1> DEFINE kids == Children(k, seen)
<1>1. kids \in SUBSET Folders
  BY WorldTyped
<1>2. kids \cap Known = {}
  BY DEF Children, Enrolled
<1>3. kids \cap Stacked = {}
  BY <1>2 DEF Partition, Known
<1>4. /\ stack' = Pushed(stack, kids)
      /\ stack \in Seq((SUBSET Folders) \ {{}})
      /\ DisjointFrames(stack)
  BY DEF Expand, Push, Pushed, TypeOK, Partition
<1>5. Stacked = FramesOf(stack) /\ Stacked' = FramesOf(stack')
  BY DEF Stacked, FramesOf
<1> HIDE DEF kids
<1>6. DisjointFrames(stack') /\ FramesOf(stack') = FramesOf(stack) \cup kids
  <2>1. kids \cap FramesOf(stack) = {}
    BY <1>3, <1>5
  <2>2. kids = {} \/ kids \in (SUBSET Folders) \ {{}}
    BY <1>1
  <2>3. QED
    BY <1>4, <2>1, <2>2, PushFrame
<1>7. QED
  BY <1>1, <1>2, <1>5, <1>6 DEF kids, Expand

(***************************************************************************)
(* Nothing is enqueued, in flight or reported before the first step.       *)
(***************************************************************************)
LEMMA BookkeepingStarts == Init => Bookkeeping
<1> SUFFICES ASSUME Init PROVE Bookkeeping
  OBVIOUS
<1>1. Stacked = {} /\ Queued = {} /\ Released = {}
  BY EmptySeq DEF Init, Stacked, Queued, Released
<1>2. DisjointFrames(stack) /\ Distinct(queue)
  BY EmptySeq DEF Init, DisjointFrames, Distinct
<1>3. QED
  BY <1>1, <1>2 DEF Init, Bookkeeping, Partition, Enrolled, Phases, Known, Booked

(***************************************************************************)
(* Every step of the coordinator and of the pool keeps the books straight. *)
(***************************************************************************)
LEMMA BookkeepingStep == TypeOK /\ Bookkeeping /\ [Next]_vars => Bookkeeping'
<1> SUFFICES ASSUME TypeOK, Partition, Enrolled, Phases, [Next]_vars
             PROVE  Bookkeeping'
  BY DEF Bookkeeping
<1> USE DEF Bookkeeping, Known, Booked
<1>1. CASE ExpandRoot
  <2>1. Expand(Root) /\ Root \in Folders
    BY <1>1, WorldTyped DEF ExpandRoot
  <2>2. UNCHANGED <<world, ready, released, queue, running, finished, fed, batch, idle>>
        /\ pc = "start" /\ pc' = "release"
    BY <1>1 DEF ExpandRoot, poolVars
  <2>3. Queued' = Queued /\ Released' = Released
    BY <2>2, ListSteps
  <2>4. Partition'
    BY <2>1, <2>2, <2>3, ExpandStep DEF Partition, Phases
  <2>5. Enrolled'
    BY <2>1, <2>2, <2>3, ExpandStep DEF Enrolled
  <2>6. Phases'
    BY <2>2 DEF Phases
  <2>7. QED
    BY <2>4, <2>5, <2>6
<1>2. CASE FailRoot
  <2>1. UNCHANGED <<world, stack, released, seen, queue, running, finished, fed, batch, idle>>
        /\ pc = "start" /\ pc' = "release"
        /\ pending' = pending \ {Root} /\ ready' = ready \cup {Root}
    BY <1>2 DEF FailRoot, Record, poolVars
  <2>2. Stacked' = Stacked /\ Queued' = Queued /\ Released' = Released
    BY <2>1, ListSteps
  <2>3. Partition'
    BY <2>1, <2>2 DEF Partition, Phases
  <2>4. Enrolled'
    BY <2>1, <2>2 DEF Enrolled, Phases
  <2>5. Phases'
    BY <2>1 DEF Phases
  <2>6. QED
    BY <2>3, <2>4, <2>5
<1>3. ASSUME NEW k \in Folders, DispatchFails(k)
      PROVE  Bookkeeping'
  <2>1. UNCHANGED <<world, released, seen, queue, running, finished, fed, batch, idle>>
        /\ pc = "loop" /\ pc' = "release"
        /\ pending' = pending \ {k} /\ ready' = ready \cup {k}
        /\ NextUp(k) /\ stack' = Pop(k)
    BY <1>3 DEF DispatchFails, Record, poolVars
  <2>2. k \in Stacked /\ Stacked' = Stacked \ {k} /\ DisjointFrames(stack')
    BY <2>1, PopStep
  <2>3. Queued' = Queued /\ Released' = Released
    BY <2>1, ListSteps
  <2>4. Partition'
    BY <2>1, <2>2, <2>3 DEF Partition
  <2>5. Enrolled'
    BY <2>1, <2>2, <2>3 DEF Enrolled, Partition
  <2>6. Phases'
    BY <2>1 DEF Phases
  <2>7. QED
    BY <2>4, <2>5, <2>6
<1>4. ASSUME NEW k \in Folders, Dispatch(k)
      PROVE  Bookkeeping'
  <2>1. UNCHANGED <<world, pending, ready, released, seen, running, batch, idle>>
        /\ pc = "loop" /\ pc' = "gather"
        /\ NextUp(k) /\ stack' = Pop(k)
    BY <1>4 DEF Dispatch
  <2>2. k \in Stacked /\ Stacked' = Stacked \ {k} /\ DisjointFrames(stack')
    BY <2>1, PopStep
  <2>3. Released' = Released /\ Enrolled'
    BY <2>1, ListSteps DEF Enrolled
  <2>4. CASE Submit(k)
    <3>1. queue' = Append(queue, k) /\ finished' = finished
      BY <2>4 DEF Submit
    <3>2. Queued' = Queued \cup {k} /\ Distinct(queue')
      BY <3>1, <2>2, ListSteps DEF Partition
    <3>3. QED
      BY <2>1, <2>2, <2>3, <3>1, <3>2 DEF Partition, Phases
  <2>5. CASE RunNow(k)
    <3>1. queue' = queue /\ finished' = finished \cup {k} /\ Queued' = Queued
      BY <2>5, ListSteps DEF RunNow
    <3>2. QED
      BY <2>1, <2>2, <2>3, <3>1 DEF Partition, Phases
  <2>6. QED
    BY <1>4, <2>4, <2>5 DEF Dispatch
<1>5. CASE Gather
  <2>1. UNCHANGED <<world, stack, pending, ready, released, seen, queue, running>>
        /\ pc \in {"gather", "loop"}
        /\ batch' = finished /\ finished' = {}
        /\ pc' = IF finished # {} THEN "absorb"
                 ELSE IF idle' > MaxIdleRounds THEN "aborted" ELSE "release"
    BY <1>5 DEF Gather, AtGather, walkVars
  <2>2. Stacked' = Stacked /\ Queued' = Queued /\ Released' = Released
    BY <2>1, ListSteps
  <2>3. Partition'
    BY <2>1, <2>2 DEF Partition, Phases
  <2>4. Enrolled'
    BY <2>1, <2>2 DEF Enrolled
  <2>5. Phases'
    BY <2>1 DEF Phases
  <2>6. QED
    BY <2>3, <2>4, <2>5
<1>6. ASSUME NEW k \in Folders, AbsorbClosed(k)
      PROVE  Bookkeeping'
  <2>1. UNCHANGED <<world, stack, released, seen, queue, running, finished, fed, idle>>
        /\ pc = "absorb" /\ k \in batch /\ batch' = batch \ {k}
        /\ pc' = (IF batch = {k} THEN "release" ELSE "absorb")
        /\ pending' = pending \ {k} /\ ready' = ready \cup {k}
    BY <1>6 DEF AbsorbClosed, NextInBatch, Record, poolVars
  <2>2. Stacked' = Stacked /\ Queued' = Queued /\ Released' = Released
    BY <2>1, ListSteps
  <2>3. Partition'
    BY <2>1, <2>2 DEF Partition
  <2>4. Enrolled'
    BY <2>1, <2>2 DEF Enrolled, Partition
  <2>5. Phases'
    BY <2>1 DEF Phases
  <2>6. QED
    BY <2>3, <2>4, <2>5
<1>7. ASSUME NEW k \in Folders, AbsorbOpen(k)
      PROVE  Bookkeeping'
  <2>1. UNCHANGED <<world, released, queue, running, finished, fed, idle>>
        /\ pc = "absorb" /\ k \in batch /\ batch' = batch \ {k}
        /\ pc' = (IF batch = {k} THEN "release" ELSE "absorb")
        /\ ready' = ready \cup {k} /\ Expand(k)
    BY <1>7 DEF AbsorbOpen, NextInBatch, poolVars
  <2>2. Queued' = Queued /\ Released' = Released
    BY <2>1, ListSteps
  <2>3. k \in pending
    BY <2>1 DEF Partition
  <2>4. Partition'
    BY <2>1, <2>2, <2>3, ExpandStep DEF Partition
  <2>5. Enrolled'
    BY <2>1, <2>2, <2>3, ExpandStep DEF Enrolled
  <2>6. Phases'
    BY <2>1 DEF Phases
  <2>7. QED
    BY <2>4, <2>5, <2>6
<1>8. ASSUME NEW k \in Folders, ReleaseNext(k)
      PROVE  Bookkeeping'
  <2>1. UNCHANGED <<world, pc, stack, pending, seen, queue, running, finished, fed, batch, idle>>
        /\ pc = "release" /\ k \in ready
        /\ ready' = ready \ {k} /\ released' = Append(released, k)
    BY <1>8 DEF ReleaseNext, IsLeast, poolVars
  <2>2. Stacked' = Stacked /\ Queued' = Queued /\ Released' = Released \cup {k}
    BY <2>1, ListSteps
  <2>3. Partition'
    BY <2>1, <2>2 DEF Partition
  <2>4. Enrolled'
    BY <2>1, <2>2 DEF Enrolled
  <2>5. Phases'
    BY <2>1, <2>2 DEF Phases
  <2>6. QED
    BY <2>3, <2>4, <2>5
<1>9. CASE ReleaseEnds \/ Finish
  <2>1. UNCHANGED <<world, stack, pending, ready, released, seen, queue, running,
                    finished, fed, batch, idle>>
        /\ pc \in {"release", "loop"} /\ pc' \in {"loop", "done"}
    BY <1>9 DEF ReleaseEnds, Finish, walkVars, poolVars
  <2>2. Stacked' = Stacked /\ Queued' = Queued /\ Released' = Released
    BY <2>1, ListSteps
  <2>3. QED
    BY <2>1, <2>2 DEF Partition, Enrolled, Phases
<1>10. CASE StartWorker
  <2>1. UNCHANGED <<world, pc, stack, pending, ready, released, seen, finished,
                    fed, batch, idle>>
        /\ queue # << >> /\ queue' = Tail(queue)
        /\ running' = running \cup {Head(queue)}
    BY <1>10 DEF StartWorker, walkVars
  <2>2. Stacked' = Stacked /\ Released' = Released
    BY <2>1, ListSteps
  <2>3. /\ Head(queue) \in Queued
        /\ Queued' = Queued \ {Head(queue)}
        /\ Distinct(queue')
    BY <2>1, ListSteps DEF Partition
  <2>4. Booked' = Booked
    BY <2>1, <2>3
  <2>5. Partition'
    BY <2>1, <2>2, <2>3 DEF Partition
  <2>6. Enrolled' /\ Phases'
    BY <2>1, <2>2, <2>4 DEF Enrolled, Phases
  <2>7. QED
    BY <2>5, <2>6
<1>11. ASSUME NEW k \in Folders, EndWorker(k)
       PROVE  Bookkeeping'
  <2>1. UNCHANGED <<world, pc, stack, pending, ready, released, seen, queue,
                    fed, batch, idle>>
        /\ k \in running /\ running' = running \ {k}
        /\ finished' = finished \cup {k}
    BY <1>11 DEF EndWorker, walkVars
  <2>2. Stacked' = Stacked /\ Queued' = Queued /\ Released' = Released
    BY <2>1, ListSteps
  <2>3. QED
    BY <2>1, <2>2 DEF Partition, Enrolled, Phases
<1>12. CASE Interrupt
  <2>1. UNCHANGED <<world, stack, pending, ready, released, seen, running,
                    finished, batch>>
        /\ queue' = << >> /\ pc' = "interrupted"
    BY <1>12 DEF Interrupt, walkVars
  <2>2. Stacked' = Stacked /\ Released' = Released
        /\ Queued' = {} /\ Distinct(queue')
    BY <2>1, ListSteps
  <2>3. QED
    BY <2>1, <2>2 DEF Partition, Enrolled, Phases
<1>13. CASE Terminated \/ UNCHANGED vars
  <2>1. UNCHANGED vars
    BY <1>13 DEF Terminated
  <2>2. UNCHANGED <<world, pc, stack, pending, ready, released, seen, queue,
                    running, finished, fed, batch, idle>>
    BY <2>1 DEF vars, walkVars, poolVars
  <2>3. Stacked' = Stacked /\ Queued' = Queued /\ Released' = Released
    BY <2>2, ListSteps
  <2>4. QED
    BY <2>2, <2>3 DEF Partition, Enrolled, Phases
<1>14. QED
  BY <1>1, <1>2, <1>3, <1>4, <1>5, <1>6, <1>7, <1>8, <1>9, <1>10, <1>11,
     <1>12, <1>13 DEF Next, Coordinator

(***************************************************************************)
(* Whatever the schedule, no folder is lost, doubled or enqueued again.    *)
(***************************************************************************)
THEOREM BookkeepingInvariant == Spec => []Bookkeeping
  BY TypeCorrect, BookkeepingStarts, BookkeepingStep, PTL DEF Spec

=============================================================================
