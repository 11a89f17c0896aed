-------------------------- MODULE MergeKeyTheorems --------------------------
(***************************************************************************)
(* The merge-key order is a strict order in which a folder sorts before    *)
(* everything below it.  That is all walk_tree's release floor relies on.  *)
(***************************************************************************)
EXTENDS MergeKeys, SequenceTheorems, FiniteSetTheorems,
        WellFoundedInduction, TLAPS

(***************************************************************************)
(* No key sorts before itself: the heaps never hold a key twice because of *)
(* an ambiguous comparison.                                                *)
(***************************************************************************)
LEMMA KeyLessIrreflexive ==
  ASSUME NEW a \in Key
  PROVE  ~KeyLess(a, a)
BY DEF KeyLess, Key

(***************************************************************************)
(* Comparing merge keys is transitive.                                     *)
(***************************************************************************)
LEMMA KeyLessTransitive ==
  ASSUME NEW a \in Key, NEW b \in Key, NEW c \in Key,
         KeyLess(a, b), KeyLess(b, c)
  PROVE  KeyLess(a, c)
<1> DEFINE Shorter(x, y) == Len(x) < Len(y) /\ \A j \in 1..Len(x) : x[j] = y[j]
<1> DEFINE Differs(x, y, i) == /\ i <= Len(y)
                               /\ x[i] < y[i]
                               /\ \A j \in 1..(i - 1) : x[j] = y[j]
<1>0. /\ Len(a) \in Nat /\ Len(b) \in Nat /\ Len(c) \in Nat
      /\ \A i \in 1..Len(a) : a[i] \in Nat
      /\ \A i \in 1..Len(b) : b[i] \in Nat
      /\ \A i \in 1..Len(c) : c[i] \in Nat
  BY DEF Key
<1>1. CASE Shorter(a, b) /\ Shorter(b, c)
  BY <1>0, <1>1 DEF KeyLess
<1>2. ASSUME Shorter(a, b), NEW n \in 1..Len(b), Differs(b, c, n)
      PROVE  KeyLess(a, c)
  <2>1. CASE n <= Len(a)
    <3>1. n \in 1..Len(a) /\ Differs(a, c, n)
      BY <1>0, <1>2, <2>1
    <3>2. QED
      BY <3>1 DEF KeyLess
  <2>2. CASE Len(a) < n
    <3>1. Shorter(a, c)
      BY <1>0, <1>2, <2>2
    <3>2. QED
      BY <3>1 DEF KeyLess
  <2>3. QED
    BY <1>0, <2>1, <2>2
<1>3. ASSUME NEW m \in 1..Len(a), Differs(a, b, m), Shorter(b, c)
      PROVE  KeyLess(a, c)
  <2>1. Differs(a, c, m)
    BY <1>0, <1>3
  <2>2. QED
    BY <2>1 DEF KeyLess
<1>4. ASSUME NEW m \in 1..Len(a), Differs(a, b, m),
             NEW n \in 1..Len(b), Differs(b, c, n)
      PROVE  KeyLess(a, c)
  <2>1. CASE m < n
    <3>1. Differs(a, c, m)
      BY <1>0, <1>4, <2>1
    <3>2. QED
      BY <3>1 DEF KeyLess
  <2>2. CASE n < m
    <3>1. n \in 1..Len(a) /\ Differs(a, c, n)
      BY <1>0, <1>4, <2>2
    <3>2. QED
      BY <3>1 DEF KeyLess
  <2>3. CASE m = n
    <3>1. Differs(a, c, m)
      BY <1>0, <1>4, <2>3
    <3>2. QED
      BY <3>1 DEF KeyLess
  <2>4. QED
    BY <1>0, <2>1, <2>2, <2>3
<1>5. Shorter(a, b) \/ \E m \in 1..Len(a) : Differs(a, b, m)
  BY DEF KeyLess
<1>6. Shorter(b, c) \/ \E n \in 1..Len(b) : Differs(b, c, n)
  BY DEF KeyLess
<1>7. QED
  BY <1>1, <1>2, <1>3, <1>4, <1>5, <1>6

(***************************************************************************)
(* A folder sorts before everything below it.                              *)
(***************************************************************************)
LEMMA WithinSortsAfter ==
  ASSUME NEW k \in Key, NEW p \in Key, Within(k, p), k # p
  PROVE  KeyLess(p, k)
<1>1. Len(p) # Len(k)
  <2>1. ASSUME Len(p) = Len(k)
        PROVE  FALSE
    <3>1. \A j \in 1..Len(p) : p[j] = k[j]
      BY DEF Within, Key
    <3>2. p = k
      BY <2>1, <3>1, SeqEqual DEF Key
    <3>3. QED
      BY <3>2
  <2>2. QED
    BY <2>1
<1>2. Len(p) < Len(k)
  BY <1>1 DEF Within, Key
<1>3. QED
  BY <1>2 DEF Within, KeyLess, Key

(***************************************************************************)
(* The children a folder enqueues sort after it: `merge_key + (ordinal,)`. *)
(***************************************************************************)
LEMMA ChildSortsAfter ==
  ASSUME NEW c \in Key, NEW p \in Key, IsChild(c, p)
  PROVE  KeyLess(p, c)
BY DEF IsChild, Within, KeyLess, Key

(***************************************************************************)
(* Being below a folder is transitive.                                     *)
(***************************************************************************)
LEMMA WithinTransitive ==
  ASSUME NEW a \in Key, NEW b \in Key, NEW c \in Key, Within(a, b), Within(b, c)
  PROVE  Within(a, c)
<1>1. Len(a) \in Nat /\ Len(b) \in Nat /\ Len(c) \in Nat
  BY DEF Key
<1>2. Len(b) <= Len(a) /\ Len(c) <= Len(b)
  BY DEF Within
<1>3. ASSUME NEW j \in 1..Len(c)
      PROVE  a[j] = c[j]
  <2>1. j \in 1..Len(b)
    BY <1>1, <1>2
  <2>2. a[j] = b[j] /\ b[j] = c[j]
    BY <2>1 DEF Within
  <2> QED
    BY <2>2
<1> QED
  BY <1>1, <1>2, <1>3 DEF Within

(***************************************************************************)
(* The parent of a child is the key it was made from.                      *)
(***************************************************************************)
LEMMA ParentOfChild ==
  ASSUME NEW c \in Key, NEW p \in Key, IsChild(c, p)
  PROVE  Parent(c) = p /\ c # Root
<1>1. Len(c) = Len(p) + 1 /\ Len(p) \in Nat /\ \A j \in 1..Len(p) : c[j] = p[j]
  BY DEF IsChild, Within, Key
<1>2. Parent(c) = [j \in 1..Len(p) |-> c[j]]
  BY <1>1 DEF Parent, Key
<1>3. Parent(c) = [j \in 1..Len(p) |-> p[j]]
  BY <1>1, <1>2
<1>4. p = [j \in 1..Len(p) |-> p[j]]
  BY DEF Key
<1>5. c # Root
  BY <1>1 DEF Root
<1>6. QED
  BY <1>3, <1>4, <1>5

(***************************************************************************)
(* Two different merge keys are always ordered, one way or the other: the  *)
(* heaps and the emission order leave nothing to chance.                   *)
(***************************************************************************)
LEMMA KeyLessTotal ==
  ASSUME NEW a \in Key, NEW b \in Key, a # b
  PROVE  KeyLess(a, b) \/ KeyLess(b, a)
<1> DEFINE Differ == {i \in 1..Len(a) : i <= Len(b) /\ a[i] # b[i]}
<1>0. /\ Len(a) \in Nat /\ Len(b) \in Nat
      /\ \A i \in 1..Len(a) : a[i] \in Nat
      /\ \A i \in 1..Len(b) : b[i] \in Nat
  BY DEF Key
<1>1. CASE Differ = {}
  <2>1. \A i \in 1..Len(a) : i <= Len(b) => a[i] = b[i]
    BY <1>1
  <2>2. Len(a) # Len(b)
    BY <1>0, <2>1, SeqEqual DEF Key
  <2>3. QED
    BY <1>0, <2>1, <2>2 DEF KeyLess
<1>2. CASE Differ # {}
  <2>1. OpToRel(<, Nat) = {ss \in Nat \X Nat : ss[1] < ss[2]}
    BY Zenon DEF OpToRel
  <2>2. IsWellFoundedOn({ss \in Nat \X Nat : ss[1] < ss[2]}, Nat)
    BY <2>1, NatLessThanWellFounded, Zenon
  <2>3. PICK m \in Differ :
          \A n \in Differ : ~(<<n, m>> \in {ss \in Nat \X Nat : ss[1] < ss[2]})
    <3>1. Differ \subseteq Nat
      BY <1>0
    <3>2. QED
      BY <1>2, <2>2, <3>1, WFMin
  <2>4. ASSUME NEW n \in Differ, n < m
        PROVE  FALSE
    <3> DEFINE nm == <<n, m>>
    <3>1. nm \in Nat \X Nat /\ nm[1] = n /\ nm[2] = m
      BY <1>0
    <3>2. nm \in {ss \in Nat \X Nat : ss[1] < ss[2]}
      BY <2>4, <3>1
    <3>3. QED
      BY <2>3, <3>2
  <2>5. \A j \in 1..(m - 1) : a[j] = b[j]
    BY <2>4, <1>0
  <2>6. /\ m \in 1..Len(a) /\ m \in 1..Len(b)
        /\ a[m] < b[m] \/ b[m] < a[m]
    BY <1>0
  <2>7. QED
    BY <1>0, <2>5, <2>6 DEF KeyLess
<1>3. QED
  BY <1>1, <1>2

(***************************************************************************)
(* A nonempty finite set of merge keys has a least one: what heappop takes *)
(* off `ready`, and what a frame of the work list dispatches first.        *)
(***************************************************************************)
LEMMA LeastExists ==
  ASSUME NEW S \in SUBSET Key, IsFiniteSet(S), S # {}
  PROVE  \E k \in S : IsLeast(k, S)
<1> DEFINE Below(k) == {s \in S : KeyLess(s, k)}
<1> DEFINE Cones == {Below(k) : k \in S}
<1>1. Cones \subseteq FiniteSubsetsOf(S) /\ Cones # {}
  <2>1. \A T \in SUBSET S : IsFiniteSet(T)
    BY FS_Subset
  <2>2. QED
    BY <2>1 DEF FiniteSubsetsOf
<1>2. PICK C \in Cones : \A D \in Cones : ~(<<D, C>> \in StrictSubsetOrdering(S))
  BY <1>1, WFMin, FS_StrictSubsetOrderingWellFounded
<1>3. PICK k \in S : C = Below(k)
  OBVIOUS
<1>4. Below(k) = {}
  <2>1. ASSUME NEW r \in Below(k)
        PROVE  FALSE
    <3>1. r \in S /\ KeyLess(r, k) /\ r \notin Below(r)
      BY <2>1, KeyLessIrreflexive
    <3>2. Below(r) \subseteq Below(k) \ {r}
      BY <3>1, KeyLessTransitive
    <3>3. Below(r) \in SUBSET S /\ Below(k) \in SUBSET S
      OBVIOUS
    <3>4. Below(r) \subseteq Below(k) /\ Below(r) # Below(k)
      BY <2>1, <3>2
    <3>5. <<Below(r), Below(k)>> \in StrictSubsetOrdering(S)
      BY <3>3, <3>4 DEF StrictSubsetOrdering
    <3>6. QED
      BY <1>2, <1>3, <3>1, <3>5
  <2>2. QED
    BY <2>1
<1>5. \A s \in S \ {k} : KeyLess(k, s)
  BY <1>4, KeyLessTotal
<1>6. QED
  BY <1>5 DEF IsLeast

=============================================================================
