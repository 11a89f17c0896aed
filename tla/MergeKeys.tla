----------------------------- MODULE MergeKeys -----------------------------
(***************************************************************************)
(* Merge keys: the tuple of sibling ordinals from the scan root that every *)
(* WorkItem and FolderOutcome carries (scan/coordinator.py).  The key of a *)
(* folder is its position in the tree, so this project uses it as the      *)
(* folder's identity.                                                      *)
(***************************************************************************)
EXTENDS Naturals, Sequences

Key == Seq(Nat)

\* The root container: the empty key, which sorts before every other.
Root == << >>

\* Python's `<` on two tuples of ints, which heappush, heappop and the test
\* against the floor all use.
KeyLess(a, b) ==
  \/ /\ Len(a) < Len(b)
     /\ \A j \in 1..Len(a) : a[j] = b[j]
  \/ \E i \in 1..Len(a) :
       /\ i <= Len(b)
       /\ a[i] < b[i]
       /\ \A j \in 1..(i - 1) : a[j] = b[j]

\* k is p, or lies below p in the tree.
Within(k, p) ==
  /\ Len(p) <= Len(k)
  /\ \A j \in 1..Len(p) : k[j] = p[j]

\* c is `merge_key + (ordinal,)` for some ordinal.
IsChild(c, p) ==
  /\ Len(c) = Len(p) + 1
  /\ Within(c, p)

Parent(k) == SubSeq(k, 1, Len(k) - 1)

\* k sorts before every other member of S.
IsLeast(k, S) ==
  /\ k \in S
  /\ \A s \in S \ {k} : KeyLess(k, s)

=============================================================================
