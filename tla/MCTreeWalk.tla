----------------------------- MODULE MCTreeWalk -----------------------------
(***************************************************************************)
(* Instances of TreeWalk for TLC: one small tree and the worlds it is      *)
(* walked in, and the sequential run's output as a function of the world.  *)
(***************************************************************************)
EXTENDS TreeWalk, SequencesExt

\* Two folders with children, one of them with two, and a leaf.
MCFolders ==
  {<< >>, <<0>>, <<0, 0>>, <<0, 1>>, <<1>>, <<1, 0>>, <<2>>}

MCPlaces == MCFolders

Inner == MCFolders \ {Root}

Plain ==
  [fate     |-> [f \in MCFolders |-> "expands"],
   consumed |-> {},
   skip     |-> {},
   only     |-> MCFolders,
   shoot    |-> MCFolders,
   place    |-> [f \in MCFolders |-> f]]

\* At most one folder on each side of the tree does not expand.
Fated ==
  {[Plain EXCEPT !.fate[ab[1]] = x, !.fate[ab[2]] = y] :
     ab \in {<<<<0>>, <<1, 0>>>>, <<<<0, 0>>, <<1>>>>},
     x \in Fates, y \in {"expands", "doubt", "rejected"}}

\* One folder is left out, by each of the four reasons there are; the
\* shoot-folder filter at depth 2 must change nothing.
LeftOut ==
  UNION {{[Plain EXCEPT !.consumed = {a}], [Plain EXCEPT !.skip = {a}],
          [Plain EXCEPT !.only = @ \ {a}], [Plain EXCEPT !.shoot = @ \ {a}]} :
            a \in {<<0, 0>>, <<1>>}}

RootUnlistable == {[Plain EXCEPT !.fate[Root] = "unlistable"]}

UnaliasedWorlds == Fated \cup LeftOut \cup RootUnlistable

\* Two paths of one directory: siblings, cousins, a folder and its nephew,
\* a folder and the root; the second of them expanding or not.
AliasedWorlds ==
  {[Plain EXCEPT !.place[p[1]] = p[2], !.fate[p[2]] = x] :
     p \in {<<<<0, 1>>, <<0, 0>>>>, <<<<1, 0>>, <<0, 0>>>>, <<<<2>>, <<0, 1>>>>,
            <<<<0, 0>>, <<1>>>>, <<<<1>>, <<0>>>>},
     x \in {"expands", "doubt"}}
  \cup {[Plain EXCEPT !.place[f] = Root] : f \in {<<0>>, <<1, 0>>}}

AllWorlds == UnaliasedWorlds \cup AliasedWorlds

-----------------------------------------------------------------------------

\* What is printed: the folders in order, each with the children its lines
\* call already walked; the root's own notes come first.
Output == <<noted[Root]>> \o [i \in 1..Len(released) |->
                                <<released[i], noted[released[i]]>>]

\* The sequential run on one world: depth first, one folder at a time.
RECURSIVE WalkFrom(_, _)
WalkFrom(todo, before) ==
  IF todo = << >> THEN << >>
  ELSE LET k    == Head(todo)
           kids == IF world.fate[k] = "expands" THEN Children(k, before) ELSE {}
           dups == IF world.fate[k] = "expands" THEN Eligible(k) \ kids ELSE {}
       IN  <<<<k, dups>>>>
           \o WalkFrom(SetToSortSeq(kids, KeyLess) \o Tail(todo),
                       before \cup {world.place[c] : c \in kids})

SequentialOutput ==
  LET kids == Children(Root, {world.place[Root]})
  IN  IF RootFails THEN <<{}, <<Root, {}>>>>
      ELSE <<Eligible(Root) \ kids>>
           \o WalkFrom(SetToSortSeq(kids, KeyLess),
                       {world.place[Root]} \cup {world.place[c] : c \in kids})

\* "A sequential run and a pooled one produce byte-identical output"
\* (walk_tree's docstring): whatever the dispatcher, a finished walk has
\* printed what the sequential one prints.
SameOutput == pc = "done" => Output = SequentialOutput

=============================================================================
