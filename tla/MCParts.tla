------------------------------- MODULE MCParts -------------------------------
(***************************************************************************)
(* The instances of the parts for TLC.                                     *)
(***************************************************************************)
EXTENDS Parts

\* One folder with two card directories: a take of three segments, a file that
\* no provider can read, and one clip whose two files lie in C and D.
MCFiles == 1 .. 6
MCHome == <<"A", "A", "A", "A", "C", "D">>
MCTake == <<"a", "a", "a", "b", "x", "y">>
MCNumber == <<1, 2, 3, 1, 0, 0>>
MCUmids == {<<"a", "a2", "a3", "unreadable", "x", "x">>}
MCProviders == {"red", "p2", "file"}

PerProvider(red, p2, file) ==
  [p \in MCProviders |->
     CASE p = "red" -> red [] p = "p2" -> p2 [] p = "file" -> file]

MCSubpaths == PerProvider({}, {"C"}, {"D"})
MCNames == PerProvider(1 .. 4, 5 .. 6, 5 .. 6)
MCGrouped == PerProvider(1 .. 4, {}, {})
MCRaw == PerProvider(1 .. 4, {}, {})
MCReads == PerProvider(1 .. 4, {}, 5 .. 6)

\* A corpus of two trees, one whose trees overlap, and one nobody ratified;
\* each tree holds a card file and two others, one of which may be waived.
MCCorpora ==
  {[trees |-> <<"x", "y">>, ratified |-> TRUE],
   [trees |-> <<"x", "x/z">>, ratified |-> TRUE],
   [trees |-> <<"x">>, ratified |-> FALSE]}
MCNested == {{"x", "x/z"}}
MCMedia == {"c", "o1", "o2"}
MCMediaHome ==
  [f \in MCMedia |-> IF f = "c" THEN "root/shoot/card" ELSE "root/other"]
MCWaiverRows ==
  {[side |-> "legacy_only", folder |-> "root/other", file |-> "o1", blanket |-> FALSE],
   [side |-> "any", folder |-> "*", file |-> "*", blanket |-> TRUE]}

\* A row of two files, applied, spanned or in progress; three rows, all of
\* them or two at a time.
MCOriginals == 1 .. 2
MCPlanRows ==
  {[phase |-> "done", spanned |-> FALSE], [phase |-> "done", spanned |-> TRUE],
   [phase |-> "untag", spanned |-> FALSE]}
MCBatchRows == 1 .. 3
=============================================================================
