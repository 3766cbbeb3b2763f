--------------------------- MODULE MCBoundedCopy ----------------------------
(* Small source ranges for BoundedCopy.                                     *)
EXTENDS BoundedCopy, TLC

\* Two partitions: one with a gap inside, one before the target and a record at
\* it, the other with no record left where its range ends.
GappedRecords == <<{1, 3, 4, 6}, {0}>>
GappedStart == <<1, 0>>
GappedTarget == <<6, 2>>

\* One partition with a gap.
SingleRecords == <<{0, 2, 3}>>
SingleStart == <<0>>
SingleTarget == <<4>>

\* Controllers are interchangeable.
SameCopiers == Permutations(Copiers)
=============================================================================
