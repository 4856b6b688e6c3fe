---------------------------- MODULE MCGraphIndex ----------------------------
(* GraphIndex on small instances. *)
EXTENDS GraphIndex

\* Additions between, outside and on top of built vectors, trees rebuilt
\* while they are connected.
Adding ==
    [kind |-> "BKT", points |-> <<0, 6, 3, 6, 1>>, built |-> 2, leafSize |-> 1, smallGraph |-> 0, rebuildAfter |-> 1,
     deletable |-> {}, adders |-> 2, saves |-> 0, searches |-> 0, scans |-> 0]

\* Duplicates in the trees, deletions, saves and compactions.
Compacting ==
    [Adding EXCEPT !.points = <<0, 5, 5, 9, 7>>, !.built = 4, !.deletable = {1}, !.adders = 1, !.saves = 1, !.searches = 1]

KDTree == [Adding EXCEPT !.kind = "KDT", !.points = <<0, 6, 3, 8>>, !.built = 3, !.deletable = {1}, !.adders = 1, !.saves = 1, !.searches = 1]

\* An iterator over duplicates, with an addition, a deletion and new trees
\* between its calls.
Iterating == [Adding EXCEPT !.points = <<0, 5, 5, 9, 7>>, !.built = 4, !.deletable = {1, 3}, !.adders = 1, !.scans = 1]

\* Fewer samples than BuildGraph goes on with: it returns before it marks the
\* duplicates of the leaves, so these are only found once new trees put marks in.
Small == [Compacting EXCEPT !.smallGraph = 1000, !.points = <<0, 6, 3, 6>>, !.built = 3, !.searches = 0]
SmallDuplicateSettings == {[Compacting EXCEPT !.smallGraph = 1000]}

MCSettings == {Adding, Compacting, KDTree, Iterating, Small}
=============================================================================
