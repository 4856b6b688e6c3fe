----------------------------- MODULE MCSPFresh -----------------------------
(* SPFresh for TLC: two built heads over up to five vectors, under settings  *)
(* that bring about each kind of maintenance.                                *)
EXTENDS SPFresh, TLC

CONSTANTS v1, v2, v3, v4, v5, w1, w2

ThreadSymmetry == Permutations(Workers)

\* Every vector is in a posting and no head is a vector.
Plain ==
    [excludeHead |-> FALSE, limit |-> 2, buffer |-> 1, mergeThreshold |-> 1, replicas |-> 1,
     posting |-> 0 :> {v1, v2} @@ 1 :> {v3}, headVector |-> 0 :> NoVector @@ 1 :> NoVector,
     sameVectors |-> FALSE, workers |-> {w1, w2}, vectors |-> {v1, v2, v3, v4},
     deletable |-> {v1}, heads |-> 6, reassigns |-> 1, searches |-> 0, collections |-> 0]

\* v1 and v2 are the heads.
HeadsExcluded ==
    [Plain EXCEPT !.excludeHead = TRUE, !.mergeThreshold = 0, !.posting = 0 :> {v3} @@ 1 :> {},
                  !.headVector = 0 :> v1 @@ 1 :> v2, !.vectors = Vectors]

\* Splits in the background and under the lock of an append.
Splitting ==
    [Plain EXCEPT !.limit = 1, !.buffer = 2, !.posting = 0 :> {v1} @@ 1 :> {v2},
                  !.workers = {w1}, !.deletable = {}, !.heads = 4]

\* Vectors become heads and stop being heads: with two workers, or deletions.
TwoMovingHeads == [HeadsExcluded EXCEPT !.limit = 1, !.deletable = {}, !.heads = 4]
MovingHeads == [HeadsExcluded EXCEPT !.limit = 1, !.workers = {w1}]

\* Vectors in up to two postings; no buffer, so that every split is inline.
Replicated ==
    [HeadsExcluded EXCEPT !.buffer = 0, !.replicas = 2, !.posting = 0 :> {v3, v4} @@ 1 :> {},
                          !.workers = {w1}]

\* Two searches find short postings and two workers merge.
Merging ==
    [Plain EXCEPT !.posting = 0 :> {} @@ 1 :> {v1}, !.vectors = {v1, v2, v3}, !.deletable = {},
                  !.reassigns = 0, !.searches = 2]

\* ForceGC beside a worker; a posting of equal vectors is cut to one.
Collecting == [Plain EXCEPT !.sameVectors = TRUE, !.workers = {w1},
                             !.vectors = {v1, v2, v3}, !.posting = 0 :> {v1} @@ 1 :> {v2},
                             !.limit = 1, !.collections = 1]

\* Two merges beside a reassign that a split or a merge has asked for.
MergingMoved == [Merging EXCEPT !.vectors = {v1, v2}, !.deletable = {v1}, !.reassigns = 1]

\* A split beside merges that find no posting short enough to join.
SplitAndMerge == [Plain EXCEPT !.deletable = {}, !.searches = 2]

MCSettings ==
    {Splitting, TwoMovingHeads, MovingHeads, Replicated, Merging, Collecting, MergingMoved, SplitAndMerge}

\* A merge that meets another one, with heads that are vectors.
Requeues ==
    {[HeadsExcluded EXCEPT !.buffer = 0, !.replicas = 2, !.vectors = {v1, v2, v3},
                           !.deletable = {v3}, !.searches = 2]}

\* A merge and a reassign of a vector it has read.
ReassignsBeside == {[Merging EXCEPT !.deletable = {v1}, !.reassigns = 1, !.searches = 1]}

\* A merge and appends to its neighbour.
AppendsBeside ==
    {[Merging EXCEPT !.vectors = {v1, v2, v3, v4}, !.reassigns = 1, !.searches = 1]}
=============================================================================
