------------------------------ MODULE MCBuild ------------------------------
(***************************************************************************)
(* The two offline builders, one of them at work in each behaviour: the    *)
(* trees and first graph of a head index (Trees), and the posting lists of *)
(* a static SPANN index with their search (StaticSearcher).                *)
(***************************************************************************)
EXTENDS StaticSearcher, TLC

(***************************************************************************)
(* Settings of the trees.                                                  *)
(***************************************************************************)
Line(values) == [j \in DOMAIN values |-> <<values[j]>>]

\* Up to seven vectors on a line, with groups of equal ones.
Means ==
    [kind |-> "BKT", samples |-> {Line(<<2, 1, 1, 1, 0>>), Line(<<0, 0, 0, 0>>), Line(<<0, 1, 2, 0, 1>>), Line(<<1, 1, 1, 1, 0, 2>>)},
     moved |-> FALSE, trees |-> 1, k |-> 2, dynamicK |-> FALSE, leafSize |-> 1, meanOf |-> 2, topDims |-> 1, width |-> 0, idmap |-> FALSE, rebuild |-> FALSE, threads |-> 1]
CompactedIds == [Means EXCEPT !.moved = TRUE, !.samples = {Line(<<2, 1, 1, 1, 0, 1>>)}]
TwoTrees == [Means EXCEPT !.trees = 2, !.samples = {Line(<<1, 1, 1, 0, 1>>)}]
MoreMeans == [Means EXCEPT !.k = 3, !.dynamicK = TRUE, !.samples = {Line(<<2, 1, 1, 1, 0>>)}]

\* Vectors of a plane, equal ones too; means over fewer samples than a
\* segment has.
Plane == {<<0, 0>>, <<1, 0>>, <<0, 2>>}
Splits ==
    [Means EXCEPT !.kind = "KDT", !.trees = 2, !.samples = [1..3 -> Plane] \cup {<< <<1, 1>> >>, << <<0, 0>>, <<0, 1>>, <<2, 1>>, <<0, 0>> >>}]
WideSplits == [Splits EXCEPT !.topDims = 2, !.trees = 1, !.samples = [1..4 -> Plane]]

Projected ==
    [Means EXCEPT !.kind = "TPT", !.trees = 2, !.width = 2,
                  !.samples = [1..4 -> Plane] \cup {<< <<0, 0>>, <<1, 1>>, <<2, 2>>, <<3, 3>>, <<3, 2>> >>}]

\* Samples mapped to others, equal ones or not: rows with neighbours of
\* several samples, and with the sample itself.
MappedRows == [Projected EXCEPT !.idmap = TRUE, !.samples = {Line(<<0, 1, 0, 0>>), Line(<<2, 0, 1, 3>>)}]
MappedWide == [MappedRows EXCEPT !.trees = 1, !.width = 3, !.leafSize = 2, !.samples = {Line(<<0, 1, 0, 2, 1>>)}]

\* Rows of eight, halved when they are rebuilt, by one thread or by two; rows
\* of twelve; and rows whose threshold is a single edge.
Rebuilt == [Projected EXCEPT !.trees = 1, !.leafSize = 8, !.width = 8, !.rebuild = TRUE,
            !.samples = {Line(<<0, 1, 2, 3, 9, 4, 5>>), Line(<<11, 8, 1, 13, 11, 7>>)}]

RebuiltTogether == [Rebuilt EXCEPT !.threads = 2, !.samples = {Line(<<10, 10, 15, 5, 9, 0, 8>>)}]
RebuiltWide == [Rebuilt EXCEPT !.width = 12, !.leafSize = 9, !.samples = {Line(<<0, 1, 2, 3, 9, 4, 5, 12, 7>>)}]
RebuiltNarrow == [Rebuilt EXCEPT !.width = 6, !.samples = {Line(<<4, 5, 7, 9, 1, 14>>)}]

TreeSettings ==
    {Means, CompactedIds, TwoTrees, MoreMeans, Splits, WideSplits, Projected, MappedRows, MappedWide,
     Rebuilt, RebuiltTogether, RebuiltWide, RebuiltNarrow}

(***************************************************************************)
(* Settings of the static index.  Vectors are points of a line; a page has *)
(* eight words, two vectors and two words of a third.                      *)
(***************************************************************************)
Base ==
    [points |-> <<0, 3, 5, 8, 9, 12>>, heads |-> <<0, 3, 5>>,
     replicaCount |-> 2, candidateNum |-> 3, excludehead |-> TRUE, batches |-> 1, files |-> 1,
     pageLimit |-> 2, vectorLimit |-> 0, searchPageLimit |-> 0,
     delta |-> FALSE, rearrange |-> FALSE, compress |-> FALSE,
     k |-> 2, internal |-> 2, ratio |-> 1000, headBatch |-> 1, batch |-> 2, filter |-> {}, missing |-> {}]

\* Lists over two pages, some ending within a page, in two files.
Files == [Base EXCEPT !.points = <<0, 1, 1, 2, 3, 20, 21, 23, 40>>, !.heads = <<0, 5, 8, 3>>, !.files = 2, !.missing = {1, 2}]

\* The heads a batch finds differ; the vectors come first, then their numbers.
Batches == [Base EXCEPT !.batches = 2, !.ratio = 2, !.rearrange = TRUE, !.missing = {0, 1}, !.points = <<0, 3, 5, 8, 9, 12, 13>>]

\* Differences beyond the range of a component, and lists cut by the build.
Delta == [Base EXCEPT !.points = <<120, 100, 90, -100, -120, 0, 110, 95>>, !.heads = <<3, 0>>, !.delta = TRUE]

\* The search reads fewer pages than the build has written.
Narrow == [Base EXCEPT !.points = <<0, 1, 1, 0, 3, 5>>, !.heads = <<0, 5>>, !.replicaCount = 1, !.pageLimit = 3, !.searchPageLimit = 1, !.k = 3]

\* Heads that their own lists have, a list that is empty, and a file too many.
WithHeads == [Base EXCEPT !.excludehead = FALSE, !.pageLimit = 1, !.missing = {1}]
OneList == [Base EXCEPT !.heads = <<2>>, !.files = 2]
Overfiled == [Base EXCEPT !.heads = <<2>>, !.files = 3]

\* A filter, and one result per call.
Filtered == [Base EXCEPT !.filter = {1, 3}, !.batch = 1, !.internal = 1, !.missing = {2}]

\* Lists of whole pages: with eight vectors they end at the end of a page.
Whole == [Base EXCEPT !.points = <<0, 1, 1, 2, 2, 1, 2, 3, 3, 20, 21, 22>>, !.heads = <<0, 9>>, !.replicaCount = 1, !.pageLimit = 3]

StaticSettings == {Files, Batches, Delta, Narrow, WithHeads, OneList, Overfiled, Filtered, Whole}
StaticQueries == {1, 10}

\* What the loader makes of a compressed index.
Compressed == {[Base EXCEPT !.compress = TRUE]}

\* Fewer pages read than written, of lists whose numbers follow the vectors.
NarrowRearranged == {[Narrow EXCEPT !.rearrange = TRUE]}

(***************************************************************************)
(* The two, side by side.                                                  *)
(***************************************************************************)
VARIABLES setting, data, order, stack, nodes, starts, centerOf, treeSize, leaves, rows, rebuilding, treePc

treeVars == <<setting, data, order, stack, nodes, starts, centerOf, treeSize, leaves, rows, rebuilding, treePc>>

T == INSTANCE Trees WITH Settings <- TreeSettings, pc <- treePc

\* The one that is not at work waits in an initial state of its own.
TreesIdle == T!Init /\ setting = Means /\ data = Line(<<0, 0, 0, 0>>)
StaticIdle == Init /\ opt = OneList

BuildInit ==
    \/ T!Init /\ StaticIdle
    \/ TreesIdle /\ Init

BuildNext ==
    \/ StaticIdle /\ T!Next /\ UNCHANGED vars
    \/ TreesIdle /\ Next /\ UNCHANGED treeVars

BuildSpec == BuildInit /\ [][BuildNext]_<<vars, treeVars>>

\* What BuildTrees, BuildInitKNNGraph and RebuildGraph leave (BKTree.h,
\* KDTree.h, NeighborhoodGraph.h): every tree has every sample once; a search
\* that is not cut short reaches every sample, or one whose mark lists it,
\* also when several trees list samples differently; a row of the graph has
\* the nearest of the samples it was offered, each once; and however many
\* threads rebuild it, it still leads to nobody twice, nearest first.
TreesComplete ==
    /\ T!EachSampleOnce
    /\ T!SearchCovers
    /\ T!RowsAreNearest /\ T!RebuiltRowsSound

\* RebuildGraph makes room for rarely met samples (NeighborhoodGraph.h), and
\* with one thread cuts none off: a sample rows lead to is led to at every
\* moment of it.
NoneCutOff == T!NoneCutOff
=============================================================================
