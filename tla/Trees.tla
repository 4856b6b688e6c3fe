------------------------------- MODULE Trees -------------------------------
(***************************************************************************)
(* Building and searching the space partition trees: balanced k-means      *)
(* trees (BKTree.h), k-d trees (KDTree.h) and the trinary projection trees *)
(* whose leaves give the graph its first edges (NeighborhoodGraph.h).      *)
(* One step processes one item of the builder's stack: it permutes a       *)
(* segment of the array of sample ids in place and appends tree nodes.     *)
(*                                                                         *)
(* Abstractions.  A sample is a tuple of small integers, a distance the    *)
(* square of the Euclidean one.  A shuffle is any rotation of its segment. *)
(* The iterations of k-means may end with any centres, equal ones too:     *)
(* they see at most m_iSamples of a segment's vectors, weigh the sizes of  *)
(* the clusters and cut a mean down to integers.  Random projections are   *)
(* sums and differences of two dimensions.  A mean is compared by cross    *)
(* multiplication.                                                         *)
(***************************************************************************)
EXTENDS Integers, Sequences, FiniteSets

CONSTANT Settings

Setting ==
    [kind : {"BKT", "KDT", "TPT"},
     samples : SUBSET Seq(Seq(Int)),    \* the datasets to build on, none of them empty
     moved : BOOLEAN,       \* k-means trees: sample 0 is deleted and the last one takes its id
     trees : Nat \ {0},     \* m_iTreeNumber, m_iTPTNumber
     k : Nat \ {0, 1},      \* m_iBKTKmeansK
     dynamicK : BOOLEAN,
     leafSize : Nat,        \* m_iBKTLeafSize, m_iTPTLeafSize
     meanOf : Nat \ {0},    \* m_iSamples
     topDims : Nat \ {0},   \* m_numTopDimensionKDTSplit
     width : Nat,           \* m_iNeighborhoodSize of the graph built from the leaves
     idmap : BOOLEAN,       \* the graph is that of k-means trees, which map duplicates to one sample
     rebuild : BOOLEAN,     \* m_rebuild: the rows are built twice as wide
     threads : Nat \ {0}]   \* m_iThreadNum; one if there is an idmap

VARIABLES
    setting, data,
    order,      \* localindices: position -> sample
    stack,      \* items to divide
    nodes,      \* m_pTreeRoots, node i at i + 1
    starts,     \* m_pTreeStart
    centerOf,   \* m_pSampleCenterMap
    treeSize,   \* iTreeSize of DivideTree
    leaves,     \* TptreeLeafNodes: per tree, the samples of each leaf in order
    rows,       \* m_pNeighborhoodGraph and NeighborhoodDists
    rebuilding, \* RebuildGraph: indegree, the next row (sent) and the row each thread has
    pc

vars == <<setting, data, order, stack, nodes, starts, centerOf, treeSize, leaves, rows, rebuilding, pc>>

SumOver(S, f(_)) ==
    LET sum[T \in SUBSET S] == IF T = {} THEN 0 ELSE LET x == CHOOSE x \in T : TRUE IN f(x) + sum[T \ {x}]
    IN sum[S]
Dist(x, y) == SumOver(DOMAIN x, LAMBDA i : (x[i] - y[i]) * (x[i] - y[i]))
Rank(S, Before(_, _)) ==
    [k \in 1..Cardinality(S) |-> CHOOSE i \in S : Cardinality({j \in S : Before(j, i)}) = k - 1]
Swap(f, i, j) == [f EXCEPT ![i] = f[j], ![j] = f[i]]

Count == Len(data)
Sample(i) == data[i + 1]
Kept == IF setting.moved THEN 1..Count - 1 ELSE 0..Count - 1
Size == Cardinality(Kept)

\* Ids in the new index: reverseIndices.
Cid(i) == IF setting.moved /\ i = Count - 1 THEN 0 ELSE i

\* Vector(c): the vector that has id c in the new index.
Vector(c) == Sample(CHOOSE i \in Kept : Cid(i) = c)

(***************************************************************************)
(* Balanced k-means trees.                                                 *)
(***************************************************************************)
Leaf(c) == [centerid |-> c, childStart |-> -1, childEnd |-> -1]

\* Shuffled(first, last): orders std::shuffle may leave (its bound: rotations).
Shuffled(first, last) ==
    {[p \in 0..Size - 1 |->
        IF p \in first..last - 1 THEN order[first + ((p - first + r) % (last - first))] ELSE order[p]]
     : r \in 0..last - first - 1}

\* KmeansAssign(ord, first, last, centers): every vector takes its nearest
\* centre, the first of equally near ones; a cluster is led by its vector
\* nearest to the centre, the last of equally near ones: the blocks of the
\* threads are merged in order with <=.
KmeansAssign(ord, first, last, centers) ==
    LET d(p, k) == Dist(Sample(ord[p]), centers[k])
        label == [p \in first..last - 1 |->
            CHOOSE k \in DOMAIN centers : \A j \in DOMAIN centers : d(p, k) < d(p, j) \/ (d(p, k) = d(p, j) /\ k <= j)]
        In(k) == {p \in first..last - 1 : label[p] = k}
        Nearest(k) == {p \in In(k) : \A q \in In(k) : d(p, k) <= d(q, k)}
    IN [label |-> label,
        counts |-> [k \in DOMAIN centers |-> Cardinality(In(k))],
        clusterIdx |-> [k \in DOMAIN centers |->
            IF In(k) = {} THEN -1 ELSE ord[CHOOSE p \in Nearest(k) : \A q \in Nearest(k) : q <= p]]]

NumClusters(a) == Cardinality({k \in DOMAIN a.counts : a.counts[k] > 0})

\* Shuffle(ord, first, a): the in place exchange that brings each cluster's
\* vectors together, the cluster's leader last.
Offset(counts, first, k) == first + SumOver(1..k - 1, LAMBDA j : counts[j])

RECURSIVE Exchange(_, _, _, _, _)
Exchange(s, pos, counts, i, k) ==
    IF s.left[k] = 0 THEN s
    ELSE LET l == s.label[i]
             swapid == pos[l] + s.left[l] - 1
         IN Exchange([ord |-> Swap(s.ord, i, swapid), label |-> Swap(s.label, i, swapid),
                      left |-> [s.left EXCEPT ![l] = @ - 1]], pos, counts, i, k)

RECURSIVE ShuffleFrom(_, _, _, _)
ShuffleFrom(s, pos, a, k) ==
    IF k > Len(pos) THEN s.ord
    ELSE IF a.counts[k] = 0 THEN ShuffleFrom(s, pos, a, k + 1)
    ELSE LET t == Exchange(s, pos, a.counts, pos[k], k)
             at == CHOOSE i \in pos[k]..Size - 1 :
                       t.ord[i] = a.clusterIdx[k] /\ \A j \in pos[k]..i - 1 : t.ord[j] # a.clusterIdx[k]
         IN ShuffleFrom([t EXCEPT !.ord = Swap(@, at, pos[k] + a.counts[k] - 1)], pos, a, k + 1)

Shuffle(ord, first, a) ==
    ShuffleFrom([ord |-> ord, label |-> a.label, left |-> a.counts],
                [k \in DOMAIN a.counts |-> Offset(a.counts, first, k)], a, 1)

\* Where k-means may have put its centres when it stops.  All vectors are
\* assigned to these, then to the leaders of the clusters.
Values == {data[i][j] : i \in DOMAIN data, j \in DOMAIN data[1]}
TryClustering(ord, first, last, n) ==
    LET leaders(c) == LET a == KmeansAssign(ord, first, last, c)
                      IN [k \in 1..n |-> IF a.clusterIdx[k] = -1 THEN c[k] ELSE Sample(a.clusterIdx[k])]
    IN {KmeansAssign(ord, first, last, leaders(c)) : c \in [1..n -> [DOMAIN data[1] -> Values]]}

Clusters(n) ==
    IF setting.dynamicK
    THEN LET few == n \div setting.leafSize + 1
             dk == IF few < setting.k THEN few ELSE setting.k
         IN IF dk < 2 THEN 2 ELSE dk
    ELSE setting.k

BKTItem(index, first, last) == [index |-> index, first |-> first, last |-> last]

BKTStart ==
    /\ setting.kind = "BKT" /\ pc = "start"
    /\ Len(starts) < setting.trees
    /\ order' \in Shuffled(0, Size)
    /\ starts' = Append(starts, Len(nodes))
    /\ nodes' = Append(nodes, Leaf(Size))
    /\ stack' = <<BKTItem(Len(nodes), 0, Size)>>
    /\ pc' = "divide"
    /\ UNCHANGED <<setting, data, centerOf, treeSize, leaves, rows, rebuilding>>

Item == Head(stack)

\* The node of an item of a k-d tree has its number.
Numbered(item) == "index" \in DOMAIN item

\* WithChildren(new): the node of the item gets the nodes in new as children.
WithChildren(new) == [nodes EXCEPT ![Item.index + 1].childStart = Len(nodes), ![Item.index + 1].childEnd = Len(nodes) + Len(new)] \o new

BKTLeaves ==
    /\ setting.kind = "BKT" /\ pc = "divide" /\ stack # <<>>
    /\ Item.last - Item.first <= setting.leafSize
    /\ nodes' = WithChildren([j \in 1..Item.last - Item.first |-> Leaf(Cid(order[Item.first + j - 1]))])
    /\ stack' = Tail(stack)
    /\ UNCHANGED <<setting, data, order, starts, centerOf, treeSize, leaves, rows, rebuilding, pc>>

\* As a slip would have it: the item's last position is left out.
DuplicatesEndShort(item) == item.last

\* The item's last position holds the leader of its own cluster; the first
\* item has none.
DuplicatesEnd(item) == IF item.last + 1 < Size THEN item.last + 1 ELSE Size

Sorted(first, end) ==
    LET r == Rank({order[p] : p \in first..end - 1}, LAMBDA i, j : i < j)
    IN [p \in DOMAIN order |-> IF p \in first..end - 1 THEN r[p - first + 1] ELSE order[p]]

\* One cluster only: the least id stands for all in a negated child range.
BKTDuplicates ==
    /\ setting.kind = "BKT" /\ pc = "divide" /\ stack # <<>>
    /\ Item.last - Item.first > setting.leafSize
    /\ \E a \in TryClustering(order, Item.first, Item.last, Clusters(Item.last - Item.first)) : NumClusters(a) <= 1
    /\ LET end == DuplicatesEnd(Item)
           sorted == Sorted(Item.first, end)
           center == Cid(sorted[Item.first])
           members == [j \in 1..end - Item.first - 1 |-> Cid(sorted[Item.first + j])]
           withChildren == WithChildren([j \in DOMAIN members |-> Leaf(members[j])])
       IN /\ order' = sorted
          /\ nodes' = [withChildren EXCEPT ![Item.index + 1].centerid = center, ![Item.index + 1].childStart = -@]
          /\ centerOf' = [c \in DOMAIN centerOf \cup {members[j] : j \in DOMAIN members} \cup {-1 - center} |->
                IF c = -1 - center THEN Item.index
                ELSE IF \E j \in DOMAIN members : members[j] = c THEN center ELSE centerOf[c]]
    /\ stack' = Tail(stack)
    /\ UNCHANGED <<setting, data, starts, treeSize, leaves, rows, rebuilding, pc>>

BKTSplit ==
    /\ setting.kind = "BKT" /\ pc = "divide" /\ stack # <<>>
    /\ Item.last - Item.first > setting.leafSize
    /\ \E ord \in Shuffled(Item.first, Item.last) :
       \E a \in TryClustering(ord, Item.first, Item.last, Clusters(Item.last - Item.first)) :
          /\ NumClusters(a) > 1
          /\ order' = Shuffle(ord, Item.first, a)
          /\ LET used == Rank({k \in DOMAIN a.counts : a.counts[k] > 0}, LAMBDA i, j : i < j)
                 first(j) == Offset(a.counts, Item.first, used[j])
                 last(j) == first(j) + a.counts[used[j]] - 1
                 items == SelectSeq([j \in DOMAIN used |-> BKTItem(Len(nodes) + j - 1, first(j), last(j))],
                                    LAMBDA i : i.last > i.first)
             IN /\ nodes' = WithChildren([j \in DOMAIN used |-> Leaf(Cid(order'[last(j)]))])
                /\ stack' = [j \in DOMAIN items |-> items[Len(items) + 1 - j]] \o Tail(stack)
    /\ UNCHANGED <<setting, data, starts, centerOf, treeSize, leaves, rows, rebuilding, pc>>

BKTEnd ==
    /\ setting.kind = "BKT" /\ pc = "divide" /\ stack = <<>>
    /\ nodes' = Append(nodes, Leaf(-1))
    /\ pc' = IF Len(starts) = setting.trees THEN "built" ELSE "start"
    /\ UNCHANGED <<setting, data, order, stack, starts, centerOf, treeSize, leaves, rows, rebuilding>>

\* abort->ShouldAbort(): the index is being closed.  Only the root call of
\* DivideTree is given the operation to ask.
Abort ==
    /\ pc = "divide" /\ stack # <<>>
    /\ \/ setting.kind = "BKT"
       \/ setting.kind = "KDT" /\ Numbered(Item) /\ Item.index = starts[Len(starts)]
    /\ pc' = "aborted"
    /\ UNCHANGED <<setting, data, order, stack, nodes, starts, centerOf, treeSize, leaves, rows, rebuilding>>

\* Searching (InitSearchTrees, SearchTrees).  The state of a search: queue
\* (m_SPTQueue) holds nodes to visit, found the samples handed to m_NGQueue,
\* leaves counts the checked leaves.
NodeAt(i) == nodes[i + 1]
NodeDist(q, i) == Dist(q, Vector(NodeAt(i).centerid))
ChildSeq(i) == [j \in 1..NodeAt(i).childEnd - NodeAt(i).childStart |-> NodeAt(i).childStart + j - 1]
Nearest(q, S) == CHOOSE i \in S : \A j \in S : NodeDist(q, i) <= NodeDist(q, j)

\* Offer(q, curr, queue, cs): each node goes to the breadth first level if
\* it is within a tenth of the level's best, else to the queue.
RECURSIVE Offer(_, _, _, _)
Offer(q, curr, queue, cs) ==
    IF cs = <<>> THEN <<curr, queue>>
    ELSE IF curr = {} \/ 10 * NodeDist(q, Head(cs)) <= 11 * NodeDist(q, Nearest(q, curr))
         THEN Offer(q, curr \cup {Head(cs)}, queue, Tail(cs))
         ELSE Offer(q, curr, queue \cup {Head(cs)}, Tail(cs))

RECURSIVE BFSLevel(_, _, _, _, _)
BFSLevel(q, curr, next, queue, found) ==
    IF curr = {} THEN <<next, queue, found>>
    ELSE LET i == Nearest(q, curr)
         IN IF NodeAt(i).childStart < 0 THEN BFSLevel(q, curr \ {i}, next, queue \cup {i}, found)
            ELSE LET o == Offer(q, next, queue, ChildSeq(i))
                 IN BFSLevel(q, curr \ {i}, o[1], o[2], found \cup {NodeAt(i).centerid})

RECURSIVE BFS(_, _, _, _, _)
BFS(q, bfs, curr, queue, found) ==
    IF bfs = 0 THEN <<queue \cup curr, found>>
    ELSE LET l == BFSLevel(q, curr, {}, queue, found) IN BFS(q, bfs - 1, l[1], l[2], l[3])

RECURSIVE InitSearchTrees(_, _, _, _)
InitSearchTrees(q, bfs, trees, s) ==
    IF trees = {} THEN s
    ELSE LET t == CHOOSE t \in trees : \A u \in trees : t <= u
             root == starts[t]
         IN InitSearchTrees(q, bfs, trees \ {t},
                IF NodeAt(root).childStart < 0 THEN <<s[1] \cup {root}, s[2]>>
                ELSE IF bfs > 0
                THEN LET o == Offer(q, {}, s[1], ChildSeq(root)) IN BFS(q, bfs, o[1], o[2], s[2])
                ELSE <<s[1] \cup {ChildSeq(root)[j] : j \in DOMAIN ChildSeq(root)}, s[2]>>)

Visited(i, found) == found \cup {NodeAt(i).centerid}

RECURSIVE SearchTrees(_, _, _, _, _)
SearchTrees(q, limits, queue, checked, found) ==
    IF queue = {} THEN [found |-> found, checked |-> checked]
    ELSE LET i == Nearest(q, queue)
             leaf == NodeAt(i).childStart < 0
             now == IF leaf /\ NodeAt(i).centerid \notin found THEN checked + 1 ELSE checked
             rest == queue \ {i}
         IN IF leaf /\ now >= limits THEN [found |-> Visited(i, found), checked |-> now]
            ELSE SearchTrees(q, limits,
                             IF leaf THEN rest ELSE rest \cup {ChildSeq(i)[j] : j \in DOMAIN ChildSeq(i)},
                             now, Visited(i, found))

BKTSearch(q, bfs, limits) ==
    LET s == InitSearchTrees(q, bfs, DOMAIN starts, <<{}, {}>>) IN SearchTrees(q, limits, s[1], 0, s[2])

(***************************************************************************)
(* k-d trees.  A link to a sample i is -i - 1.                             *)
(***************************************************************************)
\* Means and variances over the first samples of the segment; end is the
\* last position they look at.
MeanEnd(first, last) == IF first + setting.meanOf < last THEN first + setting.meanOf ELSE last
Sum(f(_), first, last) == SumOver(first..MeanEnd(first, last), f)

\* Variance times the square of the number of samples.
Variance(f, first, last) ==
    LET n == MeanEnd(first, last) - first + 1
            sum == Sum(LAMBDA p : f[p], first, last)
    IN n * Sum(LAMBDA p : f[p] * f[p], first, last) - sum * sum

\* SelectDivisionDimension: one of the dimensions of greatest variance; of
\* equal ones the first.
SelectDivisionDimension(first, last) ==
    LET var(d) == Variance([p \in first..last |-> Sample(order[p])[d]], first, last)
        ranked == Rank(DOMAIN data[1], LAMBDA c, d : var(c) > var(d) \/ (var(c) = var(d) /\ c < d))
    IN {ranked[j] : j \in 1..(IF setting.topDims < Len(ranked) THEN setting.topDims ELSE Len(ranked))}

\* Below(f, first, last): the samples of the segment where f is below its mean.
Below(f(_), first, last) ==
    {x \in {order[p] : p \in first..last} :
        f(x) * (MeanEnd(first, last) - first + 1) < Sum(LAMBDA p : f(order[p]), first, last)}

\* Subdivide: samples below the mean come first.  The result is the order
\* and the position the second half begins at; halves are never empty.
RECURSIVE Partition(_, _, _, _)
Partition(ord, i, j, low) ==
    IF i > j THEN <<ord, i>>
    ELSE IF ord[i] \in low THEN Partition(ord, i + 1, j, low) ELSE Partition(Swap(ord, i, j), i, j - 1, low)

Halves(i, first, last) == IF i = first \/ i = last + 1 THEN (first + last + 1) \div 2 ELSE i

Subdivide(first, last, low) ==
    LET p == Partition(order, first, last, low) IN <<p[1], Halves(p[2], first, last)>>

KDTNode == [left |-> 0, right |-> 0, dim |-> 0, sum |-> 0, n |-> 1]

KDTStart ==
    /\ setting.kind = "KDT" /\ pc = "start"
    /\ Len(starts) < setting.trees
    /\ LET start == Len(starts) * Size
       IN /\ starts' = Append(starts, start)
          /\ treeSize' = start
          /\ stack' = <<[index |-> start, first |-> 0, last |-> Size - 1]>>
    /\ order' \in Shuffled(0, Size)
    /\ nodes' = IF nodes = <<>> THEN [i \in 1..setting.trees * Size |-> KDTNode] ELSE nodes
    /\ pc' = "divide"
    /\ UNCHANGED <<setting, data, centerOf, leaves, rows, rebuilding>>

\* The left part is divided before the right one: an item whose node is not
\* numbered yet names its parent, and takes the next number when its turn
\* comes.  The threshold of a node, split_value, is sum / n.
Child(parent, side, first, last) == [parent |-> parent, side |-> side, first |-> first, last |-> last]

DivideTree ==
    /\ setting.kind = "KDT" /\ pc = "divide" /\ stack # <<>>
    /\ Numbered(Item)
    /\ \E dim \in SelectDivisionDimension(Item.first, Item.last) :
       LET s == Subdivide(Item.first, Item.last, Below(LAMBDA x : Sample(x)[dim], Item.first, Item.last))
           i == s[2]
           leftLeaf == i - 1 <= Item.first
           rightLeaf == Item.last = i
       IN /\ order' = s[1]
          /\ nodes' = [nodes EXCEPT ![Item.index + 1].dim = dim,
                                    ![Item.index + 1].sum = Sum(LAMBDA p : Sample(order[p])[dim], Item.first, Item.last),
                                    ![Item.index + 1].n = MeanEnd(Item.first, Item.last) - Item.first + 1,
                                    ![Item.index + 1].left = IF leftLeaf THEN -s[1][Item.first] - 1 ELSE @,
                                    ![Item.index + 1].right = IF rightLeaf THEN -s[1][Item.last] - 1 ELSE @]
          /\ stack' = (IF leftLeaf THEN <<>> ELSE <<Child(Item.index, "left", Item.first, i - 1)>>)
                      \o (IF rightLeaf THEN <<>> ELSE <<Child(Item.index, "right", i, Item.last)>>) \o Tail(stack)
    /\ UNCHANGED <<setting, data, starts, centerOf, treeSize, leaves, rows, rebuilding, pc>>

NumberNode ==
    /\ setting.kind = "KDT" /\ pc = "divide" /\ stack # <<>>
    /\ ~Numbered(Item)
    /\ treeSize' = treeSize + 1
    /\ nodes' = IF Item.side = "left" THEN [nodes EXCEPT ![Item.parent + 1].left = treeSize + 1]
                                      ELSE [nodes EXCEPT ![Item.parent + 1].right = treeSize + 1]
    /\ stack' = <<[index |-> treeSize + 1, first |-> Item.first, last |-> Item.last]>> \o Tail(stack)
    /\ UNCHANGED <<setting, data, order, starts, centerOf, leaves, rows, rebuilding, pc>>

KDTEnd ==
    /\ setting.kind = "KDT" /\ pc = "divide" /\ stack = <<>>
    /\ pc' = IF Len(starts) = setting.trees THEN "built" ELSE "start"
    /\ UNCHANGED <<setting, data, order, stack, nodes, starts, centerOf, treeSize, leaves, rows, rebuilding>>

\* KDTSearch(node, bound, s): down to the leaf on the query's side of every
\* split; the other sides are queued with a bound on their distance, in
\* twelfths: at most four samples make a mean.
RECURSIVE KDTSearch(_, _, _, _)
KDTSearch(q, node, bound, s) ==
    IF node < 0 THEN [s EXCEPT !.found = @ \cup {-node - 1}]
    ELSE LET n == nodes[node + 1]
             diff == 12 * q[n.dim] - (12 * n.sum) \div n.n
             best == IF diff < 0 THEN n.left ELSE n.right
             other == IF diff < 0 THEN n.right ELSE n.left
         IN KDTSearch(q, best, bound, [s EXCEPT !.queue = @ \cup {<<other, bound + diff * diff>>}])

RECURSIVE KDTSearchTrees(_, _, _)
KDTSearchTrees(q, limits, s) ==
    IF s.queue = {} \/ Cardinality(s.found) >= limits THEN s.found
    ELSE LET c == CHOOSE c \in s.queue : \A d \in s.queue : c[2] <= d[2]
         IN KDTSearchTrees(q, limits, KDTSearch(q, c[1], c[2], [s EXCEPT !.queue = @ \ {c}]))

RECURSIVE KDTInitSearch(_, _, _)
KDTInitSearch(q, trees, s) ==
    IF trees = {} THEN s
    ELSE LET t == CHOOSE t \in trees : TRUE IN KDTInitSearch(q, trees \ {t}, KDTSearch(q, starts[t], 0, s))

(***************************************************************************)
(* Trinary projection trees, and the graph of the neighbours found in      *)
(* their leaves.                                                           *)
(***************************************************************************)
TPTStart ==
    /\ setting.kind = "TPT" /\ pc = "start"
    /\ Len(starts) < setting.trees
    /\ order' \in Shuffled(0, Size)
    /\ starts' = Append(starts, 0)
    /\ leaves' = Append(leaves, <<>>)
    /\ stack' = <<[first |-> 0, last |-> Size - 1]>>
    /\ pc' = "divide"
    /\ UNCHANGED <<setting, data, nodes, centerOf, treeSize, rows, rebuilding>>

TPTLeaf ==
    /\ setting.kind = "TPT" /\ pc = "divide" /\ stack # <<>>
    /\ Item.last - Item.first <= setting.leafSize
    /\ leaves' = [leaves EXCEPT ![Len(leaves)] = Append(@, [j \in 1..Item.last - Item.first + 1 |-> order[Item.first + j - 1]])]
    /\ stack' = Tail(stack)
    /\ UNCHANGED <<setting, data, order, nodes, starts, centerOf, treeSize, rows, rebuilding, pc>>

\* Projections(first, last): the dimension of greatest variance, or a random
\* combination of the two greatest whose variance is greater still.
Projections(first, last) ==
    LET var(w) == Variance([p \in first..last |-> SumOver(DOMAIN w, LAMBDA d : w[d] * Sample(order[p])[d])], first, last)
        unit(d) == [c \in DOMAIN data[1] |-> IF c = d THEN 1 ELSE 0]
        ranked == Rank(DOMAIN data[1], LAMBDA c, d : var(unit(c)) > var(unit(d)) \/ (var(unit(c)) = var(unit(d)) /\ c > d))
        mixed(sign) == [c \in DOMAIN data[1] |-> IF c = ranked[1] THEN 1 ELSE IF c = ranked[2] THEN sign ELSE 0]
    IN {unit(ranked[1])} \cup
       {w \in {mixed(sign) : sign \in {1, -1}} : Len(ranked) > 1 /\ var(w) > 2 * var(unit(ranked[1]))}

TPTSplit ==
    /\ setting.kind = "TPT" /\ pc = "divide" /\ stack # <<>>
    /\ Item.last - Item.first > setting.leafSize
    /\ \E w \in Projections(Item.first, Item.last) :
       LET s == Subdivide(Item.first, Item.last,
                          Below(LAMBDA x : SumOver(DOMAIN w, LAMBDA d : w[d] * Sample(x)[d]), Item.first, Item.last))
       IN /\ order' = s[1]
          /\ stack' = <<[first |-> Item.first, last |-> s[2] - 1], [first |-> s[2], last |-> Item.last]>> \o Tail(stack)
    /\ UNCHANGED <<setting, data, nodes, starts, centerOf, treeSize, leaves, rows, rebuilding, pc>>

\* AddNeighbor(row, idx, dist): row is sorted by distance, then id; nothing
\* happens to a full row of nearer ones, or to one that has idx.
Before(a, b) == a.dist < b.dist \/ (a.dist = b.dist /\ a.id < b.id)
NoDistance == 1000
NoNeighbor == [id |-> -1, dist |-> NoDistance]

AddNeighbor(row, new) ==
    IF ~Before(new, row[Len(row)]) \/ \E n \in DOMAIN row : row[n].id = new.id THEN row
    ELSE LET nb == CHOOSE n \in DOMAIN row : Before(new, row[n]) /\ (n = 1 \/ ~Before(new, row[n - 1]))
         IN SubSeq(row, 1, nb - 1) \o <<new>> \o SubSeq(row, nb, Len(row) - 1)

\* Mapped(i): the sample whose row has the neighbours of i.
Mapped(i) == IF i \in DOMAIN centerOf THEN centerOf[i] ELSE i

\* Pairs(leaf): the pairs of a leaf, one after the other.
Pairs(leaf) ==
    Rank({p \in (DOMAIN leaf) \X (DOMAIN leaf) : p[1] < p[2]},
         LAMBDA p, q : p[1] < q[1] \/ (p[1] = q[1] /\ p[2] < q[2]))

RECURSIVE ConnectPairs(_, _, _)
ConnectPairs(g, leaf, pairs) ==
    IF pairs = <<>> THEN g
    ELSE LET x == leaf[Head(pairs)[1]]
             y == leaf[Head(pairs)[2]]
             p1 == Mapped(x)
             p2 == Mapped(y)
             dist == Dist(Sample(x), Sample(y))
             one == [g EXCEPT ![p1] = AddNeighbor(@, [id |-> p2, dist |-> dist])]
         IN ConnectPairs([one EXCEPT ![p2] = AddNeighbor(@, [id |-> p1, dist |-> dist])], leaf, Tail(pairs))

RECURSIVE ConnectLeaves(_, _)
ConnectLeaves(g, ls) ==
    IF ls = <<>> THEN g ELSE ConnectLeaves(ConnectPairs(g, Head(ls), Pairs(Head(ls))), Tail(ls))

\* BuildInitKNNGraph, the pairs of one tree's leaves.  Several threads share
\* the leaves; without an idmap these have no row in common.
TPTEnd ==
    /\ setting.kind = "TPT" /\ pc = "divide" /\ stack = <<>>
    /\ rows' = ConnectLeaves(rows, leaves[Len(leaves)])
    /\ pc' = IF Len(starts) = setting.trees THEN "built" ELSE "start"
    /\ UNCHANGED <<setting, data, order, stack, nodes, starts, centerOf, treeSize, leaves, rebuilding>>

(***************************************************************************)
(* RebuildGraph.  Its threads count how many rows lead to each sample, and *)
(* then take the rows in turn.  Of a row's second quarter on, the edges to *)
(* samples few rows lead to are kept, then the nearest, until the first    *)
(* half is full again.  The counters are plain integers: a thread at work  *)
(* may lose what another has just changed (bound: one change in all).      *)
(***************************************************************************)
Ids(row, columns) == {row[j].id : j \in columns} \ {-1}
Width == setting.width \div 2
RebuildStart == Width \div 2
InDegree(g, n) == Cardinality({i \in DOMAIN g : n \in Ids(g[i], 1..Width)})

\* As a slip would have it: the edges to samples many rows lead to are kept.
PopularColumns(row, indegree) ==
    {j \in RebuildStart + 1..Len(row) : row[j].id # -1 /\ indegree[row[j].id] >= RebuildStart}

RareColumns(row, indegree) ==
    {j \in RebuildStart + 1..Len(row) : row[j].id # -1 /\ indegree[row[j].id] < RebuildStart}

\* The columns a row keeps, in order.
Reserve(row, indegree) ==
    LET rare == RareColumns(row, indegree)
        others == Rank(RebuildStart + 1..Len(row) \ rare, LAMBDA i, j : i < j)
        missing == Width - RebuildStart - Cardinality(rare)
    IN Rank(rare \cup {others[n] : n \in 1..missing}, LAMBDA i, j : i < j)

NoRow == -1
IdleThread == [row |-> NoRow, reserve |-> <<>>, column |-> 0]

CountInDegree ==
    /\ setting.rebuild /\ pc = "built"
    /\ LET exact == [n \in Kept |-> InDegree(rows, n)]
           lossy == {[exact EXCEPT ![n] = @ - 1] : n \in {n \in Kept : setting.threads > 1 /\ exact[n] > 1}}
       IN \E f \in {exact} \cup lossy :
              rebuilding' = [indegree |-> f, exact |-> f = exact, next |-> 0, at |-> [t \in 1..setting.threads |-> IdleThread]]
    /\ pc' = "rebuild"
    /\ UNCHANGED <<setting, data, order, stack, nodes, starts, centerOf, treeSize, leaves, rows>>

RebuildTake(t) ==
    /\ pc = "rebuild"
    /\ rebuilding.at[t].row = NoRow /\ rebuilding.next < Count
    /\ LET i == rebuilding.next
           taken == [row |-> i, reserve |-> Reserve(rows[i], rebuilding.indegree), column |-> RebuildStart + 1]
       IN rebuilding' = [rebuilding EXCEPT !.next = i + 1, !.at[t] = taken]
    /\ UNCHANGED <<setting, data, order, stack, nodes, starts, centerOf, treeSize, leaves, rows, pc>>

\* One column: the counters of the neighbour that leaves it and of the one
\* that takes it are changed.  The change of either may be overwritten by
\* that of another thread at work.
RebuildMove(t) ==
    /\ pc = "rebuild"
    /\ rebuilding.at[t].row # NoRow
    /\ LET at == rebuilding.at[t]
           row == rows[at.row]
           from == at.reserve[at.column - RebuildStart]
           alone == \A u \in DOMAIN rebuilding.at \ {t} : rebuilding.at[u].row = NoRow
           loses == IF alone \/ ~rebuilding.exact THEN {"none"} ELSE {"none", "left", "taken"}
           one(holds) == IF holds THEN 1 ELSE 0
       IN /\ rows' = [rows EXCEPT ![at.row][at.column] = row[from]]
          /\ \E lost \in loses :
                 rebuilding' = [rebuilding EXCEPT !.exact = @ /\ lost = "none",
                     !.indegree = [n \in Kept |-> @[n] - one(n = row[at.column].id /\ lost # "left")
                                                       + one(n = row[from].id /\ lost # "taken")],
                     !.at[t] = IF at.column = Width THEN IdleThread ELSE [@ EXCEPT !.column = @ + 1]]
    /\ UNCHANGED <<setting, data, order, stack, nodes, starts, centerOf, treeSize, leaves, pc>>

RebuildEnd ==
    /\ pc = "rebuild" /\ rebuilding.next = Count
    /\ \A t \in DOMAIN rebuilding.at : rebuilding.at[t].row = NoRow
    /\ pc' = "rebuilt"
    /\ UNCHANGED <<setting, data, order, stack, nodes, starts, centerOf, treeSize, leaves, rows, rebuilding>>

(***************************************************************************)
(* The specification.                                                      *)
(***************************************************************************)
\* What GetSampleMap may give: any samples are mapped to lesser ones, which
\* another tree may have mapped in turn.
SampleMaps ==
    {f \in UNION {[D -> Kept] : D \in SUBSET Kept} : \A i \in DOMAIN f : f[i] < i}

Init ==
    /\ setting \in Settings
    /\ data \in setting.samples
    /\ order = [p \in 0..Size - 1 |-> IF setting.moved THEN p + 1 ELSE p]
    /\ stack = <<>> /\ nodes = <<>> /\ starts = <<>> /\ leaves = <<>> /\ treeSize = 0
    /\ centerOf \in IF setting.idmap THEN SampleMaps ELSE {[c \in {} |-> 0]}
    /\ rebuilding = [indegree |-> <<>>, exact |-> TRUE, next |-> 0, at |-> <<>>]
    /\ rows = [i \in Kept |-> [j \in 1..setting.width |-> NoNeighbor]]
    /\ pc = "start"

Next ==
    \/ BKTStart \/ BKTLeaves \/ BKTDuplicates \/ BKTSplit \/ BKTEnd
    \/ KDTStart \/ DivideTree \/ NumberNode \/ KDTEnd
    \/ TPTStart \/ TPTLeaf \/ TPTSplit \/ TPTEnd
    \/ CountInDegree \/ RebuildEnd
    \/ \E t \in DOMAIN rebuilding.at : RebuildTake(t) \/ RebuildMove(t)
    \/ Abort

Spec == Init /\ [][Next]_vars

(***************************************************************************)
(* Properties.                                                             *)
(***************************************************************************)
NewIds == {Cid(i) : i \in Kept}
TreeNodes(t) == IF t = Len(starts) THEN starts[t]..Len(nodes) - 1 ELSE starts[t]..starts[t + 1] - 1

\* A built tree has every sample, once: as the centre of one node of a
\* k-means tree, however its segments were permuted, led and cut, as one
\* leaf of a k-d tree (two if it is alone), in one leaf of a projection
\* tree; and a k-d tree stays within the nodes allotted to it.
EachSampleOnce ==
    pc = "built" =>
        \A t \in DOMAIN starts :
            CASE setting.kind = "BKT" ->
                     \A c \in NewIds : Cardinality({i \in TreeNodes(t) : NodeAt(i).centerid = c}) = 1
              [] setting.kind = "KDT" ->
                     /\ \A c \in NewIds :
                            Cardinality({<<i, side>> \in TreeNodes(t) \X {"left", "right"} : nodes[i + 1][side] = -c - 1})
                                = IF Size = 1 THEN 2 ELSE 1
                     /\ \A i \in TreeNodes(t), side \in {"left", "right"} : nodes[i + 1][side] < starts[t] + Size
              [] OTHER ->
                     \A c \in NewIds : Cardinality({<<l, j>> \in (DOMAIN leaves[t]) \X (1..Size) : j \in DOMAIN leaves[t][l] /\ leaves[t][l][j] = c}) = 1

\* Those the mark of sample f leads the graph search to (f itself included).
StandsFor(f) ==
    {f} \cup IF -1 - f \notin DOMAIN centerOf THEN {}
             ELSE LET node == NodeAt(centerOf[-1 - f]) IN {NodeAt(i).centerid : i \in -node.childStart..node.childEnd - 1}

\* A search of the built trees with a limit checks so many leaves, and one
\* whose limit is not reached hands the graph search every sample, or one
\* whose mark leads to it, also when several trees list its duplicates
\* under different samples.
SearchCovers ==
    pc = "built" =>
        \A i \in Kept :
            LET q == Sample(i)
            IN CASE setting.kind = "BKT" ->
                        \A bfs \in 0..1, limits \in {2, Size + 1} :
                            LET s == BKTSearch(q, bfs, limits)
                            IN s.checked >= limits \/ NewIds \subseteq UNION {StandsFor(f) : f \in s.found}
                 [] setting.kind = "KDT" ->
                        \A limits \in {2, Size + 1} :
                            LET found == KDTSearchTrees(q, limits, KDTInitSearch(q, DOMAIN starts, [found |-> {}, queue |-> {}]))
                            IN Cardinality(found) >= limits \/ NewIds \subseteq found
                 [] OTHER -> TRUE

\* The neighbours row i was offered: of every pair that shares a leaf of some
\* tree, the row that has the neighbours of one is offered the other's.
Offered(i) ==
    UNION {{[id |-> Mapped(l[b]), dist |-> Dist(Sample(l[a]), Sample(l[b]))] :
            <<a, b>> \in {p \in (DOMAIN l) \X (DOMAIN l) : p[1] # p[2] /\ Mapped(l[p[1]]) = i}}
           : l \in UNION {{leaves[t][m] : m \in DOMAIN leaves[t]} : t \in DOMAIN leaves}}

\* Every row of the first graph has, nearest first and each once, neighbours
\* it was offered: the nearest ones, unless a neighbour was offered with
\* several distances, for unequal samples that are mapped to one.
RowsAreNearest ==
    setting.kind = "TPT" /\ pc = "built" =>
        \A i \in Kept :
            LET offered == Offered(i)
                ranked == Rank(offered, Before)
                has == {n \in 1..setting.width : rows[i][n] # NoNeighbor}
            IN /\ \A n \in has : rows[i][n] \in offered
               /\ \A n \in has \ {1} : n - 1 \in has /\ ~Before(rows[i][n], rows[i][n - 1])
               /\ \A m, n \in has : rows[i][m].id = rows[i][n].id => m = n
               /\ (\A a, b \in offered : a.id = b.id => a = b) =>
                      \A n \in 1..setting.width : rows[i][n] = IF n <= Len(ranked) THEN ranked[n] ELSE NoNeighbor

\* However the threads share the rows, and whatever they read of the
\* counters, a rebuilt row leads to nobody twice, and to the nearest first.
RebuiltRowsSound ==
    pc = "rebuilt" =>
        \A i \in Kept :
            /\ \A m, n \in 1..Width : rows[i][m].id = rows[i][n].id => m = n \/ rows[i][m] = NoNeighbor
            /\ \A m, n \in 1..Width : m < n => ~Before(rows[i][n], rows[i][m])

\* Making room for rarely met samples cuts no sample off, if one thread does
\* it and rows stay at least four wide: while the graph is rebuilt, a sample
\* some row leads to is always led to.  (Two threads may each drop one of the
\* last two edges; and in narrower rows the threshold is a single edge.)
NoneCutOff ==
    [][setting.threads = 1 /\ Width >= 4 /\ pc = "rebuild" =>
        \A n \in Kept : InDegree(rows, n) > 0 => InDegree(rows', n) > 0]_vars
=============================================================================
