----------------------------- MODULE GraphIndex -----------------------------
(***************************************************************************)
(* A BKT or KDT index: samples, a graph of neighbours searched best first, *)
(* trees that give the search its first nodes, and a set of deleted ids    *)
(* (BKTIndex.cpp, KDTIndex.cpp, NeighborhoodGraph.h,                       *)
(* RelativeNeighborhoodGraph.h, BKTree.h, KDTree.h, LabelSet.h).           *)
(*                                                                         *)
(* Additions extend the arrays under m_dataAddLock and then connect the    *)
(* new nodes with no lock but that of each row they write; a background    *)
(* job rebuilds the trees and swaps them under the tree lock, which only   *)
(* searches share; deletions, saves and compactions use m_dataDeleteLock.  *)
(*                                                                         *)
(* Abstractions.  A vector is a point of a line, so a row of a few slots   *)
(* holds a whole relative neighbourhood.  Search budgets (MaxCheck, CEF)   *)
(* are never exhausted: a search sees every node it can reach from one     *)
(* node of the tree, whichever.  The step of a search that visits nodes is *)
(* atomic.  A row of the last slot is -1 (empty), a node, or -2 - g: the   *)
(* duplicates its sample stands for in the tree of generation g.           *)
(***************************************************************************)
EXTENDS Integers, Sequences, FiniteSets, SequencesExt

CONSTANTS
    Adders,             \* threads that add
    NeighborhoodSize,   \* m_iNeighborhoodSize
    Settings

Setting ==
    [kind : {"BKT", "KDT"},
     points : Seq(Int),         \* where the n-th vector lies
     built : Nat \ {0},         \* the first so many are built in
     leafSize : Nat \ {0},      \* m_iBKTLeafSize
     smallGraph : Nat,          \* below so many samples BuildGraph marks no duplicates
     rebuildAfter : Nat \ {0},  \* m_addCountForRebuild
     deletable : SUBSET Nat,    \* names of vectors that may be deleted
     adders : Nat, saves : Nat, searches : Nat, scans : Nat]     \* bounds

ASSUME GraphSettings == \A s \in Settings : s \in Setting /\ s.built <= Len(s.points)

VARIABLES
    setting,
    pts, rows,      \* m_pSamples and m_pGraph
    meta,           \* m_pMetadata: the name of each sample
    deleted,        \* m_deletedID
    tree,           \* m_pTrees: generation, samples it was built on, duplicates
    job,            \* the rebuild job of m_threadPool
    adder, search, saver,
    deleter,        \* a deletion by vector: the ids still to delete, the names it stands for
    iter,           \* a ResultIterator and its work space
    disk,           \* the files of the last save, and whether they agree
    used,
    added, removed, \* names acknowledged as added, as deleted
    disturbed       \* has an addition met another, or a change of trees?

vars == <<setting, pts, rows, meta, deleted, tree, job, adder, search, saver, deleter, iter, disk, used, added, removed, disturbed>>
index == <<pts, rows, meta, deleted, tree>>
readers == <<search, deleter, iter>>
history == <<added, removed, disturbed>>

Slots == 1..NeighborhoodSize
LastSlot == NeighborhoodSize
NoFiles == [pts |-> <<>>]
IdleJob == [pc |-> "none", tree |-> 0, again |-> FALSE]
IdleAdder == [pc |-> "idle", node |-> 0, results |-> <<>>, writes |-> <<>>]
IdleSearch == [pc |-> "idle", all |-> FALSE, before |-> {}, results |-> {}]

IdleDeleter == [ids |-> {}, names |-> {}]
ClosedIter == [pc |-> "none", visited |-> {}, queue |-> {}, returned |-> <<>>, due |-> {}]

Ids(f) == DOMAIN f
Dist(a, b) == IF a < b THEN b - a ELSE a - b
Sorted(S, Before(_, _)) ==
    [k \in 1..Cardinality(S) |-> CHOOSE i \in S : Cardinality({j \in S : Before(j, i)}) = k - 1]
Extend(f, v) == [i \in 0..Cardinality(DOMAIN f) |-> IF i \in DOMAIN f THEN f[i] ELSE v]

(***************************************************************************)
(* Trees.  A cluster of equal vectors too large for a leaf becomes one     *)
(* node: its least id stands for the others (m_pSampleCenterMap).  That it *)
(* does so in every build, or in none, is assumed.                         *)
(***************************************************************************)
Group(p, i) == {j \in Ids(p) : p[j] = p[i]}
Centers(p, leaf) == {i \in Ids(p) : Cardinality(Group(p, i)) > leaf /\ \A j \in Group(p, i) : i <= j}

BKTBuildTrees(gen, p) ==
    [gen |-> gen, size |-> Cardinality(DOMAIN p), mapped |-> TRUE,
     dups |-> [c \in Centers(p, setting.leafSize) |-> Sorted(Group(p, c) \ {c}, <)]]

\* Every sample is a leaf of a k-d tree.
KDTBuildTrees(gen, p) == [gen |-> gen, size |-> Cardinality(DOMAIN p), mapped |-> TRUE, dups |-> <<>>]

BuildTrees(gen, p) == IF setting.kind = "BKT" THEN BKTBuildTrees(gen, p) ELSE KDTBuildTrees(gen, p)

Members(t) == UNION {ToSet(t.dups[c]) : c \in DOMAIN t.dups}
Entries(t) == (0..(t.size - 1)) \ Members(t)
CenterOf(t, i) == IF \E c \in DOMAIN t.dups : i \in ToSet(t.dups[c])
                  THEN CHOOSE c \in DOMAIN t.dups : i \in ToSet(t.dups[c]) ELSE i

\* A swap writes the last slot of the rows of its centers.
MarkDuplicates(r, t) ==
    [i \in DOMAIN r |-> IF i \in DOMAIN t.dups THEN [r[i] EXCEPT ![LastSlot] = -2 - t.gen] ELSE r[i]]
UnmarkDuplicates(r, t) ==
    [i \in DOMAIN r |-> IF t.mapped /\ i \in DOMAIN t.dups THEN [r[i] EXCEPT ![LastSlot] = -1] ELSE r[i]]

(***************************************************************************)
(* Searching: every node reachable from an entry of the tree.  A marked    *)
(* node stands for itself and its duplicates: all of those that are wanted *)
(* when duplicates are, the first of them when not.                        *)
(***************************************************************************)
Neighbors(row) == {row[k] : k \in {s \in Slots : /\ row[s] >= 0 /\ \A z \in 1..s : row[z] >= 0}}

Reached(r, e) ==
    LET step[n \in 0..Cardinality(DOMAIN r)] ==
            IF n = 0 THEN {e}
            ELSE LET before == step[n - 1] IN before \cup UNION {Neighbors(r[i]) : i \in before}
    IN step[Cardinality(DOMAIN r)]

StandsFor(r, t, i) == <<i>> \o (IF r[i][LastSlot] < -1 /\ i \in DOMAIN t.dups THEN t.dups[i] ELSE <<>>)
FirstOf(s, S) == {s[k] : k \in {j \in DOMAIN s : s[j] \in S /\ \A z \in 1..(j - 1) : s[z] \notin S}}

BKTSearch(r, t, wanted, e, allDuplicates) ==
    UNION {IF allDuplicates THEN ToSet(StandsFor(r, t, i)) \cap wanted ELSE FirstOf(StandsFor(r, t, i), wanted)
             : i \in Reached(r, e)}

KDTSearch(r, wanted, e) == Reached(r, e) \cap wanted

SearchFrom(r, t, wanted, e, allDuplicates) ==
    IF setting.kind = "BKT" THEN BKTSearch(r, t, wanted, e, allDuplicates) ELSE KDTSearch(r, wanted, e)

ByDistance(p, point, S) ==
    Sorted(S, LAMBDA i, j : Dist(p[i], point) < Dist(p[j], point) \/ (Dist(p[i], point) = Dist(p[j], point) /\ i < j))

(***************************************************************************)
(* RelativeNeighborhoodGraph.                                              *)
(***************************************************************************)
Pad(s) == [k \in Slots |-> IF k <= Len(s) THEN s[k] ELSE -1]

\* Nearest first, a candidate is taken unless one taken before is nearer to
\* it than the node is.
RebuildNeighbors(p, node, results) ==
    Pad(FoldLeft(LAMBDA nodes, i :
            IF i = node \/ Len(nodes) = NeighborhoodSize \/ \E k \in DOMAIN nodes : Dist(p[nodes[k]], p[i]) < Dist(p[node], p[i])
            THEN nodes ELSE Append(nodes, i), <<>>, results))


\* The new node goes before the first neighbour that is farther; those it
\* displaces move down while they are nearer to the row's node than to the
\* new one, and the first that is not is dropped.  It is refused when a
\* nearer neighbour is nearer to it too.
InsertNeighbors(p, row, node, insert) ==
    LET size == IF row[LastSlot] < -1 THEN NeighborhoodSize - 1 ELSE NeighborhoodSize
        d == Dist(p[insert], p[node])
        Farther(i) == Dist(p[i], p[node]) > d \/ (Dist(p[i], p[node]) = d /\ insert < i)
        Blocks(i) == ~Farther(i) /\ Dist(p[i], p[insert]) < d
        stops == {k \in 1..size : row[k] < 0 \/ Farther(row[k]) \/ Blocks(row[k])}
        at == CHOOSE k \in stops : \A z \in stops : k <= z
        Stays(i) == i >= 0 /\ Dist(p[i], p[node]) <= Dist(p[i], p[insert])
    IN IF stops = {} THEN row
       ELSE IF row[at] < 0 THEN [row EXCEPT ![at] = insert]
       ELSE IF Blocks(row[at]) THEN row
       ELSE [k \in Slots |-> IF k = at THEN insert
                             ELSE IF k > at /\ k <= size /\ \A z \in at..(k - 1) : Stays(row[z]) THEN row[k - 1]
                             ELSE row[k]]

\* BuildGraph: every node's neighbours among the nodes of the tree.
BuildGraph(p, t) ==
    LET built == [i \in Ids(p) |-> RebuildNeighbors(p, i, ByDistance(p, p[i], Entries(t)))]
    IN IF Cardinality(DOMAIN p) < setting.smallGraph THEN built ELSE MarkDuplicates(built, t)

(***************************************************************************)
(* AddIndex.                                                               *)
(***************************************************************************)
Busy == {c \in Adders : adder[c].pc # "idle"}
AddLockFree == saver.pc = "none"

Name == setting.built + used.adds

\* Under m_dataAddLock samples, rows, deleted ids and metadata grow; then a
\* rebuild is queued if the trees lag and no job is.
AddBatch(c) ==
    LET n == Cardinality(DOMAIN pts) IN
    /\ adder[c].pc = "idle" /\ AddLockFree
    /\ Name < Len(setting.points) /\ Cardinality(Busy) < setting.adders
    /\ pts' = Extend(pts, setting.points[Name + 1])
    /\ rows' = Extend(rows, [k \in Slots |-> -1])
    /\ meta' = Extend(meta, Name)
    /\ adder' = [adder EXCEPT ![c] = [IdleAdder EXCEPT !.pc = "rebuild?", !.node = n]]
    /\ used' = [used EXCEPT !.adds = @ + 1]
    /\ disturbed' = (disturbed \/ Busy # {} \/ job.pc \in {"cleared"})
    /\ UNCHANGED <<setting, deleted, tree, job, readers, saver, disk, added, removed>>

AddJob(c) ==
    /\ adder[c].pc = "rebuild?"
    /\ job' = IF adder[c].node + 1 - tree.size < setting.rebuildAfter \/ job.pc = "queued" \/ job.again THEN job
              ELSE IF job.pc = "none" THEN [job EXCEPT !.pc = "queued"]
              ELSE [job EXCEPT !.again = TRUE]      \* the job that runs is no longer in the queue
    /\ adder' = [adder EXCEPT ![c].pc = "search"]
    /\ UNCHANGED <<setting, index, readers, saver, disk, used, history>>

TreesFree == job.pc # "cleared"     \* no one holds the tree lock alone

\* RefineNode: the search (deleted samples too), the node's own row, and the
\* rows of what was found, nearest first.
RefineNodeSearch(c) ==
    LET node == adder[c].node IN
    /\ adder[c].pc = "search" /\ TreesFree
    /\ \E e \in Entries(tree) :
        adder' = [adder EXCEPT ![c].pc = "row",
            ![c].results = ByDistance(pts, pts[node], SearchFrom(rows, tree, Ids(pts), e, FALSE))]
    /\ UNCHANGED <<setting, index, job, readers, saver, disk, used, history>>

RefineNodeRow(c) ==
    LET node == adder[c].node IN
    /\ adder[c].pc = "row"
    /\ rows' = [rows EXCEPT ![node] = RebuildNeighbors(pts, node, adder[c].results)]
    /\ adder' = [adder EXCEPT ![c].pc = "insert", ![c].results = SelectSeq(@, LAMBDA i : i # node)]
    /\ UNCHANGED <<setting, pts, meta, deleted, tree, job, readers, saver, disk, used, history>>

\* m_dataUpdateLock[row] is held from the first read to the last write, but
\* neither RefineNodeRow nor the swap of trees takes it.
RowLocked(i) == \E c \in Adders : adder[c].pc = "write" /\ adder[c].results # <<>> /\ Head(adder[c].results) = i

InsertRead(c) ==
    LET i == Head(adder[c].results)
        new == InsertNeighbors(pts, rows[i], i, adder[c].node)
    IN
    /\ adder[c].pc = "insert" /\ adder[c].results # <<>> /\ ~RowLocked(i)
    /\ adder' = [adder EXCEPT ![c].pc = "write",
                              ![c].writes = [k \in {s \in Slots : new[s] # rows[i][s]} |-> new[k]]]
    /\ UNCHANGED <<setting, index, job, readers, saver, disk, used, history>>

InsertWrite(c) ==
    LET i == Head(adder[c].results) IN
    /\ adder[c].pc = "write"
    /\ rows' = [rows EXCEPT ![i] = [k \in Slots |-> IF k \in DOMAIN adder[c].writes THEN adder[c].writes[k] ELSE @[k]]]
    /\ adder' = [adder EXCEPT ![c].pc = "insert", ![c].results = Tail(@), ![c].writes = <<>>]
    /\ UNCHANGED <<setting, pts, meta, deleted, tree, job, readers, saver, disk, used, history>>

AddEnd(c) ==
    /\ adder[c].pc = "insert" /\ adder[c].results = <<>>
    /\ adder' = [adder EXCEPT ![c] = IdleAdder]
    /\ added' = added \cup {meta[adder[c].node]}
    /\ UNCHANGED <<setting, index, job, readers, saver, disk, used, removed, disturbed>>

(***************************************************************************)
(* RebuildJob: build on the samples there are, then, with the tree lock    *)
(* held alone, unmark the old duplicates, swap, and mark the new ones.     *)
(***************************************************************************)
RebuildTrees ==
    /\ job.pc = "queued"
    /\ job' = [job EXCEPT !.pc = "built", !.tree = BuildTrees(tree.gen + 1, pts)]
    /\ UNCHANGED <<setting, index, adder, readers, saver, disk, used, history>>

RebuildClear ==
    /\ job.pc = "built" /\ saver.pc # "trees" /\ iter.pc # "call"
    /\ rows' = UnmarkDuplicates(rows, tree)
    /\ job' = [job EXCEPT !.pc = "cleared"]
    /\ disturbed' = (disturbed \/ Busy # {})
    /\ saver' = [saver EXCEPT !.torn = @ \/ saver.pc # "none"]
    /\ UNCHANGED <<setting, pts, meta, deleted, tree, adder, readers, disk, used, added, removed>>

RebuildSwap ==
    /\ job.pc = "cleared"
    /\ tree' = job.tree
    /\ rows' = MarkDuplicates(rows, job.tree)
    /\ job' = [IdleJob EXCEPT !.pc = IF job.again THEN "queued" ELSE "none"]
    /\ disturbed' = (disturbed \/ Busy # {})
    /\ saver' = [saver EXCEPT !.torn = @ \/ saver.pc # "none"]
    /\ UNCHANGED <<setting, pts, meta, deleted, adder, readers, disk, used, added, removed>>

(***************************************************************************)
(* Deleting and searching.                                                 *)
(***************************************************************************)
DeleteIndex(i) ==
    /\ i \in Ids(pts) \ deleted /\ meta[i] \in setting.deletable
    /\ saver.pc = "none"
    /\ deleted' = deleted \cup {i}
    /\ removed' = removed \cup {meta[i]}
    /\ UNCHANGED <<setting, pts, rows, meta, tree, job, adder, readers, saver, disk, used, added, disturbed>>

\* (mutant) Deleted samples are looked for only while none is deleted.
WantedInverted(all) == IF all THEN Ids(pts) \ deleted ELSE Ids(pts)

Wanted(all) == IF all THEN Ids(pts) ELSE Ids(pts) \ deleted

\* By vector: a search, then one by one the results at distance zero.
DeleteSearch ==
    /\ deleter = IdleDeleter /\ TreesFree /\ saver.pc = "none"
    /\ \E i \in Ids(pts) \ deleted, e \in Entries(tree) :
        /\ meta[i] \in setting.deletable
        /\ deleter' = [ids |-> {j \in SearchFrom(rows, tree, Wanted(deleted = {}), e, TRUE) : pts[j] = pts[i]},
                        names |-> {meta[j] : j \in {k \in Group(pts, i) : meta[k] \in added /\ ~disturbed}}]
    /\ UNCHANGED <<setting, index, job, adder, search, iter, saver, disk, used, history>>

DeleteFound ==
    /\ deleter.ids # {} /\ saver.pc = "none"
    /\ \E j \in deleter.ids :
        /\ deleted' = deleted \cup {j}
        /\ deleter' = IF deleter.ids = {j} THEN IdleDeleter ELSE [deleter EXCEPT !.ids = @ \ {j}]
        /\ removed' = removed \cup {meta[j]} \cup (IF deleter.ids = {j} THEN deleter.names ELSE {})
    /\ UNCHANGED <<setting, pts, rows, meta, tree, job, adder, search, iter, saver, disk, used, added, disturbed>>

\* With no deletion so far the search does not look for deleted samples.
SearchBegin ==
    /\ search.pc = "idle" /\ used.searches < setting.searches
    /\ search' = [pc |-> "run", all |-> deleted = {}, before |-> removed, results |-> {}]
    /\ used' = [used EXCEPT !.searches = @ + 1]
    /\ UNCHANGED <<setting, index, deleter, iter, job, adder, saver, disk, history>>

SearchRun ==
    /\ search.pc = "run" /\ TreesFree
    /\ \E e \in Entries(tree) :
        search' = [search EXCEPT !.pc = "done",
                                 !.results = {meta[i] : i \in SearchFrom(rows, tree, Wanted(search.all), e, TRUE)}]
    /\ UNCHANGED <<setting, index, deleter, iter, job, adder, saver, disk, used, history>>

SearchEnd ==
    /\ search.pc = "done"
    /\ search' = IdleSearch
    /\ UNCHANGED <<setting, index, deleter, iter, job, adder, saver, disk, used, history>>

(***************************************************************************)
(* ResultIterator.  The work space keeps the visited nodes and the queue   *)
(* between calls; a call holds the tree lock and pops until a vector is    *)
(* wanted (batches of one).                                                *)
(***************************************************************************)
GetIterator ==
    /\ iter.pc = "none" /\ setting.kind = "BKT" /\ used.scans < setting.scans
    /\ iter' = [ClosedIter EXCEPT !.pc = "first"]
    /\ used' = [used EXCEPT !.scans = @ + 1]
    /\ UNCHANGED <<setting, index, job, adder, search, deleter, saver, disk, history>>

IterNext ==
    /\ iter.pc \in {"first", "open"} /\ TreesFree
    /\ \E e \in Entries(tree) :
        iter' = IF iter.pc = "open" THEN [iter EXCEPT !.pc = "call"]
                ELSE [iter EXCEPT !.pc = "call", !.visited = {e}, !.queue = {e}, !.due = IF disturbed THEN {} ELSE added \ removed]
    /\ UNCHANGED <<setting, index, job, adder, search, deleter, saver, disk, used, history>>

\* (mutant) Nodes are queued again.
RequeuedNeighbors(node, wanted) == Neighbors(rows[node]) \ iter.queue

IterNeighbors(node, wanted) ==
    (Neighbors(rows[node]) \cup (ToSet(Tail(StandsFor(rows, tree, node))) \cap wanted)) \ iter.visited

SearchIterative ==
    LET node == CHOOSE i \in iter.queue : \A j \in iter.queue : i <= j
        wanted == Wanted(deleted = {})
        next == IterNeighbors(node, wanted)
    IN
    /\ iter.pc = "call" /\ iter.queue # {}
    /\ iter' = [iter EXCEPT !.pc = IF node \in wanted THEN "open" ELSE "call",
                             !.visited = @ \cup next, !.queue = (@ \ {node}) \cup next,
                             !.returned = IF node \in wanted THEN Append(@, meta[node]) ELSE @]
    /\ UNCHANGED <<setting, index, job, adder, search, deleter, saver, disk, used, history>>

IterEnd ==
    /\ iter.pc = "call" /\ iter.queue = {}
    /\ iter' = [iter EXCEPT !.pc = "ended"]
    /\ UNCHANGED <<setting, index, job, adder, search, deleter, saver, disk, used, history>>

(***************************************************************************)
(* Saving: file by file, with m_dataAddLock and m_dataDeleteLock, which    *)
(* neither a node being connected nor a rebuild holds.  A compaction drops *)
(* the deleted samples, fills the holes from the tail and rebuilds trees   *)
(* and graph.                                                              *)
(***************************************************************************)
SaveBegin ==
    /\ saver.pc = "none" /\ used.saves < setting.saves
    /\ saver' = [pc |-> "trees", torn |-> Busy # {}, files |-> [pts |-> pts, meta |-> meta, deleted |-> deleted]]
    /\ used' = [used EXCEPT !.saves = @ + 1]
    /\ UNCHANGED <<setting, index, job, adder, readers, disk, history>>

SaveTrees ==
    /\ saver.pc = "trees" /\ TreesFree
    /\ saver' = [saver EXCEPT !.pc = "graph", !.files = [pts |-> @.pts, meta |-> @.meta, deleted |-> @.deleted, tree |-> tree]]
    /\ UNCHANGED <<setting, index, job, adder, readers, disk, used, history>>

SaveGraph ==
    /\ saver.pc = "graph"
    /\ disk' = [pts |-> saver.files.pts, meta |-> saver.files.meta, deleted |-> saver.files.deleted,
                tree |-> saver.files.tree, rows |-> rows, good |-> ~saver.torn /\ ~disturbed,
                added |-> added, removed |-> removed]
    /\ saver' = [pc |-> "none", torn |-> FALSE, files |-> <<>>]
    /\ UNCHANGED <<setting, index, job, adder, readers, used, history>>

Compact(n, keep) ==
    LET k == Cardinality(keep)
        tail == {x \in keep : x >= k}
        Hole(i) == Cardinality({j \in 0..(i - 1) : j \notin keep})
    IN [i \in 0..(k - 1) |-> IF i \in keep THEN i
                             ELSE CHOOSE x \in tail : Cardinality({y \in tail : y > x}) = Hole(i)]

\* RefineGraph numbers a row anew, puts centers for duplicates, and looks the
\* empty slots up as well: -1 is the key of sample 0 as a center, whose value
\* is the place of its node in the tree.
RenumberSlot(slot, old, t, place) ==
    IF slot < 0 THEN IF 0 \in DOMAIN t.dups THEN place ELSE slot
    ELSE CenterOf(t, CHOOSE i \in DOMAIN old : old[i] = slot)

RefineGraph(indices, t, e, place) ==
    LET live == ToSet([k \in 1..Cardinality(DOMAIN indices) |-> indices[k - 1]])
        Row(i) == RebuildNeighbors(pts, indices[i], ByDistance(pts, pts[indices[i]], SearchFrom(rows, tree, live, e, FALSE)))
    IN MarkDuplicates([i \in DOMAIN indices |-> [k \in Slots |-> RenumberSlot(Row(i)[k], indices, t, place)]], t)

\* The index without its deleted samples, searched from e while it is built.
Refined(e, place) ==
    LET indices == Compact(Cardinality(DOMAIN pts), Ids(pts) \ deleted)
        points == [i \in DOMAIN indices |-> pts[indices[i]]]
        t == BuildTrees(0, points)
    IN [pts |-> points, meta |-> [i \in DOMAIN indices |-> meta[indices[i]]], deleted |-> {}, tree |-> t,
        rows |-> RefineGraph(indices, t, e, place), good |-> Busy = {} /\ ~disturbed,
        added |-> added, removed |-> removed]

Places == IF \E i \in Ids(pts) : Cardinality(Group(pts, i)) > 1 THEN 1..Cardinality(DOMAIN pts) ELSE {1}

Refines(e, place) ==
    /\ saver.pc = "none" /\ used.saves < setting.saves /\ TreesFree
    /\ deleted # {} /\ deleted # Ids(pts)
    /\ e \in Entries(tree)
    /\ used' = [used EXCEPT !.saves = @ + 1]

RefineIndex(kind) ==
    /\ setting.kind = kind
    /\ \E e \in Ids(pts), place \in Places : Refines(e, place) /\ disk' = Refined(e, place)
    /\ UNCHANGED <<setting, index, job, adder, readers, saver, history>>

\* Into a new index, which takes the place of the old once all have left it.
RefineIndexToNew(kind) ==
    /\ setting.kind = kind /\ Busy = {} /\ job.pc = "none" /\ readers = <<IdleSearch, IdleDeleter, ClosedIter>>
    /\ \E e \in Ids(pts), place \in Places :
        /\ Refines(e, place)
        /\ LET new == Refined(e, place) IN
           pts' = new.pts /\ rows' = new.rows /\ meta' = new.meta /\ deleted' = {} /\ tree' = new.tree
    /\ UNCHANGED <<setting, job, adder, readers, saver, disk, history>>

BKTRefineIndex == RefineIndex("BKT")
BKTRefineIndexToNew == RefineIndexToNew("BKT")
KDTRefineIndex == RefineIndex("KDT")
KDTRefineIndexToNew == RefineIndexToNew("KDT")

\* A new process loads the files; m_pSampleCenterMap is in none of them.
LoadIndex ==
    /\ disk # NoFiles /\ used.loads = 0
    /\ pts' = disk.pts /\ rows' = disk.rows /\ meta' = disk.meta /\ deleted' = disk.deleted /\ tree' = [disk.tree EXCEPT !.mapped = FALSE]
    /\ job' = IdleJob /\ adder' = [c \in Adders |-> IdleAdder] /\ search' = IdleSearch /\ deleter' = IdleDeleter /\ iter' = ClosedIter
    /\ saver' = [pc |-> "none", torn |-> FALSE, files |-> <<>>]
    /\ used' = [used EXCEPT !.loads = 1]
    /\ added' = disk.added /\ removed' = disk.removed /\ disturbed' = ~disk.good
    /\ UNCHANGED <<setting, disk>>

Init ==
    /\ setting \in Settings
    /\ pts = [i \in 0..(setting.built - 1) |-> setting.points[i + 1]]
    /\ meta = [i \in 0..(setting.built - 1) |-> i]
    /\ deleted = {}
    /\ tree = BuildTrees(0, pts)
    /\ rows = BuildGraph(pts, tree)
    /\ job = IdleJob /\ adder = [c \in Adders |-> IdleAdder]
    /\ search = IdleSearch /\ deleter = IdleDeleter /\ iter = ClosedIter
    /\ saver = [pc |-> "none", torn |-> FALSE, files |-> <<>>]
    /\ disk = NoFiles
    /\ used = [adds |-> 0, searches |-> 0, scans |-> 0, saves |-> 0, loads |-> 0]
    /\ added = 0..(setting.built - 1) /\ removed = {} /\ disturbed = FALSE

Next ==
    \/ \E c \in Adders : \/ AddBatch(c) \/ AddJob(c) \/ RefineNodeSearch(c) \/ RefineNodeRow(c)
                         \/ InsertRead(c) \/ InsertWrite(c) \/ AddEnd(c)
    \/ RebuildTrees \/ RebuildClear \/ RebuildSwap
    \/ \E i \in Ids(pts) : DeleteIndex(i)
    \/ DeleteSearch \/ DeleteFound
    \/ SearchBegin \/ SearchRun \/ SearchEnd
    \/ GetIterator \/ IterNext \/ SearchIterative \/ IterEnd
    \/ SaveBegin \/ SaveTrees \/ SaveGraph \/ LoadIndex
    \/ BKTRefineIndex \/ BKTRefineIndexToNew \/ KDTRefineIndex \/ KDTRefineIndexToNew

Spec == Init /\ [][Next]_vars

-----------------------------------------------------------------------------

\* The arrays of an index have one length, and its trees and deleted ids name
\* samples.
Fits(p, r, m, d, t) ==
    /\ DOMAIN r = DOMAIN p /\ DOMAIN m = DOMAIN p /\ d \subseteq DOMAIN p
    /\ Entries(t) # {} /\ (0..(t.size - 1)) \subseteq DOMAIN p

\* A slot is empty, a sample other than the row's own, or, in the last place
\* of a center's row, the mark of the trees `t`.
RowsValid(r, t) ==
    \A i \in DOMAIN r, k \in Slots :
        \/ r[i][k] = -1
        \/ r[i][k] \in DOMAIN r \ {i}
        \/ k = LastSlot /\ i \in DOMAIN t.dups /\ r[i][k] = -2 - t.gen

\* The parts of the index fit together, in memory and in files that were not
\* written during an update.
TypeOK ==
    /\ Fits(pts, rows, meta, deleted, tree)
    /\ (disk # NoFiles /\ disk.good) => Fits(disk.pts, disk.rows, disk.meta, disk.deleted, disk.tree)

\* However additions, the swap of trees and compactions interleave, a search
\* that reads a row finds in it samples and marks of the trees it searches
\* (no slot leads outside the arrays, and no mark into other trees).
SlotsValid == TreesFree => RowsValid(rows, tree) \/ (disturbed /\ used.loads = 1)

\* Every vector whose addition was acknowledged and that was not deleted is
\* found, under its own name, from every entry of the trees: after additions one by one, rebuilt
\* trees, saves and compactions, and a load.
Findable ==
    (Busy = {} /\ TreesFree /\ ~disturbed) =>
        \A e \in Entries(tree) :
            LET found == SearchFrom(rows, tree, Ids(pts) \ deleted, e, TRUE)
            IN added \ removed \subseteq {meta[i] : i \in {j \in found : pts[j] = setting.points[meta[j] + 1]}}


\* An iterator returns no vector twice, and when it ends it has returned every
\* vector that was there when it began and that was not deleted since,
\* whatever was added, deleted or rebuilt between its calls.
IteratorOnce ==
    /\ \A i, j \in DOMAIN iter.returned : iter.returned[i] = iter.returned[j] => i = j
    /\ (iter.pc = "ended" /\ ~disturbed) => iter.due \ removed \subseteq ToSet(iter.returned)

\* A search returns no vector whose deletion, by id or by value, ended before
\* the search began.
NoDeletedResult == search.results \cap search.before = {}
=============================================================================
