--------------------------- MODULE DataPartition ---------------------------
(***************************************************************************)
(* BalancedDataPartition: several parts, each with some of the vectors, run *)
(* k-means together, assign every vector to its nearest clusters within the *)
(* limits, and write one file per cluster. They synchronise with MPI        *)
(* collectives, or through status files in a shared folder (external        *)
(* scripts wait for the files). A job that was killed is started again.     *)
(*                                                                          *)
(* A vector is a number, its distance to a centre the square of the         *)
(* difference; vectors carry no weights. A collective is one step of all    *)
(* the ranks that have reached it.                                          *)
(***************************************************************************)
EXTENDS Integers, Sequences, FiniteSetsExt, SequencesExt

CONSTANTS Jobs,                 \* inputs: [mode, data, K, TH, assign, closure, vf, hardcut,
                                \*          newp, lambda, maxIter, init, file]
          NoImprovementLimit,   \* 10 in the code
          FarDist,              \* MaxDist
          MaxSize,              \* the largest SizeType
          ChannelCapacity,      \* messages a rank can send before they are received
          MaxCrashes,           \* bound on the crashes of a behaviour
          RerunIterates,        \* whether a killed MPI job with iterations is run again
          RecoverFinished       \* whether a part recovers from the last iteration

VARIABLE partition              \* the job at work, or NoPartition

NoPartition == [in |-> "none"]

NoLabel == -1                   \* (std::numeric_limits<LabelType>::max)()

NoFile == [none |-> TRUE]

in == partition.in

Ranks == DOMAIN in.data

Clusters(c) == 0 .. c.K - 1

Zero(c) == [k \in Clusters(c) |-> 0]

AddUp(S, f(_)) == MapThenSumSet(f, S)

Square(x, y) == (x - y) * (x - y)

(***************************************************************************)
(* One round of k-means. A part's vectors are divided among TH threads,     *)
(* whose counts are added up; SortedCenters is the order of the centres.    *)
(***************************************************************************)
Chunk(c, n, t) ==
  LET subsize == IF n = 0 THEN 0 ELSE (n - 1) \div c.TH + 1
  IN  {i \in 1 .. n : t * subsize < i /\ i <= (t + 1) * subsize}

SortedCenters(c, dist) ==
  SortSeq([k \in 1 .. c.K |-> k - 1],
          LAMBDA a, b : dist[a] < dist[b] \/ (dist[a] = dist[b] /\ a < b))

WithinClosure(c, d, nearest) == d * c.closure[2] <= nearest * c.closure[1]

\* The penalised distances of vector i to the centres.
Penalised(c, p, x) ==
  LET avgCount == AddUp(Clusters(c), LAMBDA k : p.counts[k]) \div c.K
      lambda == IF p.iteration = 0 THEN 0 ELSE p.lambda
      size(k) == IF c.newp = 1 /\ p.counts[k] < avgCount THEN avgCount ELSE p.counts[k]
  IN  [k \in Clusters(c) |-> Square(x, p.centers[k]) + lambda * size(k)]

MultipleClustersAssign(c, p, data) ==
  LET dist == [i \in 1 .. Len(data) |-> Penalised(c, p, data[i])]
      order == [i \in 1 .. Len(data) |-> SortedCenters(c, dist[i])]
      label == [i \in 1 .. Len(data) |->
                  [j \in 1 .. c.assign |->
                     IF WithinClosure(c, dist[i][order[i][j]], dist[i][order[i][1]])
                     THEN order[i][j] ELSE NoLabel]]
      has(i, k) == \E j \in 1 .. c.assign : label[i][j] = k
      over(k, f(_)) == AddUp(0 .. c.TH - 1, LAMBDA t :
                         AddUp({i \in Chunk(c, Len(data), t) : has(i, k)}, f))
      members(k) == {i \in 1 .. Len(data) : has(i, k)}
      furthest(k) == {i \in members(k) : \A j \in members(k) : dist[j][k] <= dist[i][k]}
  IN  [p EXCEPT !.label = label,
                !.newCounts = [k \in Clusters(c) |-> over(k, LAMBDA i : 1)],
                !.newCenters = [k \in Clusters(c) |-> over(k, LAMBDA i : data[i])],
                !.clusterIdx = [k \in Clusters(c) |-> IF members(k) = {} THEN 0 ELSE Min(furthest(k))],
                !.d = AddUp(Clusters(c), LAMBDA k : over(k, LAMBDA i : dist[i][k]))]

\* An empty cluster gets the furthest vector that rank 0 has in the largest one.
RefineCenters(c, p, data) ==
  LET splits == {k \in Clusters(c) : /\ p.counts[k] > 0 /\ p.newCounts[k] > 0
                                     /\ data[p.clusterIdx[k]] # p.centers[k]}
      largest == {k \in splits : \A m \in splits : p.counts[m] <= p.counts[k]}
      newT == [k \in Clusters(c) |->
                 CASE p.counts[k] # 0 -> p.newCenters[k] \div p.counts[k]
                   [] p.counts[k] = 0 /\ splits # {} -> data[p.clusterIdx[Min(largest)]]
                   [] OTHER -> p.centers[k]]
  IN  [p EXCEPT !.newTCenters = newT,
                !.diff = AddUp(Clusters(c), LAMBDA k : Square(newT[k], p.centers[k]))]

Improved(p) ==
  IF p.currDist < p.minDist THEN [p EXCEPT !.noImprovement = 0, !.minDist = p.currDist]
  ELSE [p EXCEPT !.noImprovement = @ + 1]

(***************************************************************************)
(* HardMultipleClustersAssign: round number p.round, from 0. The vectors    *)
(* beyond the limit of their cluster, the furthest ones, are dropped.       *)
(***************************************************************************)
HardMultipleClustersAssign(c, p, data) ==
  LET n == Len(data)
      dist == [i \in 1 .. n |-> [k \in Clusters(c) |-> Square(data[i], p.centers[k])]]
      order == [i \in 1 .. n |-> SortedCenters(c, dist[i])]
      node == [i \in 1 .. n |-> order[i][p.round + 1]]
      wanted == {i \in 1 .. n : WithinClosure(c, dist[i][node[i]], dist[i][order[i][1]])}
      before(i) == {j \in wanted : /\ node[j] = node[i]
                                   /\ \/ dist[j][node[i]] < dist[i][node[i]]
                                      \/ dist[j][node[i]] = dist[i][node[i]] /\ j < i}
      kept == {i \in wanted :
                 Cardinality(before(i)) < p.limit[node[i]] - p.newCounts[node[i]]}
      counts == [k \in Clusters(c) |->
                   p.newCounts[k] + Cardinality({i \in kept : node[i] = k})]
      last == p.round = c.assign - 1
  IN  [p EXCEPT !.label = [i \in 1 .. n |->
                             [j \in 1 .. c.assign |->
                                CASE j = p.round + 1 -> IF i \in kept THEN node[i] ELSE NoLabel
                                  [] j > p.round + 1 /\ last -> NoLabel
                                  [] OTHER -> p.label[i][j]]],
                !.newCounts = counts, !.counts = counts, !.limit = counts]

\* What a cluster may hold, and the share of a part in what is left of it.
TotalCount(c, n) == (n * c.vf[1]) \div (c.K * c.vf[2])

Shared_Whole(c, p, counts, size) ==
  [p EXCEPT !.counts = counts, !.round = @ + 1, !.pc = "assign",
            !.limit = [k \in Clusters(c) |-> @[k] + (TotalCount(c, p.total) - counts[k])]]

Shared(c, p, counts, size) ==
  [p EXCEPT !.counts = counts, !.round = @ + 1, !.pc = "assign",
            !.limit = [k \in Clusters(c) |->
                         IF TotalCount(c, p.total) > counts[k]
                         THEN @[k] + (TotalCount(c, p.total) - counts[k]) \div size ELSE @[k]]]

\* The end of the clustering: nothing is assigned yet.
StartAssign(c, p, n, size) ==
  [p EXCEPT !.pc = "assign", !.round = 0, !.newCounts = Zero(c), !.counts = Zero(c),
            !.limit = [k \in Clusters(c) |->
                         IF c.hardcut = 0 THEN n
                         ELSE (c.hardcut * TotalCount(c, p.total)) \div size]]

(***************************************************************************)
(* A part that has just been started, and a job. c.file says whether there  *)
(* is a file with centres from before.                                      *)
(***************************************************************************)
NewPart(c, r) ==
  [pc |-> "start", iteration |-> 0, lambda |-> c.lambda, centers |-> Zero(c),
   newTCenters |-> <<>>, counts |-> Zero(c), newCounts |-> Zero(c), newCenters |-> Zero(c),
   clusterIdx |-> Zero(c), d |-> 0, currDist |-> 0, diff |-> 1, minDist |-> FarDist,
   noImprovement |-> 0, label |-> [i \in 1 .. Len(c.data[r]) |-> [j \in 1 .. c.assign |-> NoLabel]],
   limit |-> Zero(c), round |-> 0, total |-> 0,
   cluster |-> 0, from |-> 0, expect |-> -1, left |-> <<>>]

Started(c) ==
  [in |-> c, part |-> [r \in DOMAIN c.data |-> NewPart(c, r)], board |-> <<>>,
   centersFile |-> IF c.file = <<>> THEN NoFile ELSE c.file[1],
   labels |-> [r \in DOMAIN c.data |-> NoFile],
   out |-> [name \in (DOMAIN c.data) \X Clusters(c) |-> NoFile],
   channel |-> [r \in DOMAIN c.data |-> <<>>], crashes |-> 0]

\* Rank 0 takes the centres of the file, or some of its vectors.
InitCenters(p) ==
  IF partition.centersFile = NoFile THEN [p EXCEPT !.newTCenters = in.init]
  ELSE [p EXCEPT !.newTCenters = partition.centersFile.centers,
                 !.lambda = partition.centersFile.lambda]

(***************************************************************************)
(* The MPI job.                                                             *)
(***************************************************************************)
part == partition.part

size == Cardinality(Ranks)

Collective(pc, f(_)) ==
  /\ in.mode = "MPI" /\ \A r \in Ranks : part[r].pc = pc
  /\ partition' = [partition EXCEPT !.part = [r \in Ranks |-> f(r)]]

Local(r, p) == partition' = [partition EXCEPT !.part[r] = p]

AtPc(mode, r, pc) == in.mode = mode /\ part[r].pc = pc

Allreduce(f(_)) == [k \in Clusters(in) |-> AddUp(Ranks, LAMBDA r : f(r)[k])]

\* The test of the loop; without iterations the centres are sent only once.
LoopTest(r, p) ==
  IF (p.diff > 0 /\ p.iteration < in.maxIter) \/ in.maxIter = 0
  THEN [p EXCEPT !.pc = "bcast"]
  ELSE StartAssign(in, p, Len(in.data[r]), size)

AllreduceTotal ==
  Collective("start", LAMBDA r :
    LET p == [part[r] EXCEPT !.total = AddUp(Ranks, LAMBDA s : Len(in.data[s]))]
    IN  LoopTest(r, IF r = 0 THEN InitCenters(p) ELSE p))

BcastCenters ==
  Collective("bcast", LAMBDA r :
    LET p == [part[r] EXCEPT !.centers = part[0].newTCenters, !.pc = "cluster"]
    IN  IF in.maxIter = 0 THEN StartAssign(in, p, Len(in.data[r]), size) ELSE p)

Cluster(r) ==
  /\ AtPc("MPI", r, "cluster")
  /\ Local(r, [MultipleClustersAssign(in, part[r], in.data[r]) EXCEPT !.pc = "reduce"])

AllreduceCounts ==
  Collective("reduce", LAMBDA r :
    LET p == Improved([part[r] EXCEPT !.counts = Allreduce(LAMBDA s : part[s].newCounts),
                                      !.currDist = AddUp(Ranks, LAMBDA s : part[s].d)])
    IN  IF p.noImprovement >= NoImprovementLimit
        THEN StartAssign(in, p, Len(in.data[r]), size) ELSE [p EXCEPT !.pc = "refine"])

ReduceCenters ==
  Collective("refine", LAMBDA r :
    LET refined == RefineCenters(in, [part[0] EXCEPT !.newCenters =
                                        Allreduce(LAMBDA s : part[s].newCenters)], in.data[0])
        p == IF r = 0 THEN refined ELSE part[r]
    IN  LoopTest(r, [p EXCEPT !.diff = refined.diff, !.iteration = @ + 1]))

HardAssign(r) ==
  LET p == HardMultipleClustersAssign(in, part[r], in.data[r])
  IN  /\ AtPc("MPI", r, "assign")
      /\ Local(r, [p EXCEPT !.pc = IF p.round < in.assign - 1 THEN "share" ELSE "final"])

AllreduceShares ==
  Collective("share", LAMBDA r :
    Shared(in, part[r], Allreduce(LAMBDA s : part[s].counts), size))

AllreduceFinal ==
  Collective("final", LAMBDA r :
    [part[r] EXCEPT !.counts = Allreduce(LAMBDA s : part[s].newCounts), !.pc = "save"])

CentersOf(p) == [centers |-> p.centers, lambda |-> p.lambda]

SaveLabels(r) ==
  /\ AtPc("MPI", r, "save")
  /\ partition' = [partition EXCEPT !.part[r].pc = "saved", !.labels[r] = part[r].label,
                                    !.centersFile = IF r = 0 THEN CentersOf(part[r]) ELSE @]

SavedBarrier == Collective("saved", LAMBDA r : [part[r] EXCEPT !.pc = "exists"])

(***************************************************************************)
(* The output: the owner of a cluster collects its vectors from the ranks   *)
(* in their order. A cluster is skipped when the file of the next exists.   *)
(***************************************************************************)
Owner(k) == k % size

Skipped_Own(k) == partition.out[<<0, k>>] # NoFile

Skipped(k) == k + 1 < in.K /\ partition.out[<<0, k + 1>>] # NoFile

\* The vectors of a part in a cluster, in the order in which they are sent.
RecordsOf(r, label, k) ==
  FlattenSeq([i \in 1 .. Len(label) |->
    SelectSeq([j \in 1 .. in.assign |-> IF label[i][j] = k THEN <<r, i>> ELSE <<>>],
              LAMBDA id : id # <<>>)])

CheckExists ==
  Collective("exists", LAMBDA r :
    LET p == part[r]
    IN  CASE p.cluster = in.K -> [p EXCEPT !.pc = "done"]
          [] p.cluster < in.K /\ Skipped(p.cluster) -> [p EXCEPT !.cluster = @ + 1]
          [] OTHER -> IF Owner(p.cluster) = r THEN [p EXCEPT !.pc = "open"]
                      ELSE [p EXCEPT !.pc = "send",
                                     !.left = <<[tag |-> 0, value |-> p.newCounts[p.cluster]]>> \o
                                       [i \in DOMAIN RecordsOf(r, p.label, p.cluster) |->
                                          [tag |-> 1, value |-> RecordsOf(r, p.label, p.cluster)[i]]]])

MetaOf(id) == [i \in 1 .. id[2] |-> id]

Wrote(file, ids) ==
  FoldLeft(LAMBDA f, id : [f EXCEPT !.records = Append(@, id), !.meta = @ \o MetaOf(id),
                                    !.offsets = Append(@, Len(f.meta))], file, ids)

Closed(file) == [file EXCEPT !.offsets = Append(@, Len(file.meta))]

EmptyFile(count) == [count |-> count, records |-> <<>>, meta |-> <<>>, offsets |-> <<>>]

OpenFile(r) ==
  /\ AtPc("MPI", r, "open")
  /\ partition' = [partition EXCEPT
       !.part[r].pc = "collect", !.part[r].from = 0,
       !.out[<<0, part[r].cluster>>] = EmptyFile(part[r].counts[part[r].cluster])]

\* Each message is sent as soon as there is room for it.
Send(r) ==
  /\ AtPc("MPI", r, "send")
  /\ \/ /\ part[r].left # <<>> /\ Len(partition.channel[r]) < ChannelCapacity
        /\ partition' = [partition EXCEPT !.channel[r] = Append(@, Head(part[r].left)),
                                          !.part[r].left = Tail(@)]
     \/ part[r].left = <<>> /\ Local(r, [part[r] EXCEPT !.pc = "sent"])

\* The number of vectors a rank is going to send.
ReceiveCount(r) ==
  LET p == part[r]
  IN  /\ AtPc("MPI", r, "collect") /\ p.from \in Ranks \ {r} /\ p.expect = -1
      /\ partition.channel[p.from] # <<>> /\ Head(partition.channel[p.from]).tag = 0
      /\ partition' = [partition EXCEPT !.part[r].expect = Head(partition.channel[p.from]).value,
                                        !.channel[p.from] = Tail(@)]

ReceiveRecord(r) ==
  LET p == part[r]
  IN  /\ AtPc("MPI", r, "collect") /\ p.from \in Ranks \ {r} /\ p.expect > 0
      /\ partition.channel[p.from] # <<>> /\ Head(partition.channel[p.from]).tag = 1
      /\ partition' = [partition EXCEPT
           !.part[r].expect = @ - 1, !.channel[p.from] = Tail(@),
           !.out[<<0, p.cluster>>] = Wrote(@, <<Head(partition.channel[p.from]).value>>)]

ReceivedAll(r) ==
  /\ AtPc("MPI", r, "collect") /\ part[r].expect = 0
  /\ Local(r, [part[r] EXCEPT !.from = @ + 1, !.expect = -1])

WriteOwn(r) ==
  LET p == part[r]
  IN  /\ AtPc("MPI", r, "collect") /\ p.from = r
      /\ partition' = [partition EXCEPT
           !.part[r].from = @ + 1,
           !.out[<<0, p.cluster>>] = Wrote(@, RecordsOf(r, p.label, p.cluster))]

CloseFile(r) ==
  /\ AtPc("MPI", r, "collect") /\ part[r].from = size
  /\ partition' = [partition EXCEPT !.part[r].pc = "sent",
                                    !.out[<<0, part[r].cluster>>] = Closed(@)]

OutputBarrier ==
  Collective("sent", LAMBDA r : [part[r] EXCEPT !.pc = "exists", !.cluster = @ + 1])

\* The job is killed and started again with the same options.
Rerun ==
  /\ in.mode = "MPI" /\ partition.crashes < MaxCrashes
  /\ in.maxIter = 0 \/ RerunIterates
  /\ \E r \in Ranks : part[r].pc \notin {"start", "done"}
  /\ partition' = [partition EXCEPT !.part = [r \in Ranks |-> NewPart(in, r)],
                                    !.channel = [r \in Ranks |-> <<>>], !.crashes = @ + 1]

(***************************************************************************)
(* The job without MPI. SyncSaveCenter writes the status of a part into the *)
(* folder of an iteration, rank 0 the centres too; the scripts have         *)
(* SyncLoadCenter wait until all the files it asks for are there.           *)
(***************************************************************************)
Folder(key) ==
  IF key \in DOMAIN partition.board THEN partition.board[key]
  ELSE [status |-> [r \in Ranks |-> NoFile], centers |-> NoFile]

StatusOf(r, p, assign) ==
  [count |-> Len(in.data[r]), dist |-> p.d, newCenters |-> p.newCenters,
   counts |-> IF assign THEN p.counts ELSE p.newCounts]

SavedCenters_Short(p) ==
  [centers |-> p.newTCenters, lambda |-> p.lambda, diff |-> p.diff, minDist |-> p.minDist,
   noImprovement |-> 0]

SavedCenters(p) ==
  [centers |-> p.newTCenters, lambda |-> p.lambda, diff |-> p.diff, minDist |-> p.minDist,
   noImprovement |-> p.noImprovement]

SyncSaveCenter(r, p, key, savecenters, assign) ==
  LET folder == [Folder(key) EXCEPT !.status[r] = StatusOf(r, p, assign),
                                    !.centers = IF r = 0 /\ savecenters > 0 THEN SavedCenters(p) ELSE @]
  IN  [k \in DOMAIN partition.board \cup {key} |-> IF k = key THEN folder ELSE partition.board[k]]

Complete(key, loadcenters) ==
  /\ \A s \in Ranks : Folder(key).status[s] # NoFile
  /\ loadcenters => Folder(key).centers # NoFile

AddPartSize(total, partsize) ==
  IF partsize >= 0 /\ total <= MaxSize - partsize THEN total + partsize ELSE MaxSize

SyncLoadCenter(p, key, loadcenters) ==
  LET status == Folder(key).status
      c == Folder(key).centers
      loaded == [p EXCEPT
        !.currDist = AddUp(Ranks, LAMBDA s : status[s].dist),
        !.newCenters = Allreduce(LAMBDA s : status[s].newCenters),
        !.counts = [k \in Clusters(in) |->
                      FoldFunctionOnSet(AddPartSize, 0, [s \in Ranks |-> status[s].counts[k]], Ranks)],
        !.total = AddUp(Ranks, LAMBDA s : status[s].count)]
  IN  IF ~loadcenters THEN loaded
      ELSE [loaded EXCEPT !.newTCenters = c.centers, !.lambda = c.lambda, !.diff = c.diff,
                          !.minDist = c.minDist, !.noImprovement = c.noImprovement]

Continues(p) ==
  p.noImprovement < NoImprovementLimit /\ p.diff > 0 /\ p.iteration < in.maxIter

\* The test of the loop and, when it is left, the start of the assignment.
LoopOn(r, p) ==
  CASE Continues(p) -> [p EXCEPT !.pc = "cluster"]
    [] ~Continues(p) /\ in.maxIter = 0 ->
         StartAssign(in, [p EXCEPT !.centers = p.newTCenters], Len(in.data[r]), size)
    [] OTHER -> StartAssign(in, p, Len(in.data[r]), size)

AtFolder(r, p, board) == partition' = [partition EXCEPT !.part[r] = p, !.board = board]

BeginFiles(r) ==
  LET p == IF r = 0 THEN InitCenters(part[r]) ELSE part[r]
  IN  /\ AtPc("Files", r, "start")
      /\ AtFolder(r, [p EXCEPT !.pc = "load"], SyncSaveCenter(r, p, 0, 2, FALSE))

LoadFirst(r) ==
  /\ AtPc("Files", r, "load") /\ Complete(part[r].iteration, TRUE)
  /\ Local(r, LoopOn(r, SyncLoadCenter(part[r], part[r].iteration, TRUE)))

ClusterFiles(r) ==
  LET p == MultipleClustersAssign(in, [part[r] EXCEPT !.centers = part[r].newTCenters], in.data[r])
  IN  /\ AtPc("Files", r, "cluster")
      /\ AtFolder(r, [p EXCEPT !.pc = "gather"], SyncSaveCenter(r, p, p.iteration + 1, 0, FALSE))

\* Rank 0 refines the centres and saves them, the others wait for them.
Gather(r) ==
  LET key == part[r].iteration + 1
      loaded == SyncLoadCenter(part[r], key, r # 0)
      p == IF r = 0 THEN Improved(RefineCenters(in, loaded, in.data[0])) ELSE loaded
  IN  /\ AtPc("Files", r, "gather") /\ Complete(key, r # 0)
      /\ AtFolder(r, LoopOn(r, [p EXCEPT !.iteration = @ + 1]),
                  IF r = 0 THEN SyncSaveCenter(r, p, key, 1, FALSE) ELSE partition.board)

AssignKey(p) == 10000 + p.iteration + 1 + p.round

AssignFiles(r) ==
  LET p == HardMultipleClustersAssign(in, part[r], in.data[r])
  IN  /\ AtPc("Files", r, "assign")
      /\ AtFolder(r, [p EXCEPT !.pc = "share"], SyncSaveCenter(r, p, AssignKey(p), 0, TRUE))

ShareFiles(r) ==
  LET p == SyncLoadCenter(part[r], AssignKey(part[r]), FALSE)
  IN  /\ AtPc("Files", r, "share") /\ Complete(AssignKey(part[r]), FALSE)
      /\ IF p.round < in.assign - 1 THEN Local(r, Shared(in, p, p.counts, size))
         ELSE partition' = [partition EXCEPT
                !.part[r] = [p EXCEPT !.pc = "partition"], !.labels[r] = p.label,
                !.centersFile = IF r = 0 THEN CentersOf(p) ELSE @]

\* LocalPartition: a part writes its vectors of a cluster; the number of
\* records replaces the number of vectors at the front of the file.
PartitionCluster(r) ==
  LET k == part[r].cluster
      records == RecordsOf(r, partition.labels[r], k)
      file == Closed(Wrote(EmptyFile(Len(in.data[r])), records))
  IN  /\ AtPc("Files", r, "partition")
      /\ \/ /\ k < in.K
            /\ partition' = [partition EXCEPT !.out[<<r, k>>] = [file EXCEPT !.count = Len(records)],
                                              !.part[r].cluster = @ + 1]
         \/ k = in.K /\ Local(r, [part[r] EXCEPT !.pc = "done"])

\* A part is started again, from the beginning or from an iteration whose
\* centres it has.
Recover(r, iteration) ==
  /\ in.mode = "Files" /\ partition.crashes < MaxCrashes
  /\ part[r].pc \notin {"start", "partition", "done"}
  /\ \/ /\ iteration = -1
        /\ partition' = [partition EXCEPT !.part[r] = NewPart(in, r), !.crashes = @ + 1]
     \/ /\ iteration >= 0 /\ Complete(iteration, TRUE)
        /\ RecoverFinished \/ in.maxIter = 0
             \/ Continues(SyncLoadCenter([NewPart(in, r) EXCEPT !.iteration = iteration], iteration, TRUE))
        /\ partition' = [partition EXCEPT
             !.part[r] = [NewPart(in, r) EXCEPT !.iteration = iteration, !.pc = "load"],
             !.crashes = @ + 1]

(***************************************************************************)
(* The specification.                                                       *)
(***************************************************************************)
PartitionInit == \E c \in Jobs : partition = Started(c)

PartitionNext ==
  /\ partition # NoPartition
  /\ \/ AllreduceTotal \/ BcastCenters \/ AllreduceCounts \/ ReduceCenters
     \/ AllreduceShares \/ AllreduceFinal \/ SavedBarrier \/ CheckExists \/ OutputBarrier
     \/ \E r \in Ranks :
          \/ Cluster(r) \/ HardAssign(r) \/ SaveLabels(r) \/ OpenFile(r) \/ Send(r)
          \/ ReceiveCount(r) \/ ReceiveRecord(r) \/ ReceivedAll(r) \/ WriteOwn(r) \/ CloseFile(r)
          \/ BeginFiles(r) \/ LoadFirst(r) \/ ClusterFiles(r) \/ Gather(r)
          \/ AssignFiles(r) \/ ShareFiles(r) \/ PartitionCluster(r)
     \/ Rerun
     \/ \E r \in Ranks, iteration \in -1 .. in.maxIter : Recover(r, iteration)

(***************************************************************************)
(* Properties.                                                              *)
(***************************************************************************)
Finished == partition # NoPartition /\ \A r \in Ranks : part[r].pc = "done"

\* What a part can wait for: the others in a collective, room for a message
\* or the message it expects, files in the folder.
Collectives == {"start", "bcast", "reduce", "refine", "share", "final", "saved", "exists", "sent"}

Waits(r) ==
  LET p == part[r]
      inbox == partition.channel[p.from]
      tag == IF p.expect = -1 THEN 0 ELSE 1
  IN  \/ p.pc = "done"
      \/ /\ in.mode = "MPI"
         /\ \/ p.pc \in Collectives /\ \E s \in Ranks : part[s].pc # p.pc
            \/ p.pc = "send" /\ p.left # <<>> /\ Len(partition.channel[r]) >= ChannelCapacity
            \/ /\ p.pc = "collect" /\ p.from \in Ranks \ {r} /\ p.expect # 0
               /\ inbox = <<>> \/ Head(inbox).tag # tag
      \/ /\ in.mode = "Files"
         /\ \/ p.pc = "load" /\ ~Complete(p.iteration, TRUE)
            \/ p.pc = "gather" /\ ~Complete(p.iteration + 1, r # 0)
            \/ p.pc = "share" /\ ~Complete(AssignKey(p), FALSE)

\* No part is left waiting for parts that have taken another way through the
\* loop or send another number of messages: as long as the job is not
\* finished, some part does not wait, whatever was killed and started again.
NoneLeftWaiting == partition # NoPartition /\ ~Finished => \E r \in Ranks : ~Waits(r)

\* When all the parts are done, every vector is in its nearest cluster of the
\* SAVED centres, whatever part it belongs to, unless the clusters have a hard
\* limit; in no cluster beyond the closure factor and in none twice; and a
\* cluster is no larger than its limit, or than what its nearest vectors need.
AssignedToNearest ==
  Finished =>
    LET dist(id, k) == Square(in.data[id[1]][id[2]], partition.centersFile.centers[k])
        ids == UNION {{r} \X (1 .. Len(in.data[r])) : r \in Ranks}
        label(id) == partition.labels[id[1]][id[2]]
        nearest(id) == SortedCenters(in, [k \in Clusters(in) |-> dist(id, k)])[1]
        total == TotalCount(in, Cardinality(ids))
    IN  /\ \A id \in ids, j \in 1 .. in.assign :
             /\ in.hardcut = 0 /\ j = 1 => label(id)[j] = nearest(id)
             /\ label(id)[j] # NoLabel =>
                  /\ WithinClosure(in, dist(id, label(id)[j]), dist(id, nearest(id)))
                  /\ \A i \in 1 .. j - 1 : label(id)[i] # label(id)[j]
        /\ \A k \in Clusters(in) :
             Cardinality({id \in ids : \E j \in 1 .. in.assign : label(id)[j] = k})
               <= IF in.hardcut = 1 THEN total
                  ELSE Max({total, Cardinality({id \in ids : nearest(id) = k})})

\* When all the parts are done, also after a job was killed and run again,
\* the files of a cluster hold exactly the vectors with its label, each with
\* its own metadata, and start with their number.
OutputsComplete ==
  Finished =>
    \A k \in Clusters(in) :
      LET tasks == IF in.mode = "MPI" THEN {0} ELSE Ranks
          labelled(r) == ToSet(RecordsOf(r, partition.labels[r], k))
          files == {partition.out[<<t, k>>] : t \in tasks}
      IN  /\ \A f \in files :
               /\ f # NoFile /\ f.count = Len(f.records) /\ IsInjective(f.records)
               /\ \A n \in 1 .. Len(f.records) :
                    SubSeq(f.meta, f.offsets[n] + 1, f.offsets[n + 1]) = MetaOf(f.records[n])
          /\ \A t \in tasks :
               ToSet(partition.out[<<t, k>>].records) =
                 IF in.mode = "MPI" THEN UNION {labelled(r) : r \in Ranks} ELSE labelled(t)
=============================================================================
