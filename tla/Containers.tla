---------------------------- MODULE Containers -----------------------------
(***************************************************************************)
(* The containers of a search: the work spaces with their set of visited    *)
(* samples, a hash table of two blocks that doubles when it is full, the    *)
(* bounded priority queue of candidates (Heap), the queue of the best       *)
(* distances (DistPriorityQueue) and the result set (QueryResultSet).       *)
(***************************************************************************)
EXTENDS Integers, Sequences, FiniteSetsExt, SequencesExt

CONSTANTS Ids,            \* samples, as the indexes hash them: from 1
          Searches,       \* searches in progress at one time
          MaxCheck,       \* MaxCheck of the index
          HashExponent,   \* HashTableExponent of the index
          HeapSizes,      \* capacities of the queues
          PointIds,       \* samples offered to a result set
          Values,         \* distances
          MaxDist,        \* larger than every distance
          MaxOffered      \* bound: values offered to one queue

VARIABLE box              \* the container in use, or NoBox

NoBox == [kind |-> "none"]

(***************************************************************************)
(* OptHashPosVector.                                                        *)
(***************************************************************************)
MaxLoop == 8

\* idx * 99991 + rotl(idx, 2) + 101; the ids are too small to wrap.
HashFunc(idx, poolSize) == (idx * 99991 + idx * 4 + 101) % (poolSize + 1)

\* hash_func2 adds 0, then 1, then 2, ... : the first place is tried twice.
ProbeAt(idx, poolSize, loop) ==
  (HashFunc(idx, poolSize) + ((loop * (loop - 1)) \div 2)) % (poolSize + 1)

\* The loop of _CheckAndSet over one block: the place it ends at, or -1.
Probe(cells, poolSize, block, idx) ==
  LET place(loop) == block * (poolSize + 1) + ProbeAt(idx, poolSize, loop)
      ends == {loop \in 0 .. MaxLoop - 1 : cells[place(loop)] \in {0, idx}}
  IN  IF ends = {} THEN -1 ELSE place(Min(ends))

EmptyCells(poolSize) == [c \in 0 .. 2 * (poolSize + 1) - 1 |-> 0]

BitLength(n) == Min({e \in 0 .. 30 : n < 2 ^ e})

HashInit(size, exp) ==
  LET poolSize == 2 ^ (BitLength(size) + exp) - 1
  IN  [second |-> FALSE, poolSize |-> poolSize, cells |-> EmptyCells(poolSize)]

\* The mutant clear that never clears the second block.
HashClear_First(t) ==
  [t EXCEPT !.second = FALSE,
            !.cells = [c \in DOMAIN @ |-> IF c <= t.poolSize THEN 0 ELSE @[c]]]

\* clear: the second block only when it has been used.
HashClear(t) ==
  [t EXCEPT !.second = FALSE,
            !.cells = [c \in DOMAIN @ |-> IF c <= t.poolSize \/ t.second THEN 0 ELSE @[c]]]

RECURSIVE DoubleSize(_)
RECURSIVE CheckAndSet(_, _)

\* Every cell of the table goes into a table of twice the size. An id for which
\* that one is full doubles the table again, from within the loop; the loop
\* goes on over the table that is then the member, and m_secondHash is what the
\* inner doubling has made of it.
DoubleSize(t) ==
  LET newPoolSize == 2 * (t.poolSize + 1) - 1
      Move(s, cell) ==
        LET idx == s.old.cells[cell]
            first == Probe(s.new, newPoolSize, 0, idx)
            second == Probe(s.new, newPoolSize, 1, idx)
        IN  CASE idx = 0 -> s
              [] idx # 0 /\ first >= 0 -> [s EXCEPT !.new[first] = idx]
              [] idx # 0 /\ first < 0 /\ second >= 0 ->
                   [s EXCEPT !.new[second] = idx, !.second = TRUE]
              [] OTHER -> LET nested == CheckAndSet(DoubleSize(s.old), idx).table
                          IN  [s EXCEPT !.old = nested, !.second = nested.second]
      moved == FoldLeft(Move,
                        [old |-> t, new |-> EmptyCells(newPoolSize), second |-> FALSE],
                        [i \in 1 .. newPoolSize + 1 |-> i - 1])
  IN  [second |-> moved.second, poolSize |-> newPoolSize, cells |-> moved.new]

\* CheckAndSet: the table afterwards and whether the id was in it.
CheckAndSet(t, idx) ==
  LET first == Probe(t.cells, t.poolSize, 0, idx)
      second == Probe(t.cells, t.poolSize, 1, idx)
  IN  CASE first >= 0 ->
             [table |-> [t EXCEPT !.cells[first] = idx], found |-> t.cells[first] = idx]
        [] first < 0 /\ second >= 0 ->
             [table |-> [t EXCEPT !.cells[second] = idx, !.second = TRUE],
              found |-> t.cells[second] = idx]
        [] OTHER -> CheckAndSet(DoubleSize(t), idx)

(***************************************************************************)
(* Work spaces: a pool of them, taken and returned by searches.             *)
(***************************************************************************)
Spaces ==
  [kind |-> "spaces", pool |-> <<>>,
   search |-> [s \in Searches |-> [active |-> FALSE]]]

\* GetWorkSpace, Initialize for a new one, Reset.
GetWorkSpace(s) ==
  /\ box.kind = "spaces"
  /\ ~box.search[s].active
  /\ LET fresh == box.pool = <<>>
         ws == IF fresh THEN HashInit(MaxCheck, HashExponent)
                        ELSE box.pool[Len(box.pool)]
     IN  box' = [box EXCEPT !.pool = IF fresh THEN @ ELSE SubSeq(@, 1, Len(@) - 1),
                            !.search[s] = [active |-> TRUE, ws |-> HashClear(ws),
                                           visited |-> {}]]

Visit(s, idx) ==
  /\ box.kind = "spaces"
  /\ box.search[s].active
  /\ box' = [box EXCEPT !.search[s].ws = CheckAndSet(@, idx).table,
                        !.search[s].visited = @ \cup {idx}]

ReturnWorkSpace(s) ==
  /\ box.kind = "spaces"
  /\ box.search[s].active
  /\ box' = [box EXCEPT !.pool = Append(@, box.search[s].ws),
                        !.search[s] = [active |-> FALSE]]

(***************************************************************************)
(* Heaps. The array is indexed from 1; a swap-down and a sift-up.           *)
(***************************************************************************)
Swapped(a, i, j) == [a EXCEPT ![i] = a[j], ![j] = a[i]]

\* Sift the value at `at` of the first n up while Less(it, its parent).
RECURSIVE SiftUp(_, _)
SiftUp(a, at) ==
  IF at > 1 /\ a[at] < a[at \div 2]
  THEN SiftUp(Swapped(a, at, at \div 2), at \div 2)
  ELSE a

\* heapify: while both children are there take the smaller; at last the only one.
RECURSIVE HeapDown(_, _)
HeapDown(a, parent) ==
  LET next == 2 * parent
      child == IF next < Len(a) /\ a[next] > a[next + 1] THEN next + 1 ELSE next
  IN  IF next <= Len(a) /\ a[child] < a[parent]
      THEN HeapDown(Swapped(a, parent, child), child)
      ELSE a

\* int(pow(2, floor(log2(size)))): the first place of the last level.
LastLevel(size) == 2 ^ (BitLength(size) - 1)

\* insert: when the queue is full, the largest of the last level is given up,
\* or the value itself when it is larger.
HeapInsert(a, size, value) ==
  LET level == LastLevel(size) .. size
      maxi == CHOOSE i \in level :
                \A j \in level : a[j] < a[i] \/ (a[j] = a[i] /\ i <= j)
  IN  IF Len(a) < size THEN SiftUp(Append(a, value), Len(a) + 1)
      ELSE IF value > a[maxi] THEN a
      ELSE SiftUp([a EXCEPT ![maxi] = value], maxi)

\* pop: the last takes the place of the first and goes down.
HeapPop(a) ==
  LET last == SubSeq([a EXCEPT ![1] = a[Len(a)]], 1, Len(a) - 1)
  IN  IF last = <<>> THEN last ELSE HeapDown(last, 1)

Queue(size) == [kind |-> "heap", size |-> size, a |-> <<>>, content |-> <<>>, offered |-> 0]

\* `content` is what the queue should hold: the values, sorted, without those
\* given up.
Without(content, value) ==
  LET i == CHOOSE i \in DOMAIN content : content[i] = value
  IN  SubSeq(content, 1, i - 1) \o SubSeq(content, i + 1, Len(content))

OfferToHeap(value) ==
  /\ box.kind = "heap"
  /\ box.offered < MaxOffered
  /\ box' = [box EXCEPT !.a = HeapInsert(@, box.size, value),
                        !.content =
                           IF Len(@) < box.size THEN SortSeq(Append(@, value), <)
                           ELSE LET level == {box.a[i] : i \in LastLevel(box.size) .. box.size}
                                IN  IF value > Max(level) THEN @
                                    ELSE SortSeq(Append(Without(@, Max(level)), value), <),
                        !.offered = @ + 1]

PopFromHeap ==
  /\ box.kind = "heap"
  /\ box.a # <<>>
  /\ box' = [box EXCEPT !.a = HeapPop(@), !.content = Tail(@)]

(***************************************************************************)
(* DistPriorityQueue: the largest is first.                                 *)
(***************************************************************************)
RECURSIVE DistUp(_, _)
DistUp(a, at) ==
  IF at > 1 /\ a[at] > a[at \div 2]
  THEN DistUp(Swapped(a, at, at \div 2), at \div 2)
  ELSE a

RECURSIVE DistDown(_, _)
DistDown(a, parent) ==
  LET next == 2 * parent
      child == IF next < Len(a) /\ a[next] < a[next + 1] THEN next + 1 ELSE next
  IN  IF next <= Len(a) /\ a[child] > a[parent]
      THEN DistDown(Swapped(a, parent, child), child)
      ELSE a

\* clear(count): one place is filled with MaxDist.
DistQueue(count) ==
  [kind |-> "distances", count |-> count, a |-> <<MaxDist>>, offered |-> <<>>]

DistInsert(a, count, dist) ==
  IF dist > a[1] THEN a
  ELSE IF Len(a) = count THEN DistDown([a EXCEPT ![1] = dist], 1)
  ELSE DistUp(Append(a, dist), Len(a) + 1)

OfferDistance(dist) ==
  /\ box.kind = "distances"
  /\ Len(box.offered) < MaxOffered
  /\ box' = [box EXCEPT !.a = DistInsert(@, box.count, dist),
                        !.offered = SortSeq(Append(@, dist), <)]

(***************************************************************************)
(* QueryResultSet: K places, at first (-1, MaxDist); indexed from 0 in the  *)
(* code.                                                                    *)
(***************************************************************************)
ResultBefore(r, s) == r.Dist < s.Dist \/ (r.Dist = s.Dist /\ r.VID < s.VID)

\* Heapify(count): the children of place p are 2p + 1 and 2p + 2.
RECURSIVE ResultDown(_, _, _)
ResultDown(a, count, parent) ==
  LET next == 2 * parent
      child == IF next < count /\ ResultBefore(a[next], a[next + 1]) THEN next + 1 ELSE next
  IN  IF next <= count /\ ResultBefore(a[parent], a[child])
      THEN ResultDown(Swapped(a, parent, child), count, child)
      ELSE a

ResultSet(k) ==
  [kind |-> "results", a |-> [i \in 1 .. k |-> [VID |-> -1, Dist |-> MaxDist]],
   offered |-> {}, sorted |-> FALSE]

AddPoint(a, index, dist) ==
  LET r == [VID |-> index, Dist |-> dist]
  IN  IF ResultBefore(r, a[1]) THEN ResultDown([a EXCEPT ![1] = r], Len(a), 1) ELSE a

\* SortResult: the largest goes behind the rest, which is a heap again.
SortResult(a) ==
  FoldLeft(LAMBDA b, i : ResultDown(Swapped(b, 1, i), i - 1, 1), a,
           [i \in 1 .. Len(a) |-> Len(a) + 1 - i])

OfferPoint(index, dist) ==
  /\ box.kind = "results"
  /\ ~box.sorted
  /\ \A r \in box.offered : r.VID # index
  /\ box' = [box EXCEPT !.a = AddPoint(@, index, dist),
                        !.offered = @ \cup {[VID |-> index, Dist |-> dist]}]

Sort ==
  /\ box.kind = "results"
  /\ ~box.sorted
  /\ box' = [box EXCEPT !.a = SortResult(@), !.sorted = TRUE]

(***************************************************************************)
(* The specification.                                                       *)
(***************************************************************************)
BoxInit ==
  \/ box = Spaces
  \/ \E n \in HeapSizes : box = Queue(n) \/ box = DistQueue(n) \/ box = ResultSet(n)

BoxNext ==
  \/ \E s \in Searches : GetWorkSpace(s) \/ ReturnWorkSpace(s)
  \/ \E s \in Searches, idx \in Ids : Visit(s, idx)
  \/ \E v \in Values : OfferToHeap(v) \/ OfferDistance(v)
  \/ PopFromHeap
  \/ \E idx \in PointIds, v \in Values : OfferPoint(idx, v)
  \/ Sort

(***************************************************************************)
(* Properties.                                                              *)
(***************************************************************************)
\* A search is told of a sample that it has visited it exactly when it has:
\* while the second block is in use, after the table has doubled, and in a work
\* space another search has used before (WorkSpace.h, OptHashPosVector).
VisitedExact ==
  box.kind = "spaces" =>
    \A s \in Searches : box.search[s].active =>
      \A idx \in Ids :
        CheckAndSet(box.search[s].ws, idx).found <=> idx \in box.search[s].visited

\* The queue of candidates gives them nearest first and loses only what it gives
\* up when it is full; the worst distance that decides when a search stops is the
\* k-th smallest it has met; and the sorted result set holds the k nearest of the
\* offered points, in order (Heap.h, WorkSpace.h, QueryResultSet.h).
QueuesExact ==
  /\ box.kind = "heap" =>
       /\ SortSeq(box.a, <) = box.content
       /\ box.a # <<>> => box.a[1] = box.content[1]
  /\ box.kind = "distances" =>
       /\ Len(box.offered) >= box.count => box.a[1] = box.offered[box.count]
       /\ Len(box.offered) < box.count => box.a[1] = MaxDist
  /\ box.kind = "results" /\ box.sorted =>
       \A i \in DOMAIN box.a :
         IF i <= Cardinality(box.offered)
         THEN /\ box.a[i] \in box.offered
              /\ Cardinality({r \in box.offered : ResultBefore(r, box.a[i])}) = i - 1
         ELSE box.a[i] = [VID |-> -1, Dist |-> MaxDist]

\* A search can rely on all its containers, the visited set and the queues,
\* however often they are used again (WorkSpace.h, Heap.h, QueryResultSet.h).
ContainersExact == VisitedExact /\ QueuesExact
=============================================================================
