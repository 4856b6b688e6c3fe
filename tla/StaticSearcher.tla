--------------------------- MODULE StaticSearcher ---------------------------
(***************************************************************************)
(* The static SPANN index (ExtraStaticSearcher): a build that chooses, for *)
(* every vector, the heads whose posting lists get a copy of it, cuts the  *)
(* lists to the page limit, lays them out and writes them with a header;   *)
(* the load that reads the header back; the search that reads the lists of *)
(* the nearest heads; and the iterator over them.                          *)
(*                                                                         *)
(* Abstractions.  A file is a sequence of 16 bit words and every size is   *)
(* in words: an int is two, a size_t four, a vector one int8 component.    *)
(* A vector's number is its place in the input.  The head index is         *)
(* external: it finds the nearest of a set of the heads.                   *)
(***************************************************************************)
EXTENDS PostingLayout, SequencesExt, FiniteSetsExt

CONSTANTS Settings,     \* inputs and options of a build
          Queries, MaxSize, MaxDist, None

Setting ==
    [points : Seq(Int),         \* the input vectors, numbered from 0
     heads : Seq(Nat),          \* m_vectorTranslateMap: the vector each head is
     replicaCount : Nat, candidateNum : Nat, excludehead : BOOLEAN, batches : Nat \ {0}, files : Nat \ {0},
     pageLimit : Nat, vectorLimit : Nat, searchPageLimit : Nat,
     delta : BOOLEAN, rearrange : BOOLEAN, compress : BOOLEAN,
     k : Nat,                   \* results asked for
     internal : Nat,            \* m_searchInternalResultNum
     ratio : Nat,               \* m_maxDistRatio
     headBatch : Nat,
     batch : Nat,               \* results a caller of the iterator asks for at a time
     filter : SUBSET Nat,       \* vectors the iterator's filter rejects
     missing : SUBSET Nat]      \* heads a search of the head index may miss

ASSUME SettingsAssumption == Settings \subseteq Setting /\ MaxSize \in Nat

VARIABLES
    opt,
    pc,         \* what the build, the load or the index does next
    step,       \* batch or file it does it for
    sel,        \* Selection: the temporary file, and the part of it in memory
    replicas,   \* replicaCount, by vector
    sizes,      \* postingListSize, by head
    lay,        \* the layout of the file being written
    disk,       \* the index files
    infos,      \* m_listInfos
    answer,     \* what the last search was asked, and what it returned
    it          \* the open iterator, or None

vars == <<opt, pc, step, sel, replicas, sizes, lay, disk, infos, answer, it>>
build == <<opt, sel, replicas, sizes, lay>>
index == <<disk, infos>>

----------------------------------------------------------------------------
(* Words *)

Int16(n) == <<n % 65536>>
Int32(n) == <<n % 65536, n \div 65536>>
SizeT(n) == <<n % 65536, n \div 65536, 0, 0>>
Zeros(n) == [i \in 1..n |-> 0]
\* A page buffer beyond what was read keeps an old content: 0 stands for it.
WordAt(ws, at) == IF at + 1 \in DOMAIN ws THEN ws[at + 1] ELSE 0
Int32At(ws, at) == WordAt(ws, at) + 65536 * WordAt(ws, at + 1)
RoundUp(n) == ((n + PageSize - 1) \div PageSize) * PageSize

VectorInfoSize == 3             \* number and vector
N == Len(opt.points)
HeadCount == Len(opt.heads)
Vectors == 0..N - 1
Heads == 0..HeadCount - 1
Point(v) == opt.points[v + 1]
Translate(h) == opt.heads[h + 1]
HeadOf(v) == CHOOSE h \in Heads : Translate(h) = v     \* headVectorIDS
IsHead(v) == \E h \in Heads : Translate(h) = v
Distance(x, y) == (x - y) * (x - y)

----------------------------------------------------------------------------
(* The head index, and the order of its results *)

Before(a, b) == a.dist < b.dist \/ (a.dist = b.dist /\ a.vid < b.vid)

\* The n nearest of the heads found.
HeadSearch(x, n, found) ==
    LET all == SetToSortSeq({[vid |-> h, dist |-> Distance(x, Point(Translate(h)))] : h \in found}, Before)
    IN  SubSeq(all, 1, IF n < Len(all) THEN n ELSE Len(all))
Found == {Heads \ m : m \in SUBSET (opt.missing \cap Heads)}

----------------------------------------------------------------------------
(* The temporary file of selected edges *)

NoEdge == [node |-> MaxSize, distance |-> MaxDist, tonode |-> MaxSize]
EdgeLess(a, b) ==
    \/ a.node < b.node
    \/ a.node = b.node /\ a.distance < b.distance
    \/ a.node = b.node /\ a.distance = b.distance /\ a.tonode < b.tonode

\* Overwrites the part of the file the memory holds.
SaveBatch(s) ==
    [file |-> [i \in 1..(IF s.start + Len(s.mem) > Len(s.file) THEN s.start + Len(s.mem) ELSE Len(s.file)) |->
                  IF i > s.start /\ i <= s.start + Len(s.mem) THEN s.mem[i - s.start] ELSE s.file[i]],
     start |-> 0, mem |-> <<>>]
LoadBatch(s, start, end) == [s EXCEPT !.start = start, !.mem = SubSeq(s.file, start + 1, end)]
LowerBound(s, node) == s.start + Cardinality({i \in DOMAIN s.mem : s.mem[i].node < node})
EdgeAt(s, offset) == s.mem[offset - s.start + 1]

----------------------------------------------------------------------------
(* Build: the replicas of every vector *)

\* A candidate farther from the vector than from a head already chosen is
\* left out.
RNGAccepted(cand, chosen) ==
    \A j \in DOMAIN chosen :
        Distance(Point(Translate(cand.vid)), Point(Translate(chosen[j].node))) >= cand.dist

ApproximateRNG(v, found) ==
    FoldLeft(LAMBDA chosen, cand :
                 IF Len(chosen) < opt.replicaCount /\ RNGAccepted(cand, chosen)
                 THEN Append(chosen, [node |-> cand.vid, distance |-> cand.dist, tonode |-> v]) ELSE chosen,
             <<>>, HeadSearch(Point(v), opt.candidateNum, found))

\* The edges of vector v: unused ones are as they were created.
EdgesOf(v, found) ==
    LET edges == CASE ~IsHead(v) -> ApproximateRNG(v, found)
                   [] IsHead(v) /\ ~opt.excludehead -> <<[NoEdge EXCEPT !.node = HeadOf(v), !.tonode = v]>>
                   [] OTHER -> <<>>
    IN  [i \in 1..opt.replicaCount |-> IF i <= Len(edges) THEN edges[i] ELSE NoEdge]

BatchSize == (N + opt.batches - 1) \div opt.batches
BatchStart(i) == i * BatchSize
BatchEnd(i) == IF (i + 1) * BatchSize < N THEN (i + 1) * BatchSize ELSE N
InPosting(edges, h) == Cardinality({i \in DOMAIN edges : edges[i].node = h})

SelectBatch ==
    /\ pc = "select"
    /\ \E found \in Found :
         LET here == BatchStart(step)..BatchEnd(step) - 1
             edges == [v \in here |-> EdgesOf(v, found)]
             loaded == IF opt.batches > 1
                       THEN LoadBatch(sel, BatchStart(step) * opt.replicaCount, BatchEnd(step) * opt.replicaCount)
                       ELSE sel
             chosen == [loaded EXCEPT !.mem =
                            [i \in DOMAIN @ |->
                                edges[BatchStart(step) + (i - 1) \div opt.replicaCount][1 + ((i - 1) % opt.replicaCount)]]]
         IN  /\ replicas' = [v \in Vectors |->
                    IF v \in here THEN opt.replicaCount - InPosting(edges[v], MaxSize) ELSE replicas[v]]
             /\ sizes' = [h \in Heads |-> sizes[h] + InPosting(chosen.mem, h)]
             /\ sel' = IF opt.batches > 1 THEN SaveBatch(chosen) ELSE chosen
    /\ IF step + 1 < opt.batches THEN step' = step + 1 /\ pc' = pc ELSE step' = 0 /\ pc' = "cut"
    /\ UNCHANGED <<opt, lay, disk, infos, answer, it>>

PagesFor(vectors) == (vectors * VectorInfoSize + PageSize - 1) \div PageSize
PostingPageLimit == Max({opt.pageLimit, PagesFor(opt.vectorLimit)})
PostingSizeLimit == IF opt.pageLimit > 0 THEN (PostingPageLimit * PageSize) \div VectorInfoSize ELSE MaxSize

\* The edges of head h beyond the limit, the farthest.
Dropped(sorted, h) ==
    LET first == LowerBound(sorted, h)
    IN  [i \in PostingSizeLimit..sizes[h] - 1 |-> EdgeAt(sorted, first + i).tonode]

SortAndCut ==
    /\ pc = "cut"
    /\ LET all == IF opt.batches > 1 THEN LoadBatch(sel, 0, N * opt.replicaCount) ELSE sel
           sorted == [all EXCEPT !.mem = SortSeq(@, EdgeLess)]
       IN  /\ replicas' = [v \in Vectors |-> replicas[v] -
                  Cardinality(UNION {{<<h, i>> : i \in {j \in DOMAIN Dropped(sorted, h) : Dropped(sorted, h)[j] = v}} : h \in Heads})]
           /\ sizes' = [h \in Heads |-> IF sizes[h] > PostingSizeLimit THEN PostingSizeLimit ELSE sizes[h]]
           /\ sel' = IF opt.files > 1 THEN SaveBatch(sorted) ELSE sorted
    /\ pc' = "file" /\ step' = 0
    /\ UNCHANGED <<opt, lay, disk, infos, answer, it>>

----------------------------------------------------------------------------
(* Build: the files *)

ListsPerFile == (HeadCount + opt.files - 1) \div opt.files     \* postingFileSize
FirstList(f) == f * ListsPerFile
EndList(f) == Min({HeadCount, (f + 1) * ListsPerFile})

\* Less the head, component by component, when it is delta encoded.
Encode(h, v) == IF opt.delta THEN (Point(v) - Point(Translate(h))) % 256 ELSE Point(v) % 256

Concat(ss) == FoldLeft(LAMBDA a, b : a \o b, <<>>, ss)

GetPostingListFullData(s, h, size) ==
    LET vids == [i \in 1..size |-> EdgeAt(s, LowerBound(s, h) + i - 1).tonode]
        ids == [i \in 1..size |-> Int32(vids[i])]
        vectors == [i \in 1..size |-> Int16(Encode(h, vids[i]))]
    IN  IF opt.rearrange THEN Concat(vectors) \o Concat(ids)
        ELSE Concat([i \in 1..size |-> ids[i] \o vectors[i]])

\* External: something shorter that has the data back, and is known by its
\* first word.
Magic == 47400
Compress(data) ==
    <<Magic>> \o [i \in 1..(Len(data) + 1) \div 2 |-> WordAt(data, 2 * i - 2) + 65536 * WordAt(data, 2 * i - 1)]
CompressedSize(length) == 1 + (length + 1) \div 2
Decompress(ws, length) ==
    [i \in 1..length |-> (WordAt(ws, 1 + (i - 1) \div 2) \div (IF i % 2 = 1 THEN 1 ELSE 65536)) % 65536]

Content(s, h) ==
    LET data == GetPostingListFullData(s, h, sizes[h]) IN IF opt.compress THEN Compress(data) ELSE data

\* curPostingListBytes, by the list's place in file f.
Bytes(f) ==
    [i \in 0..EndList(f) - FirstList(f) - 1 |->
        LET length == sizes[FirstList(f) + i] * VectorInfoSize
        IN  IF opt.compress /\ length # 0 THEN CompressedSize(length) ELSE length]

\* The edges of the lists of file f, when there are several files.
EdgesOfFile(s, f) ==
    IF opt.files = 1 THEN s
    ELSE LET whole == [s EXCEPT !.start = 0, !.mem = s.file]
         IN  LoadBatch(s, LowerBound(whole, FirstList(f)), LowerBound(whole, EndList(f)))

\* A file that would begin beyond the last list: the vector's constructor
\* throws.
OpenFile ==
    /\ pc = "file"
    /\ IF FirstList(step) > EndList(step)
       THEN pc' = "failed" /\ UNCHANGED <<sel, lay>>
       ELSE /\ sel' = EdgesOfFile(sel, step)
            /\ lay' = LayoutStart(Bytes(step))
            /\ pc' = "layout"
    /\ UNCHANGED <<opt, step, replicas, sizes, disk, infos, answer, it>>

SelectPostingOffset ==
    /\ pc = "layout" /\ lay.left # {}
    /\ lay' = LayoutStep(Bytes(step), lay)
    /\ UNCHANGED <<opt, pc, step, sel, replicas, sizes, disk, infos, answer, it>>

\* The header's entry of list i: a list without vectors has zeros.
ListHeader(bytes, i) ==
    LET size == sizes[FirstList(step) + i]
    IN  (IF opt.compress THEN SizeT(IF size = 0 THEN 0 ELSE bytes[i]) ELSE <<>>)
        \o Int32(IF size = 0 THEN 0 ELSE lay.num[i]) \o Int16(IF size = 0 THEN 0 ELSE lay.off[i])
        \o Int32(size) \o Int16(IF size = 0 THEN 0 ELSE PagesOf(bytes, i))

Padded(ws) == ws \o Zeros(RoundUp(Len(ws)) - Len(ws))

FileHeader(bytes) ==
    LET lists == Concat([i \in 1..Cardinality(DOMAIN bytes) |-> ListHeader(bytes, i - 1)])
        length == 8 + Len(lists)
    IN  Padded(Int32(Cardinality(DOMAIN bytes)) \o Int32(N) \o Int32(1) \o Int32(RoundUp(length) \div PageSize) \o lists)

\* The lists in the order of the layout, each padded up to its place.
Body(s) ==
    FoldLeft(LAMBDA ws, i : ws \o Zeros(Begin(lay, i) - Len(ws)) \o Content(s, FirstList(step) + i), <<>>, lay.order)

\* "List offset mismatch", "Padding size mismatch with page size"
Misplaced(bytes) ==
    \E j \in DOMAIN lay.order :
        LET end == IF j = 1 THEN 0 ELSE Begin(lay, lay.order[j - 1]) + bytes[lay.order[j - 1]]
        IN  Begin(lay, lay.order[j]) < end \/ Begin(lay, lay.order[j]) > end + PageSize

OutputSSDIndexFile ==
    /\ pc = "layout" /\ lay.left = {}
    /\ LET bytes == Bytes(step)
       IN  IF Misplaced(bytes) THEN pc' = "failed" /\ UNCHANGED <<disk, step>>
           ELSE /\ disk' = Append(disk, FileHeader(bytes) \o Padded(Body(sel)))
                /\ IF step + 1 < opt.files THEN pc' = "file" /\ step' = step + 1 ELSE pc' = "load" /\ step' = 0
    /\ UNCHANGED <<build, infos, answer, it>>

----------------------------------------------------------------------------
(* Load *)

\* The options are taken over only after the headers have been read: the
\* loader still has the constructor's m_enableDataCompression.
CompressionWhenLoading == FALSE

SearchPageLimit ==
    Max({IF opt.searchPageLimit = 0 THEN PostingPageLimit ELSE opt.searchPageLimit, PagesFor(opt.vectorLimit)})

ListInfo(file, i) ==
    LET base == Int32At(file, 6)
        entry == IF CompressionWhenLoading THEN 10 ELSE 6
        at == 8 + entry * i + (IF CompressionWhenLoading THEN 4 ELSE 0)
        count == Int32At(file, at + 3)
        pages == WordAt(file, at + 5)
        cut == Min({count, (Min({pages, SearchPageLimit}) * PageSize) \div VectorInfoSize})
        pageOffset == WordAt(file, at + 2)
    IN  [offset |-> (base + Int32At(file, at)) * PageSize, pageOffset |-> pageOffset,
         count |-> IF CompressionWhenLoading THEN count ELSE cut,
         bytes |-> IF CompressionWhenLoading THEN Int32At(file, at - 4) ELSE count * VectorInfoSize,
         pages |-> IF CompressionWhenLoading THEN pages
                   ELSE (VectorInfoSize * cut + pageOffset + PageSize - 1) \div PageSize]

LoadingHeadInfo ==
    /\ pc = "load"
    /\ LET file == disk[step + 1] IN infos' = infos \o [i \in 1..Int32At(file, 0) |-> ListInfo(file, i - 1)]
    /\ IF step + 1 < Len(disk) THEN step' = step + 1 /\ pc' = pc ELSE step' = 0 /\ pc' = "ready"
    /\ UNCHANGED <<build, disk, answer, it>>

----------------------------------------------------------------------------
(* Reading a list *)

Info(p) == infos[p + 1]
CheckValidPosting(p) == Info(p).count # 0

ListPerFile == (Len(infos) + Len(disk) - 1) \div Len(disk)      \* m_listPerFile
FileOf(p) == IF Len(disk) = 1 THEN 1 ELSE p \div ListPerFile + 1

\* The pages of list p, from its page offset on.
PageBuffer(p) ==
    LET file == disk[FileOf(p)]
        last == Info(p).offset + Info(p).pages * PageSize
    IN  SubSeq(file, Info(p).offset + Info(p).pageOffset + 1, Min({last, Len(file)}))

Decodable(p) == ~opt.compress \/ WordAt(PageBuffer(p), 0) = Magic
PostingData(p) ==
    IF opt.compress THEN Decompress(Tail(PageBuffer(p)), Info(p).count * VectorInfoSize) ELSE PageBuffer(p)

\* The numbers of rearranged lists are looked for beside the vectors.
IdOffset_Interleaved(p, i) == VectorInfoSize * i

IdOffset(p, i) ==
    IF opt.rearrange THEN (VectorInfoSize - 2) * Info(p).count + 2 * i ELSE VectorInfoSize * i

VectorOffset(p, i) ==
    IF opt.rearrange THEN (VectorInfoSize - 2) * i ELSE VectorInfoSize * i + 2

\* The head is added again, component by component.
ParseEncoding(p, w) ==
    LET n == IF opt.delta THEN (w + Point(Translate(p))) % 256 ELSE w IN IF n < 128 THEN n ELSE n - 256

\* What the i-th entry of list p says: the vector's number and the vector.
Element(p, i) ==
    [vid |-> Int32At(PostingData(p), IdOffset(p, i)),
     vector |-> ParseEncoding(p, WordAt(PostingData(p), VectorOffset(p, i)))]
Elements(p) ==
    IF Decodable(p) THEN [i \in 1..Info(p).count |-> Element(p, i - 1)] ELSE <<>>

----------------------------------------------------------------------------
(* Search *)

NoResult == [vid |-> -1, dist |-> MaxDist]

\* AddPoint: the worst of the results gives way to a better one.
AddPoint(results, r) ==
    IF Before(r, results[Len(results)])
    THEN SortSeq(Append(SubSeq(results, 1, Len(results) - 1), r), Before) ELSE results

\* The lists are processed in the order in which their pages arrive.
ProcessPosting_Repeats(acc, p, q) ==
    FoldLeft(LAMBDA a, e : [a EXCEPT !.results = AddPoint(@, [vid |-> e.vid, dist |-> Distance(q, e.vector)])], acc, Elements(p))

ProcessPosting(acc, p, q) ==
    FoldLeft(LAMBDA a, e :
                 IF e.vid \in a.seen THEN a
                 ELSE [seen |-> a.seen \cup {e.vid},
                       results |-> AddPoint(a.results, [vid |-> e.vid, dist |-> Distance(q, e.vector)])],
             acc, Elements(p))

\* The lists of the nearest heads are searched.  Those that a failing batch
\* has not read are left out, and the search is a success all the same.
ResultNum == Max({opt.k, opt.internal})
PostingIDs(heads) ==
    LET limit == IF heads = <<>> THEN 0 ELSE heads[1].dist * opt.ratio
        far == {i \in DOMAIN heads : i > opt.internal \/ (limit > 0 /\ heads[i].dist > limit)}
        near == SubSeq(heads, 1, IF far = {} THEN Len(heads) ELSE Min(far) - 1)
    IN  SelectSeq([i \in DOMAIN near |-> near[i].vid], CheckValidPosting)

SearchIndex ==
    /\ pc = "ready" /\ it = None
    /\ \E q \in Queries, found \in Found :
         LET heads == HeadSearch(q, ResultNum, found)
             lists == PostingIDs(heads)
         IN  \E order \in {o \in [1..Len(lists) -> Range(lists)] : IsInjective(o)}, read \in 0..Len(lists) :
               LET start == [i \in 1..ResultNum |->
                                IF i <= Len(heads) THEN [vid |-> Translate(heads[i].vid), dist |-> heads[i].dist]
                                ELSE NoResult]
                   end == FoldLeft(LAMBDA a, p : ProcessPosting(a, p, q), [seen |-> {}, results |-> start],
                                   SubSeq(order, 1, read))
               IN  answer' = [query |-> q, heads |-> {heads[i].vid : i \in DOMAIN heads},
                              lists |-> {order[i] : i \in 1..read}, results |-> SubSeq(end.results, 1, opt.k)]
    /\ UNCHANGED <<build, index, pc, step, it>>

----------------------------------------------------------------------------
(* The iterator *)

Passes(v) == v \notin opt.filter

\* GetIterator, and the first heads.
GetIterator ==
    /\ pc = "ready" /\ it = None /\ ~opt.compress
    /\ \E q \in Queries, found \in Found :
         LET heads == HeadSearch(q, opt.internal, found)
         IN  it' = [query |-> q, heads |-> heads, left |-> found \ {heads[i].vid : i \in DOMAIN heads},
                    lists |-> <<>>, ri |-> 0, pi |-> 0, offset |-> 0, load |-> TRUE, seen |-> {},
                    relaxed |-> FALSE, loaded |-> {}, running |-> FALSE, batch |-> opt.batch, count |-> 0,
                    given |-> <<>>, full |-> TRUE]
    /\ UNCHANGED <<build, index, pc, step, answer>>

\* Next: a call that got fewer than it asked for shrinks all later ones.
NextCall ==
    /\ it # None /\ ~it.running
    /\ it' = [it EXCEPT !.running = TRUE, !.batch = Min({opt.batch, @}), !.count = 0]
    /\ UNCHANGED <<build, index, pc, step, answer>>

Return(j) == [j EXCEPT !.running = FALSE, !.batch = j.count, !.full = j.count = j.batch]

Running == it # None /\ it.running

EndCall ==
    /\ Running /\ it.count = it.batch
    /\ it' = Return(it)
    /\ UNCHANGED <<build, index, pc, step, answer>>

\* The lists of the new heads are read, and the heads become vectors.  A
\* batch of reads that fails twice ends the call; the heads would be
\* translated again by the next one, so a caller closes the iterator.
LoadPostings ==
    /\ Running /\ it.count < it.batch /\ it.load
    /\ LET lists == SelectSeq([i \in DOMAIN it.heads |-> it.heads[i].vid], CheckValidPosting)
       IN  it' = [it EXCEPT !.lists = lists, !.loaded = @ \cup Range(lists),
                            !.heads = [i \in DOMAIN @ |-> [@[i] EXCEPT !.vid = Translate(@)]],
                            !.ri = 0, !.pi = 0, !.offset = 0, !.load = FALSE]
    /\ UNCHANGED <<build, index, pc, step, answer>>

LoadFails ==
    /\ Running /\ it.count < it.batch /\ it.load /\ it.heads # <<>>
    /\ it' = None
    /\ UNCHANGED <<build, index, pc, step, answer>>

Give(j, v) == [j EXCEPT !.given = Append(@, v), !.count = @ + 1]

InLists == Running /\ it.count < it.batch /\ ~it.load /\ it.pi < Len(it.lists)
HeadPasses == it.ri < Len(it.heads) /\ Passes(it.heads[it.ri + 1].vid)

\* The head of a list comes before the list.
HeadTurn == HeadPasses /\ it.ri <= it.pi

NextHead ==
    /\ InLists /\ HeadTurn
    /\ it' = Give([it EXCEPT !.ri = @ + 1], it.heads[it.ri + 1].vid)
    /\ UNCHANGED <<build, index, pc, step, answer>>

\* The vectors of the list just left are forgotten.
SeenAfter_List(seen, v, last) == IF last THEN {} ELSE seen \cup {v}

SeenAfter(seen, v, last) == seen \cup {v}

\* One entry of the list: a vector seen before, or one the filter rejects,
\* is passed over.
NextInPosting ==
    /\ InLists /\ ~HeadTurn
    /\ LET p == it.lists[it.pi + 1]
           v == Element(p, it.offset).vid
           last == it.offset + 1 = Info(p).count
           on == [it EXCEPT !.offset = IF last THEN 0 ELSE @ + 1, !.pi = IF last THEN @ + 1 ELSE @,
                            !.seen = SeenAfter(@, v, last)]
       IN  it' = IF v \notin it.seen /\ Passes(v) THEN Give(on, v) ELSE on
    /\ UNCHANGED <<build, index, pc, step, answer>>

AfterLists == Running /\ it.count < it.batch /\ ~it.load /\ it.pi >= Len(it.lists)

LastHeads ==
    /\ AfterLists /\ HeadPasses
    /\ it' = Give([it EXCEPT !.ri = @ + 1], it.heads[it.ri + 1].vid)
    /\ UNCHANGED <<build, index, pc, step, answer>>

\* Nothing is left of these heads: the next ones.  The call ends when there
\* are none, or when the search has just become monotonic enough.
MoreHeads ==
    /\ AfterLists /\ ~HeadPasses
    /\ LET heads == HeadSearch(it.query, opt.headBatch, it.left)
           relaxed == it.relaxed \/ Cardinality(it.loaded) >= opt.internal
           more == [it EXCEPT !.heads = heads, !.left = @ \ {heads[i].vid : i \in DOMAIN heads},
                              !.load = TRUE, !.relaxed = relaxed]
       IN  it' = IF heads = <<>> \/ (relaxed /\ ~it.relaxed) THEN Return(more) ELSE more
    /\ UNCHANGED <<build, index, pc, step, answer>>

Close ==
    /\ it # None /\ ~it.running
    /\ it' = None
    /\ UNCHANGED <<build, index, pc, step, answer>>

----------------------------------------------------------------------------

Init ==
    /\ opt \in Settings
    /\ pc = "select" /\ step = 0
    /\ LET fresh == [file |-> <<>>, start |-> 0, mem |-> [i \in 1..N * opt.replicaCount |-> NoEdge]]
       IN  sel = IF opt.batches > 1 THEN SaveBatch(fresh) ELSE fresh
    /\ replicas = [v \in Vectors |-> 0]
    /\ sizes = [h \in Heads |-> 0]
    /\ lay = LayoutStart(<<>>) /\ disk = <<>> /\ infos = <<>>
    /\ answer = None /\ it = None

BuildIndex == SelectBatch \/ SortAndCut \/ OpenFile \/ SelectPostingOffset \/ OutputSSDIndexFile

SearchIndexIterative ==
    \/ GetIterator \/ NextCall \/ EndCall \/ LoadPostings \/ LoadFails \/ NextHead \/ NextInPosting
    \/ LastHeads \/ MoreHeads \/ Close

Next == BuildIndex \/ LoadingHeadInfo \/ SearchIndex \/ SearchIndexIterative

Spec == Init /\ [][Next]_vars

----------------------------------------------------------------------------
(* Properties *)

Loaded == pc = "ready"

\* The vectors chosen for list h, the nearest to it first: what the build
\* has sorted, without the place it has in any file.
Chosen(h) ==
    LET all == IF opt.files > 1 THEN sel.file ELSE sel.mem
    IN  SelectSeq(all, LAMBDA e : e.node = h)

\* Entries of a list the search may see: as many as fit the page limits of
\* the build and of the search.
Visible(h) ==
    LET n == Min({Len(Chosen(h)), PostingSizeLimit})
    IN  Min({n, (SearchPageLimit * PageSize) \div VectorInfoSize})

\* SelectPostingOffset, for every file: the lists placed so far do not
\* overlap, none lies beyond the place where the next may begin, and each
\* ends within the pages that its header entry counts, though these are
\* counted without regard to where the list begins in its first page.  So
\* OutputSSDIndexFile never throws "List offset mismatch" or "Padding size
\* mismatch with page size"; the build fails only when a file would begin
\* beyond the last list.
ListsLaidOut ==
    /\ pc = "layout" => LayoutSound(Bytes(step), lay)
    /\ pc = "failed" => (opt.files - 1) * ListsPerFile > HeadCount

\* What LoadIndex and the search read is what BuildIndex chose
\* (OutputSSDIndexFile against LoadingHeadInfo and ParsePosting): every list
\* has its nearest vectors, each with its own components, whatever the file
\* the list is in, its place within a page, the order of its parts and the
\* encoding; and its pages fit the buffer InitWorkSpace reserves.
ReadsWhatWasBuilt ==
    Loaded /\ ~opt.compress =>
        /\ Len(infos) = HeadCount
        /\ \A h \in Heads :
             /\ Elements(h) = [i \in 1..Visible(h) |-> [vid |-> Chosen(h)[i].tonode, vector |-> Point(Chosen(h)[i].tonode)]]
             /\ Info(h).pages <= Max({PostingPageLimit, SearchPageLimit + 1})

Candidates ==
    {Translate(h) : h \in answer.heads} \cup UNION {{e.vid : e \in Range(Elements(p))} : p \in answer.lists}

\* The results of SearchIndex are the best of the heads found and of the
\* vectors in the lists that were read, in order of distance, each of them
\* once, whatever the order in which the lists arrived.
ReturnsNearest ==
    answer # None /\ opt.excludehead =>
        LET near(v) == Distance(answer.query, Point(v))
            got == SelectSeq(answer.results, LAMBDA r : r # NoResult)
            vids == [i \in DOMAIN got |-> got[i].vid]
        IN  /\ Len(got) = Min({opt.k, Cardinality(Candidates)}) /\ IsInjective(vids)
            /\ \A i \in DOMAIN got :
                  /\ got[i].vid \in Candidates /\ got[i].dist = near(got[i].vid)
                  /\ \A j \in 1..i : got[j].dist <= got[i].dist
                  /\ \A v \in Candidates \ Range(vids) : got[i].dist <= near(v)

\* The iterator never gives a vector twice (m_deduper over all its lists)
\* or one the filter rejects, and a call that gives fewer than it was asked
\* for has left out none of the lists loaded so far.
IteratorComplete ==
    it # None /\ opt.excludehead =>
        /\ IsInjective(it.given)
        /\ \A v \in Range(it.given) : Passes(v)
        /\ ~it.running /\ ~it.full =>
              \A p \in it.loaded : \A e \in Range(Elements(p)) : Passes(e.vid) => e.vid \in Range(it.given)

\* A compressed index is read as it was built.
CompressedIsRead ==
    Loaded /\ opt.compress => \A h \in Heads : Len(Elements(h)) = Min({Len(Chosen(h)), PostingSizeLimit})
=============================================================================
