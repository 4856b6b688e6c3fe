----------------------------- MODULE SPDKStore -----------------------------
(***************************************************************************)
(* SPDKIO, the KeyValueIO on a raw device: postings are written to new     *)
(* blocks, and a released block is kept in reserve until the next          *)
(* checkpoint.  A thread pushes requests of its workspace on one queue;    *)
(* SpdkIoLoop, the device's only thread, hands them to the device, and the *)
(* completion callback puts them on the workspace's queue, where they are  *)
(* counted.  Or, with SPFRESH_SPDK_USE_MEM_IMPL, the blocks are memory.    *)
(*                                                                         *)
(* Abstractions.  A value is a sequence of words, PageSize of them to a    *)
(* page; every write has a word of its own.  What an earlier operation     *)
(* left in a buffer is Junk.  The addresses of the rows are not modelled:  *)
(* a key's row is a value.  The callers' locks are m_rwLocks and           *)
(* m_checkPointLock: a writer and Get hold their key's, MultiGet none, and *)
(* Checkpoint waits for the writers.                                       *)
(***************************************************************************)
EXTENDS Integers, Sequences, FiniteSets, SequencesExt

CONSTANTS Threads, Keys, PageSize, Settings, None

Setting ==
    [mem : BOOLEAN,             \* m_useMemImpl
     start : Nat,               \* m_startFileSize, in blocks, at most max
     growth : Nat,              \* m_growthBlocks
     max : Nat,                 \* m_maxBlocks
     threshold : Nat,           \* m_growThreshold, in percent
     blockLimit : Nat,
     bufferLimit : Nat,
     requests : Nat \ {0},      \* requests of a workspace
     bufferPages : Nat \ {0},   \* pages of a page buffer
     batch : Nat \ {0},         \* m_spdkBatchSize
     timeout : BOOLEAN,         \* MultiGet's latency limit may run out
     nomem : BOOLEAN,           \* the device may answer -ENOMEM
     ops : SUBSET {"Put", "Merge", "Delete", "Get", "MultiGet", "MultiGetStrings", "Checkpoint", "ShutDown"},
     stored : Seq(Nat),         \* words of the posting each key has at the start
     lengths : SUBSET Nat,      \* words of a value put or merged
     maxOps : Nat]

VARIABLES
    cfg,        \* the setting
    pool, reserve, total,   \* m_blockAddresses, m_blockAddresses_reserve, m_totalAllocatedBlocks
    mapping,    \* m_pBlockMapping: 0..R - 1 -> row, or None
    spare,      \* rows in m_buffer
    saved,      \* the files of the last checkpoint, and the values at that time
    ssd,        \* block -> page
    reqs,       \* m_diskRequests of a workspace
    submitted,  \* m_submittedSubIoRequests
    device, inflight,   \* requests the device has; m_ssdInflight
    looping,    \* whether SpdkIoLoop is running
    completed,  \* the workspace's queue
    step, op,   \* where a thread is, and its operation
    latest,     \* key -> value last acknowledged, or None
    quiet,      \* keys nobody has been writing while the thread was reading
    begun

store == <<pool, reserve, total, mapping, spare, saved>>
reactor == <<submitted, device, inflight, looping>>
callers == <<latest, quiet, begun>>
vars == <<cfg, store, ssd, reqs, reactor, completed, step, op, callers>>

Junk == 0
JunkPage == [w \in 1..PageSize |-> Junk]
Least(i, j) == IF i < j THEN i ELSE j
Pages(n) == (n + PageSize - 1) \div PageSize
PageOf(v, n) == SubSeq(v, (n - 1) * PageSize + 1, Least(n * PageSize, Len(v)))
Fill(page) == [w \in 1..PageSize |-> IF w <= Len(page) THEN page[w] ELSE Junk]
EmptyRow == [size |-> -1, blocks |-> <<>>]
R == Cardinality(DOMAIN mapping)
Present(k) == k < R /\ mapping[k] # None /\ mapping[k].size >= 0
Concat(pages) == FlattenSeq(pages)

\* The words a row has of its page n, and all of them.
PageWords(row, n, page) == SubSeq(page, 1, Least(PageSize, row.size - (n - 1) * PageSize))
Content(row) == Concat([n \in 1..Pages(row.size) |-> PageWords(row, n, ssd[row.blocks[n]])])

NoRequest == [write |-> FALSE, block |-> None, buf |-> JunkPage, dest |-> None]
Outstanding(t) == \E r \in ToSet(submitted) \cup ToSet(device) : r.t = t

\* The files a store with rows m and free blocks p would save.
Files(m, p, values) == [mapping |-> m, pool |-> p, values |-> values]

\* The pages before those of posting n, if sizes has the postings' words.
PagesBefore(sizes, n) == FoldFunctionOnSet(+, 0, [m \in DOMAIN sizes |-> Pages(sizes[m])], 1..n - 1)

\* A store that has been loaded: posting k, of words -k, has the next blocks.
Init ==
    /\ cfg \in Settings
    /\ LET used == PagesBefore(cfg.stored, Len(cfg.stored) + 1)
           row(n) == [size |-> cfg.stored[n], blocks |-> [p \in 1..Pages(cfg.stored[n]) |-> PagesBefore(cfg.stored, n) + p - 1]]
           value(n) == [w \in 1..cfg.stored[n] |-> -n]
       IN /\ pool = [i \in 1..cfg.start - used |-> used + i - 1]
          /\ mapping = [k \in 0..Len(cfg.stored) - 1 |-> row(k + 1)]
          /\ ssd = [b \in 0..cfg.max - 1 |->
                LET of == {n \in DOMAIN cfg.stored : b \in ToSet(row(n).blocks)}
                IN IF of = {} THEN JunkPage
                   ELSE LET n == CHOOSE n \in of : TRUE IN Fill(PageOf(value(n), b - PagesBefore(cfg.stored, n) + 1))]
          /\ latest = [k \in Keys |-> IF k < Len(cfg.stored) THEN value(k + 1) ELSE None]
          /\ saved = Files(mapping, pool, latest)
    /\ reserve = <<>> /\ total = (IF cfg.mem THEN 0 ELSE cfg.start) /\ spare = cfg.bufferLimit
    /\ reqs = [t \in Threads |-> [i \in 1..cfg.requests |-> NoRequest]]
    /\ submitted = <<>> /\ device = <<>> /\ inflight = 0 /\ looping = TRUE
    /\ completed = [t \in Threads |-> <<>>]
    /\ step = [t \in Threads |-> "idle"] /\ op = [t \in Threads |-> None]
    /\ quiet = [t \in Threads |-> {}] /\ begun = 0

(***************************************************************************)
(* The device's thread.                                                    *)
(***************************************************************************)
\* The next request goes to the device.  One it has no memory for is
\* counted too, though its callback will not be called.
SpdkIoLoop ==
    /\ looping /\ submitted # <<>>
    /\ LET s == Head(submitted)
           r == reqs[s.t][s.i]
       IN \E taken \in IF cfg.nomem THEN BOOLEAN ELSE {TRUE} :
            device' = IF taken THEN Append(device, [t |-> s.t, i |-> s.i, write |-> r.write, block |-> r.block]) ELSE device
    /\ submitted' = Tail(submitted)
    /\ inflight' = inflight + 1
    /\ UNCHANGED <<cfg, store, ssd, reqs, looping, completed, step, op, callers>>

\* The queue is empty and the device is at work: the loop returns to the
\* reactor, which will call the callbacks.
LeaveLoop ==
    /\ looping /\ submitted = <<>> /\ inflight > 0
    /\ looping' = FALSE
    /\ UNCHANGED <<cfg, store, ssd, reqs, submitted, device, inflight, completed, step, op, callers>>

\* The device has carried a request out, with the buffer the workspace's
\* request has by now; the callback goes on with the loop.
SpdkBdevIoCallback ==
    /\ ~looping
    /\ \E n \in DOMAIN device :
        LET d == device[n]
        IN /\ ssd' = IF d.write THEN [ssd EXCEPT ![d.block] = reqs[d.t][d.i].buf] ELSE ssd
           /\ reqs' = IF d.write THEN reqs ELSE [reqs EXCEPT ![d.t][d.i].buf = ssd[d.block]]
           /\ completed' = [completed EXCEPT ![d.t] = Append(@, d.i)]
           /\ device' = RemoveAt(device, n)
    /\ inflight' = inflight - 1
    /\ looping' = TRUE
    /\ UNCHANGED <<cfg, store, submitted, step, op, callers>>

(***************************************************************************)
(* Batches of requests.                                                    *)
(***************************************************************************)
Go(t, s) == step' = [step EXCEPT ![t] = s]
Ret(t, ok) == Go(t, "returned") /\ op' = [op EXCEPT ![t].ok = ok]

\* Dereferencing a row the key does not have.
Fault(t) == Go(t, "fault") /\ UNCHANGED op

\* A transfer: the request it uses, the block, the page to write or None to
\* read, and where the page read is copied to.
ReadOf(row, n, at) == [at |-> at, block |-> row.blocks[n], page |-> None, dest |-> at]
Reads(row) == [n \in 1..Pages(row.size) |-> ReadOf(row, n, n)]
Writes(blocks, v) == [n \in DOMAIN blocks |-> [at |-> n, block |-> blocks[n], page |-> PageOf(v, n), dest |-> None]]

Prepared(t, x) ==
    [reqs[t][x.at] EXCEPT !.write = x.page # None, !.block = x.block, !.dest = <<op[t].number, x.dest>>,
                          !.buf = IF x.page = None THEN @ ELSE Fill(x.page)]

\* m_memBuffer has memoryBlocks >> PageSizeEx words: a block outside of it.
Outside(b) == (b + 1) * PageSize > cfg.start \div PageSize

\* The blocks are memory: the transfers are done at once.
InMemory(t, transfers, next) ==
    /\ cfg.mem
    /\ IF \E n \in DOMAIN transfers : Outside(transfers[n].block) THEN Fault(t) /\ UNCHANGED ssd
       ELSE /\ ssd' = [b \in DOMAIN ssd |->
                LET w == {n \in DOMAIN transfers : transfers[n].page # None /\ transfers[n].block = b}
                IN IF w = {} THEN ssd[b] ELSE Fill(transfers[CHOOSE n \in w : TRUE].page)]
            /\ op' = [op EXCEPT ![t].out = [n \in DOMAIN transfers |-> ssd[transfers[n].block]]]
            /\ Go(t, next)
    /\ UNCHANGED <<reqs, completed>>

\* Requests on the device.  Readers first drop the completions that requests
\* of an operation that timed out have left.
OnDevice(t, transfers, clear, next) ==
    /\ ~cfg.mem
    /\ op' = [op EXCEPT ![t].todo = transfers, ![t].sub = 0, ![t].fly = 0, ![t].then = next,
                        ![t].out = [n \in DOMAIN transfers |-> JunkPage]]
    /\ completed' = IF clear THEN [completed EXCEPT ![t] = <<>>] ELSE completed
    /\ Go(t, "io") /\ UNCHANGED <<ssd, reqs>>

ReadBlocks(t, row, next) == InMemory(t, Reads(row), next) \/ OnDevice(t, Reads(row), TRUE, next)
WriteBlocks(t, blocks, v, next) == InMemory(t, Writes(blocks, v), next) \/ OnDevice(t, Writes(blocks, v), FALSE, next)

\* Only the batches of MultiGet are cut: the next one is begun when nothing
\* of the last is in flight.
MayPush(t) ==
    /\ op[t].sub < Len(op[t].todo)
    /\ op[t].sub % cfg.batch = 0 /\ op[t].op \in {"MultiGet", "MultiGetStrings"} => op[t].fly = 0

\* As a slip would have it: the batch ends when everything is pushed.
BatchPushed(t) == op[t].sub = Len(op[t].todo)

BatchDone(t) == op[t].sub = Len(op[t].todo) /\ op[t].fly = 0

\* A round of the loop: a request is pushed, if there are more, and then a
\* completion is taken, if there is one.
Round(t) ==
    /\ step[t] = "io" /\ ~BatchDone(t)
    /\ MayPush(t) \/ completed[t] # <<>>
    /\ LET push == MayPush(t)
           x == op[t].todo[op[t].sub + 1]
           pop == completed[t] # <<>>
           done == Head(completed[t])
           at == reqs'[t][done].dest
           copied == pop /\ at # None /\ at[1] = op[t].number /\ at[2] # None
       IN /\ reqs' = IF push THEN [reqs EXCEPT ![t][x.at] = Prepared(t, x)] ELSE reqs
          /\ submitted' = IF push THEN Append(submitted, [t |-> t, i |-> x.at]) ELSE submitted
          /\ completed' = IF pop THEN [completed EXCEPT ![t] = Tail(@)] ELSE completed
          /\ op' = [op EXCEPT ![t].sub = IF push THEN @ + 1 ELSE @,
                              ![t].fly = (IF push THEN @ + 1 ELSE @) - (IF pop THEN 1 ELSE 0),
                              ![t].out = IF copied /\ op[t].op # "MultiGet" THEN [@ EXCEPT ![at[2]] = reqs[t][done].buf] ELSE @]
    /\ UNCHANGED <<cfg, store, ssd, device, inflight, looping, step, callers>>

\* MultiGet's time may be up before; what is in flight stays there, and the
\* caller is not told.
EndBatch(t) ==
    /\ step[t] = "io"
    /\ BatchDone(t) \/ (cfg.timeout /\ op[t].op \in {"MultiGet", "MultiGetStrings"})
    /\ Go(t, op[t].then)
    /\ op' = [op EXCEPT ![t].late = ~BatchDone(t)]
    /\ UNCHANGED <<cfg, store, ssd, reqs, reactor, completed, callers>>

(***************************************************************************)
(* Blocks.                                                                 *)
(***************************************************************************)
NeedsExpansion == total > 0 /\ Len(pool) * 100 < cfg.threshold * total

\* GetBlocks: first the file grows, if few blocks are left and all of the
\* growth is below the limit.
Expand(t) ==
    /\ step[t] = "expand"
    /\ IF NeedsExpansion /\ total + cfg.growth <= cfg.max
       THEN /\ pool' = pool \o [i \in 1..cfg.growth |-> total + i - 1]
            /\ total' = total + cfg.growth
       ELSE UNCHANGED <<pool, total>>
    /\ Go(t, "blocks")
    /\ UNCHANGED <<cfg, reserve, mapping, spare, saved, ssd, reqs, reactor, completed, op, callers>>

\* Then the blocks are popped, one by one; the thread spins while there is
\* none.
GetBlock(t) ==
    /\ step[t] = "blocks" /\ Len(op[t].got) < op[t].need /\ pool # <<>>
    /\ op' = [op EXCEPT ![t].got = Append(@, Head(pool))]
    /\ pool' = Tail(pool)
    /\ UNCHANGED <<cfg, reserve, total, mapping, spare, saved, ssd, reqs, reactor, completed, step, callers>>

HaveBlocks(t) ==
    /\ step[t] = "blocks" /\ Len(op[t].got) = op[t].need
    /\ WriteBlocks(t, op[t].got, op[t].v, "written")
    /\ UNCHANGED <<cfg, store, reactor, callers>>

\* As the line commented out has it: released blocks can be taken at once.
ReleaseAtOnce(blocks) == pool' = pool \o blocks /\ UNCHANGED reserve

ReleaseBlocks(blocks) == reserve' = reserve \o blocks /\ UNCHANGED pool

(***************************************************************************)
(* Operations begin and end.                                               *)
(***************************************************************************)
Updates == {"Put", "Merge", "Delete"}
Busy(t) == step[t] # "idle"
Holds(t, k) == Busy(t) /\ op[t].keys[1] = k /\ op[t].op \in Updates \cup {"Get"}

\* The callers ask for keys that have been put.
Start(t, name, ks, v) ==
    /\ ~Busy(t) /\ name \in cfg.ops /\ begun < cfg.maxOps
    /\ \A u \in Threads : Busy(u) => name # "ShutDown" /\ op[u].op # "ShutDown"
    /\ name = "Checkpoint" => \A u \in Threads : Busy(u) => op[u].op \in {"Get", "MultiGet", "MultiGetStrings"}
    /\ name \in Updates => \A u \in Threads : ~Holds(u, ks[1]) /\ (Busy(u) => op[u].op # "Checkpoint")
    /\ name = "Get" => \A u \in Threads : Holds(u, ks[1]) => op[u].op = "Get"
    /\ name = "Delete" => ks[1] < R /\ mapping[ks[1]] # None
    /\ name \in {"Get", "Merge", "MultiGet", "MultiGetStrings"} => \A i \in DOMAIN ks : Present(ks[i])
    /\ begun' = begun + 1
    /\ op' = [op EXCEPT ![t] = [op |-> name, number |-> begun, keys |-> ks, v |-> v, whole |-> v, fresh |-> FALSE,
                                rows |-> <<>>, need |-> 0, got |-> <<>>, todo |-> <<>>, sub |-> 0, fly |-> 0,
                                then |-> None, out |-> <<>>, values |-> <<>>, late |-> FALSE, ok |-> FALSE]]
    /\ Go(t, name)
    /\ quiet' = [u \in Threads |->
        IF u = t THEN {k \in Keys : \A w \in Threads : Holds(w, k) => op[w].op = "Get"}
        ELSE IF name \in Updates THEN quiet[u] \ {ks[1]} ELSE quiet[u]]
    /\ UNCHANGED <<cfg, store, ssd, reqs, reactor, completed, latest>>

Finish(t) ==
    /\ step[t] = "returned"
    /\ Go(t, "idle") /\ op' = [op EXCEPT ![t] = None] /\ quiet' = [quiet EXCEPT ![t] = {}]
    /\ reqs' = IF Outstanding(t) \/ completed[t] # <<>> THEN reqs ELSE [reqs EXCEPT ![t] = [i \in DOMAIN @ |-> NoRequest]]
    /\ UNCHANGED <<cfg, store, ssd, reactor, completed, latest, begun>>

Key(t) == op[t].keys[1]
Row(t) == mapping[Key(t)]

(***************************************************************************)
(* Get and MultiGet.                                                       *)
(***************************************************************************)
Get(t) ==
    /\ step[t] = "Get"
    /\ IF Present(Key(t)) THEN ReadBlocks(t, Row(t), "read")
       ELSE (IF Key(t) < R THEN Fault(t) ELSE Ret(t, FALSE)) /\ UNCHANGED <<ssd, reqs, completed>>
    /\ UNCHANGED <<cfg, store, reactor, callers>>

HaveRead(t) ==
    /\ step[t] = "read"
    /\ Go(t, "returned")
    /\ op' = [op EXCEPT ![t].ok = TRUE, ![t].values = <<Concat([n \in DOMAIN op[t].out |-> PageWords(Row(t), n, op[t].out[n])])>>]
    /\ UNCHANGED <<cfg, store, ssd, reqs, reactor, completed, callers>>

\* The requests of each posting of MultiGet: into strings one after the
\* other, into page buffers those that its buffer has.
Sizes(rows) == [n \in DOMAIN rows |-> rows[n].size]
Slot(t, rows, n) == IF op[t].op = "MultiGet" THEN (n - 1) * cfg.bufferPages ELSE PagesBefore(Sizes(rows), n)
TooMany(t, rows) ==
    IF op[t].op = "MultiGet"
    THEN Len(rows) * cfg.bufferPages > cfg.requests \/ \E n \in DOMAIN rows : Pages(rows[n].size) > cfg.bufferPages
    ELSE PagesBefore(Sizes(rows), Len(rows) + 1) >= cfg.requests

\* A key that the mapping does not have leaves no gap.
MultiGet(t) ==
    /\ step[t] \in {"MultiGet", "MultiGetStrings"}
    /\ LET ks == SelectSeq(op[t].keys, LAMBDA k : k < R)
           rows == [n \in DOMAIN ks |-> mapping[ks[n]]]
           of(n) == [p \in 1..Pages(rows[n].size) |-> [ReadOf(rows[n], p, Slot(t, rows, n) + p) EXCEPT !.dest = PagesBefore(Sizes(rows), n) + p]]
           transfers == Concat([n \in DOMAIN rows |-> of(n)])
       IN IF \E n \in DOMAIN ks : ~Present(ks[n]) THEN Fault(t) /\ UNCHANGED <<ssd, reqs, completed>>
          ELSE \/ /\ ~cfg.mem /\ TooMany(t, rows)
                  /\ Ret(t, FALSE) /\ UNCHANGED <<ssd, reqs, completed>>
               \/ /\ ~cfg.mem /\ ~TooMany(t, rows)
                  /\ op' = [op EXCEPT ![t].rows = rows, ![t].todo = transfers, ![t].then = "readAll",
                                      ![t].out = [n \in DOMAIN transfers |-> JunkPage]]
                  /\ reqs' = [reqs EXCEPT ![t] = [i \in DOMAIN @ |->
                                LET x == {n \in DOMAIN transfers : transfers[n].at = i}
                                IN IF x = {} THEN @[i] ELSE Prepared(t, transfers[CHOOSE n \in x : TRUE])]]
                  /\ completed' = [completed EXCEPT ![t] = <<>>]
                  /\ Go(t, "io") /\ UNCHANGED ssd
               \/ /\ cfg.mem
                  /\ op' = [op EXCEPT ![t].rows = rows, ![t].todo = transfers, ![t].out = [n \in DOMAIN transfers |-> ssd[transfers[n].block]]]
                  /\ Go(t, "readAll") /\ UNCHANGED <<ssd, reqs, completed>>
    /\ UNCHANGED <<cfg, store, reactor, callers>>

\* A page buffer is the buffer of its requests.
HaveReadAll(t) ==
    /\ step[t] = "readAll"
    /\ LET rows == op[t].rows
           page(n, p) == IF op[t].op = "MultiGet" /\ ~cfg.mem THEN reqs[t][Slot(t, rows, n) + p].buf ELSE op[t].out[PagesBefore(Sizes(rows), n) + p]
       IN op' = [op EXCEPT ![t].ok = TRUE,
                           ![t].values = [n \in DOMAIN rows |-> Concat([p \in 1..Pages(rows[n].size) |-> PageWords(rows[n], p, page(n, p))])]]
    /\ Go(t, "returned")
    /\ UNCHANGED <<cfg, store, ssd, reqs, reactor, completed, callers>>

(***************************************************************************)
(* Put, Merge and Delete.                                                  *)
(***************************************************************************)
\* The mapping is grown and the key gets a row, an old one if more than
\* bufferLimit are spare.
Put(t) ==
    /\ step[t] = "Put"
    /\ LET k == Key(t)
           grown == [j \in 0..(IF k < R THEN R ELSE k + 1) - 1 |-> IF j < R THEN mapping[j] ELSE None]
           fresh == grown[k] = None
       IN \/ /\ Pages(Len(op[t].v)) >= cfg.blockLimit
             /\ Ret(t, FALSE) /\ UNCHANGED <<mapping, spare>>
          \/ /\ Pages(Len(op[t].v)) < cfg.blockLimit
             /\ mapping' = IF fresh THEN [grown EXCEPT ![k] = EmptyRow] ELSE grown
             /\ spare' = IF fresh /\ spare > cfg.bufferLimit THEN spare - 1 ELSE spare
             /\ op' = [op EXCEPT ![t].need = Pages(Len(op[t].v)), ![t].fresh = mapping'[k].size < 0]
             /\ Go(t, IF mapping'[k].size < 0 THEN "expand" ELSE "row")
    /\ UNCHANGED <<cfg, pool, reserve, total, saved, ssd, reqs, reactor, completed, callers>>

\* The new blocks are listed in a spare row.
TakeRow(t) ==
    /\ step[t] = "row" /\ spare > 0
    /\ spare' = spare - 1
    /\ Go(t, "expand")
    /\ UNCHANGED <<cfg, pool, reserve, total, mapping, saved, ssd, reqs, reactor, completed, op, callers>>

\* A posting that ends within a page has its last page read, and written to
\* a new block with what is added.
Merge(t) ==
    /\ step[t] = "Merge"
    /\ LET k == Key(t)
           size == Row(t).size
           old == size \div PageSize
           need == Pages(size + Len(op[t].v)) - old
           tail == [size |-> size % PageSize, blocks |-> <<Row(t).blocks[old + 1]>>]
       IN IF ~Present(k) THEN (IF k < R THEN Fault(t) ELSE Ret(t, FALSE)) /\ UNCHANGED <<ssd, reqs, completed>>
          ELSE
          \/ /\ old + need >= cfg.blockLimit
             /\ Ret(t, FALSE) /\ UNCHANGED <<ssd, reqs, completed>>
          \/ /\ old + need < cfg.blockLimit /\ size % PageSize # 0
             /\ ReadBlocks(t, tail, "merge")
          \/ /\ old + need < cfg.blockLimit /\ size % PageSize = 0
             /\ op' = [op EXCEPT ![t].need = need]
             /\ Go(t, "expand") /\ UNCHANGED <<ssd, reqs, completed>>
    /\ UNCHANGED <<cfg, store, reactor, callers>>

MergeTail(t) ==
    /\ step[t] = "merge"
    /\ LET size == Row(t).size
       IN op' = [op EXCEPT ![t].v = SubSeq(op[t].out[1], 1, size % PageSize) \o @,
                           ![t].need = Pages(size + Len(op[t].v)) - size \div PageSize]
    /\ Go(t, "row")
    /\ UNCHANGED <<cfg, store, ssd, reqs, reactor, completed, callers>>

\* The new row takes the place of the old one, whose blocks are released
\* unless the new one has them too; or the row is completed where it is.
Written(t) ==
    /\ step[t] = "written"
    /\ LET k == Key(t)
           keep == IF op[t].op = "Put" THEN 0 ELSE Row(t).size \div PageSize
           size == IF op[t].op = "Put" THEN Len(op[t].whole) ELSE Row(t).size + Len(op[t].whole)
           drop == IF op[t].fresh THEN <<>> ELSE SubSeq(Row(t).blocks, keep + 1, Pages(Row(t).size))
           inPlace == op[t].fresh \/ (op[t].op = "Merge" /\ Row(t).size % PageSize = 0)
       IN /\ mapping' = [mapping EXCEPT ![k] = [size |-> size, blocks |-> SubSeq(Row(t).blocks, 1, keep) \o op[t].got]]
          /\ ReleaseBlocks(drop)
          /\ spare' = IF inPlace THEN spare ELSE spare + 1
          /\ latest' = [latest EXCEPT ![k] = IF op[t].op = "Put" THEN op[t].whole ELSE @ \o op[t].whole]
    /\ Go(t, "returned") /\ op' = [op EXCEPT ![t].ok = TRUE, ![t].got = <<>>]
    /\ UNCHANGED <<cfg, total, saved, ssd, reqs, reactor, completed, quiet, begun>>

Delete(t) ==
    /\ step[t] = "Delete"
    /\ \/ /\ ~Present(Key(t))
          /\ IF Key(t) < R /\ Row(t) = None THEN Fault(t) ELSE Ret(t, FALSE)
          /\ UNCHANGED <<pool, reserve, mapping, spare, latest>>
       \/ /\ Present(Key(t))
          /\ ReleaseBlocks(SubSeq(Row(t).blocks, 1, Pages(Row(t).size)))
          /\ spare' = spare + 1
          /\ mapping' = [mapping EXCEPT ![Key(t)] = None]
          /\ latest' = [latest EXCEPT ![Key(t)] = None]
          /\ Ret(t, TRUE)
    /\ UNCHANGED <<cfg, total, saved, ssd, reqs, reactor, completed, quiet, begun>>

(***************************************************************************)
(* Checkpoint, and ShutDown and the constructor of the next process.       *)
(***************************************************************************)
SavePool == pool' = pool \o reserve /\ reserve' = <<>>

Checkpoint(t) ==
    /\ step[t] = "Checkpoint"
    /\ SavePool
    /\ saved' = Files(mapping, pool', latest)
    /\ Ret(t, TRUE)
    /\ UNCHANGED <<cfg, total, mapping, spare, ssd, reqs, reactor, completed, callers>>

\* Load: every key of the file gets a row, one saved without it an empty one.
Load(m) == [k \in DOMAIN m |-> IF m[k] = None THEN EmptyRow ELSE m[k]]

\* The device is stopped when it has nothing to do: nobody is at work.
ShutDown(t) ==
    /\ step[t] = "ShutDown" /\ ~cfg.mem
    /\ SavePool
    /\ saved' = Files(mapping, pool', latest)
    /\ mapping' = Load(saved'.mapping)
    /\ spare' = cfg.bufferLimit
    /\ submitted' = <<>> /\ device' = <<>> /\ inflight' = 0 /\ looping' = TRUE
    /\ completed' = [u \in Threads |-> <<>>]
    /\ reqs' = [u \in Threads |-> [i \in DOMAIN reqs[u] |-> NoRequest]]
    /\ Ret(t, TRUE)
    /\ UNCHANGED <<cfg, total, ssd, callers>>

Words(n) == [w \in 1..n |-> begun + 1]

Operation(t) ==
    \/ \E k \in Keys, n \in cfg.lengths, name \in {"Put", "Merge"} : Start(t, name, <<k>>, Words(n))
    \/ \E k \in Keys, name \in {"Delete", "Get"} : Start(t, name, <<k>>, <<>>)
    \/ \E j, k \in Keys, name \in {"MultiGet", "MultiGetStrings"} : j # k /\ Start(t, name, <<j, k>>, <<>>)
    \/ \E name \in {"Checkpoint", "ShutDown"} : Start(t, name, <<0>>, <<>>)

Next ==
    \/ SpdkIoLoop \/ LeaveLoop \/ SpdkBdevIoCallback
    \/ \E t \in Threads :
        \/ Operation(t) \/ Finish(t)
        \/ Round(t) \/ EndBatch(t)
        \/ Expand(t) \/ GetBlock(t) \/ HaveBlocks(t)
        \/ Get(t) \/ HaveRead(t) \/ MultiGet(t) \/ HaveReadAll(t)
        \/ Put(t) \/ TakeRow(t) \/ Merge(t) \/ MergeTail(t) \/ Written(t) \/ Delete(t)
        \/ Checkpoint(t) \/ ShutDown(t)

Spec == Init /\ [][Next]_vars

(***************************************************************************)
(* Properties.                                                             *)
(***************************************************************************)
\* A read that succeeds returns the value last acknowledged for its key
\* unless somebody wrote the key meanwhile (SPDKIO::Get, MultiGet): no
\* completion is counted for the request of another, and no block is written
\* before the row that has it is gone.
ReadsLatest ==
    \A t \in Threads :
        (step[t] = "returned" /\ op[t].ok /\ ~op[t].late) =>
            \A i \in DOMAIN op[t].values : op[t].keys[i] \in quiet[t] => op[t].values[i] = latest[op[t].keys[i]]

\* Every block of the device is in one place: free, in reserve, in one row,
\* or taken by one writer (BlockController::GetBlocks, ReleaseBlocks).
BlockHasOnePlace ==
    LET rows == {k \in DOMAIN mapping : mapping[k] # None}
        takers == {t \in Threads : op[t] # None}
        places == {ToSet(pool), ToSet(reserve)} \cup {ToSet(mapping[k].blocks) : k \in rows} \cup {ToSet(op[t].got) : t \in takers}
    IN /\ UNION places = 0..(IF cfg.mem THEN cfg.start ELSE total) - 1
       /\ Len(pool) + Len(reserve) + FoldFunctionOnSet(+, 0, [k \in rows |-> Len(mapping[k].blocks)], rows)
            + FoldFunctionOnSet(+, 0, [t \in takers |-> Len(op[t].got)], takers) = Cardinality(UNION places)

\* What the last checkpoint has can be read until the next one, whatever has
\* been put, merged and deleted since: this is what the blocks in reserve are
\* for (BlockController::ReleaseBlocks, Checkpoint).
CheckpointIntact ==
    \A k \in DOMAIN saved.mapping :
        saved.values[k] # None =>
            /\ Content(saved.mapping[k]) = saved.values[k]
            /\ ToSet(saved.mapping[k].blocks) \cap ToSet(saved.pool) = {}

\* A writer waits for a block only when the device has none left
\* (BlockController::GetBlocks).
WaitsOnlyWhenFull ==
    \A t \in Threads :
        (step[t] = "blocks" /\ Len(op[t].got) < op[t].need /\ pool = <<>>) => reserve = <<>> /\ total = cfg.max

\* No operation goes through a row its key does not have, or beyond memory.
NoFault == \A t \in Threads : step[t] # "fault"

\* Whenever the loop is left a callback is still to come, which goes on with
\* it: no request stays on the queue for good (SpdkIoLoop).
LoopResumes == ~looping => device # <<>>

\* The device is in order under its readers: blocks have one place, a
\* checkpoint stays what it was, nobody waits for blocks that are there,
\* the loop goes on, and no row is missing (SPDKIO, BlockController).
StorageSound == BlockHasOnePlace /\ CheckpointIntact /\ WaitsOnlyWhenFull /\ LoopResumes /\ NoFault
=============================================================================
