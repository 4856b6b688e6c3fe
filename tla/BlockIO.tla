------------------------------ MODULE BlockIO ------------------------------
(***************************************************************************)
(* Reading and writing postings through the write-back cache of FileIO     *)
(* (LRUCache, ShardedLRUCache) and the asynchronous file (AsyncFileIO):    *)
(* a batch of requests is submitted to a context of the kernel, and the    *)
(* completions are counted, not matched with the requests.                 *)
(*                                                                         *)
(* Abstractions.  A value is a sequence of whole pages (module FileIO has  *)
(* the partly filled ones); every write has a tag of its own.  GetBlocks   *)
(* takes its blocks in one step and released blocks can be taken again at  *)
(* once (m_disableCheckpoint).  Keys are below R().  The callers' locks of *)
(* a posting, m_rwLocks, are modelled from their use: a writer holds its   *)
(* key's lock alone, Get shares it, MultiGet (a search) takes none.        *)
(***************************************************************************)
EXTENDS Integers, Sequences, FiniteSets, SequencesExt

CONSTANTS Threads, Keys, Blocks, Settings, None

Setting ==
    [shards : Nat \ {0}, capacity : Nat, limit : Nat, blockLimit : Nat,
     batch : Nat \ {0},         \* m_batchSize
     windows : BOOLEAN,         \* which of the two implementations of the file
     ctx : [Threads -> Nat],    \* the workspace's m_status
     ops : SUBSET {"Put", "Merge", "Delete", "Get", "MultiGet", "Save"},
     serial : BOOLEAN,          \* one operation at a time
     maxOps : Nat,              \* operations started, over all threads
     longest : Nat,             \* pages of a value put
     pool : Nat,                \* blocks of the file
     stored : Nat]              \* keys below it have a page on the disk at the start

ASSUME BlockIOSettings ==
    /\ Keys = 0..Cardinality(Keys) - 1 /\ Blocks = 1..Cardinality(Blocks)
    /\ \A s \in Settings : s.stored <= s.pool /\ s.pool <= Cardinality(Blocks) /\ s.stored <= Cardinality(Keys)

VARIABLES
    setting,
    free, lost,     \* m_blockAddresses; blocks a failed GetBlocks has popped
    rows,           \* m_pBlockMapping: key -> blocks of the posting, or None
    disk,
    recent,         \* keys of a shard, the last used first
    val,            \* cache of a shard: key -> value
    size,           \* size of a shard
    shardLock,      \* m_rwMutexs: the thread that holds it exclusively
    keyLock,        \* the threads in an operation that holds the key's lock
    pc, arg,        \* where a thread is, and its operation
    io,             \* the batch a thread has begun
    flight, ready,  \* requests the kernel has; completions, by context
    acked,          \* values a reader may see
    clean,          \* keys nobody has been writing while the thread was reading
    started

vars == <<setting, free, lost, rows, disk, recent, val, size, shardLock, keyLock, pc, arg, io, flight,
          ready, acked, clean, started>>
store == <<free, lost, rows>>
caches == <<recent, val, size>>
kernel == <<disk, io, flight, ready>>
callers == <<keyLock, acked, clean, started>>

Shards == 0..setting.shards - 1
Hash(k) == k % setting.shards
Cached(k) == k \in DOMAIN val[Hash(k)]
NoIO == [ctx |-> None, reqs |-> <<>>, base |-> 0, sub |-> 0, done |-> 0, buf |-> <<>>]
Page(tag) == [n \in 1..setting.longest |-> tag]
Without(f, k) == [j \in DOMAIN f \ {k} |-> f[j]]
With(f, k, v) == [j \in DOMAIN f \cup {k} |-> IF j = k THEN v ELSE f[j]]

Init ==
    /\ setting \in Settings
    /\ rows = [k \in Keys |-> IF k < setting.stored THEN <<k + 1>> ELSE None]
    /\ free = setting.stored + 1..setting.pool /\ lost = {}
    /\ disk = [b \in Blocks |-> -b]
    /\ acked = [k \in Keys |-> IF k < setting.stored THEN {<<-k - 1>>} ELSE {<<>>}]
    /\ recent = [s \in Shards |-> <<>>] /\ val = [s \in Shards |-> <<>>] /\ size = [s \in Shards |-> 0]
    /\ shardLock = [s \in Shards |-> None] /\ keyLock = [k \in Keys |-> {}]
    /\ pc = [t \in Threads |-> "idle"] /\ arg = [t \in Threads |-> None]
    /\ io = [t \in Threads |-> NoIO] /\ flight = {} /\ ready = {}
    /\ clean = [t \in Threads |-> {}] /\ started = 0

(***************************************************************************)
(* The asynchronous file.                                                  *)
(***************************************************************************)
\* A request: the block, and the page to write or None to read.
Read(bs) == [i \in DOMAIN bs |-> [block |-> bs[i], page |-> None]]
Write(bs, v) == [i \in DOMAIN bs |-> [block |-> bs[i], page |-> v[i]]]
Batch(t, ctx, reqs) == io' = [io EXCEPT ![t] = [NoIO EXCEPT !.ctx = ctx, !.reqs = reqs, !.buf = [i \in DOMAIN reqs |-> None]]]

\* Where completions arrive.  On Linux m_status selects one of the file's
\* contexts, and the cache's own requests keep the 0 they are constructed
\* with; on Windows every workspace and every cache has a queue.
WorkspaceContext(t) == IF setting.windows THEN <<"workspace", t>> ELSE <<"iocp", setting.ctx[t]>>
CacheContext(s) == IF setting.windows THEN <<"cache", s>> ELSE <<"iocp", 0>>

ChunkEnd(b) == IF b.base + setting.batch > Len(b.reqs) THEN Len(b.reqs) ELSE b.base + setting.batch

\* io_submit takes some of the chunk's requests.
Submit(t) ==
    /\ ~setting.windows /\ io[t].sub < ChunkEnd(io[t])
    /\ \E n \in {1, ChunkEnd(io[t]) - io[t].sub} :
        /\ flight' = flight \cup {<<t, i>> : i \in io[t].sub + 1..io[t].sub + n}
        /\ io' = [io EXCEPT ![t].sub = @ + n]
    /\ UNCHANGED <<setting, store, disk, caches, shardLock, pc, arg, ready, callers>>

\* The kernel carries out a request.
Complete(t, i) ==
    /\ <<t, i>> \in flight
    /\ LET r == io[t].reqs[i]
       IN /\ disk' = IF r.page = None THEN disk ELSE [disk EXCEPT ![r.block] = r.page]
          /\ io' = IF r.page = None THEN [io EXCEPT ![t].buf[i] = disk[r.block]] ELSE io
    /\ flight' = flight \ {<<t, i>>}
    /\ ready' = ready \cup {<<io[t].ctx, t, i>>}
    /\ UNCHANGED <<setting, store, caches, shardLock, pc, arg, callers>>

\* io_getevents: whatever the context has, as many as are waited for.  Its
\* time limit only makes the loop go round once more.
GetEvents(t) ==
    /\ ~setting.windows /\ io[t].sub > io[t].done
    /\ \E E \in SUBSET {e \in ready : e[1] = io[t].ctx} :
        /\ E # {} /\ Cardinality(E) <= io[t].sub - io[t].done
        /\ ready' = ready \ E
        /\ LET done == io[t].done + Cardinality(E)
           IN io' = [io EXCEPT ![t].done = done, ![t].base = IF done = ChunkEnd(io[t]) THEN done ELSE @]
    /\ UNCHANGED <<setting, store, disk, caches, shardLock, pc, arg, flight, callers>>

\* The Windows implementation: the chunk's requests are begun one by one
\* and popped one by one from the queue.
SubmitFiles(t) ==
    /\ setting.windows /\ io[t].sub = io[t].base /\ io[t].sub < Len(io[t].reqs)
    /\ flight' = flight \cup {<<t, i>> : i \in io[t].sub + 1..ChunkEnd(io[t])}
    /\ io' = [io EXCEPT ![t].sub = ChunkEnd(io[t])]
    /\ UNCHANGED <<setting, store, disk, caches, shardLock, pc, arg, ready, callers>>

PopCompleted(t) ==
    /\ setting.windows /\ io[t].sub > io[t].done
    /\ \E e \in ready : e[1] = io[t].ctx /\ ready' = ready \ {e}
    /\ io' = [io EXCEPT ![t].done = @ + 1, ![t].base = IF io[t].done + 1 = io[t].sub THEN io[t].sub ELSE @]
    /\ UNCHANGED <<setting, store, disk, caches, shardLock, pc, arg, flight, callers>>

\* As a slip would have it: the batch ends when everything is submitted.
BatchSubmitted(t) == io[t].sub = Len(io[t].reqs)

\* All of batchTotalDone: the batch function returns.
BatchDone(t) == io[t].done = Len(io[t].reqs)

(***************************************************************************)
(* Blocks and rows.                                                        *)
(***************************************************************************)
Take(n) == SetToSeq(CHOOSE S \in SUBSET free : Cardinality(S) = n)
Size(k) == IF rows[k] = None THEN 0 ELSE Len(rows[k])
Held(k) == IF rows[k] = None THEN {} ELSE ToSet(rows[k])
GetBlocksFails == lost' = lost \cup free /\ free' = {}

(***************************************************************************)
(* Operations begin and end.                                               *)
(***************************************************************************)
Writes == {"Put", "Merge", "Delete"}
Ret(t, ok) ==
    /\ pc' = [pc EXCEPT ![t] = "returned"]
    /\ arg' = [arg EXCEPT ![t].ok = ok]

Start(t, op, ks, v) ==
    /\ pc[t] = "idle" /\ started < setting.maxOps /\ op \in setting.ops
    /\ \A u \in Threads : pc[u] # "idle" => ~setting.serial /\ arg[u].op # "Save" /\ op # "Save"
    /\ op \in Writes => keyLock[Head(ks)] = {}
    /\ op = "Get" => \A u \in keyLock[Head(ks)] : arg[u].op = "Get"
    /\ started' = started + 1
    /\ arg' = [arg EXCEPT ![t] = [op |-> op, key |-> Head(ks), keys |-> ks, v |-> v, new |-> None,
                                  victim |-> None, then |-> None, blocks |-> <<>>, seen |-> <<>>, ok |-> FALSE]]
    /\ pc' = [pc EXCEPT ![t] = IF op \in {"Get", "MultiGet"} THEN "lookup" ELSE IF op = "Save" THEN "flush" ELSE "lock"]
    /\ keyLock' = IF op \in Writes \cup {"Get"} THEN [keyLock EXCEPT ![Head(ks)] = @ \cup {t}] ELSE keyLock
    /\ clean' = [u \in Threads |->
        IF u = t THEN {k \in Keys : \A w \in keyLock'[k] : w = t \/ arg[w].op = "Get"}
        ELSE IF op \in Writes THEN clean[u] \ {Head(ks)} ELSE clean[u]]
    /\ UNCHANGED <<setting, store, kernel, caches, shardLock, acked>>

\* The caller has the result; it gives the key's lock back.
Finish(t) ==
    /\ pc[t] = "returned"
    /\ pc' = [pc EXCEPT ![t] = "idle"]
    /\ arg' = [arg EXCEPT ![t] = None]
    /\ io' = [io EXCEPT ![t] = NoIO]
    /\ clean' = [clean EXCEPT ![t] = {}]
    /\ keyLock' = [k \in Keys |-> keyLock[k] \ {t}]
    /\ UNCHANGED <<setting, store, disk, flight, ready, caches, shardLock, acked, started>>

\* EndWrite(t, ok, new): the shard's lock is released; the caller learns
\* whether the posting is now new.
EndWrite(t, ok, new) ==
    /\ Ret(t, ok)
    /\ shardLock' = [shardLock EXCEPT ![Hash(arg[t].key)] = None]
    /\ acked' = [acked EXCEPT ![arg[t].key] = IF ok THEN {new} ELSE @ \cup {new}]
    /\ UNCHANGED <<keyLock, clean, started>>

(***************************************************************************)
(* Get and MultiGet.                                                       *)
(***************************************************************************)
\* One key is looked up in the cache, then in the mapping.
Lookup(t) ==
    /\ pc[t] = "lookup" /\ arg[t].keys # <<>>
    /\ LET k == Head(arg[t].keys)
           missing == rows[k] = None
           found(v) == arg' = [arg EXCEPT ![t].keys = Tail(@), ![t].seen = Append(@, <<k, v, 0>>)]
       IN /\ ~(missing /\ arg[t].op = "Get") => shardLock[Hash(k)] = None
          /\ \/ missing /\ arg[t].op = "Get" /\ Ret(t, FALSE)
             \/ Cached(k) /\ ~(missing /\ arg[t].op = "Get") /\ found(val[Hash(k)][k]) /\ UNCHANGED pc
             \/ ~Cached(k) /\ missing /\ arg[t].op = "MultiGet" /\ found(<<>>) /\ UNCHANGED pc
             \/ /\ ~Cached(k) /\ ~missing
                /\ arg' = [arg EXCEPT ![t].keys = Tail(@), ![t].blocks = @ \o rows[k], ![t].seen = Append(@, <<k, <<>>, Len(rows[k])>>)]
                /\ UNCHANGED pc
    /\ UNCHANGED <<setting, store, kernel, caches, shardLock, callers>>

ReadBlocks(t) ==
    /\ pc[t] = "lookup" /\ arg[t].keys = <<>>
    /\ Batch(t, WorkspaceContext(t), Read(arg[t].blocks))
    /\ pc' = [pc EXCEPT ![t] = "reading"]
    /\ UNCHANGED <<setting, store, disk, flight, ready, caches, shardLock, arg, callers>>

\* A key that was not in the cache has its length in seen: the next pages
\* of the batch are its value.
RECURSIVE Filled(_, _)
Filled(seen, buf) ==
    IF seen = <<>> THEN <<>>
    ELSE LET n == Head(seen)[3]
         IN <<<<Head(seen)[1], Head(seen)[2] \o SubSeq(buf, 1, n), 0>>>> \o Filled(Tail(seen), SubSeq(buf, n + 1, Len(buf)))

HaveRead(t) ==
    /\ pc[t] = "reading" /\ BatchDone(t)
    /\ pc' = [pc EXCEPT ![t] = "returned"]
    /\ arg' = [arg EXCEPT ![t].ok = TRUE, ![t].seen = Filled(@, io[t].buf)]
    /\ UNCHANGED <<setting, store, kernel, caches, shardLock, callers>>

(***************************************************************************)
(* Put, Merge and Delete.                                                  *)
(***************************************************************************)
Lock(t) ==
    /\ pc[t] = "lock" /\ shardLock[Hash(arg[t].key)] = None
    /\ LET k == arg[t].key
           tooLong == (IF arg[t].op = "Put" THEN 0 ELSE Size(k)) + Len(arg[t].v) >= setting.blockLimit
       IN \/ /\ arg[t].op = "Merge" /\ rows[k] = None
             /\ Ret(t, FALSE) /\ UNCHANGED <<io, shardLock, keyLock, acked, caches>>
          \/ /\ arg[t].op # "Delete" /\ tooLong /\ (arg[t].op = "Put" \/ rows[k] # None)
             /\ Ret(t, FALSE) /\ UNCHANGED <<io, shardLock, keyLock, acked, caches>>
          \/ /\ arg[t].op = "Delete"
             /\ shardLock' = [shardLock EXCEPT ![Hash(k)] = t]
             /\ pc' = [pc EXCEPT ![t] = "delete"]
             /\ UNCHANGED <<io, arg, keyLock, acked, caches>>
          \/ /\ arg[t].op # "Delete" /\ ~tooLong /\ (arg[t].op = "Put" \/ (Cached(k) /\ rows[k] # None))
             /\ shardLock' = [shardLock EXCEPT ![Hash(k)] = t]
             /\ arg' = [arg EXCEPT ![t].new = IF arg[t].op = "Put" THEN arg[t].v ELSE val[Hash(k)][k] \o arg[t].v]
             /\ pc' = [pc EXCEPT ![t] = "cache"]
             /\ UNCHANGED <<io, keyLock, acked, caches>>
          \/ \* merge of a key that is not in the cache reads the posting first
             /\ arg[t].op = "Merge" /\ ~tooLong /\ rows[k] # None /\ ~Cached(k)
             /\ shardLock' = [shardLock EXCEPT ![Hash(k)] = t]
             /\ Batch(t, CacheContext(Hash(k)), Read(rows[k]))
             /\ pc' = [pc EXCEPT ![t] = "loading"]
             /\ UNCHANGED <<arg, keyLock, acked, caches>>
    /\ UNCHANGED <<setting, store, disk, flight, ready, clean, started>>

Loaded(t) ==
    /\ pc[t] = "loading" /\ BatchDone(t)
    /\ arg' = [arg EXCEPT ![t].new = io[t].buf \o arg[t].v]
    /\ pc' = [pc EXCEPT ![t] = "cache"]
    /\ UNCHANGED <<setting, store, kernel, caches, shardLock, callers>>

Growth(t) == Len(arg[t].new) - IF Cached(arg[t].key) THEN Len(val[Hash(arg[t].key)][arg[t].key]) ELSE 0

Overfull(t) ==
    /\ setting.capacity - size[Hash(arg[t].key)] < Growth(t)
    /\ Len(recent[Hash(arg[t].key)]) > IF Cached(arg[t].key) THEN 1 ELSE 0

TooLarge(t) == Len(arg[t].new) > setting.limit /\ (arg[t].op = "Put" \/ Cached(arg[t].key))

\* The key moves to the front, so it is never the one evicted.
ToFront(s, k) == <<k>> \o SelectSeq(recent[s], LAMBDA j : j # k)

Evict(t, victim, then) ==
    /\ arg' = [arg EXCEPT ![t].victim = victim, ![t].then = then]
    /\ pc' = [pc EXCEPT ![t] = "evict"]

\* put and merge of LRUCache.
PutCache(t) ==
    /\ pc[t] = "cache"
    /\ LET k == arg[t].key
           s == Hash(k)
       IN \/ /\ TooLarge(t) /\ Cached(k)
             /\ Evict(t, k, "direct") /\ UNCHANGED caches
          \/ /\ TooLarge(t) /\ ~Cached(k)
             /\ pc' = [pc EXCEPT ![t] = "direct"] /\ UNCHANGED <<arg, caches>>
          \/ /\ ~TooLarge(t) /\ Overfull(t)
             /\ recent' = [recent EXCEPT ![s] = IF Cached(k) THEN ToFront(s, k) ELSE @]
             /\ Evict(t, recent'[s][Len(recent'[s])], "cache") /\ UNCHANGED <<val, size>>
          \/ /\ ~TooLarge(t) /\ ~Overfull(t)
             /\ recent' = [recent EXCEPT ![s] = ToFront(s, k)]
             /\ size' = [size EXCEPT ![s] = @ + Growth(t)]
             /\ val' = [val EXCEPT ![s] = With(@, k, arg[t].new)]
             /\ pc' = [pc EXCEPT ![t] = "row"] /\ UNCHANGED arg
    /\ UNCHANGED <<setting, store, kernel, shardLock, callers>>

\* The row of a cached key gets as many blocks as the value needs; what
\* they hold is written when the key is evicted.
PutRow(t) ==
    /\ pc[t] = "row"
    /\ LET k == arg[t].key
           blocks == Len(arg[t].new)
           more == blocks - Size(k)
           old == IF rows[k] = None THEN <<>> ELSE rows[k]
       IN \/ /\ more > Cardinality(free)
             /\ GetBlocksFails /\ UNCHANGED rows
             /\ EndWrite(t, FALSE, arg[t].new)
          \/ /\ more <= Cardinality(free)
             /\ LET got == Take(IF more > 0 THEN more ELSE 0)
                IN /\ rows' = [rows EXCEPT ![k] = SubSeq(old, 1, IF more > 0 THEN Len(old) ELSE blocks) \o got]
                   /\ free' = (free \ ToSet(got)) \cup {old[i] : i \in blocks + 1..Len(old)}
             /\ UNCHANGED lost
             /\ EndWrite(t, TRUE, arg[t].new)
    /\ UNCHANGED <<setting, kernel, caches>>

\* Blocks are taken and a batch is begun that writes v, for an eviction
\* through the cache's requests and else through the caller's.
WriteBlocks(t, ctx, v, next) ==
    /\ Len(v) <= Cardinality(free)
    /\ LET got == Take(Len(v))
       IN /\ free' = free \ ToSet(got)
          /\ arg' = [arg EXCEPT ![t].blocks = got]
          /\ Batch(t, ctx, Write(got, v))
    /\ pc' = [pc EXCEPT ![t] = next]
    /\ UNCHANGED <<setting, lost, rows, disk, flight, ready, caches, shardLock, callers>>

EvictWrite(t) == pc[t] = "evict" /\ WriteBlocks(t, CacheContext(Hash(arg[t].victim)), val[Hash(arg[t].victim)][arg[t].victim], "evicting")

\* evict fails; the key that is written leaves the cache too.
EvictFails(t) ==
    /\ pc[t] = "evict"
    /\ Len(val[Hash(arg[t].victim)][arg[t].victim]) > Cardinality(free)
    /\ GetBlocksFails /\ UNCHANGED rows
    /\ IF arg[t].op = "Save" THEN /\ shardLock' = [shardLock EXCEPT ![Hash(arg[t].victim)] = None]
                                  /\ Ret(t, FALSE)
       ELSE /\ UNCHANGED shardLock
            /\ IF arg[t].victim # arg[t].key /\ Cached(arg[t].key)
               THEN Evict(t, arg[t].key, "direct")
               ELSE pc' = [pc EXCEPT ![t] = "direct"] /\ UNCHANGED arg
    /\ UNCHANGED <<setting, kernel, caches, callers>>

NewRow(k, blocks) ==
    /\ rows' = [rows EXCEPT ![k] = blocks]
    /\ free' = free \cup Held(k)

Evicted(t) ==
    /\ pc[t] = "evicting" /\ BatchDone(t)
    /\ LET k == arg[t].victim
           s == Hash(k)
       IN /\ NewRow(k, arg[t].blocks)
          /\ IF arg[t].op = "Save" THEN UNCHANGED caches
             ELSE /\ size' = [size EXCEPT ![s] = @ - Len(val[s][k])]
                  /\ recent' = [recent EXCEPT ![s] = SelectSeq(@, LAMBDA j : j # k)]
                  /\ val' = [val EXCEPT ![s] = Without(@, k)]
    /\ arg' = [arg EXCEPT ![t].blocks = <<>>]
    /\ pc' = [pc EXCEPT ![t] = arg[t].then]
    /\ UNCHANGED <<setting, lost, kernel, shardLock, callers>>

\* Past the cache: Put writes a new row, Merge adds blocks to the old one.
Direct(t) == pc[t] = "direct" /\ WriteBlocks(t, WorkspaceContext(t), arg[t].v, "writing")

DirectFails(t) ==
    /\ pc[t] = "direct" /\ Len(arg[t].v) > Cardinality(free)
    /\ GetBlocksFails /\ UNCHANGED rows
    /\ EndWrite(t, FALSE, arg[t].new)
    /\ UNCHANGED <<setting, kernel, caches>>

Written(t) ==
    /\ pc[t] = "writing" /\ BatchDone(t)
    /\ IF arg[t].op = "Put" THEN NewRow(arg[t].key, arg[t].blocks)
       ELSE rows' = [rows EXCEPT ![arg[t].key] = @ \o arg[t].blocks] /\ UNCHANGED free
    /\ EndWrite(t, TRUE, arg[t].new)
    /\ UNCHANGED <<setting, lost, kernel, caches>>

Delete(t) ==
    /\ pc[t] = "delete"
    /\ LET k == arg[t].key
           s == Hash(k)
       IN /\ size' = [size EXCEPT ![s] = @ - IF Cached(k) THEN Len(val[s][k]) ELSE 0]
          /\ recent' = [recent EXCEPT ![s] = SelectSeq(@, LAMBDA j : j # k)]
          /\ val' = [val EXCEPT ![s] = Without(@, k)]
          /\ free' = free \cup Held(k)
          /\ rows' = [rows EXCEPT ![k] = None]
    /\ EndWrite(t, TRUE, <<>>)     \* Key_NotFound, where there is no row, tells the caller the same
    /\ UNCHANGED <<setting, lost, kernel>>

(***************************************************************************)
(* Save: every shard is flushed in turn, then the rows are written.        *)
(***************************************************************************)
\* As a slip would have it: only the first shard is flushed.
ShardsToFlush_First == {0}

ShardsToFlush == Shards

\* seen: the keys written and, as -1 - shard, the shards done.
Flush(t) ==
    /\ pc[t] = "flush"
    /\ LET open == {s \in ShardsToFlush : -1 - s \notin ToSet(arg[t].seen)}
           s == CHOOSE s \in open : \A r \in open : s <= r
           rest == DOMAIN val[s] \ ToSet(arg[t].seen)
       IN \/ open = {} /\ Ret(t, TRUE) /\ UNCHANGED <<shardLock, caches>>
          \/ /\ open # {} /\ rest # {}
             /\ shardLock[s] \in {None, t}
             /\ shardLock' = [shardLock EXCEPT ![s] = t]
             /\ \E k \in rest : arg' = [arg EXCEPT ![t].victim = k, ![t].then = "flush", ![t].seen = Append(@, k)]
             /\ pc' = [pc EXCEPT ![t] = "evict"] /\ UNCHANGED caches
          \/ /\ open # {} /\ rest = {}
             /\ shardLock' = [shardLock EXCEPT ![s] = None]
             /\ recent' = [recent EXCEPT ![s] = <<>>] /\ val' = [val EXCEPT ![s] = <<>>] /\ size' = [size EXCEPT ![s] = 0]
             /\ arg' = [arg EXCEPT ![t].seen = Append(@, -1 - s)] /\ UNCHANGED pc
    /\ UNCHANGED <<setting, store, kernel, callers>>

Operation(t) ==
    \/ \E k \in Keys, n \in 1..setting.longest : Start(t, "Put", <<k>>, SubSeq(Page(started + 1), 1, n))
    \/ \E k \in Keys : Start(t, "Merge", <<k>>, <<started + 1>>)
    \/ \E k \in Keys, op \in {"Delete", "Get"} : Start(t, op, <<k>>, <<>>)
    \/ \E j, k \in Keys : j # k /\ Start(t, "MultiGet", <<j, k>>, <<>>)
    \/ Start(t, "Save", <<0>>, <<>>)

Next ==
    \E t \in Threads :
        \/ Operation(t) \/ Finish(t)
        \/ Submit(t) \/ GetEvents(t) \/ SubmitFiles(t) \/ PopCompleted(t) \/ (\E i \in DOMAIN io[t].reqs : Complete(t, i))
        \/ Lookup(t) \/ ReadBlocks(t) \/ HaveRead(t)
        \/ Lock(t) \/ Loaded(t) \/ PutCache(t) \/ PutRow(t)
        \/ EvictWrite(t) \/ EvictFails(t) \/ Evicted(t)
        \/ Direct(t) \/ DirectFails(t) \/ Written(t) \/ Delete(t)
        \/ Flush(t)

Spec == Init /\ [][Next]_vars

(***************************************************************************)
(* Properties.                                                             *)
(***************************************************************************)
\* A read that succeeds returns the value last acknowledged for its key,
\* unless somebody wrote the key meanwhile, whichever of cache and disk has
\* it and whoever evicts it (FileIO::Get, MultiGet, LRUCache): what an
\* operation that failed would have written may be seen too.
ReadsLatest ==
    \A t \in Threads :
        (pc[t] = "returned" /\ arg[t].ok /\ arg[t].op \in {"Get", "MultiGet"}) =>
            \A i \in DOMAIN arg[t].seen : arg[t].seen[i][1] \in clean[t] => arg[t].seen[i][2] \in acked[arg[t].seen[i][1]]

\* The size LRUCache counts is that of its entries, the list and the map
\* have the same keys, and a shard is over its capacity only with a single
\* entry.
RECURSIVE TotalSize(_, _)
TotalSize(f, S) == IF S = {} THEN 0 ELSE LET k == CHOOSE k \in S : TRUE IN Len(f[k]) + TotalSize(f, S \ {k})

CacheWithinCapacity ==
    \A s \in Shards :
        /\ ToSet(recent[s]) = DOMAIN val[s] /\ Len(recent[s]) = Cardinality(DOMAIN val[s])
        /\ size[s] = TotalSize(val[s], DOMAIN val[s])
        /\ size[s] > setting.capacity => Len(recent[s]) = 1

\* Every block is in exactly one place: free, lost to a failed GetBlocks,
\* in one row, or being written (FileIO with the cache on).
BlockHasOnePlace ==
    LET writing(t) == IF pc[t] \in {"evicting", "writing"} THEN ToSet(arg[t].blocks) ELSE {}
        places == {free, lost} \cup {Held(k) : k \in Keys} \cup {writing(t) : t \in Threads}
    IN /\ UNION places = 1..setting.pool
       /\ Cardinality(free) + Cardinality(lost)
            + TotalSize([k \in Keys |-> IF rows[k] = None THEN <<>> ELSE rows[k]], Keys)
            + TotalSize([t \in Threads |-> IF writing(t) = {} THEN <<>> ELSE arg[t].blocks], Threads) = setting.pool

\* When Save succeeds the rows and the disk alone have every acknowledged
\* value: nothing is left in the cache (FileIO::Save, ShardedLRUCache::flush).
SavedIsComplete ==
    \A t \in Threads :
        (pc[t] = "returned" /\ arg[t].ok /\ arg[t].op = "Save") =>
            \A k \in Keys : (IF rows[k] = None THEN <<>> ELSE [i \in DOMAIN rows[k] |-> disk[rows[k][i]]]) \in acked[k]

\* What is under the readers is in order: the cache's lists and counts agree,
\* every block has one place, and a Save leaves nothing in the cache
\* (LRUCache, BlockController, FileIO::Save).
StorageSound == CacheWithinCapacity /\ BlockHasOnePlace /\ SavedIsComplete
=============================================================================
