----------------------------- MODULE Lifecycle -----------------------------
(***************************************************************************)
(* The life of a SPANN index on disk: build, update, save, checkpoint,     *)
(* crash, load, recovery from the write-ahead log and compaction           *)
(* (SPANNIndex.cpp, SPANN/Index.h, the persistence of                      *)
(* ExtraDynamicSearcher.h, VectorIndex.cpp and PersistentBuffer.h), with   *)
(* FILEIO as the store of postings.                                        *)
(*                                                                         *)
(* An index is five things that must agree: the head index, the map from   *)
(* heads to the vectors they stand for, the version map, the metadata, and *)
(* the postings (a block mapping and a pool of free blocks, over one file  *)
(* of blocks that is written in place).  Save writes them to the index     *)
(* directory and Checkpoint to the persistent buffer directory, file by    *)
(* file, while other threads add and delete.                               *)
(*                                                                         *)
(* Abstractions.  A vector's data is its name, so a posting is a set of    *)
(* <<id, vector>> pairs; only current copies are kept (versions are        *)
(* SPFresh's subject).  A posting takes one block, a vector goes to one    *)
(* head, and a split is one step.  The files of posting sizes and          *)
(* checksums are written with the version map's: nothing here reads them.  *)
(***************************************************************************)
EXTENDS Integers, Sequences, FiniteSets

CONSTANTS
    Clients,        \* threads that add and delete
    Names,          \* the vectors: 0..(Names - 1)
    MaxHeads,       \* bound: head ids are 0..(MaxHeads - 1)
    NumBlocks,      \* the blocks of the postings file
    Settings,       \* the settings under which the index may live
    None            \* a file that does not exist or is empty

Vectors == 0..(Names - 1)
Ids == 0..(Names - 1)
HeadIds == 0..(MaxHeads - 1)
Blocks == 0..(NumBlocks - 1)
Dirs == {"index", "buffer"}     \* m_indexDirectory and m_persistentBufferPath
NoId == -1                      \* MaxSize in m_vectorTranslateMap
NoBlock == -1

Setting ==
    [excludeHead : BOOLEAN,     \* m_excludehead: a head's vector is in no posting
     wal : BOOLEAN,             \* m_enableWAL
     spfresh : BOOLEAN,         \* clients call AddIndexSPFresh, not AddIndex
     limit : Nat \ {0},         \* m_postingSizeLimit
     allowZeroReplica : BOOLEAN,\* m_allowZeroReplica
     refineAbove : Nat,         \* deleted vectors above which a save compacts
     merge : Nat,               \* m_mergeThreshold
     base : Nat \ {0},          \* values of one byte of a log key
     built : SUBSET Vectors,    \* the vectors of the build
     headsOf : SUBSET Vectors,  \* those selected as heads
     adds : Nat, deletable : SUBSET Vectors, splits : Nat,
     saves : Nat, checkpoints : Nat, crashes : Nat]     \* bounds

ASSUME LifecycleBounds == Names \in Nat /\ MaxHeads \in Nat /\ NumBlocks \in Nat

ASSUME LifecycleSettings ==
    \A s \in Settings : /\ s \in Setting
                        /\ s.headsOf # {} /\ s.headsOf \subseteq s.built
                        /\ s.built = 0..(Cardinality(s.built) - 1)
                        /\ Cardinality(s.headsOf) <= MaxHeads
                        /\ Cardinality(s.headsOf) <= NumBlocks

HeadFiles == [heads : SUBSET HeadIds, vec : Seq(Vectors)]

\* A missing file is none that can be written.
ASSUME LifecycleNone ==
    /\ None \notin HeadFiles /\ None \notin Seq(Ids \cup {NoId}) /\ None \notin Seq({"live", "deleted"})
    /\ None \notin [HeadIds -> Blocks \cup {NoBlock}]
    /\ \A pool \in SUBSET Blocks : None # pool

VARIABLES
    setting,
    state,      \* "empty", "running", "replay" (recovering) or "down"
    mem,        \* the index in memory
    blocks,     \* the postings file
    disk,       \* the files of each directory
    log, size,  \* the records of the write-ahead log, and _size
    scan,       \* the records a recovery has still to replay
    jobs,       \* heads with a queued split
    op,         \* each client's operation
    saver,      \* the thread that saves or checkpoints
    todo,       \* heads whose posting RefineIndex has not rewritten
    used,       \* what is used of the bounds
    sure, gone, \* vectors acknowledged as present, as deleted
    trusted,    \* was the index built, or loaded from files that belong together?
    labelled,   \* is the metadata in memory that of the ids in memory?
    promise     \* per directory: what a load of its files must give back

vars == <<setting, state, mem, blocks, disk, log, size, scan, jobs, op, saver, todo, used, sure, gone, trusted, labelled, promise>>
durable == <<blocks, disk, log>>
history == <<sure, gone, trusted, labelled, promise>>

Idle == [kind |-> "idle", vec |-> 0, id |-> NoId, renumbered |-> FALSE]
NoSave == [kind |-> "none", dir |-> "index", plan |-> <<>>, quiet |-> TRUE, labelled |-> FALSE]
Void == [sound |-> FALSE, logged |-> FALSE, labelled |-> FALSE, sure |-> {}, gone |-> {}]
NoFiles == [config |-> FALSE, head |-> None, trans |-> None, ver |-> None, meta |-> None,
            map |-> None, pool |-> None]

\* The members of a set in order: as many are before the i-th as i - 1.
Ranked(S, Before(_, _)) ==
    [i \in 1..Cardinality(S) |-> CHOOSE x \in S : Cardinality({y \in S : Before(y, x)}) = i - 1]

Live(ver, v) == v \in 0..(Len(ver) - 1) /\ ver[v + 1] = "live"
Posting(m, h) == IF m.map[h] = NoBlock THEN {} ELSE blocks[m.map[h]]
Deleted(m) == {v \in 0..(Len(m.ver) - 1) : ~Live(m.ver, v)}
NumHeads(m) == Len(m.vec)

(***************************************************************************)
(* What a search can return: the live entries of the postings of the heads *)
(* of the head index, and the heads themselves under the ids the translate *)
(* map gives them.                                                         *)
(***************************************************************************)
Answers(m) ==
    LET inPostings == UNION {Posting(m, h) : h \in m.heads}
        asHeads == {<<m.trans[h + 1], m.vec[h + 1]>> : h \in {g \in m.heads : g < Len(m.trans)}}
    IN {e \in inPostings \cup asHeads : e[1] # NoId /\ Live(m.ver, e[1])}

Found == {e[2] : e \in Answers(mem)}

(***************************************************************************)
(* FileIO: a write goes to a free block, and the block of the posting it   *)
(* replaces is kept in m_blockAddresses_reserve until the next checkpoint. *)
(***************************************************************************)
\* The block a write takes (bound: the lowest free one, so that a released
\* block is used again as early as can be).
NextBlock(free) == CHOOSE b \in free : \A x \in free : b <= x

Released(m, h) == IF m.map[h] = NoBlock THEN {} ELSE {m.map[h]}
PutPosting_FreesAtOnce(m, h, b) ==
    [m EXCEPT !.map[h] = b, !.free = (@ \ {b}) \cup Released(m, h)]

PutPosting(m, h, b) ==
    [m EXCEPT !.map[h] = b, !.free = @ \ {b}, !.reserve = @ \cup Released(m, h)]

DeletePosting(m, h) ==
    [m EXCEPT !.map[h] = NoBlock, !.reserve = @ \cup Released(m, h)]

NoMap == [h \in HeadIds |-> NoBlock]

(***************************************************************************)
(* PersistentBuffer on RocksDB.  A key is the little-endian bytes of the   *)
(* record's number and keys are ordered byte by byte, here three digits.   *)
(***************************************************************************)
KeyBytes(i) == LET rest == i \div setting.base
               IN <<i % setting.base, rest % setting.base, rest \div setting.base>>

KeyBefore(i, j) ==
    \E n \in 1..3 : /\ KeyBytes(i)[n] < KeyBytes(j)[n]
                    /\ \A m \in 1..(n - 1) : KeyBytes(i)[m] = KeyBytes(j)[m]

PutAssignment(r) ==
    IF setting.wal THEN /\ log' = [i \in DOMAIN log \cup {size} |-> IF i = size THEN r ELSE log[i]]
                        /\ size' = size + 1
    ELSE UNCHANGED <<log, size>>

InKeyOrder(keys) == Ranked(keys, KeyBefore)

\* Records are read back in the order they were written while their numbers
\* take one byte.
LogInOrder == DOMAIN log \subseteq 0..(setting.base - 1)

ClearPreviousRecord ==
    /\ log' = [i \in {k \in DOMAIN log : ~KeyBefore(k, size)} |-> log[i]]
    /\ size' = 0

(***************************************************************************)
(* Building.  SelectHeadInternal picks the heads, every other vector is    *)
(* assigned to a head near it, postings are cut at the limit (here         *)
(* m_bufferSizeLimit is 0; a head's own entry, whose distance is never     *)
(* set, sorts last and is cut first), and vectors that the cut left in no  *)
(* posting are added again.                                                *)
(***************************************************************************)
HeadSeq == Ranked(setting.headsOf, <)

Assigned(assign, h) ==
    {v \in DOMAIN assign : assign[v] = h} \cup (IF setting.excludeHead THEN {} ELSE {HeadSeq[h + 1]})

Cut(assign, kept) ==
    \A h \in DOMAIN kept :
        IF Cardinality(Assigned(assign, h)) <= setting.limit THEN kept[h] = Assigned(assign, h)
        ELSE kept[h] \subseteq Assigned(assign, h) \ setting.headsOf /\ Cardinality(kept[h]) = setting.limit

WriteDownAllPostingToDB(postings) == [b \in Blocks |-> IF b \in DOMAIN postings THEN postings[b] ELSE {}]

BuildIndex ==
    LET n == Cardinality(setting.headsOf) IN
    /\ state = "empty"
    /\ \E assign \in [setting.built \ setting.headsOf -> 0..(n - 1)] :
       \E kept \in [0..(n - 1) -> SUBSET setting.built] :
        /\ Cut(assign, kept)
        /\ LET dropped == UNION {Assigned(assign, h) \ kept[h] : h \in 0..(n - 1)} IN
           \E again \in [IF setting.allowZeroReplica THEN {} ELSE dropped -> 0..(n - 1)] :
            LET postings == [h \in 0..(n - 1) |->
                                {<<v, v>> : v \in kept[h] \cup {w \in DOMAIN again : again[w] = h}}] IN
            /\ mem' = [heads |-> 0..(n - 1), vec |-> HeadSeq, trans |-> HeadSeq,
                       ver |-> [i \in 1..Cardinality(setting.built) |-> "live"],
                       meta |-> [i \in 1..Cardinality(setting.built) |-> i - 1],
                       map |-> [h \in HeadIds |-> IF h < n THEN h ELSE NoBlock],
                       free |-> {b \in Blocks : b >= n}, reserve |-> {}]
            /\ blocks' = WriteDownAllPostingToDB(postings)
            /\ jobs' = {h \in 0..(n - 1) : Cardinality(postings[h]) > setting.limit}
            /\ sure' = IF setting.allowZeroReplica THEN setting.built \ dropped ELSE setting.built
    /\ state' = "building"
    /\ UNCHANGED <<setting, disk, log, size, scan, op, saver, todo, used, gone, trusted, labelled, promise>>

\* The heads of a saved head index: SaveIndex drops the deleted ones and
\* renumbers the others when more than two fifths are deleted.
Compact(n, keep) ==
    LET k == Cardinality(keep)
        tail == {x \in keep : x >= k}
        Hole(i) == Cardinality({j \in 0..(i - 1) : j \notin keep})
    IN [i \in 1..k |-> IF i - 1 \in keep THEN i - 1
                       ELSE CHOOSE x \in tail : Cardinality({y \in tail : y > x}) = Hole(i - 1)]

HeadFile(m) ==
    IF Cardinality((0..(NumHeads(m) - 1)) \ m.heads) > (2 * NumHeads(m)) \div 5
    THEN LET c == Compact(NumHeads(m), m.heads)
         IN [heads |-> 0..(Len(c) - 1), vec |-> [i \in 1..Len(c) |-> m.vec[c[i] + 1]]]
    ELSE [heads |-> m.heads, vec |-> m.vec]

\* The files of a build.  Unless heads are excluded from the postings the
\* translate map then forgets which vectors they are.
BuildEnd ==
    LET trans == IF setting.excludeHead THEN mem.trans ELSE [i \in DOMAIN mem.trans |-> NoId] IN
    /\ state = "building" /\ jobs = {}
    /\ mem' = [mem EXCEPT !.trans = trans]
    /\ disk' = [disk EXCEPT !["index"] = [@ EXCEPT !.head = HeadFile(mem), !.trans = trans, !.ver = mem.ver]]
    /\ state' = "running"
    /\ UNCHANGED <<setting, blocks, log, size, scan, jobs, op, saver, todo, used, history>>

(***************************************************************************)
(* Updates.  m_checkPointLock is held shared by AddIndexSPFresh and alone  *)
(* by Checkpoint; m_dataAddLock and m_dataDeleteLock are held by           *)
(* RefineIndex from its first step to its last.                            *)
(***************************************************************************)
Refining == saver.kind = "refine"
Overlap == IF saver.kind = "none" THEN saver ELSE [saver EXCEPT !.quiet = FALSE]
NextName == Cardinality(setting.built) + used.adds

AddBatch(c) ==
    /\ state = "running" /\ op[c] = Idle
    /\ used.adds < setting.adds /\ NextName < Names
    /\ ~Refining
    /\ setting.spfresh => saver.kind # "checkpoint"
    /\ mem' = [mem EXCEPT !.ver = Append(@, "live"),
                          !.meta = IF setting.spfresh THEN @ ELSE Append(@, NextName)]
    /\ op' = [op EXCEPT ![c] = [kind |-> "log", vec |-> NextName, id |-> Len(mem.ver), renumbered |-> FALSE]]
    /\ used' = [used EXCEPT !.adds = @ + 1]
    /\ saver' = Overlap
    /\ UNCHANGED <<setting, state, durable, size, scan, jobs, todo, history>>

AddLog(c) ==
    /\ op[c].kind = "log"
    /\ PutAssignment([kind |-> "add", id |-> op[c].id, vec |-> op[c].vec])
    /\ op' = [op EXCEPT ![c].kind = "append"]
    /\ saver' = Overlap
    /\ UNCHANGED <<setting, state, mem, blocks, disk, scan, jobs, todo, used, history>>

\* Append: the posting grows by one entry, and a long one is queued for Split.
AppendTo(h, e) ==
    LET b == NextBlock(mem.free) IN
        /\ mem.free # {}
        /\ mem' = PutPosting(mem, h, b)
        /\ blocks' = [blocks EXCEPT ![b] = Posting(mem, h) \cup {e}]
        /\ jobs' = IF Cardinality(Posting(mem, h) \cup {e}) > setting.limit THEN jobs \cup {h} ELSE jobs

AddAppend(c) ==
    /\ op[c].kind = "append"
    /\ \E h \in mem.heads : AppendTo(h, <<op[c].id, op[c].vec>>)
    /\ op' = [op EXCEPT ![c] = Idle]
    /\ sure' = IF op[c].renumbered \/ ~trusted THEN sure ELSE sure \cup {op[c].vec}
    /\ saver' = Overlap
    /\ UNCHANGED <<setting, state, disk, log, size, scan, todo, used, gone, trusted, labelled, promise>>

DeleteLog_NotLogged(c) ==
    /\ state = "running" /\ op[c] = Idle
    /\ ~Refining
    /\ \E e \in Answers(mem) :
        /\ e[2] \in sure \cap setting.deletable
        /\ op' = [op EXCEPT ![c] = [kind |-> "delete", vec |-> e[2], id |-> e[1], renumbered |-> FALSE]]
        /\ sure' = sure \ {e[2]}
    /\ saver' = Overlap
    /\ UNCHANGED <<setting, state, mem, durable, size, scan, jobs, todo, used, gone, trusted, labelled, promise>>

DeleteLog(c) ==
    /\ state = "running" /\ op[c] = Idle
    /\ ~Refining
    /\ \E e \in Answers(mem) :
        /\ e[2] \in sure \cap setting.deletable
        /\ PutAssignment([kind |-> "delete", id |-> e[1], vec |-> e[2]])
        /\ op' = [op EXCEPT ![c] = [kind |-> "delete", vec |-> e[2], id |-> e[1], renumbered |-> FALSE]]
        /\ sure' = sure \ {e[2]}
    /\ saver' = Overlap
    /\ UNCHANGED <<setting, state, mem, blocks, disk, scan, jobs, todo, used, gone, trusted, labelled, promise>>

DeleteMark(c) ==
    /\ op[c].kind = "delete"
    /\ mem' = [mem EXCEPT !.ver[op[c].id + 1] = "deleted"]
    /\ op' = [op EXCEPT ![c] = Idle]
    /\ gone' = gone \cup {op[c].vec}
    /\ saver' = Overlap
    /\ UNCHANGED <<setting, state, durable, size, scan, jobs, todo, used, sure, trusted, labelled, promise>>

(***************************************************************************)
(* Split, one job: a posting that is short after garbage collection is     *)
(* written back; a long one is divided between its head and a new one or   *)
(* between two new heads.  A new head stands for a vector of its cluster   *)
(* when heads are excluded from postings, and the old head's own vector    *)
(* then goes back to a posting.                                            *)
(***************************************************************************)
NewHead(m, e, b) ==
    LET h == NumHeads(m) IN
    [PutPosting(m, h, b) EXCEPT !.heads = @ \cup {h}, !.vec = Append(@, e[2]),
                                !.trans = Append(@, IF setting.excludeHead THEN e[1] ELSE NoId)]

Stored(cluster, e) == IF setting.excludeHead THEN cluster \ {e} ELSE cluster

SplitJob(h) ==
    LET current == {e \in Posting(mem, h) : Live(mem.ver, e[1])}
        own == IF setting.excludeHead /\ h < Len(mem.trans) /\ Live(mem.ver, mem.trans[h + 1])
               THEN {<<mem.trans[h + 1], mem.vec[h + 1]>>} ELSE {}
        b1 == NextBlock(mem.free)
        b2 == NextBlock(mem.free \ {b1})
    IN
    /\ h \in jobs /\ Cardinality(mem.free) > 1
    /\ jobs' = jobs \ {h}
    /\ saver' = saver
    /\ \/ /\ Cardinality(current) <= setting.limit
          /\ mem' = PutPosting(mem, h, b1)
          /\ blocks' = [blocks EXCEPT ![b1] = current]
          /\ used' = used
       \/ /\ Cardinality(current) > setting.limit
          /\ used.splits < setting.splits /\ NumHeads(mem) + 1 < MaxHeads
          /\ used' = [used EXCEPT !.splits = @ + 1]
          /\ \E first \in (SUBSET current) \ {{}, current} :
             \E e1 \in first, e2 \in current \ first :
                \/ /\ mem' = NewHead(PutPosting(mem, h, b1), e2, b2)   \* theSameHead
                   /\ blocks' = [blocks EXCEPT ![b1] = first, ![b2] = Stored(current \ first, e2)]
                \/ /\ mem' = LET m == NewHead(NewHead(DeletePosting(mem, h), e1, b1), e2, b2)
                             IN [m EXCEPT !.heads = @ \ {h}]
                   /\ blocks' = [blocks EXCEPT ![b1] = Stored(first, e1) \cup own,
                                               ![b2] = Stored(current \ first, e2)]
    /\ UNCHANGED <<setting, state, disk, log, size, scan, op, todo, history>>

(***************************************************************************)
(* Saving.  A save, a checkpoint and a compaction are sequences of these   *)
(* steps; what each writes is on disk when the step ends.                  *)
(***************************************************************************)
SavePlan == <<"open", "meta", "head", "trans", "ver", "map", "pool", "clear">>
RefinePlan == <<"refine", "rewrite", "map", "pool", "reload">>
MergedPlan == <<"ver", "map", "pool", "clear", "saveHead", "trans">>
CheckpointPlan == <<"ver", "map", "pool", "clear", "saveHead">>

Start(kind, dir, plan) ==
    saver' = [kind |-> kind, dir |-> dir, plan |-> plan,
              quiet |-> \A c \in Clients : op[c] = Idle, labelled |-> labelled]

\* VectorIndex::SaveIndex: the configuration is written and the index files
\* are opened, which empties them.
SaveIndex ==
    /\ state = "running" /\ saver.kind = "none"
    /\ used.saves < setting.saves
    /\ Deleted(mem) # 0..(Len(mem.ver) - 1)
    /\ Start("save", "index", SavePlan)
    /\ used' = [used EXCEPT !.saves = @ + 1]
    /\ UNCHANGED <<setting, state, mem, durable, size, scan, jobs, op, todo, history>>

\* Index::Checkpoint: m_checkPointLock is taken alone once no job is queued.
Checkpoint ==
    /\ state = "running" /\ saver.kind = "none"
    /\ used.checkpoints < setting.checkpoints
    /\ jobs = {}
    /\ setting.spfresh => \A c \in Clients : op[c].kind \notin {"log", "append"}
    /\ Start("checkpoint", "buffer", CheckpointPlan)
    /\ used' = [used EXCEPT !.checkpoints = @ + 1]
    /\ UNCHANGED <<setting, state, mem, durable, size, scan, jobs, op, todo, history>>

Other(dir) == IF dir = "index" THEN "buffer" ELSE "index"
AtStep(s) == saver.kind # "none" /\ saver.plan # <<>> /\ Head(saver.plan) = s
Advance == saver' = [saver EXCEPT !.plan = Tail(@)]
Write(file, contents) == disk' = [disk EXCEPT ![saver.dir] = [@ EXCEPT ![file] = contents]]
Break(dir) == promise' = [promise EXCEPT ![dir] = Void]

OpenFiles ==
    /\ AtStep("open")
    /\ disk' = [disk EXCEPT !["index"] = [@ EXCEPT !.config = TRUE, !.head = None, !.trans = None, !.meta = None]]
    /\ Break("index")
    /\ saver' = IF Cardinality(Deleted(mem)) > setting.refineAbove        \* NeedRefine
                THEN [saver EXCEPT !.plan = RefinePlan] ELSE [saver EXCEPT !.plan = Tail(@)]
    /\ UNCHANGED <<setting, state, mem, blocks, log, size, scan, jobs, op, todo, used, sure, gone, trusted, labelled>>

SaveMetadata ==
    /\ AtStep("meta") /\ Write("meta", mem.meta) /\ Advance
    /\ UNCHANGED <<setting, state, mem, blocks, log, size, scan, jobs, op, todo, used, history>>

SaveHeadIndex ==
    /\ AtStep("head") /\ jobs = {}
    /\ Write("head", [heads |-> mem.heads, vec |-> mem.vec])
    /\ Advance
    /\ UNCHANGED <<setting, state, mem, blocks, log, size, scan, jobs, op, todo, used, history>>

\* The head index saved on its own, after a checkpoint or merges.
SaveHeadFolder ==
    /\ AtStep("saveHead") /\ Write("head", HeadFile(mem)) /\ Advance
    /\ UNCHANGED <<setting, state, mem, blocks, log, size, scan, jobs, op, todo, used, history>>

SaveTranslateMap ==
    /\ AtStep("trans") /\ Write("trans", mem.trans) /\ Advance
    /\ UNCHANGED <<setting, state, mem, blocks, log, size, scan, jobs, op, todo, used, history>>

\* ExtraDynamicSearcher::Checkpoint waits for the jobs and saves the version
\* map, then FileIO its block mapping, then BlockController its pool, which
\* the reserved blocks have joined.
SaveVersionMap ==
    /\ AtStep("ver") /\ jobs = {}
    /\ Write("ver", mem.ver) /\ Break(saver.dir) /\ Advance
    /\ UNCHANGED <<setting, state, mem, blocks, log, size, scan, jobs, op, todo, used, sure, gone, trusted, labelled>>

SaveMapping ==
    /\ AtStep("map") /\ Write("map", mem.map) /\ Advance
    /\ UNCHANGED <<setting, state, mem, blocks, log, size, scan, jobs, op, todo, used, history>>

SavePool ==
    /\ AtStep("pool")
    /\ mem' = [mem EXCEPT !.free = @ \cup mem.reserve, !.reserve = {}]
    /\ Write("pool", mem.free \cup mem.reserve)
    /\ Break(Other(saver.dir)) /\ Advance
    /\ UNCHANGED <<setting, state, blocks, log, size, scan, jobs, op, todo, used, sure, gone, trusted, labelled>>

ClearLog ==
    /\ AtStep("clear")
    /\ IF setting.wal THEN ClearPreviousRecord ELSE UNCHANGED <<log, size>>
    /\ Advance
    /\ UNCHANGED <<setting, state, mem, blocks, disk, scan, jobs, op, todo, used, history>>

\* The save is complete: what a later load must give back, if no update ran
\* beside it, the blocks were kept apart and the head index was not renumbered.
\* Recovery reads the translate map of the index directory, which only says
\* what the heads are when it need not, and replays what is left of an older log.
SaveEnd ==
    /\ saver.kind # "none" /\ saver.plan = <<>>
    /\ promise' = [promise EXCEPT ![saver.dir] =
            [sound |-> trusted /\ saver.quiet /\ disk[saver.dir].head.heads = mem.heads
                       /\ (saver.dir = "buffer" => ~setting.excludeHead /\ DOMAIN log = {}),
             logged |-> saver.dir = "buffer" /\ setting.wal,
             labelled |-> saver.labelled, sure |-> sure, gone |-> gone]]
    /\ saver' = NoSave
    /\ UNCHANGED <<setting, state, mem, durable, size, scan, jobs, op, todo, used, sure, gone, trusted, labelled>>

(***************************************************************************)
(* Index::RefineIndex: the live vectors and the live heads are numbered    *)
(* anew, holes being filled from the tail, and the postings are rewritten  *)
(* in place by several threads; then everything is loaded from the files.  *)
(* An addition that has its id but not its posting is not waited for, and  *)
(* goes on with the old id.                                                *)
(***************************************************************************)
NewId(newToOld, i) == IF \E k \in DOMAIN newToOld : newToOld[k] = i
                      THEN (CHOOSE k \in DOMAIN newToOld : newToOld[k] = i) - 1 ELSE 0
VectorOrder == Compact(Len(mem.ver), {v \in 0..(Len(mem.ver) - 1) : Live(mem.ver, v)})

\* MetadataSet::RefineMetadata
RefineMetadata_NotRenumbered == [i \in DOMAIN VectorOrder |-> IF i <= Len(mem.meta) THEN mem.meta[i] ELSE NoId]

RefineMetadata ==
    [i \in DOMAIN VectorOrder |-> IF VectorOrder[i] < Len(mem.meta) THEN mem.meta[VectorOrder[i] + 1] ELSE NoId]

HeadOrder == Compact(NumHeads(mem), mem.heads)

\* An id beyond the version map is left out of the new translate map, which is
\* filled with ones.
RefineHeadId(id) == IF id = NoId \/ id >= Len(mem.ver) THEN NoId ELSE NewId(VectorOrder, id)

RefineFiles ==
    /\ AtStep("refine") /\ jobs = {}
    /\ \A c \in Clients : op[c].kind # "delete"
    /\ disk' = [disk EXCEPT !["index"] =
        [@ EXCEPT !.head = [heads |-> 0..(Len(HeadOrder) - 1),
                            vec |-> [i \in DOMAIN HeadOrder |-> mem.vec[HeadOrder[i] + 1]]],
                  !.trans = [i \in DOMAIN HeadOrder |-> IF HeadOrder[i] < Len(mem.trans)
                                                        THEN RefineHeadId(mem.trans[HeadOrder[i] + 1]) ELSE NoId],
                  !.ver = [i \in DOMAIN VectorOrder |-> "live"],
                  !.meta = RefineMetadata]]
    /\ todo' = mem.heads
    /\ saver' = [saver EXCEPT !.kind = "refine", !.plan = Tail(@),
                              !.quiet = \A c \in Clients : op[c] = Idle]
    /\ op' = [c \in Clients |-> IF op[c] = Idle THEN Idle ELSE [op[c] EXCEPT !.renumbered = TRUE]]
    /\ UNCHANGED <<setting, state, mem, blocks, log, size, scan, jobs, used, history>>

RefinePosting(h) ==
    /\ AtStep("rewrite") /\ h \in todo
    /\ LET b == NextBlock(mem.free) IN
        /\ mem.free # {}
        /\ mem' = PutPosting(mem, NewId(HeadOrder, h), b)
        /\ blocks' = [blocks EXCEPT ![b] = {<<NewId(VectorOrder, e[1]), e[2]>> :
                                                e \in {x \in Posting(mem, h) : Live(mem.ver, x[1])}}]
    /\ todo' = todo \ {h}
    /\ saver' = IF todo = {h} THEN [saver EXCEPT !.plan = Tail(@)] ELSE saver
    /\ UNCHANGED <<setting, state, disk, log, size, scan, jobs, op, used, history>>

\* The metadata in memory keeps the old numbers, and a head whose vector is
\* deleted now stands for vector 0.
Reload ==
    LET files == disk["index"]
        m == [mem EXCEPT !.heads = files.head.heads, !.vec = files.head.vec, !.trans = files.trans, !.ver = files.ver]
        short == {h \in m.heads : Cardinality(Posting(m, h)) <= setting.merge}
        misnamed == {mem.vec[h + 1] : h \in {g \in mem.heads : /\ g < Len(mem.trans) /\ mem.trans[g + 1] # NoId
                                                               /\ ~Live(mem.ver, mem.trans[g + 1])}}
    IN
    /\ AtStep("reload")
    /\ mem' = m
    /\ saver' = [saver EXCEPT !.plan = IF short # {} THEN MergedPlan ELSE <<>>,
                              !.labelled = @ /\ misnamed = {}]
    /\ sure' = IF saver.quiet THEN sure ELSE {}
    /\ gone' = IF saver.quiet THEN gone \ misnamed ELSE {}
    /\ labelled' = FALSE
    /\ UNCHANGED <<setting, state, durable, size, scan, jobs, op, todo, used, trusted, promise>>

(***************************************************************************)
(* A crash, and the two ways to start again: LoadIndex, and LoadIndex with *)
(* m_recovery, which takes everything but the configuration and the        *)
(* translate map from the persistent buffer and then replays the log.      *)
(***************************************************************************)
Crash ==
    /\ state \in {"running", "replay"} /\ used.crashes < setting.crashes
    /\ used' = [used EXCEPT !.crashes = @ + 1]
    /\ state' = "down"
    /\ op' = [c \in Clients |-> Idle] /\ jobs' = {} /\ saver' = NoSave /\ todo' = {} /\ size' = 0 /\ scan' = <<>>
    /\ promise' = IF state = "replay" THEN [promise EXCEPT !["buffer"].logged = FALSE] ELSE promise
    /\ UNCHANGED <<setting, mem, durable, sure, gone, trusted, labelled>>

OrElse(file, default) == IF file = None THEN default ELSE file

\* The pool starts with every block when its file is missing and m_recovery is off.
LoadedFrom(dir) ==
    [heads |-> disk[dir].head.heads, vec |-> disk[dir].head.vec,
     trans |-> disk["index"].trans, ver |-> OrElse(disk[dir].ver, <<>>),
     meta |-> OrElse(disk["index"].meta, <<>>), map |-> OrElse(disk[dir].map, NoMap),
     free |-> OrElse(disk[dir].pool, Blocks), reserve |-> {}]

LoadIndex ==
    /\ state = "down"
    /\ disk["index"].config /\ disk["index"].head # None /\ disk["index"].trans # None
    /\ mem' = LoadedFrom("index")
    /\ state' = "running"
    /\ LET p == promise["index"] IN
       /\ sure' = IF p.sound THEN p.sure ELSE {}
       /\ gone' = IF p.sound THEN p.gone ELSE {}
       /\ trusted' = p.sound
       /\ labelled' = (p.sound /\ p.labelled)
    /\ promise' = [promise EXCEPT !["buffer"] = Void]
    /\ UNCHANGED <<setting, durable, size, scan, jobs, op, saver, todo, used>>

RecoverIndex ==
    /\ state = "down"
    /\ disk["index"].config /\ disk["index"].trans # None
    /\ disk["buffer"].head # None /\ disk["buffer"].map # None /\ disk["buffer"].pool # None
    /\ mem' = LoadedFrom("buffer")
    /\ state' = "replay"
    /\ scan' = IF setting.wal THEN [i \in 1..Cardinality(DOMAIN log) |->
                                        LET k == InKeyOrder(DOMAIN log)[i] IN [key |-> k, rec |-> log[k]]]
               ELSE <<>>
    /\ LET p == promise["buffer"] IN
       /\ sure' = IF ~p.sound THEN {} ELSE IF p.logged /\ LogInOrder THEN sure
                  ELSE p.sure \ {log[i].vec : i \in {k \in DOMAIN log : log[k].kind = "delete"}}
       /\ gone' = IF ~p.sound THEN {} ELSE IF p.logged /\ LogInOrder THEN gone ELSE p.gone
       /\ trusted' = p.sound
    /\ labelled' = FALSE
    /\ promise' = [promise EXCEPT !["index"] = Void, !["buffer"].logged = @ /\ LogInOrder]
    /\ UNCHANGED <<setting, durable, size, jobs, op, saver, todo, used>>

\* NextToScan sets _size past the record it returns; AddIndex logs it again.
ReplayAdd ==
    /\ state = "replay" /\ scan # <<>> /\ Head(scan).rec.kind = "add"
    /\ LET r == Head(scan).rec
           m == [mem EXCEPT !.ver = IF r.id < Len(@) THEN @
                                    ELSE [i \in 1..(r.id + 1) |-> IF i <= Len(mem.ver) THEN mem.ver[i] ELSE "live"]]
           b == NextBlock(mem.free)
       IN /\ mem.free # {}
          /\ \E h \in mem.heads :
                /\ mem' = PutPosting(m, h, b)
                /\ blocks' = [blocks EXCEPT ![b] = Posting(mem, h) \cup {<<r.id, r.vec>>}]
                /\ jobs' = IF Cardinality(Posting(mem, h) \cup {<<r.id, r.vec>>}) > setting.limit
                           THEN jobs \cup {h} ELSE jobs
          /\ log' = [i \in DOMAIN log \cup {Head(scan).key + 1} |->
                        IF i = Head(scan).key + 1 THEN r ELSE log[i]]
          /\ size' = Head(scan).key + 2
    /\ scan' = Tail(scan)
    /\ UNCHANGED <<setting, state, disk, op, saver, todo, used, history>>

\* Deletions are not logged again, so the log may no longer hold them.
ReplayDelete ==
    /\ state = "replay" /\ scan # <<>> /\ Head(scan).rec.kind = "delete"
    /\ LET r == Head(scan).rec IN
       mem' = [mem EXCEPT !.ver = IF r.id < Len(@) THEN [@ EXCEPT ![r.id + 1] = "deleted"] ELSE @]
    /\ size' = Head(scan).key + 1
    /\ scan' = Tail(scan)
    /\ promise' = [promise EXCEPT !["buffer"].logged = FALSE]
    /\ UNCHANGED <<setting, state, durable, jobs, op, saver, todo, used, sure, gone, trusted, labelled>>

RecoverEnd ==
    /\ state = "replay" /\ scan = <<>> /\ jobs = {}
    /\ state' = "running"
    /\ UNCHANGED <<setting, mem, durable, size, scan, jobs, op, saver, todo, used, history>>

Init ==
    /\ setting \in Settings
    /\ state = "empty"
    /\ mem = [heads |-> {}, vec |-> <<>>, trans |-> <<>>, ver |-> <<>>, meta |-> <<>>, map |-> NoMap,
              free |-> Blocks, reserve |-> {}]
    /\ blocks = [b \in Blocks |-> {}]
    /\ disk = [d \in Dirs |-> NoFiles]
    /\ log = <<>> /\ size = 0 /\ scan = <<>>
    /\ jobs = {} /\ op = [c \in Clients |-> Idle] /\ saver = NoSave /\ todo = {}
    /\ used = [adds |-> 0, splits |-> 0, saves |-> 0, checkpoints |-> 0, crashes |-> 0]
    /\ sure = {} /\ gone = {} /\ trusted = TRUE /\ labelled = TRUE /\ promise = [d \in Dirs |-> Void]

Next ==
    \/ BuildIndex \/ BuildEnd
    \/ \E c \in Clients : AddBatch(c) \/ AddLog(c) \/ AddAppend(c) \/ DeleteLog(c) \/ DeleteMark(c)
    \/ \E h \in HeadIds : SplitJob(h) \/ RefinePosting(h)
    \/ SaveIndex \/ Checkpoint \/ OpenFiles \/ SaveMetadata \/ SaveHeadIndex \/ SaveHeadFolder
    \/ SaveTranslateMap \/ SaveVersionMap \/ SaveMapping \/ SavePool \/ ClearLog \/ SaveEnd
    \/ RefineFiles \/ Reload
    \/ Crash \/ LoadIndex \/ RecoverIndex \/ ReplayAdd \/ ReplayDelete \/ RecoverEnd

Spec == Init /\ [][Next]_vars

-----------------------------------------------------------------------------

File(S) == S \cup {None}
Records == [kind : {"add", "delete"}, id : Ids, vec : Vectors]

\* Every part of the index, in memory and on disk, has its type, and every
\* id of the head index is one of its samples.
TypeOK ==
    /\ state \in {"empty", "building", "running", "replay", "down"}
    /\ mem.heads \subseteq 0..(NumHeads(mem) - 1) /\ mem.vec \in Seq(Vectors)
    /\ mem.trans \in Seq(Ids \cup {NoId}) /\ mem.ver \in Seq({"live", "deleted"})
    /\ mem.map \in [HeadIds -> Blocks \cup {NoBlock}]
    /\ mem.free \subseteq Blocks /\ mem.reserve \subseteq Blocks
    /\ blocks \in [Blocks -> SUBSET (Ids \X Vectors)]
    /\ \A d \in Dirs : disk[d].head \in File(HeadFiles) /\ disk[d].pool \in File(SUBSET Blocks)
    /\ \A i \in DOMAIN log : log[i] \in Records
    /\ jobs \subseteq HeadIds /\ todo \subseteq HeadIds
    /\ sure \cap gone = {}

Visible == state = "running" /\ ~Refining

\* Every vector whose addition was acknowledged, or that was built into the
\* index, can be found: while the index runs, after a load of a directory
\* that was saved with no update beside the save, after a recovery from a
\* checkpoint and the log, and after a compaction has numbered vectors and
\* heads anew.
NothingLost == Visible => sure \subseteq Found

\* No deleted vector can be found: a save, a checkpoint, a replayed log and a
\* compaction keep every acknowledged deletion.
NothingBack == Visible => gone \cap Found = {}

\* An answer carries the metadata of its vector: the ids in postings, the ids
\* of heads and the metadata are numbered alike after any saves and loads.
LabelsMatch ==
    Visible /\ labelled =>
        \A e \in Answers(mem) : e[1] < Len(mem.meta) => mem.meta[e[1] + 1] \in {NoId, e[2]}

\* Ids mean the same everywhere: those of the head index are samples of it, and
\* the metadata of an answer is its vector's (Save, Load, Recovery, RefineIndex).
IdsMatch == TypeOK /\ LabelsMatch

\* What a finished save or checkpoint left behind is not written in place: as
\* long as it can be relied on its files stay, and so does every block that
\* its mapping names, whatever is added, split, saved or compacted meanwhile
\* (m_blockAddresses_reserve, ExtraDynamicSearcher::Checkpoint).
SavedKept ==
    \A d \in Dirs : promise[d].sound /\ promise'[d].sound /\ ~SaveEnd =>
        /\ disk'[d] = disk[d]
        /\ \A h \in HeadIds : disk[d].map[h] # NoBlock => blocks'[disk[d].map[h]] = blocks[disk[d].map[h]]

SavedStays == [][SavedKept]_vars

\* "Flush the checkpoint file: SPTAG states, block pool states, block mapping
\* states" (SPANN/Index.h:275): the parts of a complete checkpoint belong
\* together, and every head of its head index has its posting in its mapping.
CheckpointAgrees ==
    saver.kind = "checkpoint" /\ saver.plan = <<>> /\ saver.quiet =>
        \A h \in disk["buffer"].head.heads : disk["buffer"].map[h] # NoBlock

\* No block of a posting is free.  A directory whose save ended in a crash has
\* an older pool than mapping, and an index loaded from it does not know.
PostingsKept == state = "running" => \A h \in HeadIds : mem.map[h] \notin mem.free

\* A recovery replays the records of the log in the order they were logged
\* ("recover the previous WAL", ExtraDynamicSearcher.h:1737).
ReplayedInOrder ==
    \A i, j \in DOMAIN scan : i < j => scan[i].key < scan[j].key

\* "delete all the previous record": once a checkpoint that no update ran
\* beside has cleared the log, no record is left for a recovery to replay.
LogCleared == saver.kind = "checkpoint" /\ saver.plan = <<>> /\ saver.quiet => DOMAIN log = {}
=============================================================================
