------------------------------- MODULE FileIO -------------------------------
(***************************************************************************)
(* SPANN::FileIO, the key-value store of posting lists over a block file   *)
(* (inc/Core/SPANN/ExtraFileController.h, src/.../ExtraFileController.cpp).*)
(*                                                                         *)
(* A key's row lists the size of its value and the blocks that hold it.    *)
(* Put writes to new blocks and swaps the row; Merge appends in place when *)
(* the last block is full and copies the last block otherwise; Delete      *)
(* releases the row.  Released blocks wait in a reserve until the next     *)
(* checkpoint, so that the blocks a saved mapping names are not reused.    *)
(*                                                                         *)
(* Writers run concurrently on different keys: the searcher calls Put,     *)
(* Merge and Delete under its lock for the key.  A checkpoint runs with no *)
(* writer active (Index::Checkpoint holds m_checkPointLock and waits for   *)
(* the jobs).  The LRU cache is off, as by default (m_cacheSize = 0).      *)
(* The order of the free queue is abstracted: any free block may be next.  *)
(*                                                                         *)
(* A Put of a loaded empty row whose write fails leaves the size of the    *)
(* value and block ids of -1 in the row (NoBlock).  A read or a write at   *)
(* such a block is refused, and releasing it marks the byte before the     *)
(* array of m_available, so that -1 may get into the queues.               *)
(***************************************************************************)
EXTENDS Integers, Sequences, FiniteSets, Functions

CONSTANTS Keys,              \* posting ids
          Threads,           \* concurrent writers
          Blocks,            \* block addresses below m_maxBlocks
          StartBlocks,       \* addresses of a fresh file (m_startFileSize)
          Data,              \* units of data
          PageSize,          \* units per block
          BlockLimit,        \* m_blockLimit, the length of a row
          BufferLimit,       \* m_bufferLimit, spare rows kept
          GrowthBlocks,      \* m_growthBlocks
          GrowthPercent,     \* m_growthThreshold in percent
          DisableCheckpoint, \* m_disableCheckpoint
          WriteFailures,     \* may BatchWriteFile or ExpandFile fail?
          Crashes,           \* may the process crash and recover?
          SaveFailures,      \* may saving the mapping file fail?
          PutValues, MergeValues,  \* the values writers use
          Blank, None,
          NoBlock            \* a block id of -1

ASSUME PageSizeAssumption == PageSize \in Nat \ {0}
\* 1024 spare rows, more than two for each writer
ASSUME LimitAssumption ==
    /\ BlockLimit \in Nat /\ BufferLimit \in Nat
    /\ IsFiniteSet(Threads) /\ 2 * Cardinality(Threads) <= BufferLimit
ASSUME GrowthAssumption == GrowthBlocks \in Nat /\ GrowthPercent \in Nat
ASSUME BlocksAssumption == IsFiniteSet(Blocks) /\ StartBlocks \subseteq Blocks
ASSUME ValuesAssumption == PutValues \subseteq Seq(Data) /\ MergeValues \subseteq Seq(Data)
ASSUME FlagsAssumption ==
    {DisableCheckpoint, WriteFailures, Crashes, SaveFailures} \subseteq BOOLEAN
ASSUME NoneAssumption == None \notin Keys
ASSUME NoBlockAssumption == NoBlock \notin Blocks
\* the absence of a value is not a value
ASSUME NoValueAssumption == None \notin Seq(Data \cup {Blank})

VARIABLES
    free,        \* m_blockAddresses: blocks, and NoBlock once released
    reserve,     \* m_blockAddresses_reserve; m_available has what is in either
    allocated,   \* the addresses below m_totalAllocatedBlocks
    lost,        \* blocks popped by a GetBlocks that then failed: nothing refers to them
    row,         \* the row of each key: NoRow, or its size (-1: loaded empty) and blocks
    disk,        \* the contents of each block
    buffer,      \* the number of spare rows in m_buffer
    pc, op,      \* where each writer is, and the operation it runs
    saved,       \* the mapping file and the block pool file of the last checkpoint
    cp           \* where a running checkpoint is

storeVars == <<row, disk>>
poolVars == <<free, reserve, allocated, lost>>
vars == <<free, reserve, allocated, lost, row, disk, buffer, pc, op, saved, cp>>

-----------------------------------------------------------------------------
(* Rows, pages and values *)

NoRow == [size |-> -2, blocks |-> <<>>]     \* At(key) = 0xffff...
EmptyRow == [size |-> -1, blocks |-> <<>>]  \* a loaded row of -1
Absent(k) == row[k].size < 0

NumBlocks(n) == (n + PageSize - 1) \div PageSize

\* the memset of a row that keeps the size of a value it does not have
TornRow(n) == [size |-> n, blocks |-> [i \in 1..NumBlocks(n) |-> NoBlock]]

\* the part of v that goes to its i-th block
Page(v, i) == [j \in 1..PageSize |->
    IF (i - 1) * PageSize + j <= Len(v) THEN v[(i - 1) * PageSize + j] ELSE Blank]

\* the n units that ReadBlocks returns from the blocks bs
ReadBlocks(bs, n) == [j \in 1..n |->
    disk[bs[((j - 1) \div PageSize) + 1]][((j - 1) % PageSize) + 1]]

\* what WriteBlocks leaves on the blocks bs after writing those of W
WriteBlocks(bs, v, W) == [b \in Blocks |->
    IF b \in W THEN Page(v, CHOOSE i \in DOMAIN bs : bs[i] = b) ELSE disk[b]]

NoOp == [kind |-> "none", key |-> None, value |-> <<>>, keep |-> 0, got |-> <<>>]

\* The operation of a writer: keep is how many blocks of the old row stay in
\* the new one, value what is written to the blocks it gets.
Op(kind, k, v, keep) == [kind |-> kind, key |-> k, value |-> v, keep |-> keep, got |-> <<>>]

Idle(t) == pc[t] = "idle"
Key(t) == op[t].key
Held(t) == Range(op[t].got) \cap Blocks
OldBlocks(t) == row[Key(t)].blocks
Need(t) == NumBlocks(Len(op[t].value))

\* Mutant: the new row keeps the partial last block, which is released
KeptBlocks_All(t) == OldBlocks(t)

KeptBlocks(t) == SubSeq(OldBlocks(t), 1, op[t].keep)

\* the block ids of the old row that the operation releases
Dropped(t) == Range(SubSeq(OldBlocks(t), op[t].keep + 1, Len(OldBlocks(t))))

\* the row the operation leaves behind
NewRow(t) ==
    CASE op[t].kind = "delete" -> NoRow
      [] op[t].kind # "delete" ->
           [size |-> op[t].keep * PageSize + Len(op[t].value),
            blocks |-> KeptBlocks(t) \o op[t].got]

\* put over a value, and merge into a partial last block, take a spare row
\* and give one back; a put of a new key does not give it back
Swaps(t) == op[t].kind \in {"put", "copy"}

-----------------------------------------------------------------------------
Init ==
    /\ free = StartBlocks
    /\ reserve = {}
    /\ allocated = StartBlocks
    /\ lost = {}
    /\ row = [k \in Keys |-> NoRow]
    /\ disk = [b \in Blocks |-> [j \in 1..PageSize |-> Blank]]
    /\ buffer = BufferLimit
    /\ pc = [t \in Threads |-> "idle"]
    /\ op = [t \in Threads |-> NoOp]
    /\ saved = [done |-> FALSE, rows |-> row, free |-> {}, allocated |-> {}]
    /\ cp = "idle"

\* The searcher's lock for the key, and Index's m_checkPointLock
MayStart(t, k) ==
    /\ Idle(t)
    /\ cp = "idle"
    /\ \A u \in Threads : Key(u) # k

Start(t, o, p) ==
    /\ op' = [op EXCEPT ![t] = o]
    /\ pc' = [pc EXCEPT ![t] = p]

Done(t) ==
    /\ op' = [op EXCEPT ![t] = NoOp]
    /\ pc' = [pc EXCEPT ![t] = "idle"]

Goto(t, p) == pc' = [pc EXCEPT ![t] = p] /\ op' = op

-----------------------------------------------------------------------------
(* Put, Merge and Delete up to the allocation of blocks *)

\* Put of a key without a value: a spare row only when there are more than enough
PutNew(t, k, v) ==
    /\ MayStart(t, k)
    /\ Absent(k)
    /\ NumBlocks(Len(v)) < BlockLimit
    /\ Start(t, Op("new", k, v, 0),
             IF row[k] = NoRow /\ buffer > BufferLimit THEN "row" ELSE "expand")
    /\ UNCHANGED <<poolVars, storeVars, buffer, saved, cp>>

\* Put over a value
PutOver(t, k, v) ==
    /\ MayStart(t, k)
    /\ ~Absent(k)
    /\ NumBlocks(Len(v)) < BlockLimit
    /\ Start(t, Op("put", k, v, 0), "row")
    /\ UNCHANGED <<poolVars, storeVars, buffer, saved, cp>>

\* Mutant: Merge forgets what the partial last block held
Merge_DropsLastPage(t, k, v) ==
    /\ MayStart(t, k)
    /\ ~Absent(k)
    /\ NumBlocks(row[k].size + Len(v)) < BlockLimit
    /\ IF row[k].size % PageSize # 0
       THEN /\ row[k].blocks[row[k].size \div PageSize + 1] # NoBlock
            /\ Start(t, Op("copy", k, v, row[k].size \div PageSize), "row")
       ELSE Start(t, Op("append", k, v, row[k].size \div PageSize), "expand")
    /\ UNCHANGED <<poolVars, storeVars, buffer, saved, cp>>

\* Merge: oldblocks full blocks stay.  A partial last block is read and
\* rewritten, with the new data, to new blocks; nothing happens when it
\* cannot be read.
Merge(t, k, v) ==
    LET size == row[k].size
        oldblocks == size \div PageSize
        sizeInPage == size % PageSize
    IN  /\ MayStart(t, k)
        /\ ~Absent(k)
        /\ NumBlocks(size + Len(v)) < BlockLimit
        /\ IF sizeInPage # 0
           THEN LET last == row[k].blocks[oldblocks + 1]
                IN  /\ last # NoBlock
                    /\ Start(t, Op("copy", k, ReadBlocks(<<last>>, sizeInPage) \o v, oldblocks),
                             "row")
           ELSE Start(t, Op("append", k, v, oldblocks), "expand")
        /\ UNCHANGED <<poolVars, storeVars, buffer, saved, cp>>

Delete(t, k) ==
    /\ MayStart(t, k)
    /\ ~Absent(k)
    /\ Start(t, Op("delete", k, <<>>, 0), "release")
    /\ UNCHANGED <<poolVars, storeVars, buffer, saved, cp>>

\* while (!m_buffer.try_pop(...)) spins until there is a row
PopRow(t) ==
    /\ pc[t] = "row"
    /\ buffer > 0
    /\ buffer' = buffer - 1
    /\ Goto(t, "expand")
    /\ UNCHANGED <<poolVars, storeVars, saved, cp>>

\* Mutant: only Delete gives its row back
GiveRowBack_OnlyDelete(t) == buffer' = IF op[t].kind = "delete" THEN buffer + 1 ELSE buffer

\* m_buffer.push of the row that is not used any more
GiveRowBack(t) == buffer' = IF Swaps(t) \/ op[t].kind = "delete" THEN buffer + 1 ELSE buffer

-----------------------------------------------------------------------------
(* GetBlocks *)

NeedsExpansion(n) ==
    \/ Cardinality(free) < n
    \/ Cardinality(free) * 100 < GrowthPercent * Cardinality(allocated)

GrowBy(n) == IF GrowthBlocks > n THEN GrowthBlocks ELSE n

CanGrow(n) == Cardinality(allocated) + GrowBy(n) <= Cardinality(Blocks)

\* where the loop of try_pop is with n blocks
NextPop(t, n) == IF n < Need(t) THEN "pop" ELSE "write"

\* ExpandFile under m_expandLock
ExpandFile(t) ==
    /\ pc[t] = "expand"
    /\ NeedsExpansion(Need(t)) /\ CanGrow(Need(t))
    /\ \E B \in SUBSET (Blocks \ allocated) :
        /\ Cardinality(B) = GrowBy(Need(t))
        /\ allocated' = allocated \cup B
        /\ free' = free \cup B
    /\ Goto(t, NextPop(t, 0))
    /\ UNCHANGED <<reserve, lost, storeVars, buffer, saved, cp>>

\* enough blocks, or no room to grow: go on with what there is
NoExpansion(t) ==
    /\ pc[t] = "expand"
    /\ ~(NeedsExpansion(Need(t)) /\ CanGrow(Need(t)))
    /\ Goto(t, NextPop(t, 0))
    /\ UNCHANGED <<poolVars, storeVars, buffer, saved, cp>>

\* one iteration of the loop of try_pop
PopBlock(t) ==
    /\ pc[t] = "pop"
    /\ \E b \in free :
        /\ free' = free \ {b}
        /\ op' = [op EXCEPT ![t].got = Append(@, b)]
    /\ pc' = [pc EXCEPT ![t] = NextPop(t, Len(op[t].got) + 1)]
    /\ UNCHANGED <<reserve, allocated, lost, storeVars, buffer, saved, cp>>

\* GetBlocks returns false: the blocks it had popped are in no list any more
GetBlocksFails(t) ==
    /\ \/ pc[t] = "pop" /\ free = {}
       \/ pc[t] = "expand" /\ WriteFailures /\ NeedsExpansion(Need(t)) /\ CanGrow(Need(t))
    /\ lost' = lost \cup Held(t)
    /\ GiveRowBack(t)
    /\ Done(t)
    /\ UNCHANGED <<free, reserve, allocated, storeVars, saved, cp>>

-----------------------------------------------------------------------------
(* WriteBlocks and the new row *)

\* Mutant: released blocks are reusable at once
ReleaseBlocks_ToFree(B) ==
    /\ free' = free \cup B
    /\ UNCHANGED <<reserve, allocated, lost>>

\* ReleaseBlocks: to the free queue only when checkpoints are disabled.
\* m_available.Insert finds the ids that are in a queue already, which are not
\* released again; what it finds at -1 is the byte before its array.
ReleaseBlocks(B) ==
    /\ \E S \in {B, B \ {NoBlock}} : LET new == S \ (free \cup reserve) IN
        /\ free' = IF DisableCheckpoint THEN free \cup new ELSE free
        /\ reserve' = IF DisableCheckpoint THEN reserve ELSE reserve \cup new
    /\ UNCHANGED <<allocated, lost>>

\* a write at -1 is refused, and then the whole of WriteBlocks fails
Write(t) ==
    /\ pc[t] = "write"
    /\ NoBlock \notin Range(op[t].got)
    /\ disk' = WriteBlocks(op[t].got, op[t].value, Held(t))
    /\ Goto(t, IF Swaps(t) THEN "release" ELSE "swap")
    /\ UNCHANGED <<poolVars, row, buffer, saved, cp>>

\* Some of the writes are not done in time.  The blocks are released and the
\* row given back; a loaded empty row keeps the size it was just given, and
\* its block ids are set to -1.
WriteFails(t) ==
    /\ pc[t] = "write"
    /\ WriteFailures
    /\ op[t].got # <<>>
    /\ \E W \in SUBSET Held(t) : disk' = WriteBlocks(op[t].got, op[t].value, W)
    /\ ReleaseBlocks(Range(op[t].got))
    /\ row' = IF op[t].kind = "new" /\ row[Key(t)] = EmptyRow
              THEN [row EXCEPT ![Key(t)] = TornRow(Len(op[t].value))]
              ELSE row
    /\ GiveRowBack(t)
    /\ Done(t)
    /\ UNCHANGED <<saved, cp>>

\* the blocks that the new row does not use go first ...
Release(t) ==
    /\ pc[t] = "release"
    /\ ReleaseBlocks(Dropped(t))
    /\ Goto(t, "swap")
    /\ UNCHANGED <<storeVars, buffer, saved, cp>>

\* ... then the row is changed
Swap(t) ==
    /\ pc[t] = "swap"
    /\ row' = [row EXCEPT ![Key(t)] = NewRow(t)]
    /\ GiveRowBack(t)
    /\ Done(t)
    /\ UNCHANGED <<poolVars, disk, saved, cp>>

-----------------------------------------------------------------------------
(* Checkpoint and recovery *)

\* Save writes a row of -1 for a key without a row
SavedRow(k) == IF row[k] = NoRow THEN EmptyRow ELSE row[k]

\* FileIO::Checkpoint first saves the mapping ...
SaveMapping ==
    /\ cp = "idle"
    /\ \A t \in Threads : Idle(t)
    /\ saved' = [saved EXCEPT !.rows = [k \in Keys |-> SavedRow(k)]]
    /\ cp' = "pool"
    /\ UNCHANGED <<poolVars, storeVars, buffer, pc, op>>

\* ... its error code is ignored ...
SaveMappingFails ==
    /\ cp = "idle"
    /\ SaveFailures
    /\ \A t \in Threads : Idle(t)
    /\ cp' = "pool"
    /\ UNCHANGED <<poolVars, storeVars, buffer, pc, op, saved>>

\* ... and then BlockController::Checkpoint makes the reserved blocks free
\* and saves the free list and the number of blocks
SavePool ==
    /\ cp = "pool"
    /\ free' = free \cup reserve
    /\ reserve' = {}
    /\ saved' = [saved EXCEPT !.done = TRUE, !.free = free', !.allocated = allocated]
    /\ cp' = "idle"
    /\ UNCHANGED <<allocated, lost, storeVars, buffer, pc, op>>

\* Load: the mapping file
Load == row' = saved.rows

\* LoadBlockPool: the free list and the number of blocks.  What neither the
\* list nor a row names stays unused for good.
LoadBlockPool ==
    /\ free' = saved.free
    /\ allocated' = saved.allocated
    /\ reserve' = {}
    /\ lost' = saved.allocated \ (saved.free \cup UNION {Range(saved.rows[k].blocks) : k \in Keys})

\* The process ends while it is not writing a checkpoint, and the next one
\* recovers.
CrashAndRecover ==
    /\ Crashes
    /\ saved.done /\ cp = "idle"
    /\ Load /\ LoadBlockPool
    /\ buffer' = BufferLimit
    /\ pc' = [t \in Threads |-> "idle"]
    /\ op' = [t \in Threads |-> NoOp]
    /\ UNCHANGED <<disk, saved, cp>>

-----------------------------------------------------------------------------
ThreadStep(t) ==
    \/ PopRow(t) \/ ExpandFile(t) \/ NoExpansion(t)
    \/ PopBlock(t) \/ GetBlocksFails(t)
    \/ Write(t) \/ WriteFails(t) \/ Release(t) \/ Swap(t)

Call(t) ==
    \E k \in Keys :
        \/ \E v \in PutValues : PutNew(t, k, v) \/ PutOver(t, k, v)
        \/ \E v \in MergeValues : Merge(t, k, v)
        \/ Delete(t, k)

Next ==
    \/ \E t \in Threads : ThreadStep(t) \/ Call(t)
    \/ SaveMapping \/ SaveMappingFails \/ SavePool \/ CrashAndRecover

Spec == Init /\ [][Next]_vars

\* A running operation is scheduled.
LiveSpec == Spec /\ \A t \in Threads : WF_vars(ThreadStep(t))

-----------------------------------------------------------------------------
(* Properties *)

PCs == {"idle", "row", "expand", "pop", "write", "release", "swap"}
Kinds == {"none", "new", "put", "copy", "append", "delete"}
Ids == Blocks \cup {NoBlock}
Rows == [size : Int, blocks : Seq(Ids)]
Units == Data \cup {Blank}
Ops == [kind : Kinds, key : Keys \cup {None}, value : Seq(Units), keep : Nat, got : Seq(Ids)]

TypeOK ==
    /\ free \subseteq Ids /\ reserve \subseteq Ids
    /\ allocated \subseteq Blocks /\ lost \subseteq Blocks
    /\ row \in [Keys -> Rows]
    /\ disk \in [Blocks -> [1..PageSize -> Units]]
    /\ buffer \in Nat
    /\ pc \in [Threads -> PCs]
    /\ op \in [Threads -> Ops]
    /\ saved \in [done : BOOLEAN, rows : [Keys -> Rows],
                  free : SUBSET Ids, allocated : SUBSET Blocks]
    /\ cp \in {"idle", "pool"}

\* The blocks that belong to k: those its row names, less the ones that an
\* operation between its ReleaseBlocks and its change of the row has given up.
Swapping(k) == {t \in Threads : pc[t] = "swap" /\ Key(t) = k /\ op[t].kind \in {"put", "copy", "delete"}}
Owned(k) == {b \in Range(row[k].blocks) \cap Blocks : \A t \in Swapping(k) : b \notin Dropped(t)}

\* No block has two owners: two keys, two operations, a key and an operation,
\* or an owner and one of the lists of released blocks.  This is what the
\* "double used" check of FileIO::Check looks for, at every instant and for
\* blocks in flight too.
OneOwner ==
    /\ \A k, l \in Keys : k # l => Owned(k) \cap Owned(l) = {}
    /\ \A t, u \in Threads : t # u => Held(t) \cap Held(u) = {}
    /\ \A k \in Keys, t \in Threads : Owned(k) \cap Held(t) = {}
    /\ \A k \in Keys : Owned(k) \cap (free \cup reserve \cup lost) = {}
    /\ \A t \in Threads : Held(t) \cap (free \cup reserve \cup lost) = {}
    /\ free \cap reserve = {} /\ free \cap lost = {} /\ reserve \cap lost = {}

\* Every block of the file has an owner, so that released space can be used
\* again; only a GetBlocks that fails halfway loses blocks.
NoneForgotten ==
    allocated = ((free \cup reserve) \ {NoBlock}) \cup lost
                \cup (UNION {Owned(k) : k \in Keys}) \cup (UNION {Held(t) : t \in Threads})

\* What FileIO::Check tests of a key: its row names as many blocks as its
\* size needs, all different.  Only a block of -1, which Check reports, may
\* stand for the blocks that a failed write did not leave.
Distinct(bs) == \A i, j \in DOMAIN bs : bs[i] = bs[j] => i = j \/ bs[i] = NoBlock
RowsWellFormed ==
    \A k \in Keys : ~Absent(k) =>
        /\ Len(row[k].blocks) = NumBlocks(row[k].size)
        /\ Distinct(row[k].blocks)
        /\ NoBlock \in Range(row[k].blocks) => WriteFailures /\ Crashes

\* FileIO::Check at every instant: every block of the file has one owner and
\* every row its blocks.
BlocksAccounted == OneOwner /\ NoneForgotten /\ RowsWellFormed

SavedBlocks == UNION {Range(saved.rows[k].blocks) \cap Blocks : k \in Keys}

\* The blocks of the last saved mapping are neither free nor about to be
\* written, and the saved free list has none of them, so that recovery finds
\* them as they were: "new blocks must be allocated for writing here".
CheckpointIntact ==
    ~DisableCheckpoint /\ cp = "idle" =>
        SavedBlocks \cap (free \cup saved.free \cup UNION {Held(t) : t \in Threads}) = {}

\* Until the next checkpoint replaces the saved mapping, no step of any
\* operation changes what is on the blocks it names.
SavedContentsKept ==
    [][~DisableCheckpoint /\ saved'.rows = saved.rows
         => \A b \in SavedBlocks : disk'[b] = disk[b]]_vars

\* A started Put, Merge or Delete ends: in particular the loop that waits for
\* a spare row finds one, however the operations before it ended.
OperationsEnd == \A t \in Threads : pc[t] # "idle" ~> pc[t] = "idle"

\* FileIO implements the abstract store: a running operation takes effect
\* when it reaches its swap, failed ones never do, and what a recovery would
\* read back changes only at a checkpoint.
ValueOf(r) == IF r.size < 0 \/ NoBlock \in Range(r.blocks) THEN None
              ELSE ReadBlocks(r.blocks, r.size)
Visible(k) ==
    IF \E t \in Threads : pc[t] = "swap" /\ Key(t) = k
    THEN ValueOf(NewRow(CHOOSE t \in Threads : pc[t] = "swap" /\ Key(t) = k))
    ELSE ValueOf(row[k])
KV == INSTANCE KVStore WITH store <- [k \in Keys |-> Visible(k)],
                            saved <- [k \in Keys |-> ValueOf(saved.rows[k])],
                            NoValue <- None

\* FileIO is a store with atomic operations and a checkpoint (KeyValueIO.h).
Implements == KV!Spec
=============================================================================
