-------------------------- MODULE LifecycleProofs --------------------------
(***************************************************************************)
(* Proofs about the life of an index for any vectors, heads, blocks,       *)
(* clients and settings, whatever saves, checkpoints, crashes, recoveries  *)
(* and compactions meet: every part keeps its type, no block is in two     *)
(* postings or both free and in one, and what a save left behind is not    *)
(* written in place.                                                       *)
(***************************************************************************)
EXTENDS Lifecycle, FiniteSetTheorems, SequenceTheorems, TLAPS

(***************************************************************************)
(* Types                                                                   *)
(***************************************************************************)

Versions == Seq({"live", "deleted"})
Translations == Seq(Ids \cup {NoId})
Labels == Seq(Vectors \cup {NoId})
Mappings == [HeadIds -> Blocks \cup {NoBlock}]
Postings == [Blocks -> SUBSET (Ids \X Vectors)]

Memories ==
    [heads : SUBSET HeadIds, vec : Seq(Vectors), trans : Translations, ver : Versions, meta : Labels,
     map : Mappings, free : SUBSET Blocks, reserve : SUBSET Blocks]

Directories ==
    [config : BOOLEAN, head : File(HeadFiles), trans : File(Translations), ver : File(Versions),
     meta : File(Labels), map : File(Mappings), pool : File(SUBSET Blocks)]

Operations ==
    [kind : {"idle", "log", "append", "delete"}, vec : Vectors, id : Ids \cup {NoId}, renumbered : BOOLEAN]

Promises == [sound : BOOLEAN, logged : BOOLEAN, labelled : BOOLEAN, sure : SUBSET Vectors, gone : SUBSET Vectors]

Steps == {"open", "meta", "head", "trans", "ver", "map", "pool", "clear", "refine", "rewrite", "reload", "saveHead"}

\* What is left of each plan.
SavePlans ==
    {SavePlan, <<"meta", "head", "trans", "ver", "map", "pool", "clear">>,
     <<"head", "trans", "ver", "map", "pool", "clear">>, <<"trans", "ver", "map", "pool", "clear">>,
     <<"ver", "map", "pool", "clear">>, <<"map", "pool", "clear">>, <<"pool", "clear">>, <<"clear">>, <<>>}
CheckpointPlans ==
    {CheckpointPlan, <<"map", "pool", "clear", "saveHead">>, <<"pool", "clear", "saveHead">>,
     <<"clear", "saveHead">>, <<"saveHead">>, <<>>}
RewritePlans == {<<"rewrite", "map", "pool", "reload">>, <<"map", "pool", "reload">>, <<"pool", "reload">>, <<"reload">>}
MergedPlans ==
    {MergedPlan, <<"map", "pool", "clear", "saveHead", "trans">>, <<"pool", "clear", "saveHead", "trans">>,
     <<"clear", "saveHead", "trans">>, <<"saveHead", "trans">>, <<"trans">>, <<>>}

PlanOK(s) ==
    \/ s.kind = "none" /\ s.plan = <<>>
    \/ s.kind = "save" /\ s.dir = "index" /\ s.plan \in SavePlans \cup {RefinePlan}
    \/ s.kind = "checkpoint" /\ s.dir = "buffer" /\ s.plan \in CheckpointPlans
    \/ s.kind = "refine" /\ s.dir = "index" /\ s.plan \in RewritePlans \cup MergedPlans

HeadsOK(f) == f.heads \subseteq 0..(Len(f.vec) - 1) /\ Len(f.vec) <= MaxHeads

Counts == [adds : Nat, splits : Nat, saves : Nat, checkpoints : Nat, crashes : Nat]

RunOK == setting \in Settings /\ state \in {"empty", "building", "running", "replay", "down"}
MemOK == mem \in Memories /\ HeadsOK(mem) /\ blocks \in Postings
DiskOK ==
    /\ disk \in [Dirs -> Directories]
    /\ \A d \in Dirs : disk[d].head # None => HeadsOK(disk[d].head)
LogOK ==
    /\ DOMAIN log \in SUBSET Nat /\ IsFiniteSet(DOMAIN log) /\ \A k \in DOMAIN log : log[k] \in Records
    /\ size \in Nat
    /\ scan \in Seq([key : Nat, rec : Records])
OpsOK ==
    /\ op \in [Clients -> Operations]
    /\ \A c \in Clients : op[c] = Idle \/ (op[c].kind # "idle" /\ op[c].id \in Ids)
SaverOK ==
    /\ saver \in [kind : {"none", "save", "checkpoint", "refine"}, dir : Dirs, plan : Seq(Steps),
                  quiet : BOOLEAN, labelled : BOOLEAN]
    /\ PlanOK(saver)
WorkOK == jobs \subseteq HeadIds /\ todo \subseteq HeadIds /\ used \in Counts
HistoryOK ==
    /\ sure \subseteq Vectors /\ gone \subseteq Vectors
    /\ trusted \in BOOLEAN /\ labelled \in BOOLEAN
    /\ promise \in [Dirs -> Promises]

Types == RunOK /\ MemOK /\ DiskOK /\ LogOK /\ OpsOK /\ SaverOK /\ WorkOK /\ HistoryOK

\* An own vector that a split puts back is one of the head index.
JobsInv == (\A h \in jobs : h < Len(mem.vec)) \/ Len(mem.trans) <= Len(mem.vec)

\* Ids and names that were never given out are nowhere.
IdsInDirs == \A d \in Dirs : disk[d].ver # None => Len(disk[d].ver) <= NextName
IdsInOps == \A c \in Clients : op[c] # Idle => op[c].id < NextName /\ op[c].vec < NextName
IdsInLog ==
    /\ \A k \in DOMAIN log : log[k].id < NextName /\ log[k].vec < NextName
    /\ \A i \in DOMAIN scan : scan[i].rec.id < NextName /\ scan[i].rec.vec < NextName

IdsInv == NextName <= Names /\ Len(mem.ver) <= NextName /\ IdsInDirs /\ IdsInOps /\ IdsInLog

(***************************************************************************)
(* Names: a vector that is being added is nowhere yet, two operations are  *)
(* about two vectors, and what is deleted is not present.                  *)
(***************************************************************************)

Adds(c) == op[c].kind \in {"log", "append"}
New(v) == v >= NextName \/ \E c \in Clients : Adds(c) /\ op[c].vec = v

NotStored(v) == \A b \in Blocks : \A e \in blocks[b] : e[2] # v
NoHead(v) == \A i \in DOMAIN mem.vec : mem.vec[i] # v
NotSaved(v) == \A d \in Dirs : disk[d].head # None => \A i \in DOMAIN disk[d].head.vec : disk[d].head.vec[i] # v
NotPromised(v) == \A d \in Dirs : v \notin promise[d].sure /\ v \notin promise[d].gone
Unseen(v) == NotStored(v) /\ NoHead(v) /\ NotSaved(v) /\ v \notin sure /\ v \notin gone /\ NotPromised(v)

NewNames == \A v \in Vectors : New(v) => Unseen(v)

OpNames ==
    /\ \A c \in Clients : op[c].kind = "delete" => op[c].vec \notin sure /\ op[c].vec \notin gone
    /\ \A c, e \in Clients : c # e /\ op[c] # Idle /\ op[e] # Idle => op[c].vec # op[e].vec
    /\ \A c \in Clients : op[c].kind = "log" => \A k \in DOMAIN log : log[k].vec # op[c].vec

SureNotGone == sure \cap gone = {} /\ \A d \in Dirs : promise[d].sure \cap promise[d].gone = {}

StatesInv ==
    /\ state # "running" => saver = NoSave /\ \A c \in Clients : op[c] = Idle
    /\ state # "replay" => scan = <<>>
    /\ state \in {"empty", "building"} => /\ sure \subseteq setting.built /\ gone = {}
                                          /\ DOMAIN log = {} /\ size = 0 /\ trusted /\ labelled
    /\ state \in {"empty", "down"} => jobs = {}

NamesInv == NewNames /\ OpNames /\ SureNotGone /\ StatesInv

Base == Types /\ JobsInv /\ IdsInv /\ NamesInv

(***************************************************************************)
(* Saves: a sound directory is not being written, a save beside which no   *)
(* update ran has written what is in memory, and a block of a sound        *)
(* directory or of a posting in memory is not given out.                   *)
(***************************************************************************)

LeftOf(plan) == {plan[i] : i \in DOMAIN plan}
Left == LeftOf(saver.plan)
Saving == saver.kind # "none"

\* A compaction that has not yet loaded what it wrote.
InRefine == saver.kind = "refine" /\ "reload" \in Left
Reloaded == saver.kind = "refine" /\ "reload" \notin Left

\* A save that is not, or not yet, a compaction.
PlainSave == saver.kind = "save" /\ "refine" \notin Left

\* No split can be queued or run until the save ends, if no update runs.
Settled ==
    \/ PlainSave /\ "head" \notin Left
    \/ saver.kind \in {"checkpoint", "refine"}

Broken(d) == ~promise[d].sound

SaveBreaks ==
    /\ saver.kind = "save" /\ "open" \notin Left => Broken("index")
    /\ saver.kind = "refine" => Broken("index")
    /\ saver.kind = "checkpoint" /\ "ver" \notin Left => Broken("buffer")
    /\ saver.kind \in {"save", "checkpoint"} /\ "pool" \notin Left => Broken("index") /\ Broken("buffer")
    /\ saver.kind = "refine" /\ ("pool" \notin Left \/ "reload" \notin Left) => Broken("index") /\ Broken("buffer")

SaveQuiet ==
    Saving /\ saver.quiet => /\ \A c \in Clients : op[c] = Idle
                             /\ Settled => jobs = {}

HeadsNow == [heads |-> mem.heads, vec |-> mem.vec]

\* The files a quiet save has written.
Written(f, file, d, contents) == f \notin Left => disk[d][file] = contents

WrittenSave ==
    PlainSave /\ saver.quiet =>
        /\ "open" \notin Left => /\ Written("meta", "meta", "index", mem.meta)
                                /\ Written("head", "head", "index", HeadsNow)
                                /\ Written("trans", "trans", "index", mem.trans)
        /\ Written("ver", "ver", "index", mem.ver)

WrittenCheckpoint ==
    saver.kind = "checkpoint" /\ saver.quiet =>
        /\ Written("ver", "ver", "buffer", mem.ver)
        /\ Written("saveHead", "head", "buffer", HeadFile(mem))
        /\ "clear" \notin Left /\ setting.wal => size = 0

WrittenReloaded ==
    Reloaded /\ saver.quiet =>
        /\ disk["index"].head = HeadsNow
        /\ disk["index"].trans = mem.trans /\ disk["index"].ver = mem.ver
        /\ mem.heads = 0..(NumHeads(mem) - 1)

WrittenBlocks ==
    Saving /\ saver.quiet =>
        /\ Written("map", "map", saver.dir, mem.map)
        /\ "pool" \notin Left => disk[saver.dir].pool = mem.free /\ mem.reserve = {}

SaveWritten == WrittenSave /\ WrittenCheckpoint /\ WrittenReloaded /\ WrittenBlocks

\* The files of a compaction, before they are loaded.
FilesInv ==
    InRefine => /\ disk["index"].head # None /\ disk["index"].trans # None /\ disk["index"].ver # None
                /\ Len(disk["index"].trans) = Len(disk["index"].head.vec)
                /\ Len(disk["index"].ver) <= Len(mem.ver)
                /\ disk["index"].head.heads = 0..(Len(disk["index"].head.vec) - 1)
                /\ \A c \in Clients : op[c] # Idle => op[c].renumbered

\* The files of a compaction.
FileOfHeads == [heads |-> 0..(Len(HeadOrder) - 1), vec |-> [i \in DOMAIN HeadOrder |-> mem.vec[HeadOrder[i] + 1]]]
FileOfTrans == [i \in DOMAIN HeadOrder |-> IF HeadOrder[i] < Len(mem.trans)
                                           THEN RefineHeadId(mem.trans[HeadOrder[i] + 1]) ELSE NoId]
FileOfVer == [i \in DOMAIN VectorOrder |-> "live"]

RefineWritten ==
    InRefine /\ saver.quiet =>
        /\ disk["index"].head = FileOfHeads
        /\ disk["index"].trans = FileOfTrans
        /\ disk["index"].ver = FileOfVer
        /\ disk["index"].meta = RefineMetadata
        /\ todo \subseteq mem.heads
        /\ "rewrite" \notin Left => todo = {}

\* A block belongs to one posting.
OneOwner(map) == \A g, h \in HeadIds : map[g] = map[h] /\ map[g] # NoBlock => g = h
Apart(map, free) == \A h \in HeadIds : map[h] \notin free

BlocksOf(m) == OneOwner(m.map) /\ Apart(m.map, m.free) /\ Apart(m.map, m.reserve) /\ m.free \cap m.reserve = {}
MemBlocks == BlocksOf(mem)

DirBlocks(d) ==
    /\ disk[d].head # None /\ disk[d].ver # None /\ disk[d].map # None /\ disk[d].pool # None
    /\ OneOwner(disk[d].map) /\ Apart(disk[d].map, disk[d].pool) /\ Apart(disk[d].map, mem.free)

BlocksInv ==
    /\ trusted => MemBlocks
    /\ \A d \in Dirs : promise[d].sound => trusted /\ state \notin {"empty", "building"} /\ DirBlocks(d)

\* The heads a translation file names, or would name: none unless heads are
\* excluded from the postings, and then all.
NoneNamed ==
    ~setting.excludeHead =>
        /\ state \notin {"empty", "building"} => \A i \in DOMAIN mem.trans : mem.trans[i] = NoId
        /\ disk["index"].trans # None => \A i \in DOMAIN disk["index"].trans : disk["index"].trans[i] = NoId

AllNamed ==
    setting.excludeHead =>
        /\ trusted => Len(mem.trans) = Len(mem.vec)
        /\ promise["index"].sound =>
            disk["index"].trans # None /\ Len(disk["index"].trans) = Len(disk["index"].head.vec)

BufferNamed == promise["buffer"].sound => ~setting.excludeHead /\ (promise["buffer"].logged => setting.wal)

HeadsNamed == NoneNamed /\ AllNamed /\ BufferNamed

\* Of an index that was loaded from files that do not belong together nothing
\* is known.
Untrusted == ~trusted => sure = {} /\ gone = {} /\ \A c \in Clients : op[c].kind # "delete"

SavesInv == SaveBreaks /\ SaveQuiet /\ SaveWritten /\ FilesInv /\ RefineWritten /\ BlocksInv /\ HeadsNamed /\ Untrusted

-----------------------------------------------------------------------------

(***************************************************************************)
(* Ranks and the numbering of a compaction                                 *)
(***************************************************************************)

Preds(S, R, x) == {y \in S : <<y, x>> \in R}

StrictOrder(S, R) ==
    /\ \A x \in S : <<x, x>> \notin R
    /\ \A x, y, z \in S : <<x, y>> \in R /\ <<y, z>> \in R => <<x, z>> \in R
    /\ \A x, y \in S : x = y \/ <<x, y>> \in R \/ <<y, x>> \in R

\* In a finite ordered set a later member has more members before it.
LEMMA LaterHasMore ==
    ASSUME NEW S, IsFiniteSet(S), NEW R, StrictOrder(S, R), NEW x \in S, NEW y \in S, <<x, y>> \in R
    PROVE  /\ Cardinality(Preds(S, R, x)) \in Nat /\ Cardinality(Preds(S, R, y)) \in Nat
           /\ Cardinality(Preds(S, R, x)) < Cardinality(Preds(S, R, y))
<1> DEFINE P == Preds(S, R, x)
           Q == Preds(S, R, y)
<1>1. P \subseteq S /\ Q \subseteq S /\ P \cup {x} \subseteq Q /\ x \notin P
  BY DEF Preds, StrictOrder
<1>2. IsFiniteSet(P) /\ IsFiniteSet(Q)
  BY <1>1, FS_Subset
<1>3. Cardinality(P) \in Nat /\ Cardinality(Q) \in Nat
  BY <1>2, FS_CardinalityType
<1>4. Cardinality(P \cup {x}) = Cardinality(P) + 1
  BY <1>1, <1>2, FS_AddElement
<1>5. Cardinality(P \cup {x}) <= Cardinality(Q)
  BY <1>1, <1>2, FS_Subset
<1> QED
  BY <1>3, <1>4, <1>5

\* Every number below the cardinality is the rank of one member.
OneEach(S, R) ==
    /\ \A x \in S : Cardinality(Preds(S, R, x)) \in 0..(Cardinality(S) - 1)
    /\ \A x, y \in S : Cardinality(Preds(S, R, x)) = Cardinality(Preds(S, R, y)) => x = y
    /\ \A k \in 0..(Cardinality(S) - 1) : \E x \in S : Cardinality(Preds(S, R, x)) = k

LEMMA Ranks ==
    ASSUME NEW S, IsFiniteSet(S), NEW R, StrictOrder(S, R)
    PROVE  OneEach(S, R)
<1> DEFINE n == Cardinality(S)
           f == [x \in S |-> Cardinality(Preds(S, R, x))]
<1>0. n \in Nat
  BY FS_CardinalityType
<1>1. ASSUME NEW x \in S
      PROVE  Cardinality(Preds(S, R, x)) \in 0..(n - 1)
  <2>1. Preds(S, R, x) \subseteq S \ {x}
    BY DEF Preds, StrictOrder
  <2>2. IsFiniteSet(S \ {x}) /\ Cardinality(S \ {x}) = n - 1
    BY FS_RemoveElement
  <2>3. IsFiniteSet(Preds(S, R, x)) /\ Cardinality(Preds(S, R, x)) <= n - 1
    BY <2>1, <2>2, FS_Subset
  <2>4. Cardinality(Preds(S, R, x)) \in Nat
    BY <2>3, FS_CardinalityType
  <2> QED
    BY <2>3, <2>4, <1>0
<1>2. ASSUME NEW x \in S, NEW y \in S, Cardinality(Preds(S, R, x)) = Cardinality(Preds(S, R, y)), x # y
      PROVE  FALSE
  <2>1. <<x, y>> \in R \/ <<y, x>> \in R
    BY <1>2 DEF StrictOrder
  <2>2. CASE <<x, y>> \in R
    BY <2>2, <1>2, LaterHasMore
  <2>3. CASE <<y, x>> \in R
    BY <2>3, <1>2, LaterHasMore
  <2> QED
    BY <2>1, <2>2, <2>3
<1>3. f \in Injection(S, 0..(n - 1))
  BY <1>1, <1>2 DEF Injection, IsInjective
<1>4. IsFiniteSet(0..(n - 1)) /\ Cardinality(0..(n - 1)) = n
  BY <1>0, FS_Interval
<1>5. f \in Surjection(S, 0..(n - 1))
  BY <1>3, <1>4, FS_Injection
<1>6. \A k \in 0..(n - 1) : \E x \in S : f[x] = k
  BY <1>5 DEF Surjection
<1> QED
  BY <1>1, <1>2, <1>6 DEF OneEach

\* The members of a finite ordered set, one after the other.
Lists(S, R, f) ==
    /\ Cardinality(S) \in Nat
    /\ f \in [1..Cardinality(S) -> S]
    /\ \A x \in S : \E i \in 1..Cardinality(S) : f[i] = x
    /\ \A i, j \in 1..Cardinality(S) : i < j => <<f[i], f[j]>> \in R

LEMMA RankLists ==
    ASSUME NEW S, IsFiniteSet(S), NEW R, StrictOrder(S, R), NEW f,
           f = [i \in 1..Cardinality(S) |-> f[i]],
           \A i \in 1..Cardinality(S) :
                (\E x \in S : Cardinality(Preds(S, R, x)) = i - 1) => f[i] \in S /\ Cardinality(Preds(S, R, f[i])) = i - 1
    PROVE  Lists(S, R, f)
<1> DEFINE n == Cardinality(S)
           Rank(x) == Cardinality(Preds(S, R, x))
<1>0. n \in Nat
  BY FS_CardinalityType
<1>1. /\ \A x \in S : Rank(x) \in 0..(n - 1)
      /\ \A x, y \in S : Rank(x) = Rank(y) => x = y
      /\ \A k \in 0..(n - 1) : \E x \in S : Rank(x) = k
  BY Ranks DEF OneEach
<1>2. \A x, y \in S : <<x, y>> \in R => Rank(x) < Rank(y)
  BY LaterHasMore
<1>3. \A i \in 1..n : (\E x \in S : Rank(x) = i - 1) => f[i] \in S /\ Rank(f[i]) = i - 1
  OBVIOUS
<1> HIDE DEF Rank
<1>4. \A i \in 1..n : f[i] \in S /\ Rank(f[i]) = i - 1
  <2> TAKE i \in 1..n
  <2>1. i - 1 \in 0..(n - 1)
    BY <1>0
  <2>2. \E x \in S : Rank(x) = i - 1
    BY <2>1, <1>1
  <2> QED
    BY <2>2, <1>3
<1>5. \A x \in S : \E i \in 1..n : f[i] = x
  <2> TAKE x \in S
  <2>1. Rank(x) + 1 \in 1..n
    BY <1>0, <1>1
  <2>2. Rank(f[Rank(x) + 1]) = Rank(x) /\ f[Rank(x) + 1] \in S
    BY <2>1, <1>1, <1>4
  <2> QED
    BY <2>1, <2>2, <1>1
<1>6. \A i, j \in 1..n : i < j => <<f[i], f[j]>> \in R
  <2> TAKE i, j \in 1..n
  <2> HAVE i < j
  <2>1. f[i] \in S /\ f[j] \in S /\ Rank(f[i]) = i - 1 /\ Rank(f[j]) = j - 1 /\ i \in Int /\ j \in Int
    BY <1>0, <1>4
  <2>2. f[i] # f[j] /\ <<f[j], f[i]>> \notin R
    <3>1. <<f[j], f[i]>> \in R => Rank(f[j]) < Rank(f[i])
      BY <2>1, <1>2
    <3> QED
      BY <2>1, <3>1
  <2> QED
    BY <2>1, <2>2 DEF StrictOrder
<1> QED
  BY <1>0, <1>4, <1>5, <1>6 DEF Lists

Ascending(S) == {p \in S \X S : p[1] < p[2]}
Descending(S) == {p \in S \X S : p[1] > p[2]}

LEMMA IntegerOrders ==
    ASSUME NEW S \in SUBSET Int
    PROVE  /\ StrictOrder(S, Ascending(S)) /\ StrictOrder(S, Descending(S))
           /\ \A x \in S : Preds(S, Ascending(S), x) = {y \in S : y < x}
           /\ \A x \in S : Preds(S, Descending(S), x) = {y \in S : y > x}
<1>1. \A x, y \in S : (<<x, y>> \in Ascending(S) <=> x < y) /\ (<<x, y>> \in Descending(S) <=> x > y)
  BY DEF Ascending, Descending
<1>2. StrictOrder(S, Ascending(S))
  BY <1>1 DEF StrictOrder
<1>3. StrictOrder(S, Descending(S))
  BY <1>1 DEF StrictOrder
<1> QED
  BY <1>1, <1>2, <1>3 DEF Preds

\* The members of a finite set of integers in ascending order.
InAscent(S) == [i \in 1..Cardinality(S) |-> CHOOSE x \in S : Cardinality({y \in S : y < x}) = i - 1]

LEMMA AscentLists ==
    ASSUME NEW S \in SUBSET Int, IsFiniteSet(S)
    PROVE  /\ Cardinality(S) \in Nat
           /\ InAscent(S) \in [1..Cardinality(S) -> S]
           /\ \A x \in S : \E i \in 1..Cardinality(S) : InAscent(S)[i] = x
           /\ \A i, j \in 1..Cardinality(S) : i < j => InAscent(S)[i] < InAscent(S)[j]
<1> DEFINE R == Ascending(S)
           n == Cardinality(S)
           Rank(x) == Cardinality({y \in S : y < x})
<1>1. StrictOrder(S, R) /\ \A x \in S : Cardinality(Preds(S, R, x)) = Rank(x)
  BY IntegerOrders
<1>2. InAscent(S) = [i \in 1..n |-> CHOOSE x \in S : Rank(x) = i - 1]
  BY DEF InAscent
<1>a. \A x, y : <<x, y>> \in R => x < y
  BY DEF Ascending
<1> HIDE DEF R, Rank
<1>3. Lists(S, R, InAscent(S))
  <2>1. ASSUME NEW i \in 1..n, \E x \in S : Cardinality(Preds(S, R, x)) = i - 1
        PROVE  InAscent(S)[i] \in S /\ Cardinality(Preds(S, R, InAscent(S)[i])) = i - 1
    <3>1. \E x \in S : Rank(x) = i - 1
      BY <2>1, <1>1
    <3>2. InAscent(S)[i] \in S /\ Rank(InAscent(S)[i]) = i - 1
      BY <3>1, <1>2
    <3> QED
      BY <3>2, <1>1
  <2>2. InAscent(S) = [i \in 1..n |-> InAscent(S)[i]]
    BY <1>2
  <2> HIDE DEF n
  <2> QED
    BY <2>1, <2>2, <1>1, RankLists DEF n
<1> QED
  BY <1>3, <1>a DEF Lists

LEMMA Segments ==
    ASSUME NEW k \in Nat, NEW S \in SUBSET Nat
    PROVE  /\ IsFiniteSet(0..(k - 1)) /\ Cardinality(0..(k - 1)) = k
           /\ (0..(k - 1)) \cap S = {x \in S : x < k}
           /\ (0..(k - 1)) \ S = {j \in 0..(k - 1) : j \notin S}
           /\ S \cap {x \in S : x < k} = {x \in S : x < k}
           /\ S \ {x \in S : x < k} = {x \in S : x >= k}
<1>1. 0 \in Int /\ k - 1 \in Int /\ (k - 1) - 0 + 1 = k /\ (0 > k - 1 => k = 0)
  OBVIOUS
<1>2. IsFiniteSet(0..(k - 1)) /\ Cardinality(0..(k - 1)) = IF 0 > k - 1 THEN 0 ELSE (k - 1) - 0 + 1
  BY <1>1, FS_Interval
<1>0. \A x \in S : x \in Int /\ 0 <= x
  OBVIOUS
<1>3. (0..(k - 1)) \cap S = {x \in S : x < k}
  <2>1. ASSUME NEW x \in S PROVE x \in 0..(k - 1) <=> x < k
    BY <1>0
  <2> QED
    BY <2>1
<1>4. S \ {x \in S : x < k} = {x \in S : x >= k}
  <2>1. ASSUME NEW x \in S PROVE ~(x < k) <=> x >= k
    BY <1>0
  <2> QED
    BY <2>1
<1> QED
  BY <1>1, <1>2, <1>3, <1>4

\* Compacting lists the members once each, and moves none that has a place.
LEMMA CompactLists ==
    ASSUME NEW n \in Nat, NEW keep \in SUBSET (0..(n - 1))
    PROVE  /\ IsFiniteSet(keep) /\ Cardinality(keep) \in 0..n
           /\ Compact(n, keep) \in [1..Cardinality(keep) -> keep]
           /\ \A i \in 1..Cardinality(keep) : i - 1 \in keep => Compact(n, keep)[i] = i - 1
           /\ \A i, j \in 1..Cardinality(keep) : Compact(n, keep)[i] = Compact(n, keep)[j] => i = j
           /\ \A x \in keep : \E i \in 1..Cardinality(keep) : Compact(n, keep)[i] = x
<1> DEFINE k == Cardinality(keep)
           low == {x \in keep : x < k}
           tail == {x \in keep : x >= k}
           Holes(i) == {j \in 0..(i - 1) : j \notin keep}
           Hole(i) == Cardinality(Holes(i))
           Rank(x) == Cardinality({y \in tail : y > x})
           c == Compact(n, keep)
           R == Descending(tail)
<1>1. IsFiniteSet(keep) /\ k \in 0..n
  <2>1. IsFiniteSet(0..(n - 1)) /\ Cardinality(0..(n - 1)) = n
    BY FS_Interval
  <2>2. IsFiniteSet(keep) /\ k <= n
    BY <2>1, FS_Subset
  <2> QED
    BY <2>2, FS_CardinalityType
<1>2. tail \in SUBSET Int /\ IsFiniteSet(tail) /\ Cardinality(tail) \in Nat
  <2>1. tail \subseteq keep /\ keep \subseteq Int
    OBVIOUS
  <2> HIDE DEF tail
  <2>2. IsFiniteSet(tail)
    BY <2>1, <1>1, FS_Subset
  <2> QED
    BY <2>1, <2>2, FS_CardinalityType
<1>3. Cardinality(tail) = Hole(k)
  <2> DEFINE all == 0..(k - 1)
  <2>0. k \in Nat /\ keep \in SUBSET Nat
    BY <1>1
  <2>1. IsFiniteSet(all) /\ Cardinality(all) = k
    BY <2>0, Segments
  <2>2. all \cap keep = low /\ all \ keep = Holes(k)
    BY <2>0, Segments
  <2>3. Cardinality(all \ keep) = Cardinality(all) - Cardinality(all \cap keep)
    BY <2>1, FS_Difference
  <2>4. keep \cap low = low /\ keep \ low = tail
    BY <2>0, Segments
  <2>5. Cardinality(keep \ low) = Cardinality(keep) - Cardinality(keep \cap low)
    BY <1>1, FS_Difference
  <2>6. IsFiniteSet(low)
    BY <1>1, FS_Subset
  <2>7. Cardinality(low) \in Nat
    BY <2>6, FS_CardinalityType
  <2> HIDE DEF low, tail, Holes, all
  <2> QED
    BY <1>1, <2>1, <2>2, <2>3, <2>4, <2>5, <2>7
<1>4. \A i, j \in 0..k : i < j /\ i \notin keep => Hole(i) < Hole(j) /\ Hole(i) \in Nat
  <2> TAKE i, j \in 0..k
  <2> HAVE i < j /\ i \notin keep
  <2>1. i \in Int /\ j \in Int /\ 0 <= i
    BY <1>1
  <2>2. IsFiniteSet(0..(j - 1)) /\ IsFiniteSet(0..(i - 1))
    <3>1. j - 1 \in Int /\ i - 1 \in Int /\ 0 \in Int
      BY <2>1
    <3> QED
      BY <3>1, FS_Interval
  <2>3. IsFiniteSet(Holes(j)) /\ IsFiniteSet(Holes(i))
    BY <2>2, FS_Subset
  <2>4. Holes(i) \cup {i} \subseteq Holes(j) /\ i \notin Holes(i)
    BY <2>1
  <2> HIDE DEF Holes
  <2>5. Cardinality(Holes(i) \cup {i}) = Hole(i) + 1
    BY <2>3, <2>4, FS_AddElement
  <2>6. Cardinality(Holes(i) \cup {i}) <= Hole(j)
    BY <2>3, <2>4, FS_Subset
  <2>7. Hole(i) \in Nat /\ Hole(j) \in Nat
    BY <2>3, FS_CardinalityType
  <2> QED
    BY <2>5, <2>6, <2>7
<1>5. /\ \A x, y \in tail : Rank(x) = Rank(y) => x = y
      /\ \A m \in 0..(Cardinality(tail) - 1) : \E x \in tail : Rank(x) = m
  <2>1. StrictOrder(tail, R) /\ \A x \in tail : Preds(tail, R, x) = {y \in tail : y > x}
    BY <1>2, IntegerOrders
  <2>2. OneEach(tail, R)
    BY <2>1, <1>2, Ranks
  <2>3. \A x \in tail : Cardinality(Preds(tail, R, x)) = Rank(x)
    BY <2>1
  <2> HIDE DEF tail, R, Rank
  <2> QED
    BY <2>2, <2>3 DEF OneEach
<1>6. c = [i \in 1..k |-> IF i - 1 \in keep THEN i - 1 ELSE CHOOSE x \in tail : Rank(x) = Hole(i - 1)]
  BY DEF Compact
<1> HIDE DEF tail, Rank, Hole, R, c
<1>7. \A i \in 1..k : i - 1 \notin keep => c[i] \in tail /\ Rank(c[i]) = Hole(i - 1)
  <2> TAKE i \in 1..k
  <2> HAVE i - 1 \notin keep
  <2>1. i - 1 \in 0..k /\ k \in 0..k /\ i - 1 < k
    BY <1>1
  <2>2. Hole(i - 1) < Hole(k) /\ Hole(i - 1) \in Nat
    BY <2>1, <1>4
  <2>3. Hole(i - 1) \in 0..(Cardinality(tail) - 1)
    BY <2>2, <1>2, <1>3
  <2>4. \E x \in tail : Rank(x) = Hole(i - 1)
    BY <2>3, <1>5
  <2>5. c[i] = CHOOSE x \in tail : Rank(x) = Hole(i - 1)
    BY <1>6
  <2> QED
    BY <2>4, <2>5
<1>8. \A i \in 1..k : i - 1 \in keep => c[i] = i - 1
  BY <1>6
<1>9. \A x \in tail : x \in keep /\ x >= k
  BY DEF tail
<1>10. c \in [1..k -> keep]
  <2>1. \A i \in 1..k : c[i] \in keep
    BY <1>7, <1>8, <1>9
  <2> QED
    BY <2>1, <1>6
<1>11. ASSUME NEW i \in 1..k, NEW j \in 1..k, i < j, i - 1 \notin keep, j - 1 \notin keep
       PROVE  c[i] # c[j]
  <2>1. i - 1 \in 0..k /\ j - 1 \in 0..k /\ i - 1 < j - 1
    BY <1>1, <1>11
  <2>2. Hole(i - 1) < Hole(j - 1) /\ Hole(i - 1) \in Nat
    BY <2>1, <1>4, <1>11
  <2>3. Rank(c[i]) = Hole(i - 1) /\ Rank(c[j]) = Hole(j - 1)
    BY <1>7, <1>11
  <2>4. Hole(i - 1) # Hole(j - 1)
    <3>1. \A a, b : a \in Nat /\ a < b => a # b
      OBVIOUS
    <3> QED
      BY <2>2, <3>1
  <2> QED
    BY <2>3, <2>4
<1>12. \A i, j \in 1..k : c[i] = c[j] => i = j
  <2> TAKE i, j \in 1..k
  <2> HAVE c[i] = c[j]
  <2>0. i \in Int /\ j \in Int /\ i - 1 < k /\ j - 1 < k
    BY <1>1
  <2>1. CASE i - 1 \in keep /\ j - 1 \in keep
    BY <2>0, <2>1, <1>8
  <2>2. CASE i - 1 \in keep /\ j - 1 \notin keep
    <3>1. c[i] = i - 1 /\ c[j] >= k /\ c[j] \in Int
      BY <2>2, <1>1, <1>7, <1>8, <1>9
    <3> QED
      BY <3>1, <2>0, <1>1
  <2>3. CASE i - 1 \notin keep /\ j - 1 \in keep
    <3>1. c[j] = j - 1 /\ c[i] >= k /\ c[i] \in Int
      BY <2>3, <1>1, <1>7, <1>8, <1>9
    <3> QED
      BY <3>1, <2>0, <1>1
  <2>4. CASE i - 1 \notin keep /\ j - 1 \notin keep
    BY <2>0, <2>4, <1>11
  <2> QED
    BY <2>1, <2>2, <2>3, <2>4
<1>13. \A x \in keep : \E i \in 1..k : c[i] = x
  <2>1. c \in Injection(1..k, keep)
    BY <1>10, <1>12 DEF Injection, IsInjective
  <2>2. Cardinality(1..k) = k
    BY <1>1, FS_Interval
  <2>3. c \in Surjection(1..k, keep)
    BY <2>1, <2>2, <1>1, FS_Injection
  <2> QED
    BY <2>3 DEF Surjection
<1> QED
  BY <1>1, <1>8, <1>10, <1>12, <1>13 DEF c

-----------------------------------------------------------------------------

(***************************************************************************)
(* What the operators of the model return                                  *)
(***************************************************************************)

LEMMA SettingFacts ==
    ASSUME setting \in Settings
    PROVE  /\ setting \in Setting
           /\ Cardinality(setting.built) \in 1..Names /\ IsFiniteSet(setting.built)
           /\ setting.built = 0..(Cardinality(setting.built) - 1)
           /\ setting.headsOf \subseteq setting.built /\ IsFiniteSet(setting.headsOf)
           /\ Cardinality(setting.headsOf) \in 1..MaxHeads
           /\ Cardinality(setting.headsOf) <= NumBlocks
           /\ Names \in Nat \ {0} /\ 0 \in Vectors
<1>1. /\ setting \in Setting
      /\ setting.headsOf # {} /\ setting.headsOf \subseteq setting.built
      /\ setting.built = 0..(Cardinality(setting.built) - 1)
      /\ Cardinality(setting.headsOf) <= MaxHeads /\ Cardinality(setting.headsOf) <= NumBlocks
  BY LifecycleSettings
<1>2. setting.built \subseteq 0..(Names - 1) /\ Names \in Nat /\ MaxHeads \in Nat
  BY <1>1, LifecycleBounds DEF Setting, Vectors
<1>3. IsFiniteSet(0..(Names - 1)) /\ Cardinality(0..(Names - 1)) = Names
  BY <1>2, Segments
<1>4. IsFiniteSet(setting.built) /\ Cardinality(setting.built) <= Names
  BY <1>2, <1>3, FS_Subset
<1>5. IsFiniteSet(setting.headsOf)
  BY <1>1, <1>4, FS_Subset
<1>6. Cardinality(setting.built) \in Nat /\ Cardinality(setting.headsOf) \in Nat
  BY <1>4, <1>5, FS_CardinalityType
<1>7. Cardinality(setting.built) # 0 /\ Cardinality(setting.headsOf) # 0
  BY <1>1, <1>4, <1>5, FS_EmptySet
<1> QED
  BY <1>1, <1>2, <1>4, <1>5, <1>6, <1>7 DEF Vectors

LEMMA HeadSeqLists ==
    ASSUME setting \in Settings
    PROVE  LET n == Cardinality(setting.headsOf) IN
           /\ HeadSeq \in [1..n -> setting.headsOf]
           /\ HeadSeq \in Seq(Vectors) /\ Len(HeadSeq) = n
           /\ \A v \in setting.headsOf : \E i \in 1..n : HeadSeq[i] = v
           /\ \A i, j \in 1..n : HeadSeq[i] = HeadSeq[j] => i = j
<1> DEFINE n == Cardinality(setting.headsOf)
<1>1. n \in Nat /\ setting.headsOf \in SUBSET Int /\ IsFiniteSet(setting.headsOf) /\ setting.headsOf \subseteq Vectors
  BY SettingFacts DEF Setting, Vectors
<1>2. HeadSeq = InAscent(setting.headsOf)
  BY DEF HeadSeq, Ranked, InAscent
<1>3. /\ HeadSeq \in [1..n -> setting.headsOf]
      /\ \A v \in setting.headsOf : \E i \in 1..n : HeadSeq[i] = v
      /\ \A i, j \in 1..n : i < j => HeadSeq[i] < HeadSeq[j]
  BY <1>1, <1>2, AscentLists
<1>4. \A i, j \in 1..n : HeadSeq[i] = HeadSeq[j] => i = j
  <2> TAKE i, j \in 1..n
  <2> HAVE HeadSeq[i] = HeadSeq[j]
  <2>1. HeadSeq[i] \in Int /\ i \in Int /\ j \in Int
    BY <1>1, <1>3
  <2>2. ~(i < j) /\ ~(j < i)
    BY <2>1, <1>3
  <2> QED
    BY <2>1, <2>2
<1>5. HeadSeq \in Seq(Vectors) /\ Len(HeadSeq) = n
  BY <1>1, <1>3
<1> QED
  BY <1>3, <1>4, <1>5

\* The lowest free block is a free block.
LEMMA NextBlockIsFree ==
    ASSUME NEW free \in SUBSET Blocks, free # {}
    PROVE  NextBlock(free) \in free
<1>1. free \in SUBSET Int /\ NumBlocks \in Nat
  BY LifecycleBounds DEF Blocks
<1>2. IsFiniteSet(free)
  <2>1. IsFiniteSet(Blocks)
    BY <1>1, Segments DEF Blocks
  <2> QED
    BY <2>1, FS_Subset
<1> DEFINE n == Cardinality(free)
           a == InAscent(free)
<1>3. /\ n \in Nat /\ a \in [1..n -> free]
      /\ \A x \in free : \E i \in 1..n : a[i] = x
      /\ \A i, j \in 1..n : i < j => a[i] < a[j]
  BY <1>1, <1>2, AscentLists
<1>4. n # 0
  BY <1>2, FS_EmptySet
<1> HIDE DEF n, a
<1>5. 1 \in 1..n /\ a[1] \in free
  BY <1>3, <1>4
<1>6. \A x \in free : a[1] <= x
  <2> TAKE x \in free
  <2>1. PICK i \in 1..n : a[i] = x
    BY <1>3
  <2>2. i = 1 \/ 1 < i
    BY <1>3
  <2>3. a[1] \in Int /\ x \in Int
    BY <1>1, <1>5
  <2> QED
    BY <1>3, <1>5, <2>1, <2>2, <2>3
<1> QED
  BY <1>5, <1>6 DEF NextBlock

\* A memory in which one posting is in another block, or in none.
PutAs(p, m, h, b) ==
    /\ p \in Memories
    /\ p.heads = m.heads /\ p.vec = m.vec /\ p.trans = m.trans /\ p.ver = m.ver /\ p.meta = m.meta
    /\ p.map = [m.map EXCEPT ![h] = b]
    /\ p.free = m.free \ {b}
    /\ p.reserve = m.reserve \cup Released(m, h)

LEMMA PutEffect ==
    ASSUME NEW m \in Memories, NEW h \in HeadIds, NEW b \in Blocks
    PROVE  PutAs(PutPosting(m, h, b), m, h, b)
<1>1. m.map \in Mappings /\ m.map[h] \in Blocks \cup {NoBlock} /\ m.free \subseteq Blocks /\ m.reserve \subseteq Blocks
  BY DEF Memories, Mappings
<1>2. Released(m, h) \subseteq Blocks
  BY <1>1 DEF Released
<1>3. [m.map EXCEPT ![h] = b] \in Mappings
  BY <1>1 DEF Mappings
<1> QED
  BY <1>1, <1>2, <1>3 DEF PutPosting, Memories, PutAs

DropAs(p, m, h) ==
    /\ p \in Memories
    /\ p.heads = m.heads /\ p.vec = m.vec /\ p.trans = m.trans /\ p.ver = m.ver /\ p.meta = m.meta
    /\ p.map = [m.map EXCEPT ![h] = NoBlock]
    /\ p.free = m.free
    /\ p.reserve = m.reserve \cup Released(m, h)

LEMMA DropEffect ==
    ASSUME NEW m \in Memories, NEW h \in HeadIds
    PROVE  DropAs(DeletePosting(m, h), m, h)
<1>1. m.map \in Mappings /\ m.map[h] \in Blocks \cup {NoBlock} /\ m.reserve \subseteq Blocks
  BY DEF Memories, Mappings
<1>2. Released(m, h) \subseteq Blocks
  BY <1>1 DEF Released
<1>3. [m.map EXCEPT ![h] = NoBlock] \in Mappings
  BY <1>1 DEF Mappings
<1> QED
  BY <1>1, <1>2, <1>3 DEF DeletePosting, Memories, DropAs

\* A memory with one more head.
NewHeadAs(p, m, e, b) ==
    LET h == Len(m.vec) IN
    /\ p \in Memories /\ HeadsOK(p) /\ h \in HeadIds
    /\ p.heads = m.heads \cup {h}
    /\ p.vec = Append(m.vec, e[2])
    /\ p.trans = Append(m.trans, IF setting.excludeHead THEN e[1] ELSE NoId)
    /\ p.ver = m.ver /\ p.meta = m.meta
    /\ p.map = [m.map EXCEPT ![h] = b]
    /\ p.free = m.free \ {b}
    /\ p.reserve = m.reserve \cup Released(m, h)

LEMMA NewHeadEffect ==
    ASSUME NEW m \in Memories, HeadsOK(m), Len(m.vec) < MaxHeads, NEW e \in Ids \X Vectors, NEW b \in Blocks
    PROVE  NewHeadAs(NewHead(m, e, b), m, e, b)
<1> DEFINE h == Len(m.vec)
           q == PutPosting(m, h, b)
           t == IF setting.excludeHead THEN e[1] ELSE NoId
<1>0. m.vec \in Seq(Vectors) /\ m.trans \in Seq(Ids \cup {NoId}) /\ m.heads \subseteq HeadIds
  BY DEF Memories, Translations
<1>1. h \in Nat /\ h \in HeadIds
  BY <1>0, LifecycleBounds DEF HeadIds
<1>2. /\ q \in Memories
      /\ q.heads = m.heads /\ q.vec = m.vec /\ q.trans = m.trans /\ q.ver = m.ver /\ q.meta = m.meta
      /\ q.map = [m.map EXCEPT ![h] = b] /\ q.free = m.free \ {b}
      /\ q.reserve = m.reserve \cup Released(m, h)
  BY <1>1, PutEffect DEF PutAs
<1>3. /\ Append(m.vec, e[2]) \in Seq(Vectors) /\ Len(Append(m.vec, e[2])) = h + 1
      /\ t \in Ids \cup {NoId} /\ Append(m.trans, t) \in Translations
  BY <1>0 DEF Translations
<1>4. m.heads \cup {h} \in SUBSET HeadIds /\ m.heads \cup {h} \subseteq 0..h
  BY <1>0, <1>1 DEF HeadsOK
<1>5. NewHead(m, e, b) = [q EXCEPT !.heads = m.heads \cup {h}, !.vec = Append(m.vec, e[2]), !.trans = Append(m.trans, t)]
  BY <1>2 DEF NewHead, NumHeads
<1> HIDE DEF q, t
<1>6. LET p == NewHead(m, e, b) IN
      /\ p \in Memories
      /\ p.heads = m.heads \cup {h} /\ p.vec = Append(m.vec, e[2]) /\ p.trans = Append(m.trans, t)
      /\ p.ver = q.ver /\ p.meta = q.meta /\ p.map = q.map /\ p.free = q.free /\ p.reserve = q.reserve
  BY <1>2, <1>3, <1>4, <1>5 DEF Memories
<1>7. HeadsOK(NewHead(m, e, b))
  BY <1>1, <1>3, <1>4, <1>6, LifecycleBounds DEF HeadsOK
<1> QED
  BY <1>1, <1>2, <1>6, <1>7 DEF t, NewHeadAs

LEMMA PostingType ==
    ASSUME NEW m \in Memories, NEW h \in HeadIds, blocks \in Postings
    PROVE  /\ Posting(m, h) \subseteq Ids \X Vectors
           /\ m.map[h] = NoBlock \/ m.map[h] \in Blocks
  BY DEF Memories, Mappings, Postings, Posting

\* Writing entries to a block.
LEMMA WriteType ==
    ASSUME blocks \in Postings, NEW b \in Blocks, NEW es \in SUBSET (Ids \X Vectors)
    PROVE  [blocks EXCEPT ![b] = es] \in Postings
  BY DEF Postings

LEMMA HeadFileType ==
    ASSUME NEW m \in Memories, HeadsOK(m)
    PROVE  /\ HeadFile(m) \in HeadFiles /\ HeadsOK(HeadFile(m))
           /\ [heads |-> m.heads, vec |-> m.vec] \in HeadFiles /\ HeadsOK([heads |-> m.heads, vec |-> m.vec])
<1> DEFINE n == NumHeads(m)
           c == Compact(n, m.heads)
           k == Cardinality(m.heads)
           f == [heads |-> 0..(Len(c) - 1), vec |-> [i \in 1..Len(c) |-> m.vec[c[i] + 1]]]
<1>0. m.vec \in Seq(Vectors) /\ m.heads \subseteq HeadIds /\ n \in Nat /\ m.heads \in SUBSET (0..(n - 1)) /\ n <= MaxHeads
  BY DEF Memories, HeadsOK, NumHeads
<1>1. k \in 0..n /\ c \in [1..k -> m.heads]
  BY <1>0, CompactLists
<1>2. Len(c) = k
  BY <1>0, <1>1
<1>3. \A i \in 1..k : c[i] + 1 \in 1..n
  <2> TAKE i \in 1..k
  <2>1. c[i] \in 0..(n - 1)
    BY <1>0, <1>1
  <2> QED
    BY <2>1, <1>0
<1>4. \A i \in 1..k : m.vec[c[i] + 1] \in Vectors
  BY <1>0, <1>3 DEF NumHeads
<1> HIDE DEF c
<1>5. f.vec \in Seq(Vectors) /\ Len(f.vec) = k
  BY <1>0, <1>1, <1>2, <1>4
<1>6. f.heads \in SUBSET HeadIds
  BY <1>0, <1>1, <1>2, LifecycleBounds DEF HeadIds
<1>7. f \in HeadFiles /\ HeadsOK(f)
  BY <1>0, <1>1, <1>2, <1>5, <1>6, LifecycleBounds DEF HeadFiles, HeadsOK
<1>8. [heads |-> m.heads, vec |-> m.vec] \in HeadFiles /\ HeadsOK([heads |-> m.heads, vec |-> m.vec])
  BY <1>0 DEF HeadFiles, HeadsOK
<1> QED
  BY <1>7, <1>8 DEF HeadFile, c

-----------------------------------------------------------------------------

(***************************************************************************)
(* The steps of the plans                                                  *)
(***************************************************************************)

\* Every plan by its first step.
LEMMA PlanHeads ==
    ASSUME NEW p, p # <<>>
    PROVE  /\ p \in SavePlans \cup {RefinePlan} =>
              \/ Head(p) = "open" /\ p = <<"open", "meta", "head", "trans", "ver", "map", "pool", "clear">>
              \/ Head(p) = "meta" /\ p = <<"meta", "head", "trans", "ver", "map", "pool", "clear">>
              \/ Head(p) = "head" /\ p = <<"head", "trans", "ver", "map", "pool", "clear">>
              \/ Head(p) = "trans" /\ p = <<"trans", "ver", "map", "pool", "clear">>
              \/ Head(p) = "ver" /\ p = <<"ver", "map", "pool", "clear">>
              \/ Head(p) = "map" /\ p = <<"map", "pool", "clear">>
              \/ Head(p) = "pool" /\ p = <<"pool", "clear">>
              \/ Head(p) = "clear" /\ p = <<"clear">>
              \/ Head(p) = "refine" /\ p = <<"refine", "rewrite", "map", "pool", "reload">>
           /\ p \in CheckpointPlans =>
              \/ Head(p) = "ver" /\ p = <<"ver", "map", "pool", "clear", "saveHead">>
              \/ Head(p) = "map" /\ p = <<"map", "pool", "clear", "saveHead">>
              \/ Head(p) = "pool" /\ p = <<"pool", "clear", "saveHead">>
              \/ Head(p) = "clear" /\ p = <<"clear", "saveHead">>
              \/ Head(p) = "saveHead" /\ p = <<"saveHead">>
           /\ p \in RewritePlans \cup MergedPlans =>
              \/ Head(p) = "rewrite" /\ p = <<"rewrite", "map", "pool", "reload">>
              \/ Head(p) = "map" /\ p = <<"map", "pool", "reload">>
              \/ Head(p) = "pool" /\ p = <<"pool", "reload">>
              \/ Head(p) = "reload" /\ p = <<"reload">>
              \/ Head(p) = "ver" /\ p = <<"ver", "map", "pool", "clear", "saveHead", "trans">>
              \/ Head(p) = "map" /\ p = <<"map", "pool", "clear", "saveHead", "trans">>
              \/ Head(p) = "pool" /\ p = <<"pool", "clear", "saveHead", "trans">>
              \/ Head(p) = "clear" /\ p = <<"clear", "saveHead", "trans">>
              \/ Head(p) = "saveHead" /\ p = <<"saveHead", "trans">>
              \/ Head(p) = "trans" /\ p = <<"trans">>
<1>1. Head(<<"open", "meta", "head", "trans", "ver", "map", "pool", "clear">>) = "open"
  OBVIOUS
<1>2. Head(<<"meta", "head", "trans", "ver", "map", "pool", "clear">>) = "meta"
  OBVIOUS
<1>3. Head(<<"head", "trans", "ver", "map", "pool", "clear">>) = "head"
  OBVIOUS
<1>4. Head(<<"ver", "map", "pool", "clear", "saveHead", "trans">>) = "ver"
  OBVIOUS
<1>5. Head(<<"map", "pool", "clear", "saveHead", "trans">>) = "map"
  OBVIOUS
<1>6. Head(<<"refine", "rewrite", "map", "pool", "reload">>) = "refine"
  OBVIOUS
<1>7. Head(<<"trans", "ver", "map", "pool", "clear">>) = "trans"
  OBVIOUS
<1>8. Head(<<"ver", "map", "pool", "clear", "saveHead">>) = "ver"
  OBVIOUS
<1>9. Head(<<"map", "pool", "clear", "saveHead">>) = "map"
  OBVIOUS
<1>10. Head(<<"pool", "clear", "saveHead", "trans">>) = "pool"
  OBVIOUS
<1>11. Head(<<"rewrite", "map", "pool", "reload">>) = "rewrite"
  OBVIOUS
<1>12. Head(<<"ver", "map", "pool", "clear">>) = "ver"
  OBVIOUS
<1>13. Head(<<"clear", "saveHead", "trans">>) = "clear"
  OBVIOUS
<1>14. Head(<<"map", "pool", "clear">>) = "map"
  OBVIOUS
<1>15. Head(<<"map", "pool", "reload">>) = "map"
  OBVIOUS
<1>16. Head(<<"pool", "clear", "saveHead">>) = "pool"
  OBVIOUS
<1>17. Head(<<"clear", "saveHead">>) = "clear"
  OBVIOUS
<1>18. Head(<<"pool", "clear">>) = "pool"
  OBVIOUS
<1>19. Head(<<"pool", "reload">>) = "pool"
  OBVIOUS
<1>20. Head(<<"saveHead", "trans">>) = "saveHead"
  OBVIOUS
<1>21. Head(<<"clear">>) = "clear"
  OBVIOUS
<1>22. Head(<<"reload">>) = "reload"
  OBVIOUS
<1>23. Head(<<"saveHead">>) = "saveHead"
  OBVIOUS
<1>24. Head(<<"trans">>) = "trans"
  OBVIOUS
<1> QED
  BY <1>1, <1>2, <1>3, <1>4, <1>5, <1>6, <1>7, <1>8, <1>9, <1>10, <1>11, <1>12, <1>13, <1>14, <1>15, <1>16, <1>17, <1>18, <1>19, <1>20, <1>21, <1>22, <1>23, <1>24
     DEF SavePlans, CheckpointPlans, RewritePlans, MergedPlans, SavePlan, CheckpointPlan, MergedPlan, RefinePlan

LEMMA AtOpen ==
    ASSUME SaverOK, AtStep("open")
    PROVE  /\ saver.plan # <<>>
           /\ saver.kind = "save" /\ Left = {"open", "meta", "head", "trans", "ver", "map", "pool", "clear"}
           /\ Tail(saver.plan) = <<"meta", "head", "trans", "ver", "map", "pool", "clear">>
           /\ LeftOf(Tail(saver.plan)) = {"meta", "head", "trans", "ver", "map", "pool", "clear"}
<1>1. Saving /\ saver.plan # <<>> /\ Head(saver.plan) = "open"
  BY DEF AtStep, Saving
<1>2. saver.kind = "save" /\ saver.plan = <<"open", "meta", "head", "trans", "ver", "map", "pool", "clear">>
  BY <1>1, PlanHeads DEF SaverOK, PlanOK, Saving
<1>3. /\ LeftOf(<<"open", "meta", "head", "trans", "ver", "map", "pool", "clear">>) = {"open", "meta", "head", "trans", "ver", "map", "pool", "clear"}
      /\ LeftOf(<<"meta", "head", "trans", "ver", "map", "pool", "clear">>) = {"meta", "head", "trans", "ver", "map", "pool", "clear"}
      /\ Tail(<<"open", "meta", "head", "trans", "ver", "map", "pool", "clear">>) = <<"meta", "head", "trans", "ver", "map", "pool", "clear">>
  BY DEF LeftOf
<1> QED
  BY <1>1, <1>2, <1>3 DEF Left

LEMMA AtMeta ==
    ASSUME SaverOK, AtStep("meta")
    PROVE  /\ saver.plan # <<>>
           /\ saver.kind = "save" /\ Left = {"meta", "head", "trans", "ver", "map", "pool", "clear"}
           /\ Tail(saver.plan) = <<"head", "trans", "ver", "map", "pool", "clear">>
           /\ LeftOf(Tail(saver.plan)) = {"head", "trans", "ver", "map", "pool", "clear"}
<1>1. Saving /\ saver.plan # <<>> /\ Head(saver.plan) = "meta"
  BY DEF AtStep, Saving
<1>2. saver.kind = "save" /\ saver.plan = <<"meta", "head", "trans", "ver", "map", "pool", "clear">>
  BY <1>1, PlanHeads DEF SaverOK, PlanOK, Saving
<1>3. /\ LeftOf(<<"meta", "head", "trans", "ver", "map", "pool", "clear">>) = {"meta", "head", "trans", "ver", "map", "pool", "clear"}
      /\ LeftOf(<<"head", "trans", "ver", "map", "pool", "clear">>) = {"head", "trans", "ver", "map", "pool", "clear"}
      /\ Tail(<<"meta", "head", "trans", "ver", "map", "pool", "clear">>) = <<"head", "trans", "ver", "map", "pool", "clear">>
  BY DEF LeftOf
<1> QED
  BY <1>1, <1>2, <1>3 DEF Left

LEMMA AtHead ==
    ASSUME SaverOK, AtStep("head")
    PROVE  /\ saver.plan # <<>>
           /\ saver.kind = "save" /\ Left = {"head", "trans", "ver", "map", "pool", "clear"}
           /\ Tail(saver.plan) = <<"trans", "ver", "map", "pool", "clear">>
           /\ LeftOf(Tail(saver.plan)) = {"trans", "ver", "map", "pool", "clear"}
<1>1. Saving /\ saver.plan # <<>> /\ Head(saver.plan) = "head"
  BY DEF AtStep, Saving
<1>2. saver.kind = "save" /\ saver.plan = <<"head", "trans", "ver", "map", "pool", "clear">>
  BY <1>1, PlanHeads DEF SaverOK, PlanOK, Saving
<1>3. /\ LeftOf(<<"head", "trans", "ver", "map", "pool", "clear">>) = {"head", "trans", "ver", "map", "pool", "clear"}
      /\ LeftOf(<<"trans", "ver", "map", "pool", "clear">>) = {"trans", "ver", "map", "pool", "clear"}
      /\ Tail(<<"head", "trans", "ver", "map", "pool", "clear">>) = <<"trans", "ver", "map", "pool", "clear">>
  BY DEF LeftOf
<1> QED
  BY <1>1, <1>2, <1>3 DEF Left

LEMMA AtSaveHead ==
    ASSUME SaverOK, AtStep("saveHead")
    PROVE  \/ /\ saver.kind = "checkpoint" /\ Left = {"saveHead"}
              /\ Tail(saver.plan) = <<>>
              /\ LeftOf(Tail(saver.plan)) = {}
           \/ /\ saver.kind = "refine" /\ Left = {"saveHead", "trans"}
              /\ Tail(saver.plan) = <<"trans">>
              /\ LeftOf(Tail(saver.plan)) = {"trans"}
<1>1. Saving /\ saver.plan # <<>> /\ Head(saver.plan) = "saveHead"
  BY DEF AtStep, Saving
<1>2. \/ saver.kind = "checkpoint" /\ saver.plan = <<"saveHead">>
      \/ saver.kind = "refine" /\ saver.plan = <<"saveHead", "trans">>
  BY <1>1, PlanHeads DEF SaverOK, PlanOK, Saving
<1>3. /\ LeftOf(<<"saveHead">>) = {"saveHead"}
      /\ LeftOf(<<>>) = {}
      /\ Tail(<<"saveHead">>) = <<>>
  BY DEF LeftOf
<1>4. /\ LeftOf(<<"saveHead", "trans">>) = {"saveHead", "trans"}
      /\ LeftOf(<<"trans">>) = {"trans"}
      /\ Tail(<<"saveHead", "trans">>) = <<"trans">>
  BY DEF LeftOf
<1> QED
  BY <1>1, <1>2, <1>3, <1>4 DEF Left

LEMMA AtTrans ==
    ASSUME SaverOK, AtStep("trans")
    PROVE  \/ /\ saver.kind = "save" /\ Left = {"trans", "ver", "map", "pool", "clear"}
              /\ Tail(saver.plan) = <<"ver", "map", "pool", "clear">>
              /\ LeftOf(Tail(saver.plan)) = {"ver", "map", "pool", "clear"}
           \/ /\ saver.kind = "refine" /\ Left = {"trans"}
              /\ Tail(saver.plan) = <<>>
              /\ LeftOf(Tail(saver.plan)) = {}
<1>1. Saving /\ saver.plan # <<>> /\ Head(saver.plan) = "trans"
  BY DEF AtStep, Saving
<1>2. \/ saver.kind = "save" /\ saver.plan = <<"trans", "ver", "map", "pool", "clear">>
      \/ saver.kind = "refine" /\ saver.plan = <<"trans">>
  BY <1>1, PlanHeads DEF SaverOK, PlanOK, Saving
<1>3. /\ LeftOf(<<"trans">>) = {"trans"}
      /\ LeftOf(<<>>) = {}
      /\ Tail(<<"trans">>) = <<>>
  BY DEF LeftOf
<1>4. /\ LeftOf(<<"trans", "ver", "map", "pool", "clear">>) = {"trans", "ver", "map", "pool", "clear"}
      /\ LeftOf(<<"ver", "map", "pool", "clear">>) = {"ver", "map", "pool", "clear"}
      /\ Tail(<<"trans", "ver", "map", "pool", "clear">>) = <<"ver", "map", "pool", "clear">>
  BY DEF LeftOf
<1> QED
  BY <1>1, <1>2, <1>3, <1>4 DEF Left

LEMMA AtVer ==
    ASSUME SaverOK, AtStep("ver")
    PROVE  \/ /\ saver.kind = "save" /\ Left = {"ver", "map", "pool", "clear"}
              /\ Tail(saver.plan) = <<"map", "pool", "clear">>
              /\ LeftOf(Tail(saver.plan)) = {"map", "pool", "clear"}
           \/ /\ saver.kind = "checkpoint" /\ Left = {"ver", "map", "pool", "clear", "saveHead"}
              /\ Tail(saver.plan) = <<"map", "pool", "clear", "saveHead">>
              /\ LeftOf(Tail(saver.plan)) = {"map", "pool", "clear", "saveHead"}
           \/ /\ saver.kind = "refine" /\ Left = {"ver", "map", "pool", "clear", "saveHead", "trans"}
              /\ Tail(saver.plan) = <<"map", "pool", "clear", "saveHead", "trans">>
              /\ LeftOf(Tail(saver.plan)) = {"map", "pool", "clear", "saveHead", "trans"}
<1>1. Saving /\ saver.plan # <<>> /\ Head(saver.plan) = "ver"
  BY DEF AtStep, Saving
<1>2. \/ saver.kind = "save" /\ saver.plan = <<"ver", "map", "pool", "clear">>
      \/ saver.kind = "checkpoint" /\ saver.plan = <<"ver", "map", "pool", "clear", "saveHead">>
      \/ saver.kind = "refine" /\ saver.plan = <<"ver", "map", "pool", "clear", "saveHead", "trans">>
  BY <1>1, PlanHeads DEF SaverOK, PlanOK, Saving
<1>3. /\ LeftOf(<<"ver", "map", "pool", "clear">>) = {"ver", "map", "pool", "clear"}
      /\ LeftOf(<<"map", "pool", "clear">>) = {"map", "pool", "clear"}
      /\ Tail(<<"ver", "map", "pool", "clear">>) = <<"map", "pool", "clear">>
  BY DEF LeftOf
<1>4. /\ LeftOf(<<"ver", "map", "pool", "clear", "saveHead">>) = {"ver", "map", "pool", "clear", "saveHead"}
      /\ LeftOf(<<"map", "pool", "clear", "saveHead">>) = {"map", "pool", "clear", "saveHead"}
      /\ Tail(<<"ver", "map", "pool", "clear", "saveHead">>) = <<"map", "pool", "clear", "saveHead">>
  BY DEF LeftOf
<1>5. /\ LeftOf(<<"ver", "map", "pool", "clear", "saveHead", "trans">>) = {"ver", "map", "pool", "clear", "saveHead", "trans"}
      /\ LeftOf(<<"map", "pool", "clear", "saveHead", "trans">>) = {"map", "pool", "clear", "saveHead", "trans"}
      /\ Tail(<<"ver", "map", "pool", "clear", "saveHead", "trans">>) = <<"map", "pool", "clear", "saveHead", "trans">>
  BY DEF LeftOf
<1> QED
  BY <1>1, <1>2, <1>3, <1>4, <1>5 DEF Left

LEMMA AtMap ==
    ASSUME SaverOK, AtStep("map")
    PROVE  \/ /\ saver.kind = "save" /\ Left = {"map", "pool", "clear"}
              /\ Tail(saver.plan) = <<"pool", "clear">>
              /\ LeftOf(Tail(saver.plan)) = {"pool", "clear"}
           \/ /\ saver.kind = "checkpoint" /\ Left = {"map", "pool", "clear", "saveHead"}
              /\ Tail(saver.plan) = <<"pool", "clear", "saveHead">>
              /\ LeftOf(Tail(saver.plan)) = {"pool", "clear", "saveHead"}
           \/ /\ saver.kind = "refine" /\ Left = {"map", "pool", "reload"}
              /\ Tail(saver.plan) = <<"pool", "reload">>
              /\ LeftOf(Tail(saver.plan)) = {"pool", "reload"}
           \/ /\ saver.kind = "refine" /\ Left = {"map", "pool", "clear", "saveHead", "trans"}
              /\ Tail(saver.plan) = <<"pool", "clear", "saveHead", "trans">>
              /\ LeftOf(Tail(saver.plan)) = {"pool", "clear", "saveHead", "trans"}
<1>1. Saving /\ saver.plan # <<>> /\ Head(saver.plan) = "map"
  BY DEF AtStep, Saving
<1>2. \/ saver.kind = "save" /\ saver.plan = <<"map", "pool", "clear">>
      \/ saver.kind = "checkpoint" /\ saver.plan = <<"map", "pool", "clear", "saveHead">>
      \/ saver.kind = "refine" /\ saver.plan = <<"map", "pool", "reload">>
      \/ saver.kind = "refine" /\ saver.plan = <<"map", "pool", "clear", "saveHead", "trans">>
  BY <1>1, PlanHeads DEF SaverOK, PlanOK, Saving
<1>3. /\ LeftOf(<<"map", "pool", "clear">>) = {"map", "pool", "clear"}
      /\ LeftOf(<<"pool", "clear">>) = {"pool", "clear"}
      /\ Tail(<<"map", "pool", "clear">>) = <<"pool", "clear">>
  BY DEF LeftOf
<1>4. /\ LeftOf(<<"map", "pool", "clear", "saveHead">>) = {"map", "pool", "clear", "saveHead"}
      /\ LeftOf(<<"pool", "clear", "saveHead">>) = {"pool", "clear", "saveHead"}
      /\ Tail(<<"map", "pool", "clear", "saveHead">>) = <<"pool", "clear", "saveHead">>
  BY DEF LeftOf
<1>5. /\ LeftOf(<<"map", "pool", "clear", "saveHead", "trans">>) = {"map", "pool", "clear", "saveHead", "trans"}
      /\ LeftOf(<<"pool", "clear", "saveHead", "trans">>) = {"pool", "clear", "saveHead", "trans"}
      /\ Tail(<<"map", "pool", "clear", "saveHead", "trans">>) = <<"pool", "clear", "saveHead", "trans">>
  BY DEF LeftOf
<1>6. /\ LeftOf(<<"map", "pool", "reload">>) = {"map", "pool", "reload"}
      /\ LeftOf(<<"pool", "reload">>) = {"pool", "reload"}
      /\ Tail(<<"map", "pool", "reload">>) = <<"pool", "reload">>
  BY DEF LeftOf
<1> QED
  BY <1>1, <1>2, <1>3, <1>4, <1>5, <1>6 DEF Left

LEMMA AtPool ==
    ASSUME SaverOK, AtStep("pool")
    PROVE  \/ /\ saver.kind = "save" /\ Left = {"pool", "clear"}
              /\ Tail(saver.plan) = <<"clear">>
              /\ LeftOf(Tail(saver.plan)) = {"clear"}
           \/ /\ saver.kind = "checkpoint" /\ Left = {"pool", "clear", "saveHead"}
              /\ Tail(saver.plan) = <<"clear", "saveHead">>
              /\ LeftOf(Tail(saver.plan)) = {"clear", "saveHead"}
           \/ /\ saver.kind = "refine" /\ Left = {"pool", "reload"}
              /\ Tail(saver.plan) = <<"reload">>
              /\ LeftOf(Tail(saver.plan)) = {"reload"}
           \/ /\ saver.kind = "refine" /\ Left = {"pool", "clear", "saveHead", "trans"}
              /\ Tail(saver.plan) = <<"clear", "saveHead", "trans">>
              /\ LeftOf(Tail(saver.plan)) = {"clear", "saveHead", "trans"}
<1>1. Saving /\ saver.plan # <<>> /\ Head(saver.plan) = "pool"
  BY DEF AtStep, Saving
<1>2. \/ saver.kind = "save" /\ saver.plan = <<"pool", "clear">>
      \/ saver.kind = "checkpoint" /\ saver.plan = <<"pool", "clear", "saveHead">>
      \/ saver.kind = "refine" /\ saver.plan = <<"pool", "reload">>
      \/ saver.kind = "refine" /\ saver.plan = <<"pool", "clear", "saveHead", "trans">>
  BY <1>1, PlanHeads DEF SaverOK, PlanOK, Saving
<1>3. /\ LeftOf(<<"pool", "clear">>) = {"pool", "clear"}
      /\ LeftOf(<<"clear">>) = {"clear"}
      /\ Tail(<<"pool", "clear">>) = <<"clear">>
  BY DEF LeftOf
<1>4. /\ LeftOf(<<"pool", "clear", "saveHead">>) = {"pool", "clear", "saveHead"}
      /\ LeftOf(<<"clear", "saveHead">>) = {"clear", "saveHead"}
      /\ Tail(<<"pool", "clear", "saveHead">>) = <<"clear", "saveHead">>
  BY DEF LeftOf
<1>5. /\ LeftOf(<<"pool", "clear", "saveHead", "trans">>) = {"pool", "clear", "saveHead", "trans"}
      /\ LeftOf(<<"clear", "saveHead", "trans">>) = {"clear", "saveHead", "trans"}
      /\ Tail(<<"pool", "clear", "saveHead", "trans">>) = <<"clear", "saveHead", "trans">>
  BY DEF LeftOf
<1>6. /\ LeftOf(<<"pool", "reload">>) = {"pool", "reload"}
      /\ LeftOf(<<"reload">>) = {"reload"}
      /\ Tail(<<"pool", "reload">>) = <<"reload">>
  BY DEF LeftOf
<1> QED
  BY <1>1, <1>2, <1>3, <1>4, <1>5, <1>6 DEF Left

LEMMA AtClear ==
    ASSUME SaverOK, AtStep("clear")
    PROVE  \/ /\ saver.kind = "save" /\ Left = {"clear"}
              /\ Tail(saver.plan) = <<>>
              /\ LeftOf(Tail(saver.plan)) = {}
           \/ /\ saver.kind = "checkpoint" /\ Left = {"clear", "saveHead"}
              /\ Tail(saver.plan) = <<"saveHead">>
              /\ LeftOf(Tail(saver.plan)) = {"saveHead"}
           \/ /\ saver.kind = "refine" /\ Left = {"clear", "saveHead", "trans"}
              /\ Tail(saver.plan) = <<"saveHead", "trans">>
              /\ LeftOf(Tail(saver.plan)) = {"saveHead", "trans"}
<1>1. Saving /\ saver.plan # <<>> /\ Head(saver.plan) = "clear"
  BY DEF AtStep, Saving
<1>2. \/ saver.kind = "save" /\ saver.plan = <<"clear">>
      \/ saver.kind = "checkpoint" /\ saver.plan = <<"clear", "saveHead">>
      \/ saver.kind = "refine" /\ saver.plan = <<"clear", "saveHead", "trans">>
  BY <1>1, PlanHeads DEF SaverOK, PlanOK, Saving
<1>3. /\ LeftOf(<<"clear">>) = {"clear"}
      /\ LeftOf(<<>>) = {}
      /\ Tail(<<"clear">>) = <<>>
  BY DEF LeftOf
<1>4. /\ LeftOf(<<"clear", "saveHead">>) = {"clear", "saveHead"}
      /\ LeftOf(<<"saveHead">>) = {"saveHead"}
      /\ Tail(<<"clear", "saveHead">>) = <<"saveHead">>
  BY DEF LeftOf
<1>5. /\ LeftOf(<<"clear", "saveHead", "trans">>) = {"clear", "saveHead", "trans"}
      /\ LeftOf(<<"saveHead", "trans">>) = {"saveHead", "trans"}
      /\ Tail(<<"clear", "saveHead", "trans">>) = <<"saveHead", "trans">>
  BY DEF LeftOf
<1> QED
  BY <1>1, <1>2, <1>3, <1>4, <1>5 DEF Left

LEMMA AtRefine ==
    ASSUME SaverOK, AtStep("refine")
    PROVE  /\ saver.plan # <<>>
           /\ saver.kind = "save" /\ Left = {"refine", "rewrite", "map", "pool", "reload"}
           /\ Tail(saver.plan) = <<"rewrite", "map", "pool", "reload">>
           /\ LeftOf(Tail(saver.plan)) = {"rewrite", "map", "pool", "reload"}
<1>1. Saving /\ saver.plan # <<>> /\ Head(saver.plan) = "refine"
  BY DEF AtStep, Saving
<1>2. saver.kind = "save" /\ saver.plan = <<"refine", "rewrite", "map", "pool", "reload">>
  BY <1>1, PlanHeads DEF SaverOK, PlanOK, Saving
<1>3. /\ LeftOf(<<"refine", "rewrite", "map", "pool", "reload">>) = {"refine", "rewrite", "map", "pool", "reload"}
      /\ LeftOf(<<"rewrite", "map", "pool", "reload">>) = {"rewrite", "map", "pool", "reload"}
      /\ Tail(<<"refine", "rewrite", "map", "pool", "reload">>) = <<"rewrite", "map", "pool", "reload">>
  BY DEF LeftOf
<1> QED
  BY <1>1, <1>2, <1>3 DEF Left

LEMMA AtRewrite ==
    ASSUME SaverOK, AtStep("rewrite")
    PROVE  /\ saver.plan # <<>>
           /\ saver.kind = "refine" /\ Left = {"rewrite", "map", "pool", "reload"}
           /\ Tail(saver.plan) = <<"map", "pool", "reload">>
           /\ LeftOf(Tail(saver.plan)) = {"map", "pool", "reload"}
<1>1. Saving /\ saver.plan # <<>> /\ Head(saver.plan) = "rewrite"
  BY DEF AtStep, Saving
<1>2. saver.kind = "refine" /\ saver.plan = <<"rewrite", "map", "pool", "reload">>
  BY <1>1, PlanHeads DEF SaverOK, PlanOK, Saving
<1>3. /\ LeftOf(<<"rewrite", "map", "pool", "reload">>) = {"rewrite", "map", "pool", "reload"}
      /\ LeftOf(<<"map", "pool", "reload">>) = {"map", "pool", "reload"}
      /\ Tail(<<"rewrite", "map", "pool", "reload">>) = <<"map", "pool", "reload">>
  BY DEF LeftOf
<1> QED
  BY <1>1, <1>2, <1>3 DEF Left

LEMMA AtReload ==
    ASSUME SaverOK, AtStep("reload")
    PROVE  /\ saver.plan # <<>>
           /\ saver.kind = "refine" /\ Left = {"reload"}
           /\ Tail(saver.plan) = <<>>
           /\ LeftOf(Tail(saver.plan)) = {}
<1>1. Saving /\ saver.plan # <<>> /\ Head(saver.plan) = "reload"
  BY DEF AtStep, Saving
<1>2. saver.kind = "refine" /\ saver.plan = <<"reload">>
  BY <1>1, PlanHeads DEF SaverOK, PlanOK, Saving
<1>3. /\ LeftOf(<<"reload">>) = {"reload"}
      /\ LeftOf(<<>>) = {}
      /\ Tail(<<"reload">>) = <<>>
  BY DEF LeftOf
<1> QED
  BY <1>1, <1>2, <1>3 DEF Left

\* What is left of a plan after a step.
LEMMA TailPlans ==
    ASSUME NEW p, p # <<>>
    PROVE  /\ p \in SavePlans => Tail(p) \in SavePlans
           /\ p = RefinePlan => Tail(p) \in RewritePlans
           /\ p \in CheckpointPlans => Tail(p) \in CheckpointPlans
           /\ p \in MergedPlans => Tail(p) \in MergedPlans
           /\ p \in RewritePlans => Tail(p) \in RewritePlans \cup {<<>>}
<1>1. Tail(<<"open", "meta", "head", "trans", "ver", "map", "pool", "clear">>) = <<"meta", "head", "trans", "ver", "map", "pool", "clear">>
  OBVIOUS
<1>2. Tail(<<"meta", "head", "trans", "ver", "map", "pool", "clear">>) = <<"head", "trans", "ver", "map", "pool", "clear">>
  OBVIOUS
<1>3. Tail(<<"head", "trans", "ver", "map", "pool", "clear">>) = <<"trans", "ver", "map", "pool", "clear">>
  OBVIOUS
<1>4. Tail(<<"ver", "map", "pool", "clear", "saveHead", "trans">>) = <<"map", "pool", "clear", "saveHead", "trans">>
  OBVIOUS
<1>5. Tail(<<"map", "pool", "clear", "saveHead", "trans">>) = <<"pool", "clear", "saveHead", "trans">>
  OBVIOUS
<1>6. Tail(<<"refine", "rewrite", "map", "pool", "reload">>) = <<"rewrite", "map", "pool", "reload">>
  OBVIOUS
<1>7. Tail(<<"trans", "ver", "map", "pool", "clear">>) = <<"ver", "map", "pool", "clear">>
  OBVIOUS
<1>8. Tail(<<"ver", "map", "pool", "clear", "saveHead">>) = <<"map", "pool", "clear", "saveHead">>
  OBVIOUS
<1>9. Tail(<<"map", "pool", "clear", "saveHead">>) = <<"pool", "clear", "saveHead">>
  OBVIOUS
<1>10. Tail(<<"pool", "clear", "saveHead", "trans">>) = <<"clear", "saveHead", "trans">>
  OBVIOUS
<1>11. Tail(<<"rewrite", "map", "pool", "reload">>) = <<"map", "pool", "reload">>
  OBVIOUS
<1>12. Tail(<<"ver", "map", "pool", "clear">>) = <<"map", "pool", "clear">>
  OBVIOUS
<1>13. Tail(<<"clear", "saveHead", "trans">>) = <<"saveHead", "trans">>
  OBVIOUS
<1>14. Tail(<<"map", "pool", "clear">>) = <<"pool", "clear">>
  OBVIOUS
<1>15. Tail(<<"map", "pool", "reload">>) = <<"pool", "reload">>
  OBVIOUS
<1>16. Tail(<<"pool", "clear", "saveHead">>) = <<"clear", "saveHead">>
  OBVIOUS
<1>17. Tail(<<"clear", "saveHead">>) = <<"saveHead">>
  OBVIOUS
<1>18. Tail(<<"pool", "clear">>) = <<"clear">>
  OBVIOUS
<1>19. Tail(<<"pool", "reload">>) = <<"reload">>
  OBVIOUS
<1>20. Tail(<<"saveHead", "trans">>) = <<"trans">>
  OBVIOUS
<1>21. Tail(<<"clear">>) = <<>>
  OBVIOUS
<1>22. Tail(<<"reload">>) = <<>>
  OBVIOUS
<1>23. Tail(<<"saveHead">>) = <<>>
  OBVIOUS
<1>24. Tail(<<"trans">>) = <<>>
  OBVIOUS
<1>25. ASSUME p \in SavePlans PROVE Tail(p) \in SavePlans
  BY <1>25, <1>1, <1>2, <1>3, <1>7, <1>12, <1>14, <1>18, <1>21
     DEF SavePlans, SavePlan
<1>26. ASSUME p = RefinePlan PROVE Tail(p) \in RewritePlans
  BY <1>26, <1>6
     DEF RefinePlan, RewritePlans
<1>27. ASSUME p \in CheckpointPlans PROVE Tail(p) \in CheckpointPlans
  BY <1>27, <1>8, <1>9, <1>16, <1>17, <1>23
     DEF CheckpointPlans, CheckpointPlan
<1>28. ASSUME p \in MergedPlans PROVE Tail(p) \in MergedPlans
  BY <1>28, <1>4, <1>5, <1>10, <1>13, <1>20, <1>24
     DEF MergedPlans, MergedPlan
<1>29. ASSUME p \in RewritePlans PROVE Tail(p) \in RewritePlans \cup {<<>>}
  BY <1>29, <1>11, <1>15, <1>19, <1>22
     DEF RewritePlans
<1> QED
  BY <1>25, <1>26, <1>27, <1>28, <1>29

-----------------------------------------------------------------------------

(***************************************************************************)
(* Types                                                                   *)
(***************************************************************************)

LEMMA AdvanceType ==
    ASSUME SaverOK, Saving, saver.plan # <<>>, saver.plan # RefinePlan, Advance
    PROVE  SaverOK'
<1>1. saver' = [saver EXCEPT !.plan = Tail(saver.plan)] /\ saver.plan \in Seq(Steps) /\ Tail(saver.plan) \in Seq(Steps)
  BY DEF Advance, SaverOK
<1>2. <<>> \in MergedPlans
  BY DEF MergedPlans
<1>3. PlanOK([saver EXCEPT !.plan = Tail(saver.plan)])
  BY <1>2, TailPlans DEF SaverOK, PlanOK, Saving
<1> QED
  BY <1>1, <1>3 DEF SaverOK

LEMMA FileType ==
    ASSUME DiskOK, NEW d \in Dirs, NEW r \in Directories, r.head # None => HeadsOK(r.head),
           disk' = [disk EXCEPT ![d] = r]
    PROVE  DiskOK'
  BY DEF DiskOK

LEMMA PromiseType ==
    ASSUME promise \in [Dirs -> Promises], NEW d \in Dirs, Break(d)
    PROVE  /\ promise' \in [Dirs -> Promises]
           /\ \A e \in Dirs : promise'[e] = IF e = d THEN Void ELSE promise[e]
  BY DEF Break, Promises, Void

LEMMA SaverDirs ==
    ASSUME SaverOK
    PROVE  saver.dir \in Dirs /\ Other(saver.dir) \in Dirs /\ Other(saver.dir) # saver.dir
           /\ (saver.kind \in {"save", "refine"} => saver.dir = "index")
           /\ (saver.kind = "checkpoint" => saver.dir = "buffer")
  BY DEF SaverOK, PlanOK, Other, Dirs

LEMMA FileSteps ==
    ASSUME Types, SaveMetadata \/ SaveHeadIndex \/ SaveHeadFolder \/ SaveTranslateMap \/ SaveVersionMap
                  \/ SaveMapping \/ SavePool
    PROVE  DiskOK' /\ SaverOK' /\ HistoryOK'
<1> DEFINE d == saver.dir
<1>1. d \in Dirs /\ Other(d) \in Dirs
  BY SaverDirs DEF Types
<1>2. disk[d] \in Directories /\ (disk[d].head # None => HeadsOK(disk[d].head))
  BY <1>1 DEF Types, DiskOK
<1>3. /\ mem \in Memories /\ HeadsOK(mem)
      /\ mem.meta \in Labels /\ mem.trans \in Translations /\ mem.ver \in Versions /\ mem.map \in Mappings
      /\ mem.free \cup mem.reserve \subseteq Blocks
  BY DEF Types, MemOK, Memories
<1>4. ASSUME NEW s \in {"meta", "head", "saveHead", "trans", "ver", "map", "pool"}, AtStep(s), Advance
      PROVE  SaverOK'
  <2>1. Saving /\ saver.plan # <<>> /\ Head(saver.plan) # "refine"
    BY <1>4 DEF AtStep, Saving
  <2>2. Head(RefinePlan) = "refine"
    BY DEF RefinePlan
  <2> QED
    BY <1>4, <2>1, <2>2, AdvanceType DEF Types
<1>5. CASE SaveMetadata
  <2>1. disk' = [disk EXCEPT ![d] = [disk[d] EXCEPT !.meta = mem.meta]]
    BY <1>5 DEF SaveMetadata, Write
  <2>2. [disk[d] EXCEPT !.meta = mem.meta] \in Directories
    BY <1>2, <1>3 DEF Directories, File
  <2>3. [disk[d] EXCEPT !.meta = mem.meta].head = disk[d].head
    BY <1>2 DEF Directories
  <2>4. DiskOK'
    BY <2>1, <2>2, <2>3, <1>1, <1>2, FileType DEF Types
  <2> QED
    BY <2>4, <1>4, <1>5 DEF SaveMetadata, history, Types, HistoryOK
<1>6. CASE SaveHeadIndex
  <2> DEFINE f == [heads |-> mem.heads, vec |-> mem.vec]
  <2>0. f \in HeadFiles /\ HeadsOK(f)
    BY <1>3, HeadFileType
  <2>1. disk' = [disk EXCEPT ![d] = [disk[d] EXCEPT !.head = f]]
    BY <1>6 DEF SaveHeadIndex, Write
  <2> HIDE DEF f
  <2>2. [disk[d] EXCEPT !.head = f] \in Directories
    BY <1>2, <2>0 DEF Directories, File
  <2>3. [disk[d] EXCEPT !.head = f].head = f
    BY <1>2 DEF Directories
  <2>4. DiskOK'
    BY <2>0, <2>1, <2>2, <2>3, <1>1, <1>2, FileType DEF Types
  <2> QED
    BY <2>4, <1>4, <1>6 DEF SaveHeadIndex, history, Types, HistoryOK
<1>7. CASE SaveHeadFolder
  <2> DEFINE f == HeadFile(mem)
  <2>0. f \in HeadFiles /\ HeadsOK(f)
    BY <1>3, HeadFileType
  <2>1. disk' = [disk EXCEPT ![d] = [disk[d] EXCEPT !.head = f]]
    BY <1>7 DEF SaveHeadFolder, Write
  <2> HIDE DEF f
  <2>2. [disk[d] EXCEPT !.head = f] \in Directories
    BY <1>2, <2>0 DEF Directories, File
  <2>3. [disk[d] EXCEPT !.head = f].head = f
    BY <1>2 DEF Directories
  <2>4. DiskOK'
    BY <2>0, <2>1, <2>2, <2>3, <1>1, <1>2, FileType DEF Types
  <2> QED
    BY <2>4, <1>4, <1>7 DEF SaveHeadFolder, history, Types, HistoryOK
<1>8. CASE SaveTranslateMap
  <2>1. disk' = [disk EXCEPT ![d] = [disk[d] EXCEPT !.trans = mem.trans]]
    BY <1>8 DEF SaveTranslateMap, Write
  <2>2. [disk[d] EXCEPT !.trans = mem.trans] \in Directories
    BY <1>2, <1>3 DEF Directories, File
  <2>3. [disk[d] EXCEPT !.trans = mem.trans].head = disk[d].head
    BY <1>2 DEF Directories
  <2>4. DiskOK'
    BY <2>1, <2>2, <2>3, <1>1, <1>2, FileType DEF Types
  <2> QED
    BY <2>4, <1>4, <1>8 DEF SaveTranslateMap, history, Types, HistoryOK
<1>9. CASE SaveVersionMap
  <2>1. disk' = [disk EXCEPT ![d] = [disk[d] EXCEPT !.ver = mem.ver]]
    BY <1>9 DEF SaveVersionMap, Write
  <2>2. [disk[d] EXCEPT !.ver = mem.ver] \in Directories
    BY <1>2, <1>3 DEF Directories, File
  <2>3. [disk[d] EXCEPT !.ver = mem.ver].head = disk[d].head
    BY <1>2 DEF Directories
  <2>4. DiskOK'
    BY <2>1, <2>2, <2>3, <1>1, <1>2, FileType DEF Types
  <2>5. promise' \in [Dirs -> Promises]
    BY <1>1, <1>9, PromiseType DEF SaveVersionMap, Types, HistoryOK
  <2> QED
    BY <2>4, <2>5, <1>4, <1>9 DEF SaveVersionMap, Types, HistoryOK
<1>10. CASE SaveMapping
  <2>1. disk' = [disk EXCEPT ![d] = [disk[d] EXCEPT !.map = mem.map]]
    BY <1>10 DEF SaveMapping, Write
  <2>2. [disk[d] EXCEPT !.map = mem.map] \in Directories
    BY <1>2, <1>3 DEF Directories, File
  <2>3. [disk[d] EXCEPT !.map = mem.map].head = disk[d].head
    BY <1>2 DEF Directories
  <2>4. DiskOK'
    BY <2>1, <2>2, <2>3, <1>1, <1>2, FileType DEF Types
  <2> QED
    BY <2>4, <1>4, <1>10 DEF SaveMapping, history, Types, HistoryOK
<1>11. CASE SavePool
  <2> DEFINE f == mem.free \cup mem.reserve
  <2>1. disk' = [disk EXCEPT ![d] = [disk[d] EXCEPT !.pool = f]]
    BY <1>11 DEF SavePool, Write
  <2>2. [disk[d] EXCEPT !.pool = f] \in Directories
    BY <1>2, <1>3 DEF Directories, File
  <2>3. [disk[d] EXCEPT !.pool = f].head = disk[d].head
    BY <1>2 DEF Directories
  <2>4. DiskOK'
    BY <2>1, <2>2, <2>3, <1>1, <1>2, FileType DEF Types
  <2>5. promise' \in [Dirs -> Promises]
    BY <1>1, <1>11, PromiseType DEF SavePool, Types, HistoryOK
  <2> QED
    BY <2>4, <2>5, <1>4, <1>11 DEF SavePool, Types, HistoryOK
<1> QED
  BY <1>5, <1>6, <1>7, <1>8, <1>9, <1>10, <1>11

\* What a build leaves: every vector it kept is in a posting, or is a head
\* where heads are in none.
BuiltAs(n, N, P) ==
    /\ mem'.heads = 0..(n - 1) /\ mem'.vec = HeadSeq /\ mem'.trans = HeadSeq
    /\ mem'.ver = [i \in 1..N |-> "live"] /\ mem'.meta = [i \in 1..N |-> i - 1]
    /\ mem'.map = [h \in HeadIds |-> IF h < n THEN h ELSE NoBlock]
    /\ mem'.free = {b \in Blocks : b >= n} /\ mem'.reserve = {}
    /\ blocks' = [b \in Blocks |-> IF b \in 0..(n - 1) THEN {<<v, v>> : v \in P[b]} ELSE {}]
    /\ jobs' \subseteq 0..(n - 1)
    /\ sure' \subseteq setting.built
    /\ \A v \in sure' : (\E h \in 0..(n - 1) : v \in P[h]) \/ (setting.excludeHead /\ v \in setting.headsOf)

LEMMA BuildEffect ==
    ASSUME setting \in Settings, BuildIndex
    PROVE  LET n == Cardinality(setting.headsOf) IN
           \E P \in [0..(n - 1) -> SUBSET setting.built] : BuiltAs(n, Cardinality(setting.built), P)
<1> DEFINE n == Cardinality(setting.headsOf)
           N == Cardinality(setting.built)
<1>0. n \in Nat /\ setting.headsOf \subseteq setting.built
  BY SettingFacts
<1>1. PICK assign \in [setting.built \ setting.headsOf -> 0..(n - 1)],
           kept \in [0..(n - 1) -> SUBSET setting.built] :
        /\ Cut(assign, kept)
        /\ LET dropped == UNION {Assigned(assign, h) \ kept[h] : h \in 0..(n - 1)} IN
           \E again \in [IF setting.allowZeroReplica THEN {} ELSE dropped -> 0..(n - 1)] :
            LET postings == [h \in 0..(n - 1) |->
                                {<<v, v>> : v \in kept[h] \cup {w \in DOMAIN again : again[w] = h}}] IN
            /\ mem' = [heads |-> 0..(n - 1), vec |-> HeadSeq, trans |-> HeadSeq,
                       ver |-> [i \in 1..N |-> "live"],
                       meta |-> [i \in 1..N |-> i - 1],
                       map |-> [h \in HeadIds |-> IF h < n THEN h ELSE NoBlock],
                       free |-> {b \in Blocks : b >= n}, reserve |-> {}]
            /\ blocks' = WriteDownAllPostingToDB(postings)
            /\ jobs' = {h \in 0..(n - 1) : Cardinality(postings[h]) > setting.limit}
            /\ sure' = IF setting.allowZeroReplica THEN setting.built \ dropped ELSE setting.built
  BY DEF BuildIndex
<1> DEFINE dropped == UNION {Assigned(assign, h) \ kept[h] : h \in 0..(n - 1)}
<1>2. PICK again \in [IF setting.allowZeroReplica THEN {} ELSE dropped -> 0..(n - 1)] :
        LET postings == [h \in 0..(n - 1) |-> {<<v, v>> : v \in kept[h] \cup {w \in DOMAIN again : again[w] = h}}] IN
        /\ mem' = [heads |-> 0..(n - 1), vec |-> HeadSeq, trans |-> HeadSeq,
                   ver |-> [i \in 1..N |-> "live"],
                   meta |-> [i \in 1..N |-> i - 1],
                   map |-> [h \in HeadIds |-> IF h < n THEN h ELSE NoBlock],
                   free |-> {b \in Blocks : b >= n}, reserve |-> {}]
        /\ blocks' = WriteDownAllPostingToDB(postings)
        /\ jobs' = {h \in 0..(n - 1) : Cardinality(postings[h]) > setting.limit}
        /\ sure' = IF setting.allowZeroReplica THEN setting.built \ dropped ELSE setting.built
  BY <1>1
<1> DEFINE P == [h \in 0..(n - 1) |-> kept[h] \cup {w \in DOMAIN again : again[w] = h}]
           postings == [h \in 0..(n - 1) |-> {<<v, v>> : v \in P[h]}]
<1>3. \A h \in 0..(n - 1) : HeadSeq[h + 1] \in setting.headsOf
  <2> TAKE h \in 0..(n - 1)
  <2>1. h + 1 \in 1..n
    BY <1>0
  <2> QED
    BY <2>1, HeadSeqLists
<1>4. dropped \subseteq setting.built
  <2>1. \A h \in 0..(n - 1) : Assigned(assign, h) \subseteq setting.built
    BY <1>0, <1>3 DEF Assigned
  <2> QED
    BY <2>1
<1>5. P \in [0..(n - 1) -> SUBSET setting.built]
  <2>1. DOMAIN again \subseteq setting.built
    BY <1>4
  <2> QED
    BY <2>1
<1>6. blocks' = [b \in Blocks |-> IF b \in 0..(n - 1) THEN {<<v, v>> : v \in P[b]} ELSE {}]
  <2>1. blocks' = WriteDownAllPostingToDB(postings)
    BY <1>2
  <2> QED
    BY <2>1 DEF WriteDownAllPostingToDB
<1>7. ASSUME NEW v \in sure'
      PROVE  (\E h \in 0..(n - 1) : v \in P[h]) \/ (setting.excludeHead /\ v \in setting.headsOf)
  <2>1. v \in setting.built
    BY <1>2, <1>7
  <2>2. SUFFICES ASSUME ~(setting.excludeHead /\ v \in setting.headsOf)
                 PROVE  \E h \in 0..(n - 1) : v \in P[h]
    OBVIOUS
  <2>3. PICK h \in 0..(n - 1) : v \in Assigned(assign, h)
    <3>1. CASE v \in setting.headsOf
      <4>1. PICK i \in 1..n : HeadSeq[i] = v
        BY <3>1, HeadSeqLists
      <4>2. i - 1 \in 0..(n - 1) /\ (i - 1) + 1 = i
        BY <1>0
      <4> QED
        BY <4>1, <4>2, <3>1, <2>2 DEF Assigned
    <3>2. CASE v \notin setting.headsOf
      <4>1. v \in DOMAIN assign /\ assign[v] \in 0..(n - 1)
        BY <3>2, <2>1
      <4> QED
        BY <4>1 DEF Assigned
    <3> QED
      BY <3>1, <3>2
  <2>4. CASE v \in kept[h]
    BY <2>4
  <2>5. CASE v \notin kept[h]
    <3>1. v \in dropped
      BY <2>3, <2>5
    <3> HIDE DEF dropped
    <3>2. ~setting.allowZeroReplica
      BY <3>1, <1>2, <1>7
    <3>3. v \in DOMAIN again /\ again[v] \in 0..(n - 1)
      BY <3>1, <3>2
    <3> QED
      BY <3>3
  <2> QED
    BY <2>4, <2>5
<1>8. jobs' \subseteq 0..(n - 1) /\ sure' \subseteq setting.built
  BY <1>2
<1>9. /\ mem'.heads = 0..(n - 1) /\ mem'.vec = HeadSeq /\ mem'.trans = HeadSeq
      /\ mem'.ver = [i \in 1..N |-> "live"] /\ mem'.meta = [i \in 1..N |-> i - 1]
      /\ mem'.map = [h \in HeadIds |-> IF h < n THEN h ELSE NoBlock]
      /\ mem'.free = {b \in Blocks : b >= n} /\ mem'.reserve = {}
  BY <1>2
<1>10. BuiltAs(n, N, P)
  BY <1>6, <1>7, <1>8, <1>9 DEF BuiltAs
<1> HIDE DEF P, n, N
<1> QED
  BY <1>5, <1>10 DEF n, N

-----------------------------------------------------------------------------

(***************************************************************************)
(* The numbers a compaction gives                                          *)
(***************************************************************************)

\* The new numbers of those that are kept are different and below their count.
Numbered(c, keep) ==
    /\ IsFiniteSet(keep) /\ Cardinality(keep) \in Nat
    /\ c \in [1..Cardinality(keep) -> keep] /\ Len(c) = Cardinality(keep)
    /\ \A x \in keep : NewId(c, x) \in 0..(Cardinality(keep) - 1) /\ c[NewId(c, x) + 1] = x
    /\ \A x, y \in keep : NewId(c, x) = NewId(c, y) => x = y
    /\ \A x : x \notin keep => NewId(c, x) = 0
    /\ \A i \in 1..Cardinality(keep) : NewId(c, c[i]) = i - 1

LEMMA CompactNumbers ==
    ASSUME NEW n \in Nat, NEW keep \in SUBSET (0..(n - 1))
    PROVE  Numbered(Compact(n, keep), keep) /\ Cardinality(keep) <= n
<1> DEFINE c == Compact(n, keep)
           k == Cardinality(keep)
<1>1. /\ IsFiniteSet(keep) /\ k \in 0..n
      /\ c \in [1..k -> keep]
      /\ \A i, j \in 1..k : c[i] = c[j] => i = j
      /\ \A x \in keep : \E i \in 1..k : c[i] = x
  BY CompactLists
<1> HIDE DEF c, k
<1>2. k \in Nat /\ k <= n /\ DOMAIN c = 1..k /\ Len(c) = k
  BY <1>1
<1>3. ASSUME NEW x \in keep
      PROVE  NewId(c, x) \in 0..(k - 1) /\ c[NewId(c, x) + 1] = x
  <2>1. PICK i \in 1..k : c[i] = x
    BY <1>1
  <2> DEFINE j == CHOOSE j \in DOMAIN c : c[j] = x
  <2>2. j \in 1..k /\ c[j] = x
    BY <1>2, <2>1
  <2>3. NewId(c, x) = j - 1
    BY <1>2, <2>1 DEF NewId
  <2> HIDE DEF j
  <2> QED
    BY <1>2, <2>2, <2>3
<1>4. \A x : x \notin keep => NewId(c, x) = 0
  BY <1>1, <1>2 DEF NewId
<1>5. \A x, y \in keep : NewId(c, x) = NewId(c, y) => x = y
  BY <1>3
<1>6. ASSUME NEW i \in 1..k PROVE NewId(c, c[i]) = i - 1
  <2>1. c[i] \in keep
    BY <1>1
  <2>2. NewId(c, c[i]) \in 0..(k - 1) /\ c[NewId(c, c[i]) + 1] = c[i]
    BY <2>1, <1>3
  <2>3. NewId(c, c[i]) + 1 \in 1..k
    BY <2>2, <1>2
  <2>4. NewId(c, c[i]) + 1 = i
    BY <2>2, <2>3, <1>1
  <2> QED
    BY <2>4, <2>2
<1>7. Numbered(c, keep)
  BY <1>1, <1>2, <1>3, <1>4, <1>5, <1>6 DEF Numbered, k
<1> QED
  BY <1>2, <1>7 DEF c, k

LiveIds == {v \in 0..(Len(mem.ver) - 1) : Live(mem.ver, v)}

LEMMA OrderNumbers ==
    ASSUME MemOK
    PROVE  /\ Numbered(VectorOrder, LiveIds) /\ Cardinality(LiveIds) <= Len(mem.ver)
           /\ Numbered(HeadOrder, mem.heads) /\ Cardinality(mem.heads) <= Len(mem.vec)
           /\ Len(mem.ver) \in Nat /\ Len(mem.vec) \in Nat
<1>1. Len(mem.ver) \in Nat /\ Len(mem.vec) \in Nat /\ mem.heads \subseteq 0..(Len(mem.vec) - 1)
  BY DEF MemOK, Memories, Versions, HeadsOK
<1>2. LiveIds \in SUBSET (0..(Len(mem.ver) - 1))
  BY DEF LiveIds
<1> QED
  BY <1>1, <1>2, CompactNumbers DEF VectorOrder, HeadOrder, LiveIds, NumHeads

\* What a compaction makes of ids and of its files.
LEMMA RefineTypes ==
    ASSUME MemOK, Len(mem.ver) <= Names, Names \in Nat \ {0}
    PROVE  /\ \A i \in Int : NewId(VectorOrder, i) \in Ids
           /\ \A h \in mem.heads : NewId(HeadOrder, h) \in HeadIds
           /\ \A i \in Ids \cup {NoId} : RefineHeadId(i) \in Ids \cup {NoId}
           /\ RefineMetadata \in Labels /\ Len(RefineMetadata) = Cardinality(LiveIds)
           /\ [i \in DOMAIN VectorOrder |-> "live"] \in Versions
           /\ Len([i \in DOMAIN VectorOrder |-> "live"]) = Cardinality(LiveIds)
<1>1. /\ Numbered(VectorOrder, LiveIds) /\ Cardinality(LiveIds) <= Len(mem.ver)
      /\ Numbered(HeadOrder, mem.heads) /\ Cardinality(mem.heads) <= Len(mem.vec)
      /\ Len(mem.ver) \in Nat /\ Len(mem.vec) \in Nat
  BY OrderNumbers
<1> DEFINE k == Cardinality(LiveIds)
<1>2. k \in Nat /\ k <= Names /\ DOMAIN VectorOrder = 1..k
  BY <1>1 DEF Numbered
<1>3. \A i \in Int : NewId(VectorOrder, i) \in Ids
  <2> TAKE i \in Int
  <2>1. CASE i \in LiveIds
    BY <2>1, <1>1, <1>2 DEF Numbered, Ids
  <2>2. CASE i \notin LiveIds
    BY <2>2, <1>1 DEF Numbered, Ids
  <2> QED
    BY <2>1, <2>2
<1>4. \A h \in mem.heads : NewId(HeadOrder, h) \in HeadIds
  <2> TAKE h \in mem.heads
  <2>1. NewId(HeadOrder, h) \in 0..(Cardinality(mem.heads) - 1) /\ Cardinality(mem.heads) \in Nat
    BY <1>1 DEF Numbered
  <2> QED
    BY <2>1, <1>1, LifecycleBounds DEF MemOK, HeadsOK, HeadIds
<1>5. \A i \in Ids \cup {NoId} : RefineHeadId(i) \in Ids \cup {NoId}
  BY <1>3 DEF RefineHeadId, Ids, NoId
<1>6. RefineMetadata \in Labels /\ Len(RefineMetadata) = k
  <2>1. mem.meta \in Seq(Vectors \cup {NoId})
    BY DEF MemOK, Memories, Labels
  <2>2. \A i \in 1..k : VectorOrder[i] \in Nat
    BY <1>1 DEF Numbered, LiveIds
  <2>3. \A i \in 1..k : VectorOrder[i] < Len(mem.meta) => mem.meta[VectorOrder[i] + 1] \in Vectors \cup {NoId}
    BY <2>1, <2>2
  <2>4. RefineMetadata \in [1..k -> Vectors \cup {NoId}]
    BY <1>2, <2>3 DEF RefineMetadata
  <2> QED
    BY <2>4, <1>2 DEF Labels
<1>7. [i \in DOMAIN VectorOrder |-> "live"] \in Versions /\ Len([i \in DOMAIN VectorOrder |-> "live"]) = k
  BY <1>2 DEF Versions
<1> QED
  BY <1>3, <1>4, <1>5, <1>6, <1>7

-----------------------------------------------------------------------------

(***************************************************************************)
(* Types, ids and names: the invariant Base                                *)
(***************************************************************************)

LEMMA InitBase == Init => Base
<1> SUFFICES ASSUME Init PROVE Base
  OBVIOUS
<1>1. /\ setting \in Settings
      /\ setting \in Setting
      /\ Cardinality(setting.built) \in 1..Names
      /\ Names \in Nat \ {0} /\ 0 \in Vectors
  BY SettingFacts DEF Init
<1>2. RunOK
  BY <1>1 DEF Init, RunOK
<1>3. mem \in Memories /\ HeadsOK(mem)
  <2>1. NoMap \in Mappings /\ <<>> \in Seq(Vectors) /\ <<>> \in Translations /\ <<>> \in Versions /\ <<>> \in Labels
    BY DEF NoMap, Mappings, Translations, Versions, Labels
  <2> QED
    BY <2>1, LifecycleBounds DEF Init, Memories, HeadsOK
<1>4. MemOK
  BY <1>3 DEF Init, MemOK, Postings
<1>5. DiskOK
  BY DEF Init, DiskOK, NoFiles, Directories, File
<1>6. LogOK
  BY FS_EmptySet DEF Init, LogOK
<1>7. OpsOK
  BY <1>1 DEF Init, OpsOK, Idle, Operations
<1>8. SaverOK
  BY DEF Init, SaverOK, NoSave, PlanOK, Dirs
<1>9. WorkOK
  BY DEF Init, WorkOK, Counts
<1>10. HistoryOK
  BY DEF Init, HistoryOK, Void, Promises
<1>11. JobsInv
  BY DEF Init, JobsInv
<1>12. IdsInv
  BY <1>1 DEF Init, IdsInv, IdsInDirs, IdsInOps, IdsInLog, NextName, NoFiles
<1>13. NamesInv
  <2>1. \A d \in Dirs : disk[d].head = None
    BY DEF Init, NoFiles
  <2>2. NewNames
    BY <2>1 DEF Init, NewNames, Unseen, NotStored, NoHead, NotSaved, NotPromised, Void
  <2>3. OpNames
    BY DEF Init, OpNames, Idle
  <2>4. SureNotGone
    BY DEF Init, SureNotGone, Void
  <2>5. StatesInv
    BY DEF Init, StatesInv
  <2> QED
    BY <2>2, <2>3, <2>4, <2>5 DEF NamesInv
<1> QED
  BY <1>2, <1>4, <1>5, <1>6, <1>7, <1>8, <1>9, <1>10, <1>11, <1>12, <1>13 DEF Base, Types

\* What a step that leaves a variable alone keeps.
LEMMA TypesKept ==
    ASSUME Types
    PROVE  /\ UNCHANGED <<setting, state>> => RunOK'
           /\ UNCHANGED <<mem, blocks>> => MemOK'
           /\ UNCHANGED disk => DiskOK'
           /\ UNCHANGED <<log, size, scan>> => LogOK'
           /\ UNCHANGED op => OpsOK'
           /\ UNCHANGED saver => SaverOK'
           /\ UNCHANGED <<jobs, todo, used>> => WorkOK'
           /\ UNCHANGED <<sure, gone, trusted, labelled, promise>> => HistoryOK'
<1>1. UNCHANGED <<setting, state>> => RunOK'
  BY DEF Types, RunOK
<1>2. UNCHANGED <<mem, blocks>> => MemOK'
  BY DEF Types, MemOK, HeadsOK
<1>3. UNCHANGED disk => DiskOK'
  BY DEF Types, DiskOK, HeadsOK
<1>4. UNCHANGED <<log, size, scan>> => LogOK'
  BY DEF Types, LogOK
<1>5. UNCHANGED op => OpsOK'
  BY DEF Types, OpsOK
<1>6. UNCHANGED saver => SaverOK'
  BY DEF Types, SaverOK, PlanOK
<1>7. UNCHANGED <<jobs, todo, used>> => WorkOK'
  BY DEF Types, WorkOK
<1>8. UNCHANGED <<sure, gone, trusted, labelled, promise>> => HistoryOK'
  BY DEF Types, HistoryOK
<1> QED
  BY <1>1, <1>2, <1>3, <1>4, <1>5, <1>6, <1>7, <1>8

\* While no addition begins, the numbers of vectors stay as they are.
SameNames == UNCHANGED setting /\ used'.adds = used.adds

LEMMA IdsKept ==
    ASSUME IdsInv, SameNames
    PROVE  /\ NextName' = NextName /\ NextName' <= Names
           /\ mem'.ver = mem.ver => Len(mem'.ver) <= NextName'
           /\ UNCHANGED disk => IdsInDirs'
           /\ UNCHANGED op => IdsInOps'
           /\ UNCHANGED <<log, scan>> => IdsInLog'
<1>1. NextName' = NextName
  BY DEF SameNames, NextName
<1>2. UNCHANGED disk => IdsInDirs'
  BY <1>1 DEF IdsInv, IdsInDirs
<1>3. UNCHANGED op => IdsInOps'
  BY <1>1 DEF IdsInv, IdsInOps
<1>4. UNCHANGED <<log, scan>> => IdsInLog'
  BY <1>1 DEF IdsInv, IdsInLog
<1> QED
  BY <1>1, <1>2, <1>3, <1>4 DEF IdsInv

LEMMA NamesKept ==
    ASSUME NamesInv, SameNames
    PROVE  /\ UNCHANGED op => \A v : New(v)' <=> New(v)
           /\ UNCHANGED blocks => \A v : NotStored(v)' <=> NotStored(v)
           /\ mem'.vec = mem.vec => \A v : NoHead(v)' <=> NoHead(v)
           /\ UNCHANGED disk => \A v : NotSaved(v)' <=> NotSaved(v)
           /\ UNCHANGED promise => \A v : NotPromised(v)' <=> NotPromised(v)
           /\ UNCHANGED <<op, log, sure, gone>> => OpNames'
           /\ UNCHANGED <<sure, gone, promise>> => SureNotGone'
<1>1. NextName' = NextName
  BY DEF SameNames, NextName
<1>2. UNCHANGED op => \A v : New(v)' <=> New(v)
  BY <1>1 DEF New, Adds
<1>3. UNCHANGED blocks => \A v : NotStored(v)' <=> NotStored(v)
  BY DEF NotStored
<1>4. mem'.vec = mem.vec => \A v : NoHead(v)' <=> NoHead(v)
  BY DEF NoHead
<1>5. UNCHANGED disk => \A v : NotSaved(v)' <=> NotSaved(v)
  BY DEF NotSaved
<1>6. UNCHANGED promise => \A v : NotPromised(v)' <=> NotPromised(v)
  BY DEF NotPromised
<1>7. UNCHANGED <<op, log, sure, gone>> => OpNames'
  BY DEF NamesInv, OpNames
<1>8. UNCHANGED <<sure, gone, promise>> => SureNotGone'
  BY DEF NamesInv, SureNotGone
<1> QED
  BY <1>2, <1>3, <1>4, <1>5, <1>6, <1>7, <1>8

LEMMA PlanTypes ==
    /\ SavePlan \in Seq(Steps) /\ SavePlan \in SavePlans
    /\ CheckpointPlan \in Seq(Steps) /\ CheckpointPlan \in CheckpointPlans
    /\ RefinePlan \in Seq(Steps) /\ MergedPlan \in Seq(Steps) /\ MergedPlan \in MergedPlans
    /\ <<>> \in Seq(Steps) /\ <<>> \in MergedPlans
<1>1. SavePlan \in Seq(Steps)
  BY DEF SavePlan, Steps
<1>2. CheckpointPlan \in Seq(Steps)
  BY DEF CheckpointPlan, Steps
<1>3. RefinePlan \in Seq(Steps)
  BY DEF RefinePlan, Steps
<1>4. MergedPlan \in Seq(Steps)
  BY DEF MergedPlan, Steps
<1>5. SavePlan \in SavePlans
  BY DEF SavePlans
<1>6. CheckpointPlan \in CheckpointPlans
  BY DEF CheckpointPlans
<1>7. MergedPlan \in MergedPlans
  BY DEF MergedPlans
<1>8. <<>> \in MergedPlans
  BY DEF MergedPlans
<1> QED
  BY <1>1, <1>2, <1>3, <1>4, <1>5, <1>6, <1>7, <1>8

LEMMA StartBase ==
    ASSUME Base, SaveIndex \/ Checkpoint
    PROVE  Base'
<1>0. Types /\ IdsInv /\ NamesInv /\ UNCHANGED <<setting, state, mem, blocks, disk, log, size, scan, jobs, op, todo>>
      /\ UNCHANGED <<sure, gone, trusted, labelled, promise>> /\ state = "running"
  BY DEF Base, SaveIndex, Checkpoint, durable, history
<1> DEFINE q == \A c \in Clients : op[c] = Idle
<1>q. q \in BOOLEAN /\ labelled \in BOOLEAN
  BY <1>0 DEF Types, HistoryOK
<1>1. SaverOK'
  <2>1. CASE SaveIndex
    <3>1. SavePlan \in Seq(Steps) /\ SavePlan \in SavePlans
      BY PlanTypes
    <3>2. saver' = [kind |-> "save", dir |-> "index", plan |-> SavePlan, quiet |-> q, labelled |-> labelled]
      BY <2>1 DEF SaveIndex, Start
    <3> HIDE DEF q
    <3> QED
      BY <1>q, <3>1, <3>2 DEF SaverOK, PlanOK, Dirs
  <2>2. CASE Checkpoint
    <3>1. CheckpointPlan \in Seq(Steps) /\ CheckpointPlan \in CheckpointPlans
      BY PlanTypes
    <3>2. saver' = [kind |-> "checkpoint", dir |-> "buffer", plan |-> CheckpointPlan, quiet |-> q, labelled |-> labelled]
      BY <2>2 DEF Checkpoint, Start
    <3> HIDE DEF q
    <3> QED
      BY <1>q, <3>1, <3>2 DEF SaverOK, PlanOK, Dirs
  <2> QED
    BY <2>1, <2>2 DEF SaveIndex, Checkpoint
<1>2. WorkOK' /\ SameNames
  BY <1>0 DEF SaveIndex, Checkpoint, Types, WorkOK, Counts, SameNames
<1>3. Types'
  BY <1>0, <1>1, <1>2, TypesKept DEF Types
<1>4. IdsInv'
  BY <1>0, <1>2, IdsKept DEF IdsInv
<1>5. NewNames'
  BY <1>0, <1>2, NamesKept DEF NamesInv, NewNames, Unseen
<1>6. OpNames' /\ SureNotGone'
  BY <1>0, <1>2, NamesKept
<1>7. StatesInv'
  BY <1>0 DEF NamesInv, StatesInv
<1>8. JobsInv'
  BY <1>0 DEF Base, JobsInv
<1> QED
  BY <1>3, <1>4, <1>5, <1>6, <1>7, <1>8 DEF Base, NamesInv

\* What a directory holds after one of its files was written.
LEMMA FileNames ==
    ASSUME Base, SameNames, UNCHANGED <<blocks, op, sure, gone>>, mem'.vec = mem.vec,
           \A d \in Dirs : \/ promise'[d] = promise[d]
                           \/ promise'[d] = Void,
           \A d \in Dirs : disk'[d].ver = disk[d].ver \/ disk'[d].ver = None \/ Len(disk'[d].ver) <= Len(mem.ver),
           \A d \in Dirs : \/ disk'[d].head = disk[d].head
                           \/ disk'[d].head = None
                           \/ \A i \in DOMAIN disk'[d].head.vec :
                                \E j \in DOMAIN mem.vec : disk'[d].head.vec[i] = mem.vec[j]
    PROVE  IdsInDirs' /\ NewNames' /\ SureNotGone'
<1>1. NextName' = NextName /\ NextName' \in Int /\ Len(mem.ver) \in Int /\ Len(mem.ver) <= NextName'
  <2>1. NextName' = NextName
    BY IdsKept DEF Base
  <2>2. Cardinality(setting.built) \in Int
    BY SettingFacts DEF Base, Types, RunOK
  <2>3. NextName \in Int /\ Len(mem.ver) \in Int
    BY <2>2 DEF Base, Types, MemOK, Memories, Versions, NextName, WorkOK, Counts
  <2> QED
    BY <2>1, <2>3 DEF Base, IdsInv
<1>2. IdsInDirs'
  <2> SUFFICES ASSUME NEW d \in Dirs, disk'[d].ver # None PROVE Len(disk'[d].ver) <= NextName'
    BY DEF IdsInDirs
  <2>1. CASE disk'[d].ver = disk[d].ver
    BY <2>1, <1>1 DEF Base, IdsInv, IdsInDirs
  <2>2. CASE Len(disk'[d].ver) <= Len(mem.ver) /\ disk'[d].ver # disk[d].ver
    <3>1. Len(disk'[d].ver) \in Int \/ Len(disk'[d].ver) \notin Int
      OBVIOUS
    <3> QED
      BY <2>2, <1>1
  <2> QED
    BY <2>1, <2>2
<1>3. NewNames'
  <2> SUFFICES ASSUME NEW v \in Vectors, New(v)' PROVE Unseen(v)'
    BY DEF NewNames
  <2>1. New(v) /\ Unseen(v)
    BY NamesKept DEF Base, NamesInv, NewNames
  <2>2. NotStored(v)' /\ NoHead(v)'
    BY <2>1, NamesKept DEF Base, Unseen
  <2>3. NotSaved(v)'
    BY <2>1 DEF Unseen, NotSaved, NoHead
  <2>4. NotPromised(v)'
    BY <2>1 DEF Unseen, NotPromised, Void
  <2> QED
    BY <2>1, <2>2, <2>3, <2>4 DEF Unseen
<1>4. SureNotGone'
  BY DEF Base, NamesInv, SureNotGone, Void
<1> QED
  BY <1>2, <1>3, <1>4

LEMMA HeadFileNames ==
    ASSUME MemOK
    PROVE  \A i \in DOMAIN HeadFile(mem).vec : \E j \in DOMAIN mem.vec : HeadFile(mem).vec[i] = mem.vec[j]
<1>1. /\ Numbered(HeadOrder, mem.heads) /\ Len(mem.vec) \in Nat
      /\ mem.heads \subseteq 0..(Len(mem.vec) - 1)
  BY OrderNumbers DEF MemOK, HeadsOK
<1> DEFINE c == HeadOrder
<1>2. c \in [1..Cardinality(mem.heads) -> mem.heads] /\ Len(c) = Cardinality(mem.heads)
  BY <1>1 DEF Numbered
<1>3. HeadFile(mem).vec = mem.vec \/ HeadFile(mem).vec = [i \in 1..Len(c) |-> mem.vec[c[i] + 1]]
  BY DEF HeadFile, HeadOrder
<1>4. DOMAIN mem.vec = 1..Len(mem.vec)
  BY DEF MemOK, Memories
<1> HIDE DEF c
<1>5. \A i \in 1..Len(c) : c[i] + 1 \in DOMAIN mem.vec
  <2> TAKE i \in 1..Len(c)
  <2>1. c[i] \in 0..(Len(mem.vec) - 1)
    BY <1>1, <1>2
  <2> QED
    BY <2>1, <1>1, <1>4
<1> QED
  BY <1>3, <1>5

LEMMA FileStepsBase ==
    ASSUME Base, SaveMetadata \/ SaveHeadIndex \/ SaveHeadFolder \/ SaveTranslateMap \/ SaveVersionMap
                 \/ SaveMapping \/ SavePool
    PROVE  Base'
<1> DEFINE d == saver.dir
<1>0. /\ Types /\ IdsInv /\ NamesInv
      /\ UNCHANGED <<setting, state, blocks, log, size, scan, jobs, op, todo, used, sure, gone, trusted, labelled>>
  BY DEF Base, SaveMetadata, SaveHeadIndex, SaveHeadFolder, SaveTranslateMap, SaveVersionMap, SaveMapping, SavePool, history
<1>1. DiskOK' /\ SaverOK' /\ HistoryOK'
  BY <1>0, FileSteps
<1>2. /\ mem'.vec = mem.vec /\ mem'.ver = mem.ver /\ mem'.trans = mem.trans /\ mem'.heads = mem.heads
      /\ mem' \in Memories
  BY <1>0 DEF SaveMetadata, SaveHeadIndex, SaveHeadFolder, SaveTranslateMap, SaveVersionMap, SaveMapping, SavePool,
              Types, MemOK, Memories
<1>3. MemOK'
  BY <1>0, <1>2 DEF Types, MemOK, HeadsOK
<1>4. Types'
  BY <1>0, <1>1, <1>3, TypesKept DEF Types
<1>5. SameNames /\ d \in Dirs /\ Other(d) \in Dirs /\ disk \in [Dirs -> Directories] /\ disk[d] \in Directories
  BY <1>0, SaverDirs DEF SameNames, Types, DiskOK
<1>6. \A e \in Dirs : promise'[e] = promise[e] \/ promise'[e] = Void
  <2>1. CASE SaveVersionMap \/ SavePool
    BY <2>1, <1>5, <1>0, PromiseType DEF SaveVersionMap, SavePool, Types, HistoryOK
  <2>2. CASE UNCHANGED promise
    BY <2>2
  <2> QED
    BY <2>1, <2>2 DEF SaveMetadata, SaveHeadIndex, SaveHeadFolder, SaveTranslateMap, SaveMapping, history
<1>7. \A e \in Dirs : e # d => disk'[e] = disk[e]
  BY <1>5 DEF SaveMetadata, SaveHeadIndex, SaveHeadFolder, SaveTranslateMap, SaveVersionMap, SaveMapping, SavePool, Write
<1>8. disk'[d].ver = disk[d].ver \/ disk'[d].ver = mem.ver
  BY <1>5 DEF SaveMetadata, SaveHeadIndex, SaveHeadFolder, SaveTranslateMap, SaveVersionMap, SaveMapping, SavePool, Write, Directories
<1>9. disk'[d].head = disk[d].head \/ disk'[d].head = HeadsNow \/ disk'[d].head = HeadFile(mem)
  BY <1>5 DEF SaveMetadata, SaveHeadIndex, SaveHeadFolder, SaveTranslateMap, SaveVersionMap, SaveMapping, SavePool, Write, Directories, HeadsNow
<1>10. \A e \in Dirs : disk'[e].ver = disk[e].ver \/ disk'[e].ver = None \/ Len(disk'[e].ver) <= Len(mem.ver)
  <2>1. Len(mem.ver) <= Len(mem.ver)
    BY <1>0 DEF Types, MemOK, Memories, Versions
  <2> QED
    BY <2>1, <1>7, <1>8
<1>11. \A e \in Dirs : \/ disk'[e].head = disk[e].head \/ disk'[e].head = None
                       \/ \A i \in DOMAIN disk'[e].head.vec : \E j \in DOMAIN mem.vec : disk'[e].head.vec[i] = mem.vec[j]
  <2>1. \A i \in DOMAIN HeadFile(mem).vec : \E j \in DOMAIN mem.vec : HeadFile(mem).vec[i] = mem.vec[j]
    BY <1>0, HeadFileNames DEF Types
  <2>2. \A i \in DOMAIN HeadsNow.vec : \E j \in DOMAIN mem.vec : HeadsNow.vec[i] = mem.vec[j]
    BY DEF HeadsNow
  <2> QED
    BY <2>1, <2>2, <1>7, <1>9
<1>12. IdsInDirs' /\ NewNames' /\ SureNotGone'
  BY <1>0, <1>2, <1>5, <1>6, <1>10, <1>11, FileNames
<1>13. IdsInv'
  BY <1>0, <1>2, <1>5, <1>12, IdsKept DEF IdsInv
<1>14. OpNames'
  BY <1>0, <1>5, NamesKept
<1>15. StatesInv'
  <2>1. state = "running"
    BY <1>0 DEF NamesInv, StatesInv, NoSave, AtStep, SaveMetadata, SaveHeadIndex, SaveHeadFolder, SaveTranslateMap, SaveVersionMap, SaveMapping, SavePool
  <2> QED
    BY <2>1, <1>0 DEF NamesInv, StatesInv
<1>16. JobsInv'
  BY <1>0, <1>2 DEF Base, JobsInv
<1> QED
  BY <1>4, <1>12, <1>13, <1>14, <1>15, <1>16 DEF Base, NamesInv

LEMMA SavesRun ==
    ASSUME StatesInv, saver.kind # "none"
    PROVE  state = "running"
  BY DEF StatesInv, NoSave

LEMMA OpenFilesBase ==
    ASSUME Base, OpenFiles
    PROVE  Base'
<1>0. /\ Types /\ IdsInv /\ NamesInv /\ state = "running"
      /\ UNCHANGED <<setting, state, mem, blocks, log, size, scan, jobs, op, todo, used, sure, gone, trusted, labelled>>
  BY SavesRun DEF Base, OpenFiles, NamesInv, AtStep
<1>1. "index" \in Dirs /\ disk \in [Dirs -> Directories]
  BY <1>0 DEF Dirs, Types, DiskOK
<1> DEFINE r == [disk["index"] EXCEPT !.config = TRUE, !.head = None, !.trans = None, !.meta = None]
<1>2. r \in Directories /\ r.head = None /\ r.ver = disk["index"].ver
  BY <1>1 DEF Directories, File
<1>3. disk' = [disk EXCEPT !["index"] = r]
  BY DEF OpenFiles
<1> HIDE DEF r
<1>4. DiskOK'
  BY <1>0, <1>1, <1>2, <1>3, FileType DEF Types
<1>5. SaverOK'
  <2>1. saver.kind = "save" /\ Tail(saver.plan) \in SavePlans /\ Tail(saver.plan) \in Seq(Steps)
    <3>1. saver.kind = "save" /\ saver.plan # <<>> /\ saver.plan \in SavePlans /\ saver.plan \in Seq(Steps)
      <4>1. saver.kind = "save" /\ saver.plan # <<>> /\ saver.plan # RefinePlan
        <5>1. AtStep("open")
          BY DEF OpenFiles
        <5>2. Head(RefinePlan) = "refine"
          BY DEF RefinePlan
        <5> QED
          BY <5>1, <5>2, <1>0, AtOpen DEF Types, AtStep
      <4> QED
        BY <4>1, <1>0 DEF Types, SaverOK, PlanOK
    <3> QED
      BY <3>1, TailPlans
  <2>2. \/ saver' = [saver EXCEPT !.plan = RefinePlan]
        \/ saver' = [saver EXCEPT !.plan = Tail(saver.plan)]
    BY DEF OpenFiles
  <2> QED
    BY <1>0, <2>1, <2>2, PlanTypes DEF Types, SaverOK, PlanOK
<1>6. /\ promise' \in [Dirs -> Promises]
      /\ \A d \in Dirs : promise'[d] = promise[d] \/ promise'[d] = Void
  BY <1>0, <1>1, PromiseType DEF OpenFiles, Types, HistoryOK
<1>7. Types'
  BY <1>0, <1>4, <1>5, <1>6, TypesKept DEF Types, HistoryOK
<1>8. SameNames
  BY <1>0 DEF SameNames
<1>9. \A d \in Dirs : (disk'[d].head = disk[d].head \/ disk'[d].head = None) /\ disk'[d].ver = disk[d].ver
  BY <1>1, <1>2, <1>3
<1>10. IdsInDirs' /\ NewNames' /\ SureNotGone'
  BY <1>0, <1>6, <1>8, <1>9, FileNames
<1>11. IdsInv'
  BY <1>0, <1>8, <1>10, IdsKept DEF IdsInv
<1>12. OpNames' /\ StatesInv' /\ JobsInv'
  BY <1>0, <1>8, NamesKept DEF NamesInv, StatesInv, Base, JobsInv
<1> QED
  BY <1>7, <1>10, <1>11, <1>12 DEF Base, NamesInv

LEMMA ClearLogBase ==
    ASSUME Base, ClearLog
    PROVE  Base'
<1>0. /\ Types /\ IdsInv /\ NamesInv /\ state = "running"
      /\ UNCHANGED <<setting, state, mem, blocks, disk, scan, jobs, op, todo, used, sure, gone, trusted, labelled, promise>>
  BY SavesRun DEF Base, ClearLog, NamesInv, AtStep, history
<1>1. /\ DOMAIN log' \subseteq DOMAIN log /\ \A k \in DOMAIN log' : log'[k] = log[k]
      /\ size' \in Nat
  BY <1>0 DEF ClearLog, ClearPreviousRecord, Types, LogOK
<1>2. LogOK'
  <2>1. IsFiniteSet(DOMAIN log')
    BY <1>0, <1>1, FS_Subset DEF Types, LogOK
  <2> QED
    BY <1>0, <1>1, <2>1 DEF Types, LogOK
<1>3. SaverOK'
  <2>1. Saving /\ saver.plan # <<>> /\ saver.plan # RefinePlan /\ Advance
    <3>1. Head(RefinePlan) = "refine"
      BY DEF RefinePlan
    <3> QED
      BY <3>1 DEF ClearLog, AtStep, Saving
  <2> QED
    BY <2>1, <1>0, AdvanceType DEF Types
<1>4. Types'
  BY <1>0, <1>2, <1>3, TypesKept DEF Types
<1>5. SameNames
  BY <1>0 DEF SameNames
<1>6. NextName' = NextName
  BY <1>0, <1>5, IdsKept
<1>7. IdsInLog'
  BY <1>0, <1>1, <1>6 DEF IdsInv, IdsInLog
<1>8. IdsInv'
  BY <1>0, <1>5, <1>7, IdsKept DEF IdsInv
<1>9. NewNames' /\ SureNotGone'
  BY <1>0, <1>5, NamesKept DEF NamesInv, NewNames, Unseen
<1>10. OpNames'
  BY <1>0, <1>1 DEF NamesInv, OpNames
<1>11. StatesInv' /\ JobsInv'
  BY <1>0 DEF NamesInv, StatesInv, Base, JobsInv
<1> QED
  BY <1>4, <1>8, <1>9, <1>10, <1>11 DEF Base, NamesInv

LEMMA SaveEndBase ==
    ASSUME Base, SaveEnd
    PROVE  Base'
<1>0. /\ Types /\ IdsInv /\ NamesInv /\ state = "running"
      /\ UNCHANGED <<setting, state, mem, blocks, disk, log, size, scan, jobs, op, todo, used, sure, gone, trusted, labelled>>
  BY SavesRun DEF Base, SaveEnd, NamesInv, AtStep, durable
<1> DEFINE d == saver.dir
           q == trusted /\ saver.quiet /\ disk[saver.dir].head.heads = mem.heads
                /\ (saver.dir = "buffer" => ~setting.excludeHead /\ DOMAIN log = {})
           l == saver.dir = "buffer" /\ setting.wal
           r == [sound |-> q, logged |-> l, labelled |-> saver.labelled, sure |-> sure, gone |-> gone]
<1>1. d \in Dirs /\ promise' = [promise EXCEPT ![d] = r]
  BY <1>0, SaverDirs DEF SaveEnd, Types
<1>2. q \in BOOLEAN /\ l \in BOOLEAN
  OBVIOUS
<1> HIDE DEF q, l
<1>3. r \in Promises
  BY <1>0, <1>2 DEF Types, HistoryOK, SaverOK, Promises
<1>4. r.sure = sure /\ r.gone = gone
  OBVIOUS
<1> HIDE DEF r, d
<1>5. HistoryOK'
  BY <1>0, <1>1, <1>3 DEF Types, HistoryOK
<1>6. SaverOK'
  BY DEF SaveEnd, NoSave, SaverOK, PlanOK, Dirs
<1>7. Types'
  BY <1>0, <1>5, <1>6, TypesKept DEF Types
<1>8. SameNames
  BY <1>0 DEF SameNames
<1>9. IdsInv'
  BY <1>0, <1>8, IdsKept DEF IdsInv
<1>10. promise'[d] = r /\ \A e \in Dirs : e # d => promise'[e] = promise[e]
  BY <1>0, <1>1 DEF Types, HistoryOK
<1>11. NewNames'
  <2> SUFFICES ASSUME NEW v \in Vectors, New(v)' PROVE Unseen(v)'
    BY DEF NewNames
  <2>1. Unseen(v)
    BY <1>0, <1>8, NamesKept DEF NamesInv, NewNames
  <2>2. NotStored(v)' /\ NoHead(v)' /\ NotSaved(v)'
    BY <1>0, <1>8, <2>1, NamesKept DEF Unseen
  <2>3. NotPromised(v)'
    BY <1>4, <1>10, <2>1 DEF Unseen, NotPromised
  <2> QED
    BY <1>0, <2>1, <2>2, <2>3 DEF Unseen
<1>12. SureNotGone'
  BY <1>0, <1>4, <1>10 DEF NamesInv, SureNotGone
<1>13. OpNames' /\ StatesInv' /\ JobsInv'
  BY <1>0, <1>8, NamesKept DEF NamesInv, StatesInv, Base, JobsInv
<1> QED
  BY <1>7, <1>9, <1>11, <1>12, <1>13 DEF Base, NamesInv

LEMMA CrashBase ==
    ASSUME Base, Crash
    PROVE  Base'
<1>0. /\ Types /\ IdsInv /\ NamesInv /\ UNCHANGED <<setting, mem, blocks, disk, log, sure, gone, trusted, labelled>>
      /\ state' = "down" /\ op' = [c \in Clients |-> Idle] /\ saver' = NoSave /\ jobs' = {} /\ todo' = {}
      /\ size' = 0 /\ scan' = <<>>
  BY DEF Base, Crash, durable
<1>1. "buffer" \in Dirs /\ promise \in [Dirs -> Promises]
  BY <1>0 DEF Dirs, Types, HistoryOK
<1>2. /\ promise' \in [Dirs -> Promises]
      /\ \A d \in Dirs : promise'[d].sure = promise[d].sure /\ promise'[d].gone = promise[d].gone
  BY <1>1 DEF Crash, Promises
<1>3. RunOK' /\ HistoryOK'
  BY <1>0, <1>2 DEF Types, RunOK, HistoryOK
<1>4. OpsOK' /\ SaverOK'
  BY <1>0, SettingFacts DEF Types, RunOK, OpsOK, SaverOK, Idle, Operations, NoSave, PlanOK, Dirs
<1>5. WorkOK'
  BY <1>0 DEF Crash, Types, WorkOK, Counts
<1>6. LogOK'
  BY <1>0 DEF Types, LogOK
<1>7. Types'
  BY <1>0, <1>3, <1>4, <1>5, <1>6, TypesKept DEF Types
<1>8. SameNames
  BY <1>0 DEF SameNames, Crash, Types, WorkOK, Counts
<1>9. NextName' = NextName
  BY <1>0, <1>8, IdsKept
<1>10. IdsInOps' /\ IdsInLog'
  BY <1>0, <1>9 DEF IdsInv, IdsInOps, IdsInLog
<1>11. IdsInv'
  BY <1>0, <1>8, <1>10, IdsKept DEF IdsInv
<1>12. NewNames'
  <2> SUFFICES ASSUME NEW v \in Vectors, New(v)' PROVE Unseen(v)'
    BY DEF NewNames
  <2>1. New(v) /\ Unseen(v)
    BY <1>0, <1>9 DEF NamesInv, NewNames, New, Adds, Idle
  <2>2. NotStored(v)' /\ NoHead(v)' /\ NotSaved(v)'
    BY <1>0, <1>8, <2>1, NamesKept DEF Unseen
  <2>3. NotPromised(v)'
    BY <1>2, <2>1 DEF Unseen, NotPromised
  <2> QED
    BY <1>0, <2>1, <2>2, <2>3 DEF Unseen
<1>13. SureNotGone'
  BY <1>0, <1>2 DEF NamesInv, SureNotGone
<1>14. OpNames'
  BY <1>0 DEF OpNames, Idle
<1>15. StatesInv' /\ JobsInv'
  BY <1>0 DEF StatesInv, JobsInv
<1> QED
  BY <1>7, <1>11, <1>12, <1>13, <1>14, <1>15 DEF Base, NamesInv

-----------------------------------------------------------------------------

(***************************************************************************)
(* The records a recovery reads                                            *)
(***************************************************************************)

LEMMA ByteFacts ==
    ASSUME NEW b \in Nat \ {0}, NEW i \in Nat
    PROVE  i = b * (i \div b) + (i % b) /\ i % b \in Nat /\ i % b < b /\ i \div b \in Nat /\ (i < b => i % b = i /\ i \div b = 0)
  OBVIOUS

LEMMA SameBytes ==
    ASSUME NEW b \in Nat \ {0}, NEW i \in Nat, NEW j \in Nat, i \div b = j \div b, i % b = j % b
    PROVE  i = j
  BY ByteFacts

\* Byte by byte, the first byte that differs decides.
LEMMA KeyBeforeIs ==
    ASSUME setting \in Settings, NEW i \in Nat, NEW j \in Nat
    PROVE  LET b == setting.base
               r == i \div b
               s == j \div b
           IN KeyBefore(i, j) <=> \/ i % b < j % b
                                  \/ i % b = j % b /\ r % b < s % b
                                  \/ i % b = j % b /\ r % b = s % b /\ r \div b < s \div b
<1> DEFINE k == KeyBytes(i)
           l == KeyBytes(j)
<1>1. KeyBefore(i, j) <=> \/ k[1] < l[1]
                          \/ k[2] < l[2] /\ k[1] = l[1]
                          \/ k[3] < l[3] /\ k[1] = l[1] /\ k[2] = l[2]
  <2> HIDE DEF k, l
  <2>1. KeyBefore(i, j) <=> \E n \in 1..3 : k[n] < l[n] /\ \A m \in 1..(n - 1) : k[m] = l[m]
    BY DEF KeyBefore, k, l
  <2>2. 1..3 = {1, 2, 3} /\ 1..0 = {} /\ 1..1 = {1} /\ 1..2 = {1, 2}
    OBVIOUS
  <2> QED
    BY <2>1, <2>2
<1> QED
  BY <1>1 DEF KeyBytes

LEMMA KeyOrders ==
    ASSUME setting \in Settings, NEW S \in SUBSET Nat
    PROVE  LET R == {p \in S \X S : KeyBefore(p[1], p[2])} IN
           StrictOrder(S, R) /\ \A x \in S : Preds(S, R, x) = {y \in S : KeyBefore(y, x)}
<1> DEFINE R == {p \in S \X S : KeyBefore(p[1], p[2])}
           b == setting.base
           A(i) == i % b
           B(i) == (i \div b) % b
           C(i) == (i \div b) \div b
<1>0. b \in Nat \ {0}
  BY SettingFacts DEF Setting
<1>1. \A i \in S : A(i) \in Int /\ B(i) \in Int /\ C(i) \in Int
  <2> TAKE i \in S
  <2>1. i % b \in Int /\ i \div b \in Nat
    BY <1>0, ByteFacts
  <2> QED
    BY <2>1, <1>0, ByteFacts
<1>2. \A i, j \in S : A(i) = A(j) /\ B(i) = B(j) /\ C(i) = C(j) => i = j
  <2> TAKE i, j \in S
  <2> HAVE A(i) = A(j) /\ B(i) = B(j) /\ C(i) = C(j)
  <2>1. i \div b \in Nat /\ j \div b \in Nat
    BY <1>0, ByteFacts
  <2>2. i \div b = j \div b
    BY <1>0, <2>1, SameBytes
  <2> QED
    BY <1>0, <2>2, SameBytes
<1>3. \A i, j \in S : <<i, j>> \in R <=> \/ A(i) < A(j)
                                         \/ A(i) = A(j) /\ B(i) < B(j)
                                         \/ A(i) = A(j) /\ B(i) = B(j) /\ C(i) < C(j)
  BY KeyBeforeIs
<1>4. \A x \in S : Preds(S, R, x) = {y \in S : KeyBefore(y, x)}
  BY DEF Preds
<1> HIDE DEF A, B, C, R
<1>5. \A x \in S : <<x, x>> \notin R
  BY <1>1, <1>3
<1>6. \A x, y, z \in S : <<x, y>> \in R /\ <<y, z>> \in R => <<x, z>> \in R
  <2> TAKE x, y, z \in S
  <2>1. <<x, y>> \in R <=> A(x) < A(y) \/ (A(x) = A(y) /\ (B(x) < B(y) \/ (B(x) = B(y) /\ C(x) < C(y))))
    BY <1>3
  <2>2. <<y, z>> \in R <=> A(y) < A(z) \/ (A(y) = A(z) /\ (B(y) < B(z) \/ (B(y) = B(z) /\ C(y) < C(z))))
    BY <1>3
  <2>3. <<x, z>> \in R <=> A(x) < A(z) \/ (A(x) = A(z) /\ (B(x) < B(z) \/ (B(x) = B(z) /\ C(x) < C(z))))
    BY <1>3
  <2>4. A(x) \in Int /\ A(y) \in Int /\ A(z) \in Int /\ B(x) \in Int /\ B(y) \in Int /\ B(z) \in Int
        /\ C(x) \in Int /\ C(y) \in Int /\ C(z) \in Int
    BY <1>1
  <2> QED
    BY <2>1, <2>2, <2>3, <2>4
<1>7. \A x, y \in S : x = y \/ <<x, y>> \in R \/ <<y, x>> \in R
  <2> TAKE x, y \in S
  <2>1. <<x, y>> \in R <=> A(x) < A(y) \/ (A(x) = A(y) /\ (B(x) < B(y) \/ (B(x) = B(y) /\ C(x) < C(y))))
    BY <1>3
  <2>2. <<y, x>> \in R <=> A(y) < A(x) \/ (A(y) = A(x) /\ (B(y) < B(x) \/ (B(y) = B(x) /\ C(y) < C(x))))
    BY <1>3
  <2>3. A(x) \in Int /\ A(y) \in Int /\ B(x) \in Int /\ B(y) \in Int /\ C(x) \in Int /\ C(y) \in Int
    BY <1>1
  <2>4. A(x) = A(y) /\ B(x) = B(y) /\ C(x) = C(y) => x = y
    BY <1>2
  <2> QED
    BY <2>1, <2>2, <2>3, <2>4
<1> QED
  BY <1>4, <1>5, <1>6, <1>7 DEF StrictOrder, R

\* Every record is read once, and while the numbers take one byte in the
\* order they were written.
ReadsLog(keys, f) ==
    /\ Cardinality(keys) \in Nat
    /\ f \in [1..Cardinality(keys) -> keys]
    /\ \A k \in keys : \E i \in 1..Cardinality(keys) : f[i] = k
    /\ keys \subseteq 0..(setting.base - 1) => \A i, j \in 1..Cardinality(keys) : i < j => f[i] < f[j]

LEMMA KeyLists ==
    ASSUME setting \in Settings, NEW keys \in SUBSET Nat, IsFiniteSet(keys)
    PROVE  ReadsLog(keys, InKeyOrder(keys))
<1> DEFINE R == {p \in keys \X keys : KeyBefore(p[1], p[2])}
           n == Cardinality(keys)
           Rank(x) == Cardinality({y \in keys : KeyBefore(y, x)})
           f == InKeyOrder(keys)
<1>1. StrictOrder(keys, R) /\ \A x \in keys : Cardinality(Preds(keys, R, x)) = Rank(x)
  BY KeyOrders
<1>2. f = [i \in 1..n |-> CHOOSE x \in keys : Rank(x) = i - 1]
  BY DEF InKeyOrder, Ranked
<1>a. \A x, y : <<x, y>> \in R => KeyBefore(x, y)
  OBVIOUS
<1> HIDE DEF R, Rank, f
<1>3. Lists(keys, R, f)
  <2>1. ASSUME NEW i \in 1..n, \E x \in keys : Cardinality(Preds(keys, R, x)) = i - 1
        PROVE  f[i] \in keys /\ Cardinality(Preds(keys, R, f[i])) = i - 1
    <3>1. \E x \in keys : Rank(x) = i - 1
      BY <2>1, <1>1
    <3>2. f[i] \in keys /\ Rank(f[i]) = i - 1
      BY <3>1, <1>2
    <3> QED
      BY <3>2, <1>1
  <2>2. f = [i \in 1..n |-> f[i]]
    BY <1>2
  <2> HIDE DEF n
  <2> QED
    BY <2>1, <2>2, <1>1, RankLists DEF n
<1>4. ASSUME keys \subseteq 0..(setting.base - 1), NEW i \in 1..n, NEW j \in 1..n, i < j
      PROVE  f[i] < f[j]
  <2>0. setting.base \in Nat \ {0}
    BY SettingFacts DEF Setting
  <2>1. f[i] \in keys /\ f[j] \in keys /\ KeyBefore(f[i], f[j])
    BY <1>3, <1>4, <1>a DEF Lists
  <2>2. f[i] \in Nat /\ f[j] \in Nat /\ f[i] < setting.base /\ f[j] < setting.base
    <3>1. \A x \in 0..(setting.base - 1) : x \in Nat /\ x < setting.base
      BY <2>0
    <3> QED
      BY <3>1, <2>1, <1>4
  <2> HIDE DEF n
  <2>3. f[i] % setting.base = f[i] /\ f[j] % setting.base = f[j]
        /\ f[i] \div setting.base = 0 /\ f[j] \div setting.base = 0
    BY <2>0, <2>2, ByteFacts
  <2>4. 0 % setting.base = 0 /\ 0 \div setting.base = 0
    BY <2>0, ByteFacts
  <2> DEFINE x == f[i]
             y == f[j]
  <2>5. KeyBefore(x, y) /\ x \in Nat /\ y \in Nat
    BY <2>1, <2>2
  <2>6. x % setting.base = x /\ y % setting.base = y /\ x \div setting.base = 0 /\ y \div setting.base = 0
    BY <2>3
  <2> HIDE DEF x, y
  <2>7. x < y
    BY <2>4, <2>5, <2>6, KeyBeforeIs
  <2> QED
    BY <2>7 DEF x, y
<1> QED
  BY <1>3, <1>4 DEF Lists, ReadsLog, f

\* The records of the log, in the order a recovery reads them.
ScanOf(l) == [i \in 1..Cardinality(DOMAIN l) |-> LET k == InKeyOrder(DOMAIN l)[i] IN [key |-> k, rec |-> l[k]]]

LEMMA ScanReads ==
    ASSUME RunOK, LogOK
    PROVE  /\ ScanOf(log) \in Seq([key : Nat, rec : Records])
           /\ DOMAIN ScanOf(log) = 1..Cardinality(DOMAIN log)
           /\ \A i \in DOMAIN ScanOf(log) : ScanOf(log)[i].key \in DOMAIN log
                                            /\ ScanOf(log)[i].rec = log[ScanOf(log)[i].key]
           /\ \A k \in DOMAIN log : \E i \in DOMAIN ScanOf(log) : ScanOf(log)[i].key = k
           /\ LogInOrder => \A i, j \in DOMAIN ScanOf(log) : i < j => ScanOf(log)[i].key < ScanOf(log)[j].key
<1> DEFINE n == Cardinality(DOMAIN log)
           f == InKeyOrder(DOMAIN log)
           s == ScanOf(log)
           T == [key : Nat, rec : Records]
<1>1. ReadsLog(DOMAIN log, f)
  BY KeyLists DEF RunOK, LogOK
<1> HIDE DEF f
<1>2. n \in Nat /\ f \in [1..n -> DOMAIN log]
  BY <1>1 DEF ReadsLog
<1>3. s = [i \in 1..n |-> [key |-> f[i], rec |-> log[f[i]]]]
  BY DEF ScanOf, f
<1>4. \A k \in DOMAIN log : \E i \in 1..n : f[i] = k
  BY <1>1 DEF ReadsLog
<1>5. LogInOrder => \A i, j \in 1..n : i < j => f[i] < f[j]
  BY <1>1 DEF ReadsLog, LogInOrder
<1> HIDE DEF s, n
<1>6. \A i \in 1..n : f[i] \in DOMAIN log /\ f[i] \in Nat /\ log[f[i]] \in Records
  BY <1>2 DEF LogOK
<1>7. s \in [1..n -> T]
  BY <1>3, <1>6
<1> HIDE DEF T
<1>8. s \in Seq(T) /\ DOMAIN s = 1..n
  BY <1>7, <1>2
<1>9. \A i \in 1..n : s[i].key = f[i] /\ s[i].rec = log[f[i]]
  BY <1>3
<1>10. \A i \in DOMAIN s : s[i].key \in DOMAIN log /\ s[i].rec = log[s[i].key]
  BY <1>6, <1>8, <1>9
<1>11. \A k \in DOMAIN log : \E i \in DOMAIN s : s[i].key = k
  BY <1>4, <1>8, <1>9
<1>12. LogInOrder => \A i, j \in DOMAIN s : i < j => s[i].key < s[j].key
  BY <1>5, <1>8, <1>9
<1> QED
  BY <1>8, <1>10, <1>11, <1>12 DEF s, n, T

LEMMA LoadedType ==
    ASSUME Types, NEW d \in Dirs, disk[d].head # None, disk["index"].trans # None
    PROVE  /\ LoadedFrom(d) \in Memories /\ HeadsOK(LoadedFrom(d))
           /\ LoadedFrom(d).heads = disk[d].head.heads /\ LoadedFrom(d).vec = disk[d].head.vec
           /\ LoadedFrom(d).trans = disk["index"].trans
           /\ (disk[d].ver # None => LoadedFrom(d).ver = disk[d].ver)
           /\ (disk[d].map # None => LoadedFrom(d).map = disk[d].map)
           /\ (disk[d].pool # None => LoadedFrom(d).free = disk[d].pool)
           /\ (disk["index"].meta # None => LoadedFrom(d).meta = disk["index"].meta)
           /\ LoadedFrom(d).reserve = {}
           /\ LoadedFrom(d).ver = disk[d].ver \/ LoadedFrom(d).ver = <<>>
<1>1. disk[d] \in Directories /\ disk["index"] \in Directories /\ HeadsOK(disk[d].head)
  BY DEF Types, DiskOK, Dirs
<1>2. /\ disk[d].head.heads \in SUBSET HeadIds /\ disk[d].head.vec \in Seq(Vectors)
      /\ disk["index"].trans \in Translations
  BY <1>1 DEF Directories, File, HeadFiles
<1>3. /\ OrElse(disk[d].ver, <<>>) \in Versions
      /\ OrElse(disk["index"].meta, <<>>) \in Labels
      /\ OrElse(disk[d].map, NoMap) \in Mappings
      /\ OrElse(disk[d].pool, Blocks) \in SUBSET Blocks
  BY <1>1 DEF Directories, File, OrElse, NoMap, Mappings, Versions, Labels
<1>4. LoadedFrom(d) \in Memories
  BY <1>2, <1>3 DEF LoadedFrom, Memories
<1>5. HeadsOK(LoadedFrom(d))
  BY <1>1 DEF LoadedFrom, HeadsOK
<1> QED
  BY <1>4, <1>5 DEF LoadedFrom, OrElse

\* An index loaded from a directory has its ids and names.
LoadedBase(d) ==
    /\ d \in Dirs /\ disk[d].head # None /\ disk["index"].trans # None /\ mem' = LoadedFrom(d)
    /\ UNCHANGED <<setting, used, blocks, disk, log, jobs, op>> /\ jobs = {}
    /\ \A e \in Dirs : promise'[e] = Void
                       \/ (promise'[e].sure = promise[e].sure /\ promise'[e].gone = promise[e].gone)
    /\ sure' \subseteq sure \cup promise[d].sure /\ gone' \subseteq gone \cup promise[d].gone
    /\ sure' \cap gone' = {}

LEMMA LoadedNames ==
    ASSUME Base, NEW d, LoadedBase(d)
    PROVE  MemOK' /\ NewNames' /\ SureNotGone' /\ Len(mem'.ver) <= NextName' /\ JobsInv'
<1>0. Types /\ IdsInv /\ NamesInv /\ SameNames /\ d \in Dirs
  BY DEF Base, LoadedBase, SameNames
<1>1. /\ LoadedFrom(d) \in Memories /\ HeadsOK(LoadedFrom(d)) /\ LoadedFrom(d).vec = disk[d].head.vec
      /\ LoadedFrom(d).ver = disk[d].ver \/ LoadedFrom(d).ver = <<>>
      /\ (disk[d].ver # None => LoadedFrom(d).ver = disk[d].ver)
      /\ mem' = LoadedFrom(d)
  BY <1>0, LoadedType DEF LoadedBase
<1>2. MemOK'
  BY <1>0, <1>1 DEF LoadedBase, Types, MemOK, HeadsOK
<1>3. NewNames'
  <2> SUFFICES ASSUME NEW v \in Vectors, New(v)' PROVE Unseen(v)'
    BY DEF NewNames
  <2>1. New(v) /\ Unseen(v)
    BY <1>0, NamesKept DEF LoadedBase, NamesInv, NewNames
  <2>2. NotStored(v)' /\ NotSaved(v)'
    BY <1>0, <2>1, NamesKept DEF LoadedBase, Unseen
  <2>3. NoHead(v)'
    BY <1>0, <1>1, <2>1 DEF LoadedBase, Unseen, NotSaved, NoHead
  <2>4. NotPromised(v)'
    BY <2>1 DEF LoadedBase, Unseen, NotPromised, Void
  <2>5. v \notin sure' /\ v \notin gone'
    BY <1>0, <2>1 DEF LoadedBase, Unseen, NotPromised
  <2> QED
    BY <2>2, <2>3, <2>4, <2>5 DEF Unseen
<1>4. SureNotGone'
  BY <1>0 DEF LoadedBase, NamesInv, SureNotGone, Void
<1>5. Len(mem'.ver) <= NextName'
  <2>1. NextName' = NextName /\ NextName' \in Nat
    BY <1>0, IdsKept, SettingFacts DEF NextName, Types, RunOK, WorkOK, Counts
  <2>2. CASE disk[d].ver # None
    BY <1>0, <1>1, <2>1, <2>2 DEF IdsInv, IdsInDirs
  <2>3. CASE disk[d].ver = None
    <3>1. mem'.ver = <<>>
      BY <1>1, <2>3 DEF LoadedFrom, OrElse
    <3> QED
      BY <3>1, <2>1
  <2> QED
    BY <2>2, <2>3
<1>6. JobsInv'
  BY DEF LoadedBase, JobsInv
<1> QED
  BY <1>2, <1>3, <1>4, <1>5, <1>6

LEMMA IdleOps ==
    ASSUME \A c \in Clients : op[c] = Idle, UNCHANGED op
    PROVE  OpNames'
<1>1. \A c \in Clients : op'[c] = Idle
  OBVIOUS
<1>2. Idle.kind = "idle"
  BY DEF Idle
<1> QED
  BY <1>1, <1>2 DEF OpNames

LEMMA LoadIndexBase ==
    ASSUME Base, LoadIndex
    PROVE  Base'
<1>0. /\ Types /\ IdsInv /\ NamesInv /\ state = "down" /\ state' = "running" /\ jobs = {} /\ scan = <<>>
      /\ UNCHANGED <<setting, blocks, disk, log, size, scan, jobs, op, saver, todo, used>>
      /\ "index" \in Dirs /\ "buffer" \in Dirs /\ SameNames
  BY DEF Base, LoadIndex, NamesInv, StatesInv, durable, Dirs, SameNames
<1>1. promise \in [Dirs -> Promises] /\ promise' = [promise EXCEPT !["buffer"] = Void]
  BY <1>0 DEF Types, HistoryOK, LoadIndex
<1>2. HistoryOK'
  BY <1>0, <1>1 DEF LoadIndex, Types, HistoryOK, Promises, Void
<1>3. LoadedBase("index")
  <2>1. \A e \in Dirs : promise'[e] = Void
                        \/ (promise'[e].sure = promise[e].sure /\ promise'[e].gone = promise[e].gone)
    BY <1>0, <1>1
  <2>2. sure' \subseteq promise["index"].sure /\ gone' \subseteq promise["index"].gone /\ sure' \cap gone' = {}
    BY <1>0 DEF LoadIndex, NamesInv, SureNotGone
  <2> QED
    BY <1>0, <2>1, <2>2 DEF LoadedBase, LoadIndex
<1>4. MemOK' /\ NewNames' /\ SureNotGone' /\ Len(mem'.ver) <= NextName' /\ JobsInv'
  BY <1>3, LoadedNames
<1>5. Types'
  BY <1>0, <1>2, <1>4, TypesKept DEF Types, RunOK
<1>6. IdsInv'
  BY <1>0, <1>4, IdsKept DEF IdsInv
<1>7. OpNames' /\ StatesInv'
  <2>1. \A c \in Clients : op[c] = Idle
    BY <1>0 DEF NamesInv, StatesInv
  <2>2. OpNames'
    BY <1>0, <2>1, IdleOps
  <2>3. StatesInv'
    BY <1>0 DEF StatesInv
  <2> QED
    BY <2>2, <2>3
<1> QED
  BY <1>4, <1>5, <1>6, <1>7 DEF Base, NamesInv

LEMMA RecoverIndexBase ==
    ASSUME Base, RecoverIndex
    PROVE  Base'
<1>0. /\ Types /\ IdsInv /\ NamesInv /\ state = "down" /\ state' = "replay" /\ jobs = {} /\ scan = <<>>
      /\ UNCHANGED <<setting, blocks, disk, log, size, jobs, op, saver, todo, used>>
      /\ "index" \in Dirs /\ "buffer" \in Dirs /\ SameNames
  BY DEF Base, RecoverIndex, NamesInv, StatesInv, durable, Dirs, SameNames
<1>1. promise \in [Dirs -> Promises]
      /\ promise' = [promise EXCEPT !["index"] = Void, !["buffer"].logged = @ /\ LogInOrder]
  BY <1>0 DEF Types, HistoryOK, RecoverIndex
<1>2. /\ promise' \in [Dirs -> Promises]
      /\ \A e \in Dirs : promise'[e] = Void
                        \/ (promise'[e].sure = promise[e].sure /\ promise'[e].gone = promise[e].gone)
  <2> DEFINE q == promise["buffer"].logged /\ LogInOrder
  <2>1. promise' = [promise EXCEPT !["index"] = Void, !["buffer"] = [promise["buffer"] EXCEPT !.logged = q]]
    BY <1>1
  <2>2. q \in BOOLEAN
    OBVIOUS
  <2> HIDE DEF q
  <2> DEFINE r == [promise["buffer"] EXCEPT !.logged = q]
  <2>3. r \in Promises /\ r.sure = promise["buffer"].sure /\ r.gone = promise["buffer"].gone
    BY <1>0, <1>1, <2>2 DEF Promises
  <2>4. Void \in Promises
    BY DEF Void, Promises
  <2> HIDE DEF r
  <2>5. promise' = [promise EXCEPT !["index"] = Void, !["buffer"] = r]
    BY <2>1 DEF r
  <2>6. promise'["index"] = Void /\ promise'["buffer"] = r /\ promise' \in [Dirs -> Promises]
    BY <1>0, <1>1, <2>3, <2>4, <2>5
  <2> QED
    BY <2>3, <2>6 DEF Dirs
<1> DEFINE p == promise["buffer"]
           D == {log[i].vec : i \in {k \in DOMAIN log : log[k].kind = "delete"}}
<1>3. /\ sure' = (IF ~p.sound THEN {} ELSE IF p.logged /\ LogInOrder THEN sure ELSE p.sure \ D)
      /\ gone' = (IF ~p.sound THEN {} ELSE IF p.logged /\ LogInOrder THEN gone ELSE p.gone)
      /\ trusted' = p.sound /\ labelled' = FALSE
  BY DEF RecoverIndex
<1>4. p \in Promises /\ p.sure \cap p.gone = {} /\ sure \cap gone = {}
  BY <1>0, <1>1 DEF NamesInv, SureNotGone
<1> HIDE DEF D, p
<1>5. HistoryOK'
  BY <1>0, <1>2, <1>3, <1>4 DEF Types, HistoryOK, Promises
<1>6. LoadedBase("buffer")
  <2>1. sure' \subseteq sure \cup p.sure /\ gone' \subseteq gone \cup p.gone /\ sure' \cap gone' = {}
    BY <1>3, <1>4
  <2> QED
    BY <1>0, <1>2, <2>1 DEF LoadedBase, RecoverIndex, p
<1>7. MemOK' /\ NewNames' /\ SureNotGone' /\ Len(mem'.ver) <= NextName' /\ JobsInv'
  BY <1>6, LoadedNames
<1>8. scan' = <<>> \/ scan' = ScanOf(log)
  BY DEF RecoverIndex, ScanOf
<1>9. /\ ScanOf(log) \in Seq([key : Nat, rec : Records])
      /\ \A i \in DOMAIN ScanOf(log) : ScanOf(log)[i].key \in DOMAIN log /\ ScanOf(log)[i].rec = log[ScanOf(log)[i].key]
  BY <1>0, ScanReads DEF Types
<1>10. LogOK'
  BY <1>0, <1>8, <1>9 DEF Types, LogOK
<1>11. Types'
  BY <1>0, <1>5, <1>7, <1>10, TypesKept DEF Types, RunOK
<1>12. NextName' = NextName
  BY <1>0, IdsKept
<1>13. IdsInLog'
  BY <1>0, <1>8, <1>9, <1>12 DEF IdsInv, IdsInLog
<1>14. IdsInv'
  BY <1>0, <1>7, <1>13, IdsKept DEF IdsInv
<1>15. OpNames' /\ StatesInv'
  <2>1. saver = NoSave /\ \A c \in Clients : op[c] = Idle
    BY <1>0 DEF NamesInv, StatesInv
  <2>2. OpNames'
    BY <1>0, <2>1, IdleOps
  <2>3. StatesInv'
    BY <1>0, <2>1 DEF StatesInv
  <2> QED
    BY <2>2, <2>3
<1> QED
  BY <1>7, <1>11, <1>14, <1>15 DEF Base, NamesInv

\* A block written anew holds only vectors that were somewhere before.
LEMMA StoredNames ==
    ASSUME MemOK, NEW m \in Memories, m.map = mem.map, NEW h \in HeadIds, NEW b \in Blocks, NEW e,
           blocks' = [blocks EXCEPT ![b] = Posting(mem, h) \cup {e}]
    PROVE  \A v : NotStored(v) /\ v # e[2] => NotStored(v)'
<1> SUFFICES ASSUME NEW v, NotStored(v), v # e[2], NEW x \in Blocks, NEW y \in blocks'[x]
             PROVE  y[2] # v
  BY DEF NotStored
<1>1. blocks \in [Blocks -> SUBSET (Ids \X Vectors)]
  BY DEF MemOK, Postings
<1>2. CASE x # b
  BY <1>1, <1>2 DEF NotStored
<1>3. CASE x = b
  <2>1. y \in Posting(mem, h) \/ y = e
    BY <1>1, <1>3
  <2>2. y \in Posting(mem, h) => \E z \in Blocks : y \in blocks[z]
    BY PostingType DEF MemOK, Posting
  <2> QED
    BY <2>1, <2>2 DEF NotStored
<1> QED
  BY <1>2, <1>3

LEMMA RecoverEndBase ==
    ASSUME Base, RecoverEnd
    PROVE  Base'
<1>0. /\ Types /\ IdsInv /\ NamesInv /\ state = "replay" /\ state' = "running" /\ scan = <<>>
      /\ UNCHANGED <<setting, mem, blocks, disk, log, size, scan, jobs, op, saver, todo, used, sure, gone, trusted, labelled, promise>>
      /\ SameNames
  BY DEF Base, RecoverEnd, durable, history, SameNames
<1>1. Types'
  BY <1>0, TypesKept DEF Types, RunOK
<1>2. IdsInv'
  BY <1>0, IdsKept DEF IdsInv
<1>3. NewNames' /\ OpNames' /\ SureNotGone'
  BY <1>0, NamesKept DEF NamesInv, NewNames, Unseen
<1>4. StatesInv' /\ JobsInv'
  BY <1>0 DEF StatesInv, Base, JobsInv
<1> QED
  BY <1>1, <1>2, <1>3, <1>4 DEF Base, NamesInv

\* The record a recovery replays next.
LEMMA NextRecord ==
    ASSUME Types, IdsInv, scan # <<>>
    PROVE  /\ Head(scan).key \in Nat /\ Head(scan).rec \in Records
           /\ Head(scan) = scan[1] /\ 1 \in DOMAIN scan
           /\ Head(scan).rec.id \in Ids /\ Head(scan).rec.vec \in Vectors
           /\ Head(scan).rec.id < NextName /\ Head(scan).rec.vec < NextName
           /\ Tail(scan) \in Seq([key : Nat, rec : Records])
           /\ Len(scan) \in Nat /\ DOMAIN scan = 1..Len(scan) /\ DOMAIN Tail(scan) = 1..(Len(scan) - 1)
           /\ \A i \in DOMAIN Tail(scan) : i + 1 \in DOMAIN scan /\ Tail(scan)[i] = scan[i + 1]
<1> DEFINE T == [key : Nat, rec : Records]
<1>1. scan \in Seq(T)
  BY DEF Types, LogOK
<1>2. \A r \in Records : r.id \in Ids /\ r.vec \in Vectors
  BY DEF Records
<1>3. \A r \in T : r.key \in Nat /\ r.rec \in Records
  OBVIOUS
<1> HIDE DEF T
<1>4. Head(scan) = scan[1] /\ 1 \in DOMAIN scan /\ scan[1] \in T /\ Tail(scan) \in Seq(T)
  BY <1>1
<1>5. Len(scan) \in Nat /\ DOMAIN scan = 1..Len(scan) /\ DOMAIN Tail(scan) = 1..(Len(scan) - 1)
  BY <1>1
<1>6. \A i \in DOMAIN Tail(scan) : i + 1 \in DOMAIN scan /\ Tail(scan)[i] = scan[i + 1]
  BY <1>1
<1> QED
  BY <1>2, <1>3, <1>4, <1>5, <1>6 DEF IdsInv, IdsInLog, T

LEMMA ReplayDeleteBase ==
    ASSUME Base, ReplayDelete
    PROVE  Base'
<1>0. /\ Types /\ IdsInv /\ NamesInv /\ state = "replay" /\ scan # <<>> /\ scan' = Tail(scan)
      /\ size' = Head(scan).key + 1
      /\ UNCHANGED <<setting, state, blocks, disk, log, jobs, op, saver, todo, used, sure, gone, trusted, labelled>>
      /\ SameNames /\ NextName' = NextName
  BY IdsKept DEF Base, ReplayDelete, durable, SameNames
<1>1. /\ mem' \in Memories /\ mem'.heads = mem.heads /\ mem'.vec = mem.vec /\ mem'.trans = mem.trans
      /\ Len(mem'.ver) = Len(mem.ver)
  <2> DEFINE r == Head(scan).rec
             V == IF r.id < Len(mem.ver) THEN [mem.ver EXCEPT ![r.id + 1] = "deleted"] ELSE mem.ver
  <2>1. V \in Versions /\ Len(V) = Len(mem.ver)
    BY <1>0 DEF Types, MemOK, Memories, Versions
  <2>2. mem' = [mem EXCEPT !.ver = V]
    BY DEF ReplayDelete
  <2> HIDE DEF V
  <2> QED
    BY <1>0, <2>1, <2>2 DEF Types, MemOK, Memories
<1>2. MemOK'
  BY <1>0, <1>1 DEF Types, MemOK, HeadsOK
<1>3. /\ promise' \in [Dirs -> Promises]
      /\ \A d \in Dirs : promise'[d].sure = promise[d].sure /\ promise'[d].gone = promise[d].gone
  BY <1>0 DEF ReplayDelete, Types, HistoryOK, Dirs, Promises
<1>4. LogOK'
  BY <1>0, NextRecord DEF Types, LogOK
<1>5. Types'
  BY <1>0, <1>2, <1>3, <1>4, TypesKept DEF Types, HistoryOK
<1>6. IdsInLog'
  BY <1>0, NextRecord DEF IdsInv, IdsInLog
<1>7. IdsInv'
  BY <1>0, <1>1, <1>6, IdsKept DEF IdsInv
<1>8. NewNames'
  BY <1>0, <1>1, <1>3, NamesKept DEF NamesInv, NewNames, Unseen, NotPromised
<1>9. OpNames' /\ SureNotGone'
  BY <1>0, <1>3, NamesKept DEF NamesInv, SureNotGone
<1>10. StatesInv' /\ JobsInv'
  BY <1>0, <1>1 DEF NamesInv, StatesInv, Base, JobsInv
<1> QED
  BY <1>5, <1>7, <1>8, <1>9, <1>10 DEF Base, NamesInv

LEMMA ReplayAddBase ==
    ASSUME Base, ReplayAdd
    PROVE  Base'
<1> DEFINE r == Head(scan).rec
           V == IF r.id < Len(mem.ver) THEN mem.ver
                ELSE [i \in 1..(r.id + 1) |-> IF i <= Len(mem.ver) THEN mem.ver[i] ELSE "live"]
           m == [mem EXCEPT !.ver = V]
           b == NextBlock(mem.free)
           k == Head(scan).key + 1
<1>0. /\ Types /\ IdsInv /\ NamesInv /\ state = "replay" /\ scan # <<>> /\ scan' = Tail(scan) /\ size' = k + 1
      /\ log' = [i \in DOMAIN log \cup {k} |-> IF i = k THEN r ELSE log[i]]
      /\ mem.free # {}
      /\ UNCHANGED <<setting, state, disk, op, saver, todo, used, sure, gone, trusted, labelled, promise>>
      /\ SameNames /\ NextName' = NextName
  <2>1. size' = k + 1
    BY NextRecord DEF Base, ReplayAdd
  <2> QED
    BY <2>1, IdsKept DEF Base, ReplayAdd, history, SameNames
<1>1. PICK h \in mem.heads :
        /\ mem' = PutPosting(m, h, b)
        /\ blocks' = [blocks EXCEPT ![b] = Posting(mem, h) \cup {<<r.id, r.vec>>}]
        /\ jobs' \subseteq jobs \cup {h}
  BY DEF ReplayAdd
<1>2. /\ k \in Nat /\ r \in Records /\ r.id \in Ids /\ r.vec \in Vectors /\ r.id < NextName /\ r.vec < NextName
      /\ Tail(scan) \in Seq([key : Nat, rec : Records])
  BY <1>0, NextRecord
<1>3. h \in HeadIds /\ mem \in Memories /\ mem.free \in SUBSET Blocks /\ h \in 0..(Len(mem.vec) - 1)
  BY <1>0 DEF Types, MemOK, Memories, HeadsOK
<1>4. b \in Blocks
  BY <1>0, <1>3, NextBlockIsFree
<1>5. V \in Versions /\ Len(V) <= NextName
  <2>1. mem.ver \in Versions /\ Len(mem.ver) \in Nat /\ Len(mem.ver) <= NextName /\ NextName \in Int
    BY <1>0, SettingFacts DEF IdsInv, Types, RunOK, MemOK, Memories, Versions, NextName, WorkOK, Counts
  <2>2. r.id \in Nat
    BY <1>2 DEF Ids
  <2>3. r.id + 1 <= NextName
    BY <1>2, <2>1, <2>2
  <2> HIDE DEF r
  <2>4. CASE r.id < Len(mem.ver)
    BY <2>1, <2>4
  <2>5. CASE ~(r.id < Len(mem.ver))
    <3>1. V = [i \in 1..(r.id + 1) |-> IF i <= Len(mem.ver) THEN mem.ver[i] ELSE "live"]
      BY <2>5
    <3>2. \A i \in 1..(r.id + 1) : i <= Len(mem.ver) => mem.ver[i] \in {"live", "deleted"}
      BY <2>1 DEF Versions
    <3>3. V \in [1..(r.id + 1) -> {"live", "deleted"}]
      BY <3>1, <3>2
    <3> HIDE DEF V
    <3>4. V \in Versions /\ Len(V) = r.id + 1
      BY <3>3, <2>2 DEF Versions
    <3> QED
      BY <3>4, <2>3
  <2> QED
    BY <2>4, <2>5
<1> HIDE DEF r, V
<1>6. m \in Memories /\ m.map = mem.map /\ m.vec = mem.vec /\ m.ver = V /\ m.heads = mem.heads /\ m.trans = mem.trans
  BY <1>3, <1>5 DEF Memories
<1> HIDE DEF m, b, k
<1>7. mem' \in Memories /\ mem'.vec = mem.vec /\ mem'.ver = V /\ mem'.heads = mem.heads /\ mem'.trans = mem.trans
  <2> DEFINE q == PutPosting(m, h, b)
  <2>1. PutAs(q, m, h, b)
    BY <1>3, <1>4, <1>6, PutEffect
  <2>2. mem' = q
    BY <1>1
  <2> HIDE DEF q
  <2> QED
    BY <2>1, <2>2, <1>6 DEF PutAs
<1>8. Posting(mem, h) \cup {<<r.id, r.vec>>} \in SUBSET (Ids \X Vectors) /\ blocks \in Postings
  BY <1>0, <1>2, <1>3, PostingType DEF Types, MemOK
<1>9. MemOK'
  BY <1>0, <1>1, <1>4, <1>7, <1>8, WriteType DEF Types, MemOK, HeadsOK
<1>10. LogOK'
  <2>1. DOMAIN log' = DOMAIN log \cup {k} /\ IsFiniteSet(DOMAIN log \cup {k})
    BY <1>0, FS_AddElement DEF Types, LogOK
  <2>2. \A i \in DOMAIN log' : log'[i] \in Records
    BY <1>0, <1>2, <2>1 DEF Types, LogOK
  <2> QED
    BY <1>0, <1>2, <2>1, <2>2 DEF Types, LogOK
<1>11. WorkOK'
  BY <1>0, <1>1, <1>3 DEF Types, WorkOK
<1>12. Types'
  BY <1>0, <1>9, <1>10, <1>11, TypesKept DEF Types
<1>13. IdsInLog'
  <2>1. \A i \in DOMAIN log' : log'[i] = r \/ (i \in DOMAIN log /\ log'[i] = log[i])
    BY <1>0
  <2>2. \A i \in DOMAIN log' : log'[i].id < NextName' /\ log'[i].vec < NextName'
    BY <1>0, <1>2, <2>1 DEF IdsInv, IdsInLog
  <2>3. \A i \in DOMAIN scan' : \E j \in DOMAIN scan : scan'[i] = scan[j]
    BY <1>0, NextRecord
  <2>4. \A i \in DOMAIN scan' : scan'[i].rec.id < NextName' /\ scan'[i].rec.vec < NextName'
    BY <1>0, <2>3 DEF IdsInv, IdsInLog
  <2> QED
    BY <2>2, <2>4 DEF IdsInLog
<1>14. IdsInv'
  BY <1>0, <1>5, <1>7, <1>13, IdsKept DEF IdsInv
<1>15. \A c \in Clients : op[c] = Idle
  BY <1>0 DEF NamesInv, StatesInv
<1>16. NewNames'
  <2> SUFFICES ASSUME NEW v \in Vectors, New(v)' PROVE Unseen(v)'
    BY DEF NewNames
  <2>1. New(v) /\ Unseen(v)
    BY <1>0, NamesKept DEF NamesInv, NewNames
  <2>2. v # r.vec
    <3>1. v >= NextName
      BY <2>1, <1>15 DEF New, Adds, Idle
    <3>2. NextName \in Int /\ v \in Int /\ r.vec \in Int
      BY SMTT(20), <1>0, <1>2, SettingFacts DEF Types, RunOK, NextName, WorkOK, Counts, Vectors
    <3> QED
      BY <3>1, <3>2, <1>2
  <2>3. NotStored(v)'
    <3>1. <<r.id, r.vec>>[2] = r.vec
      OBVIOUS
    <3> QED
      BY <1>0, <1>1, <1>3, <1>4, <1>6, <2>1, <2>2, <3>1, StoredNames DEF Unseen, Types
  <2>4. NoHead(v)' /\ NotSaved(v)' /\ NotPromised(v)'
    BY <1>0, <1>7, <2>1, NamesKept DEF Unseen
  <2> QED
    BY <1>0, <2>1, <2>3, <2>4 DEF Unseen
<1>17. SureNotGone'
  BY <1>0, NamesKept
<1>18. OpNames'
  BY <1>0, <1>15, IdleOps
<1>19. StatesInv'
  BY <1>0 DEF NamesInv, StatesInv
<1>20. JobsInv'
  BY <1>0, <1>1, <1>3, <1>7 DEF Base, JobsInv
<1> QED
  BY <1>12, <1>14, <1>16, <1>17, <1>18, <1>19, <1>20 DEF Base, NamesInv

LEMMA OverlapType ==
    ASSUME SaverOK, saver' = Overlap
    PROVE  SaverOK' /\ saver'.kind = saver.kind /\ saver'.plan = saver.plan /\ saver'.dir = saver.dir
           /\ saver'.labelled = saver.labelled
           /\ (saver.kind = "none" => saver' = saver) /\ (saver.kind # "none" => ~saver'.quiet)
  BY DEF SaverOK, PlanOK, Overlap

LEMMA AddBatchBase ==
    ASSUME Base, NEW c \in Clients, AddBatch(c)
    PROVE  Base'
<1> DEFINE o == [kind |-> "log", vec |-> NextName, id |-> Len(mem.ver), renumbered |-> FALSE]
<1>0. /\ Types /\ IdsInv /\ NamesInv /\ state = "running" /\ op[c] = Idle /\ NextName < Names
      /\ UNCHANGED <<setting, state, blocks, disk, log, size, scan, jobs, todo, sure, gone, trusted, labelled, promise>>
      /\ op' = [op EXCEPT ![c] = o] /\ saver' = Overlap
  BY DEF Base, AddBatch, durable, history
<1>1. NextName \in Nat /\ NextName' = NextName + 1 /\ Len(mem.ver) \in Nat /\ Len(mem.ver) <= NextName /\ Names \in Nat
  <2>1. Cardinality(setting.built) \in Nat /\ used \in Counts /\ Names \in Nat
    BY <1>0, SettingFacts DEF Types, RunOK, WorkOK
  <2>2. used'.adds = used.adds + 1 /\ used.adds \in Nat
    BY <2>1 DEF AddBatch, Counts
  <2>3. Len(mem.ver) \in Nat
    BY <1>0 DEF Types, MemOK, Memories, Versions
  <2> QED
    BY <1>0, <2>1, <2>2, <2>3 DEF NextName, IdsInv
<1>2. /\ mem' \in Memories /\ mem'.heads = mem.heads /\ mem'.vec = mem.vec /\ mem'.trans = mem.trans
      /\ Len(mem'.ver) = Len(mem.ver) + 1
  <2> DEFINE V == Append(mem.ver, "live")
             M == IF setting.spfresh THEN mem.meta ELSE Append(mem.meta, NextName)
  <2>1. V \in Versions /\ Len(V) = Len(mem.ver) + 1
    BY <1>0 DEF Types, MemOK, Memories, Versions
  <2>2. M \in Labels
    BY <1>0, <1>1 DEF Types, MemOK, Memories, Labels, Vectors
  <2>3. mem' = [mem EXCEPT !.ver = V, !.meta = M]
    BY DEF AddBatch
  <2> HIDE DEF V, M
  <2> QED
    BY <1>0, <2>1, <2>2, <2>3 DEF Types, MemOK, Memories
<1>3. MemOK'
  BY <1>0, <1>2 DEF Types, MemOK, HeadsOK
<1>4. OpsOK'
  <2>1. o \in Operations /\ o.kind # "idle" /\ o.id \in Ids
    BY <1>0, <1>1 DEF Operations, Vectors, Ids
  <2> HIDE DEF o
  <2> QED
    BY <1>0, <2>1 DEF Types, OpsOK
<1>5. SaverOK' /\ WorkOK'
  BY <1>0, OverlapType DEF AddBatch, Types, WorkOK, Counts
<1>6. Types'
  BY <1>0, <1>3, <1>4, <1>5, TypesKept DEF Types
<1>7. \A e \in Clients : op'[e] = IF e = c THEN o ELSE op[e]
  BY <1>0 DEF Types, OpsOK
<1>8. IdsInv'
  <2>1. IdsInDirs'
    <3> SUFFICES ASSUME NEW d \in Dirs, disk[d].ver # None PROVE Len(disk[d].ver) <= NextName + 1
      BY <1>0, <1>1 DEF IdsInDirs
    <3>1. Len(disk[d].ver) \in Nat
      BY <1>0 DEF Types, DiskOK, Directories, File, Versions
    <3> QED
      BY <3>1, <1>0, <1>1 DEF IdsInv, IdsInDirs
  <2>2. \A e \in Clients : op[e].id \in Int /\ op[e].vec \in Int
    BY <1>0 DEF Types, OpsOK, Operations, Ids, Vectors, NoId
  <2>3. IdsInOps'
    BY <1>0, <1>1, <1>7, <2>2 DEF IdsInv, IdsInOps
  <2>4. \A r \in Records : r.id \in Int /\ r.vec \in Int
    BY DEF Records, Ids, Vectors
  <2>5. \A k \in DOMAIN log : log[k].id < NextName + 1 /\ log[k].vec < NextName + 1
    <3> TAKE k \in DOMAIN log
    <3>1. log[k].id \in Int /\ log[k].vec \in Int
      BY <2>4, <1>0 DEF Types, LogOK
    <3> QED
      BY <3>1, <1>0, <1>1 DEF IdsInv, IdsInLog
  <2>6. scan = <<>>
    BY <1>0 DEF NamesInv, StatesInv
  <2>7. IdsInLog'
    BY <1>0, <1>1, <2>5, <2>6 DEF IdsInLog
  <2>8. NextName' <= Names /\ Len(mem'.ver) <= NextName'
    BY <1>0, <1>1, <1>2
  <2> QED
    BY <2>1, <2>3, <2>7, <2>8 DEF IdsInv
<1>9. NewNames'
  <2> SUFFICES ASSUME NEW v \in Vectors, New(v)' PROVE Unseen(v)'
    BY DEF NewNames
  <2>1. New(v)
    <3>1. v \in Int
      BY DEF Vectors
    <3>2. CASE v >= NextName'
      BY <3>1, <3>2, <1>1 DEF New
    <3>3. CASE \E e \in Clients : Adds(e)' /\ op'[e].vec = v
      BY <3>1, <3>3, <1>1, <1>7 DEF New, Adds
    <3> QED
      BY <3>2, <3>3 DEF New
  <2>2. Unseen(v)
    BY <2>1, <1>0 DEF NamesInv, NewNames
  <2> QED
    BY <1>0, <1>2, <2>2 DEF Unseen, NotStored, NoHead, NotSaved, NotPromised
<1>10. OpNames'
  <2>1. \A e \in Clients : op'[e].kind = "delete" => op'[e] = op[e]
    BY <1>7
  <2>2. \A e \in Clients : op[e] # Idle => op[e].vec # NextName
    <3> TAKE e \in Clients
    <3>1. op[e].vec \in Int
      BY <1>0 DEF Types, OpsOK, Operations, Vectors
    <3> QED
      BY <3>1, <1>0, <1>1 DEF IdsInv, IdsInOps
  <2>3. \A k \in DOMAIN log : log[k].vec # NextName
    <3> TAKE k \in DOMAIN log
    <3>1. log[k].vec \in Int
      BY <1>0 DEF Types, LogOK, Records, Vectors
    <3> QED
      BY <3>1, <1>0, <1>1 DEF IdsInv, IdsInLog
  <2>4. o.vec = NextName
    OBVIOUS
  <2> HIDE DEF o
  <2>5. \A e, f \in Clients : e # f /\ op'[e] # Idle /\ op'[f] # Idle => op'[e].vec # op'[f].vec
    BY <1>0, <1>7, <2>2, <2>4 DEF NamesInv, OpNames
  <2>6. \A e \in Clients : op'[e].kind = "log" => \A k \in DOMAIN log' : log'[k].vec # op'[e].vec
    BY <1>0, <1>7, <2>3, <2>4 DEF NamesInv, OpNames
  <2> QED
    BY <1>0, <2>1, <2>5, <2>6 DEF NamesInv, OpNames
<1>11. SureNotGone'
  BY <1>0 DEF NamesInv, SureNotGone
<1>12. StatesInv'
  BY <1>0 DEF NamesInv, StatesInv
<1>13. JobsInv'
  BY <1>0, <1>2 DEF Base, JobsInv
<1> QED
  BY <1>6, <1>8, <1>9, <1>10, <1>11, <1>12, <1>13 DEF Base, NamesInv

\* What a client does only when it has an operation, or when it may begin one.
LEMMA ClientsRun ==
    ASSUME NamesInv, NEW c \in Clients, op[c].kind # "idle" \/ state = "running"
    PROVE  state = "running"
  BY DEF NamesInv, StatesInv, Idle

\* The log after a client wrote a record about its vector.
LEMMA LoggedType ==
    ASSUME LogOK, NEW r \in Records, PutAssignment(r), scan' = scan
    PROVE  /\ LogOK'
           /\ \A k \in DOMAIN log' : log'[k] = r \/ (k \in DOMAIN log /\ log'[k] = log[k])
<1>1. CASE setting.wal
  <2>1. log' = [i \in DOMAIN log \cup {size} |-> IF i = size THEN r ELSE log[i]] /\ size' = size + 1
    BY <1>1 DEF PutAssignment
  <2>2. IsFiniteSet(DOMAIN log \cup {size})
    BY FS_AddElement DEF LogOK
  <2> QED
    BY <2>1, <2>2 DEF LogOK
<1>2. CASE ~setting.wal
  BY <1>2 DEF PutAssignment, LogOK
<1> QED
  BY <1>1, <1>2

LEMMA AddLogBase ==
    ASSUME Base, NEW c \in Clients, AddLog(c)
    PROVE  Base'
<1> DEFINE r == [kind |-> "add", id |-> op[c].id, vec |-> op[c].vec]
<1>0. /\ Types /\ IdsInv /\ NamesInv /\ state = "running" /\ op[c].kind = "log"
      /\ UNCHANGED <<setting, state, mem, blocks, disk, scan, jobs, todo, used, sure, gone, trusted, labelled, promise>>
      /\ op' = [op EXCEPT ![c].kind = "append"] /\ saver' = Overlap /\ PutAssignment(r) /\ SameNames
  BY ClientsRun DEF Base, AddLog, history, SameNames
<1>1. op[c] # Idle /\ op[c].id \in Ids /\ op[c].vec \in Vectors /\ op[c] \in Operations /\ NextName' = NextName
  BY <1>0, IdsKept DEF Types, OpsOK, Idle, Operations
<1>2. r \in Records /\ r.vec = op[c].vec /\ r.id = op[c].id
  BY <1>1 DEF Records
<1> HIDE DEF r
<1>3. LogOK' /\ \A k \in DOMAIN log' : log'[k] = r \/ (k \in DOMAIN log /\ log'[k] = log[k])
  BY <1>0, <1>2, LoggedType DEF Types
<1>4. /\ op' \in [Clients -> Operations] /\ op'[c].vec = op[c].vec /\ op'[c].id = op[c].id /\ op'[c].kind = "append"
      /\ \A e \in Clients : e # c => op'[e] = op[e]
  BY <1>0, <1>1 DEF Types, OpsOK, Operations
<1>5. OpsOK'
  BY <1>0, <1>1, <1>4 DEF Types, OpsOK
<1>6. Types'
  BY <1>0, <1>3, <1>5, TypesKept, OverlapType DEF Types
<1>7. IdsInOps'
  BY <1>0, <1>1, <1>4 DEF IdsInv, IdsInOps
<1>8. IdsInLog'
  BY <1>0, <1>1, <1>2, <1>3 DEF IdsInv, IdsInLog, IdsInOps
<1>9. IdsInv'
  BY <1>0, <1>7, <1>8, IdsKept DEF IdsInv
<1>10. \A v : New(v)' => New(v)
  BY <1>0, <1>1, <1>4 DEF New, Adds
<1>11. NewNames'
  BY <1>0, <1>10, NamesKept DEF NamesInv, NewNames, Unseen
<1>12. OpNames'
  <2>1. \A e \in Clients : (op'[e].kind = "delete" => op'[e] = op[e]) /\ op'[e].vec = op[e].vec /\ (op'[e] # Idle => op[e] # Idle)
    BY <1>1, <1>4
  <2>2. \A e \in Clients : op'[e].kind = "log" => e # c /\ op[e].kind = "log" /\ op[e].vec # op[c].vec
    <3> SUFFICES ASSUME NEW e \in Clients, op'[e].kind = "log" PROVE e # c /\ op[e].kind = "log" /\ op[e].vec # op[c].vec
      OBVIOUS
    <3>1. e # c /\ op[e].kind = "log" /\ op[e] # Idle
      BY <1>4 DEF Idle
    <3> QED
      BY <3>1, <1>0, <1>1 DEF NamesInv, OpNames
  <2>3. \A e \in Clients : op'[e].kind = "log" => \A k \in DOMAIN log' : log'[k].vec # op'[e].vec
    BY <1>0, <1>2, <1>3, <2>1, <2>2 DEF NamesInv, OpNames
  <2> QED
    BY <1>0, <2>1, <2>3 DEF NamesInv, OpNames
<1>13. SureNotGone' /\ StatesInv' /\ JobsInv'
  BY <1>0 DEF NamesInv, SureNotGone, StatesInv, Base, JobsInv
<1> QED
  BY <1>6, <1>9, <1>11, <1>12, <1>13 DEF Base, NamesInv

LEMMA AddAppendBase ==
    ASSUME Base, NEW c \in Clients, AddAppend(c)
    PROVE  Base'
<1> DEFINE e == <<op[c].id, op[c].vec>>
           b == NextBlock(mem.free)
<1>0. /\ Types /\ IdsInv /\ NamesInv /\ state = "running" /\ op[c].kind = "append"
      /\ UNCHANGED <<setting, state, disk, log, size, scan, todo, used, gone, trusted, labelled, promise>>
      /\ op' = [op EXCEPT ![c] = Idle] /\ saver' = Overlap /\ sure' \subseteq sure \cup {op[c].vec} /\ SameNames
  BY ClientsRun DEF Base, AddAppend, SameNames
<1>1. PICK h \in mem.heads : mem.free # {} /\ mem' = PutPosting(mem, h, b)
                             /\ blocks' = [blocks EXCEPT ![b] = Posting(mem, h) \cup {e}]
                             /\ jobs' \subseteq jobs \cup {h}
  BY DEF AddAppend, AppendTo
<1>2. op[c] # Idle /\ op[c].id \in Ids /\ op[c].vec \in Vectors /\ Adds(c) /\ New(op[c].vec)
  BY <1>0 DEF Types, OpsOK, Idle, Operations, Adds, New
<1>3. h \in HeadIds /\ mem \in Memories /\ mem.free \in SUBSET Blocks /\ h \in 0..(Len(mem.vec) - 1)
  BY <1>0 DEF Types, MemOK, Memories, HeadsOK
<1>4. b \in Blocks /\ e \in Ids \X Vectors /\ e[2] = op[c].vec
  BY <1>1, <1>2, <1>3, NextBlockIsFree
<1> HIDE DEF e, b
<1>5. PutAs(mem', mem, h, b)
  BY <1>1, <1>3, <1>4, PutEffect
<1>6. MemOK'
  <2>1. Posting(mem, h) \cup {e} \in SUBSET (Ids \X Vectors) /\ blocks \in Postings
    BY <1>0, <1>3, <1>4, PostingType DEF Types, MemOK
  <2> QED
    BY <2>1, <1>0, <1>1, <1>4, <1>5, WriteType DEF Types, MemOK, HeadsOK, PutAs
<1>7. OpsOK' /\ \A d \in Clients : op'[d] = IF d = c THEN Idle ELSE op[d]
  <2>1. Idle \in Operations
    BY SettingFacts, <1>0 DEF Types, RunOK, Idle, Operations
  <2> QED
    BY <1>0, <2>1 DEF Types, OpsOK
<1>8. WorkOK' /\ HistoryOK'
  BY <1>0, <1>1, <1>2, <1>3 DEF Types, WorkOK, HistoryOK
<1>9. Types'
  BY <1>0, <1>6, <1>7, <1>8, TypesKept, OverlapType DEF Types
<1>10. NextName' = NextName
  BY <1>0, IdsKept
<1>11. IdsInOps'
  BY <1>0, <1>7, <1>10 DEF IdsInv, IdsInOps
<1>12. IdsInv'
  BY <1>0, <1>5, <1>11, IdsKept DEF IdsInv, PutAs
<1>13. Idle.kind = "idle"
  BY DEF Idle
<1>14. \A v \in Vectors : New(v)' => New(v) /\ v # op[c].vec
  <2> SUFFICES ASSUME NEW v \in Vectors, New(v)' PROVE New(v) /\ v # op[c].vec
    OBVIOUS
  <2>1. CASE v >= NextName
    <3>1. NextName \in Int /\ v \in Int /\ op[c].vec \in Int /\ op[c].vec < NextName
      BY <1>0, <1>2, SettingFacts DEF Types, RunOK, NextName, WorkOK, Counts, Vectors, IdsInv, IdsInOps
    <3> QED
      BY <3>1, <2>1 DEF New
  <2>2. CASE \E d \in Clients : Adds(d)' /\ op'[d].vec = v
    <3>1. PICK d \in Clients : Adds(d)' /\ op'[d].vec = v
      BY <2>2
    <3>2. d # c /\ op'[d] = op[d] /\ Adds(d) /\ op[d] # Idle
      BY <3>1, <1>7, <1>13 DEF Adds
    <3> QED
      BY <3>1, <3>2, <1>0, <1>2 DEF New, NamesInv, OpNames
  <2> QED
    BY <2>1, <2>2, <1>10 DEF New
<1>15. NewNames'
  <2> SUFFICES ASSUME NEW v \in Vectors, New(v)' PROVE Unseen(v)'
    BY DEF NewNames
  <2>1. Unseen(v) /\ v # op[c].vec
    BY <1>0, <1>14 DEF NamesInv, NewNames
  <2>2. NotStored(v)'
    BY <1>0, <1>1, <1>3, <1>4, <2>1, StoredNames DEF Unseen, Types
  <2>3. NoHead(v)' /\ NotSaved(v)' /\ NotPromised(v)'
    BY <1>0, <1>5, <2>1, NamesKept DEF Unseen, PutAs
  <2> QED
    BY <1>0, <2>1, <2>2, <2>3 DEF Unseen
<1>16. OpNames'
  <2>1. \A d \in Clients : op'[d] # Idle => d # c /\ op'[d] = op[d] /\ op[d] # Idle /\ op[d].vec # op[c].vec
    BY <1>0, <1>2, <1>7 DEF NamesInv, OpNames
  <2>2. \A d \in Clients : op'[d].kind # "idle" => op'[d] # Idle
    BY <1>13
  <2>3. \A d \in Clients : op'[d].kind = "delete" => op'[d].vec \notin sure' /\ op'[d].vec \notin gone'
    BY <1>0, <2>1, <2>2 DEF NamesInv, OpNames
  <2>4. \A d, f \in Clients : d # f /\ op'[d] # Idle /\ op'[f] # Idle => op'[d].vec # op'[f].vec
    BY <1>0, <2>1 DEF NamesInv, OpNames
  <2>5. \A d \in Clients : op'[d].kind = "log" => \A k \in DOMAIN log' : log'[k].vec # op'[d].vec
    BY <1>0, <2>1, <2>2 DEF NamesInv, OpNames
  <2> QED
    BY <2>3, <2>4, <2>5 DEF OpNames
<1>17. SureNotGone'
  <2>1. op[c].vec \notin gone
    BY <1>0, <1>2 DEF NamesInv, NewNames, Unseen
  <2> QED
    BY <1>0, <2>1 DEF NamesInv, SureNotGone
<1>18. StatesInv'
  BY <1>0 DEF NamesInv, StatesInv
<1>19. JobsInv'
  BY <1>0, <1>1, <1>3, <1>5 DEF Base, JobsInv, PutAs
<1> QED
  BY <1>9, <1>12, <1>15, <1>16, <1>17, <1>18, <1>19 DEF Base, NamesInv

\* A claimed vector is not new, and an answer names a live id.
LEMMA AnswersNamed ==
    ASSUME Base, NEW e \in Answers(mem)
    PROVE  /\ e[1] \in Ids /\ e[1] < NextName /\ e[1] < Len(mem.ver) /\ Live(mem.ver, e[1])
           /\ e[2] \in sure => e[2] \in Vectors /\ e[2] < NextName
                               /\ \A c \in Clients : op[c] # Idle => op[c].vec # e[2]
<1>1. Live(mem.ver, e[1]) /\ e[1] \in 0..(Len(mem.ver) - 1) /\ Len(mem.ver) \in Nat
  BY DEF Answers, Live, Base, Types, MemOK, Memories, Versions
<1>2. NextName \in Int /\ Names \in Nat /\ Len(mem.ver) <= NextName /\ NextName <= Names
  BY SettingFacts DEF Base, Types, RunOK, NextName, WorkOK, Counts, IdsInv
<1>3. e[1] \in Ids /\ e[1] < NextName /\ e[1] < Len(mem.ver)
  BY <1>1, <1>2 DEF Ids
<1>4. ASSUME e[2] \in sure
      PROVE  e[2] \in Vectors /\ e[2] < NextName /\ \A c \in Clients : op[c] # Idle => op[c].vec # e[2]
  <2>1. e[2] \in Vectors /\ e[2] \in Int
    <3>1. sure \subseteq Vectors /\ Vectors \subseteq Int
      BY LifecycleBounds DEF Base, Types, HistoryOK, Vectors
    <3> QED
      BY <3>1, <1>4
  <2>2. ~New(e[2])
    BY <1>4, <2>1 DEF Base, NamesInv, NewNames, Unseen
  <2>3. e[2] < NextName
    BY <2>1, <2>2, <1>2 DEF New
  <2>4. \A c \in Clients : op[c] # Idle => Adds(c) \/ op[c].kind = "delete"
    BY DEF Base, Types, OpsOK, Operations, Adds
  <2>5. \A c \in Clients : op[c] # Idle => op[c].vec # e[2]
    BY <1>4, <2>2, <2>4 DEF New, Base, NamesInv, OpNames
  <2> QED
    BY <2>1, <2>3, <2>5
<1> QED
  BY <1>1, <1>3, <1>4

LEMMA DeleteLogBase ==
    ASSUME Base, NEW c \in Clients, DeleteLog(c)
    PROVE  Base'
<1>0. /\ Types /\ IdsInv /\ NamesInv /\ state = "running" /\ op[c] = Idle
      /\ UNCHANGED <<setting, state, mem, blocks, disk, scan, jobs, todo, used, gone, trusted, labelled, promise>>
      /\ saver' = Overlap /\ SameNames
  BY DEF Base, DeleteLog, SameNames
<1>1. PICK e \in Answers(mem) :
        /\ e[2] \in sure
        /\ PutAssignment([kind |-> "delete", id |-> e[1], vec |-> e[2]])
        /\ op' = [op EXCEPT ![c] = [kind |-> "delete", vec |-> e[2], id |-> e[1], renumbered |-> FALSE]]
        /\ sure' = sure \ {e[2]}
  BY DEF DeleteLog
<1> DEFINE r == [kind |-> "delete", id |-> e[1], vec |-> e[2]]
           o == [kind |-> "delete", vec |-> e[2], id |-> e[1], renumbered |-> FALSE]
<1>2. /\ e[1] \in Ids /\ e[1] < NextName /\ e[2] \in Vectors /\ e[2] < NextName
      /\ \A d \in Clients : op[d] # Idle => op[d].vec # e[2]
      /\ NextName' = NextName
  BY <1>0, <1>1, AnswersNamed, IdsKept
<1>3. r \in Records /\ r.id = e[1] /\ r.vec = e[2]
  BY <1>2 DEF Records
<1>4. o \in Operations /\ o.kind = "delete" /\ o.id = e[1] /\ o.vec = e[2] /\ o # Idle
  BY <1>2 DEF Operations, Idle
<1>5. LogOK' /\ \A k \in DOMAIN log' : log'[k] = r \/ (k \in DOMAIN log /\ log'[k] = log[k])
  BY <1>0, <1>1, <1>3, LoggedType DEF Types
<1> HIDE DEF r, o
<1>6. OpsOK' /\ \A d \in Clients : op'[d] = IF d = c THEN o ELSE op[d]
  <2>1. op' = [op EXCEPT ![c] = o]
    BY <1>1 DEF o
  <2> QED
    BY <2>1, <1>0, <1>2, <1>4 DEF Types, OpsOK
<1>7. HistoryOK'
  BY <1>0, <1>1 DEF Types, HistoryOK
<1>8. Types'
  BY <1>0, <1>5, <1>6, <1>7, TypesKept, OverlapType DEF Types
<1>9. IdsInOps'
  BY <1>0, <1>2, <1>4, <1>6 DEF IdsInv, IdsInOps
<1>10. IdsInLog'
  BY <1>0, <1>2, <1>3, <1>5 DEF IdsInv, IdsInLog
<1>11. IdsInv'
  BY <1>0, <1>9, <1>10, IdsKept DEF IdsInv
<1>12. NewNames'
  <2>1. \A v : New(v)' => New(v)
    BY <1>2, <1>4, <1>6 DEF New, Adds
  <2> QED
    BY <1>0, <1>1, <2>1, NamesKept DEF NamesInv, NewNames, Unseen
<1>13. OpNames'
  <2>0. e[2] \notin gone
    BY <1>0, <1>1 DEF NamesInv, SureNotGone
  <2>1. \A d \in Clients : op'[d].kind = "delete" => op'[d].vec \notin sure' /\ op'[d].vec \notin gone'
    BY <1>0, <1>1, <1>4, <1>6, <2>0 DEF NamesInv, OpNames
  <2>2. \A d, f \in Clients : d # f /\ op'[d] # Idle /\ op'[f] # Idle => op'[d].vec # op'[f].vec
    BY <1>0, <1>2, <1>4, <1>6 DEF NamesInv, OpNames
  <2>3. \A d \in Clients : op[d].kind = "log" => op[d] # Idle
    BY DEF Idle
  <2>4. \A d \in Clients : op'[d].kind = "log" => \A k \in DOMAIN log' : log'[k].vec # op'[d].vec
    BY <1>0, <1>2, <1>3, <1>4, <1>5, <1>6, <2>3 DEF NamesInv, OpNames
  <2> QED
    BY <2>1, <2>2, <2>4 DEF OpNames
<1>14. SureNotGone' /\ StatesInv' /\ JobsInv'
  BY <1>0, <1>1 DEF NamesInv, SureNotGone, StatesInv, Base, JobsInv
<1> QED
  BY <1>8, <1>11, <1>12, <1>13, <1>14 DEF Base, NamesInv

LEMMA DeleteMarkBase ==
    ASSUME Base, NEW c \in Clients, DeleteMark(c)
    PROVE  Base'
<1>0. /\ Types /\ IdsInv /\ NamesInv /\ state = "running" /\ op[c].kind = "delete" /\ op[c] # Idle
      /\ UNCHANGED <<setting, state, blocks, disk, log, size, scan, jobs, todo, used, sure, trusted, labelled, promise>>
      /\ op' = [op EXCEPT ![c] = Idle] /\ saver' = Overlap /\ gone' = gone \cup {op[c].vec} /\ SameNames
  BY ClientsRun DEF Base, DeleteMark, durable, SameNames, Idle
<1>1. /\ mem' \in Memories /\ mem'.heads = mem.heads /\ mem'.vec = mem.vec /\ mem'.trans = mem.trans
      /\ Len(mem'.ver) = Len(mem.ver)
  <2> DEFINE V == [mem.ver EXCEPT ![op[c].id + 1] = "deleted"]
  <2>1. V \in Versions /\ Len(V) = Len(mem.ver)
    <3>1. mem.ver \in Seq({"live", "deleted"})
      BY <1>0 DEF Types, MemOK, Memories, Versions
    <3>2. Len(mem.ver) \in Nat /\ mem.ver \in [1..Len(mem.ver) -> {"live", "deleted"}]
      BY <3>1
    <3>3. V \in [1..Len(mem.ver) -> {"live", "deleted"}]
      BY <3>2
    <3> HIDE DEF V
    <3> QED
      BY <3>2, <3>3 DEF Versions
  <2>2. mem' = [mem EXCEPT !.ver = V]
    BY DEF DeleteMark
  <2> HIDE DEF V
  <2> QED
    BY <1>0, <2>1, <2>2 DEF Types, MemOK, Memories
<1>2. MemOK'
  BY <1>0, <1>1 DEF Types, MemOK, HeadsOK
<1>3. OpsOK' /\ (\A d \in Clients : op'[d] = IF d = c THEN Idle ELSE op[d]) /\ op[c].vec \in Vectors
  <2>1. Idle \in Operations
    BY SettingFacts, <1>0 DEF Types, RunOK, Idle, Operations
  <2> QED
    BY <1>0, <2>1 DEF Types, OpsOK, Operations
<1>4. HistoryOK'
  BY <1>0, <1>3 DEF Types, HistoryOK
<1>5. Types'
  BY <1>0, <1>2, <1>3, <1>4, TypesKept, OverlapType DEF Types
<1>6. NextName' = NextName
  BY <1>0, IdsKept
<1>7. IdsInOps'
  BY <1>0, <1>3, <1>6 DEF IdsInv, IdsInOps
<1>8. IdsInv'
  BY <1>0, <1>1, <1>7, IdsKept DEF IdsInv
<1>9. Idle.kind = "idle"
  BY DEF Idle
<1>10. \A v \in Vectors : New(v)' => New(v) /\ v # op[c].vec
  <2> SUFFICES ASSUME NEW v \in Vectors, New(v)' PROVE New(v) /\ v # op[c].vec
    OBVIOUS
  <2>1. CASE v >= NextName
    <3>1. NextName \in Int /\ v \in Int /\ op[c].vec \in Int /\ op[c].vec < NextName
      BY <1>0, <1>3, SettingFacts DEF Types, RunOK, NextName, WorkOK, Counts, Vectors, IdsInv, IdsInOps
    <3> QED
      BY <3>1, <2>1 DEF New
  <2>2. CASE \E d \in Clients : Adds(d)' /\ op'[d].vec = v
    <3>1. PICK d \in Clients : Adds(d)' /\ op'[d].vec = v
      BY <2>2
    <3>2. d # c /\ op'[d] = op[d] /\ Adds(d) /\ op[d] # Idle
      BY <3>1, <1>3, <1>9 DEF Adds
    <3> QED
      BY <3>1, <3>2, <1>0 DEF New, NamesInv, OpNames
  <2> QED
    BY <2>1, <2>2, <1>6 DEF New
<1>11. NewNames'
  BY <1>0, <1>1, <1>10, NamesKept DEF NamesInv, NewNames, Unseen
<1>12. OpNames'
  <2>1. \A d \in Clients : op'[d] # Idle => d # c /\ op'[d] = op[d] /\ op[d] # Idle /\ op[d].vec # op[c].vec
    BY <1>0, <1>3 DEF NamesInv, OpNames
  <2>2. \A d \in Clients : op'[d].kind # "idle" => op'[d] # Idle
    BY <1>9
  <2>3. \A d \in Clients : op'[d].kind = "delete" => op'[d].vec \notin sure' /\ op'[d].vec \notin gone'
    BY <1>0, <2>1, <2>2 DEF NamesInv, OpNames
  <2>4. \A d, f \in Clients : d # f /\ op'[d] # Idle /\ op'[f] # Idle => op'[d].vec # op'[f].vec
    BY <1>0, <2>1 DEF NamesInv, OpNames
  <2>5. \A d \in Clients : op'[d].kind = "log" => \A k \in DOMAIN log' : log'[k].vec # op'[d].vec
    BY <1>0, <2>1, <2>2 DEF NamesInv, OpNames
  <2> QED
    BY <2>3, <2>4, <2>5 DEF OpNames
<1>13. SureNotGone'
  <2>1. op[c].vec \notin sure
    BY <1>0 DEF NamesInv, OpNames
  <2> QED
    BY <1>0, <2>1 DEF NamesInv, SureNotGone
<1>14. StatesInv' /\ JobsInv'
  BY <1>0, <1>1 DEF NamesInv, StatesInv, Base, JobsInv
<1> QED
  BY <1>5, <1>8, <1>11, <1>12, <1>13, <1>14 DEF Base, NamesInv

-----------------------------------------------------------------------------

(***************************************************************************)
(* What a split leaves: its posting written back, divided with a new head, *)
(* or divided between two new heads                                        *)
(***************************************************************************)

Current(h) == {e \in Posting(mem, h) : Live(mem.ver, e[1])}
Own(h) ==
    IF setting.excludeHead /\ h < Len(mem.trans) /\ Live(mem.ver, mem.trans[h + 1])
    THEN {<<mem.trans[h + 1], mem.vec[h + 1]>>} ELSE {}

SplitKept(h, b1) == PutAs(mem', mem, h, b1) /\ blocks' = [blocks EXCEPT ![b1] = Current(h)]

SplitSame(h, first, e2, b1, b2) ==
    \E p \in Memories :
        /\ PutAs(p, mem, h, b1) /\ HeadsOK(p) /\ NewHeadAs(mem', p, e2, b2)
        /\ blocks' = [blocks EXCEPT ![b1] = first, ![b2] = Stored(Current(h) \ first, e2)]

SplitTwo(h, first, e1, e2, b1, b2) ==
    \E p, q, r \in Memories :
        /\ DropAs(p, mem, h) /\ HeadsOK(p) /\ NewHeadAs(q, p, e1, b1) /\ NewHeadAs(r, q, e2, b2)
        /\ mem' = [r EXCEPT !.heads = r.heads \ {h}]
        /\ blocks' = [blocks EXCEPT ![b1] = Stored(first, e1) \cup Own(h), ![b2] = Stored(Current(h) \ first, e2)]

SplitAs(h, b1, b2) ==
    /\ b1 \in mem.free /\ b2 \in mem.free /\ b1 # b2
    /\ \/ SplitKept(h, b1)
       \/ \E first \in SUBSET Current(h) : \E e1 \in first, e2 \in Current(h) \ first :
            SplitSame(h, first, e2, b1, b2) \/ SplitTwo(h, first, e1, e2, b1, b2)

LEMMA SplitEffect ==
    ASSUME Types, NEW h \in HeadIds, SplitJob(h)
    PROVE  \E b1, b2 \in Blocks : SplitAs(h, b1, b2)
<1> DEFINE b1 == NextBlock(mem.free)
           b2 == NextBlock(mem.free \ {b1})
<1>0. mem \in Memories /\ HeadsOK(mem) /\ mem.free \in SUBSET Blocks /\ blocks \in Postings /\ Len(mem.vec) \in Nat
  BY DEF Types, MemOK, Memories
<1>1. b1 \in mem.free /\ b2 \in mem.free /\ b1 # b2 /\ b1 \in Blocks /\ b2 \in Blocks
  <2>1. Cardinality(mem.free) > 1
    BY DEF SplitJob
  <2>2. mem.free # {}
    BY <2>1, FS_EmptySet
  <2>3. b1 \in mem.free
    BY <1>0, <2>2, NextBlockIsFree
  <2>4. mem.free \ {b1} # {}
    <3>1. SUFFICES ASSUME mem.free \ {b1} = {} PROVE FALSE
      OBVIOUS
    <3>2. mem.free = {b1}
      BY <2>3, <3>1
    <3> HIDE DEF b1
    <3>3. Cardinality({b1}) = 1
      BY FS_Singleton
    <3> QED
      BY <2>1, <3>2, <3>3
  <2> HIDE DEF b1
  <2>5. b2 \in mem.free \ {b1}
    BY <1>0, <2>4, NextBlockIsFree
  <2> QED
    BY <1>0, <2>3, <2>5
<1>2. Current(h) \subseteq Ids \X Vectors
  BY <1>0, PostingType DEF Current
<1>3. \/ mem' = PutPosting(mem, h, b1) /\ blocks' = [blocks EXCEPT ![b1] = Current(h)]
      \/ /\ NumHeads(mem) + 1 < MaxHeads
         /\ \E first \in SUBSET Current(h) : \E e1 \in first, e2 \in Current(h) \ first :
             \/ /\ mem' = NewHead(PutPosting(mem, h, b1), e2, b2)
                /\ blocks' = [blocks EXCEPT ![b1] = first, ![b2] = Stored(Current(h) \ first, e2)]
             \/ /\ mem' = [NewHead(NewHead(DeletePosting(mem, h), e1, b1), e2, b2) EXCEPT !.heads = @ \ {h}]
                /\ blocks' = [blocks EXCEPT ![b1] = Stored(first, e1) \cup Own(h),
                                            ![b2] = Stored(Current(h) \ first, e2)]
  BY DEF SplitJob, Current, Own
<1> HIDE DEF b1, b2
<1>4. PutAs(PutPosting(mem, h, b1), mem, h, b1)
  BY <1>0, <1>1, PutEffect
<1>5. CASE mem' = PutPosting(mem, h, b1) /\ blocks' = [blocks EXCEPT ![b1] = Current(h)]
  <2>1. SplitKept(h, b1)
    BY <1>4, <1>5 DEF SplitKept
  <2> QED
    BY <1>1, <2>1 DEF SplitAs
<1>6. CASE /\ NumHeads(mem) + 1 < MaxHeads
           /\ \E first \in SUBSET Current(h) : \E e1 \in first, e2 \in Current(h) \ first :
             \/ /\ mem' = NewHead(PutPosting(mem, h, b1), e2, b2)
                /\ blocks' = [blocks EXCEPT ![b1] = first, ![b2] = Stored(Current(h) \ first, e2)]
             \/ /\ mem' = [NewHead(NewHead(DeletePosting(mem, h), e1, b1), e2, b2) EXCEPT !.heads = @ \ {h}]
                /\ blocks' = [blocks EXCEPT ![b1] = Stored(first, e1) \cup Own(h),
                                            ![b2] = Stored(Current(h) \ first, e2)]
  <2>0. PICK first \in SUBSET Current(h) : \E e1 \in first, e2 \in Current(h) \ first :
             \/ /\ mem' = NewHead(PutPosting(mem, h, b1), e2, b2)
                /\ blocks' = [blocks EXCEPT ![b1] = first, ![b2] = Stored(Current(h) \ first, e2)]
             \/ /\ mem' = [NewHead(NewHead(DeletePosting(mem, h), e1, b1), e2, b2) EXCEPT !.heads = @ \ {h}]
                /\ blocks' = [blocks EXCEPT ![b1] = Stored(first, e1) \cup Own(h),
                                            ![b2] = Stored(Current(h) \ first, e2)]
    BY <1>6
  <2>1. PICK e1 \in first, e2 \in Current(h) \ first :
             \/ /\ mem' = NewHead(PutPosting(mem, h, b1), e2, b2)
                /\ blocks' = [blocks EXCEPT ![b1] = first, ![b2] = Stored(Current(h) \ first, e2)]
             \/ /\ mem' = [NewHead(NewHead(DeletePosting(mem, h), e1, b1), e2, b2) EXCEPT !.heads = @ \ {h}]
                /\ blocks' = [blocks EXCEPT ![b1] = Stored(first, e1) \cup Own(h),
                                            ![b2] = Stored(Current(h) \ first, e2)]
    BY <2>0
  <2>2. e1 \in Ids \X Vectors /\ e2 \in Ids \X Vectors /\ Len(mem.vec) + 1 < MaxHeads
    BY <1>2, <1>6 DEF NumHeads
  <2>3. CASE /\ mem' = NewHead(PutPosting(mem, h, b1), e2, b2)
             /\ blocks' = [blocks EXCEPT ![b1] = first, ![b2] = Stored(Current(h) \ first, e2)]
    <3> DEFINE p == PutPosting(mem, h, b1)
    <3>1. p \in Memories /\ HeadsOK(p) /\ Len(p.vec) < MaxHeads
      BY <1>0, <1>4, <2>2, LifecycleBounds DEF PutAs, HeadsOK
    <3>2. mem' = NewHead(p, e2, b2)
      BY <2>3
    <3> HIDE DEF p
    <3>3. NewHeadAs(mem', p, e2, b2)
      BY <1>1, <2>2, <3>1, <3>2, NewHeadEffect
    <3>4. SplitSame(h, first, e2, b1, b2)
      BY <1>4, <2>3, <3>1, <3>3 DEF SplitSame, p
    <3> QED
      BY <1>1, <3>4 DEF SplitAs
  <2>4. CASE /\ mem' = [NewHead(NewHead(DeletePosting(mem, h), e1, b1), e2, b2) EXCEPT !.heads = @ \ {h}]
             /\ blocks' = [blocks EXCEPT ![b1] = Stored(first, e1) \cup Own(h),
                                         ![b2] = Stored(Current(h) \ first, e2)]
    <3> DEFINE p == DeletePosting(mem, h)
               q == NewHead(p, e1, b1)
               r == NewHead(q, e2, b2)
    <3>1. DropAs(p, mem, h)
      BY <1>0, DropEffect
    <3>2. p \in Memories /\ HeadsOK(p) /\ Len(p.vec) = Len(mem.vec) /\ Len(p.vec) < MaxHeads
      BY <1>0, <2>2, <3>1, LifecycleBounds DEF DropAs, HeadsOK
    <3> HIDE DEF p
    <3>3. NewHeadAs(q, p, e1, b1)
      BY <1>1, <2>2, <3>2, NewHeadEffect
    <3>4. q \in Memories /\ HeadsOK(q) /\ Len(q.vec) < MaxHeads
      <4>1. q.vec = Append(p.vec, e1[2]) /\ p.vec \in Seq(Vectors) /\ e1[2] \in Vectors
        BY <2>2, <3>2, <3>3 DEF NewHeadAs, Memories
      <4>2. Len(q.vec) = Len(p.vec) + 1
        BY <4>1
      <4> QED
        BY <2>2, <3>2, <3>3, <4>2 DEF NewHeadAs
    <3> HIDE DEF q
    <3>5. NewHeadAs(r, q, e2, b2) /\ r \in Memories
      BY <1>1, <2>2, <3>4, NewHeadEffect DEF NewHeadAs
    <3>6. mem' = [r EXCEPT !.heads = r.heads \ {h}]
      BY <2>4 DEF q, p
    <3> HIDE DEF r
    <3>7. SplitTwo(h, first, e1, e2, b1, b2)
      BY <2>4, <3>1, <3>2, <3>3, <3>4, <3>5, <3>6 DEF SplitTwo
    <3> QED
      BY <1>1, <3>7 DEF SplitAs
  <2> QED
    BY <2>1, <2>3, <2>4
<1> QED
  BY <1>3, <1>5, <1>6

\* An own vector goes back to a posting under an id of the version map.
LEMMA OwnNamed ==
    ASSUME Base, NEW h \in jobs
    PROVE  /\ Own(h) \subseteq Ids \X Vectors
           /\ \A e \in Own(h) : Live(mem.ver, e[1]) /\ h + 1 \in DOMAIN mem.vec /\ e[2] = mem.vec[h + 1]
<1>1. /\ h \in Nat /\ mem.vec \in Seq(Vectors) /\ Len(mem.vec) \in Nat /\ Len(mem.trans) \in Nat
      /\ Len(mem.ver) \in Nat /\ Names \in Nat
  BY LifecycleBounds DEF Base, Types, WorkOK, HeadIds, MemOK, Memories, Translations, Versions
<1>2. NextName \in Int /\ Len(mem.ver) <= NextName /\ NextName <= Names
  BY SettingFacts DEF Base, Types, RunOK, NextName, WorkOK, Counts, IdsInv
<1>3. ASSUME NEW e \in Own(h)
      PROVE  e \in Ids \X Vectors /\ Live(mem.ver, e[1]) /\ h + 1 \in DOMAIN mem.vec /\ e[2] = mem.vec[h + 1]
  <2>1. e = <<mem.trans[h + 1], mem.vec[h + 1]>> /\ h < Len(mem.trans) /\ Live(mem.ver, mem.trans[h + 1])
    BY <1>3 DEF Own
  <2>2. h < Len(mem.vec)
    BY <1>1, <2>1 DEF Base, JobsInv
  <2>3. h + 1 \in 1..Len(mem.vec) /\ h + 1 \in DOMAIN mem.vec /\ mem.vec[h + 1] \in Vectors
    BY <1>1, <2>2
  <2>4. mem.trans[h + 1] \in Ids
    BY <1>1, <1>2, <2>1 DEF Live, Ids
  <2> QED
    BY <2>1, <2>3, <2>4
<1> QED
  BY <1>3

\* Of any split: what it leaves alone, and where the entries it writes were.
SplitShape(h) ==
    /\ mem' \in Memories /\ HeadsOK(mem') /\ mem'.ver = mem.ver /\ mem'.meta = mem.meta
    /\ blocks' \in Postings
    /\ \E k \in 0..2 : Len(mem'.vec) = Len(mem.vec) + k /\ Len(mem'.trans) = Len(mem.trans) + k
    /\ \A i \in DOMAIN mem'.vec : (i \in DOMAIN mem.vec /\ mem'.vec[i] = mem.vec[i]) \/ \E e \in Current(h) : mem'.vec[i] = e[2]
    /\ \A x \in Blocks : blocks'[x] \subseteq blocks[x] \cup Current(h) \cup Own(h)

OneMore(p, m, e) ==
    /\ p \in Memories /\ HeadsOK(p) /\ p.ver = m.ver /\ p.meta = m.meta
    /\ Len(m.vec) \in Nat /\ Len(m.trans) \in Nat
    /\ Len(p.vec) = Len(m.vec) + 1 /\ Len(p.trans) = Len(m.trans) + 1
    /\ \A i \in DOMAIN p.vec : (i \in DOMAIN m.vec /\ p.vec[i] = m.vec[i]) \/ p.vec[i] = e[2]

LEMMA NewHeadShape ==
    ASSUME NEW m \in Memories, NEW p, NEW e \in Ids \X Vectors, NEW b, NewHeadAs(p, m, e, b)
    PROVE  OneMore(p, m, e)
<1> DEFINE t == IF setting.excludeHead THEN e[1] ELSE NoId
<1>1. m.vec \in Seq(Vectors) /\ m.trans \in Seq(Ids \cup {NoId}) /\ e[2] \in Vectors /\ e[1] \in Ids
  BY DEF Memories, Translations
<1>2. p.vec = Append(m.vec, e[2]) /\ p.trans = Append(m.trans, t) /\ t \in Ids \cup {NoId}
  BY <1>1 DEF NewHeadAs
<1> HIDE DEF t
<1>3. Len(p.vec) = Len(m.vec) + 1 /\ Len(p.trans) = Len(m.trans) + 1 /\ Len(m.vec) \in Nat /\ Len(m.trans) \in Nat
  BY <1>1, <1>2
<1>4. \A i \in DOMAIN p.vec : (i \in DOMAIN m.vec /\ p.vec[i] = m.vec[i]) \/ p.vec[i] = e[2]
  BY <1>1, <1>2
<1> QED
  BY <1>3, <1>4 DEF NewHeadAs, OneMore

LEMMA SplitShapes ==
    ASSUME Base, NEW h \in HeadIds, SplitJob(h)
    PROVE  SplitShape(h) /\ jobs' = jobs \ {h} /\ h \in jobs
<1>0. /\ Types /\ h \in jobs /\ jobs' = jobs \ {h} /\ mem \in Memories /\ HeadsOK(mem) /\ blocks \in Postings
      /\ Len(mem.vec) \in Nat /\ Len(mem.trans) \in Nat
  BY DEF Base, SplitJob, Types, MemOK, Memories, Translations
<1>1. PICK b1 \in Blocks, b2 \in Blocks : SplitAs(h, b1, b2)
  BY <1>0, SplitEffect
<1>2. Current(h) \subseteq Ids \X Vectors
  BY <1>0, PostingType DEF Current
<1>3. Own(h) \subseteq Ids \X Vectors
  BY <1>0, OwnNamed
<1>4. \A A, B \in SUBSET (Ids \X Vectors) :
        blocks' = [blocks EXCEPT ![b1] = A, ![b2] = B] /\ A \subseteq Current(h) \cup Own(h) /\ B \subseteq Current(h) =>
            blocks' \in Postings /\ \A x \in Blocks : blocks'[x] \subseteq blocks[x] \cup Current(h) \cup Own(h)
  <2> TAKE A, B \in SUBSET (Ids \X Vectors)
  <2> HAVE blocks' = [blocks EXCEPT ![b1] = A, ![b2] = B] /\ A \subseteq Current(h) \cup Own(h) /\ B \subseteq Current(h)
  <2>1. blocks' \in Postings
    BY <1>0 DEF Postings
  <2>2. \A x \in Blocks : blocks'[x] \subseteq blocks[x] \cup Current(h) \cup Own(h)
    BY <1>0 DEF Postings
  <2> QED
    BY <2>1, <2>2
<1>5. CASE SplitKept(h, b1)
  <2>1. PutAs(mem', mem, h, b1) /\ blocks' = [blocks EXCEPT ![b1] = Current(h)]
    BY <1>5 DEF SplitKept
  <2>2. blocks' \in Postings
    BY <1>0, <1>2, <2>1, WriteType
  <2>3. \A x \in Blocks : blocks'[x] \subseteq blocks[x] \cup Current(h) \cup Own(h)
    BY <1>0, <2>1 DEF Postings
  <2>4. mem' \in Memories /\ HeadsOK(mem') /\ mem'.ver = mem.ver /\ mem'.meta = mem.meta /\ mem'.vec = mem.vec /\ mem'.trans = mem.trans
    BY <1>0, <2>1 DEF PutAs, HeadsOK
  <2>5. Len(mem'.vec) = Len(mem.vec) /\ Len(mem'.trans) = Len(mem.trans)
    BY <2>4
  <2>6. Len(mem'.vec) = Len(mem.vec) + 0 /\ Len(mem'.trans) = Len(mem.trans) + 0
    BY <1>0, <2>5
  <2>7. \A i \in DOMAIN mem'.vec : i \in DOMAIN mem.vec /\ mem'.vec[i] = mem.vec[i]
    BY <2>4
  <2> QED
    BY <1>0, <2>2, <2>3, <2>4, <2>6, <2>7 DEF SplitShape
<1>6. ASSUME NEW first \in SUBSET Current(h), NEW e1 \in first, NEW e2 \in Current(h) \ first, SplitSame(h, first, e2, b1, b2)
      PROVE  SplitShape(h)
  <2>1. PICK p \in Memories : /\ PutAs(p, mem, h, b1) /\ HeadsOK(p) /\ NewHeadAs(mem', p, e2, b2)
                              /\ blocks' = [blocks EXCEPT ![b1] = first, ![b2] = Stored(Current(h) \ first, e2)]
    BY <1>6 DEF SplitSame
  <2>2. Stored(Current(h) \ first, e2) \subseteq Current(h)
    BY DEF Stored
  <2>3. first \in SUBSET (Ids \X Vectors) /\ Stored(Current(h) \ first, e2) \in SUBSET (Ids \X Vectors) /\ e2 \in Ids \X Vectors
    BY <1>2, <2>2
  <2>4. blocks' \in Postings /\ \A x \in Blocks : blocks'[x] \subseteq blocks[x] \cup Current(h) \cup Own(h)
    BY <1>4, <2>1, <2>2, <2>3
  <2>5. p.ver = mem.ver /\ p.meta = mem.meta /\ p.vec = mem.vec /\ p.trans = mem.trans
    BY <2>1 DEF PutAs
  <2>6. /\ mem' \in Memories /\ HeadsOK(mem') /\ mem'.ver = p.ver /\ mem'.meta = p.meta
        /\ Len(mem'.vec) = Len(mem.vec) + 1 /\ Len(mem'.trans) = Len(mem.trans) + 1
        /\ \A i \in DOMAIN mem'.vec : (i \in DOMAIN mem.vec /\ mem'.vec[i] = mem.vec[i]) \/ mem'.vec[i] = e2[2]
    BY <2>1, <2>3, <2>5, NewHeadShape DEF OneMore
  <2> QED
    BY <2>4, <2>5, <2>6 DEF SplitShape
<1>7. ASSUME NEW first \in SUBSET Current(h), NEW e1 \in first, NEW e2 \in Current(h) \ first, SplitTwo(h, first, e1, e2, b1, b2)
      PROVE  SplitShape(h)
  <2>1. PICK p \in Memories, q \in Memories, r \in Memories :
            /\ DropAs(p, mem, h) /\ HeadsOK(p) /\ NewHeadAs(q, p, e1, b1) /\ NewHeadAs(r, q, e2, b2)
            /\ mem' = [r EXCEPT !.heads = r.heads \ {h}]
            /\ blocks' = [blocks EXCEPT ![b1] = Stored(first, e1) \cup Own(h), ![b2] = Stored(Current(h) \ first, e2)]
    BY <1>7 DEF SplitTwo
  <2>2. Stored(Current(h) \ first, e2) \subseteq Current(h) /\ Stored(first, e1) \cup Own(h) \subseteq Current(h) \cup Own(h)
    BY DEF Stored
  <2>3. /\ Stored(first, e1) \cup Own(h) \in SUBSET (Ids \X Vectors) /\ Stored(Current(h) \ first, e2) \in SUBSET (Ids \X Vectors)
        /\ e1 \in Ids \X Vectors /\ e2 \in Ids \X Vectors
    BY <1>2, <1>3, <2>2
  <2>4. blocks' \in Postings /\ \A x \in Blocks : blocks'[x] \subseteq blocks[x] \cup Current(h) \cup Own(h)
    BY <1>4, <2>1, <2>2, <2>3
  <2>5. p.ver = mem.ver /\ p.meta = mem.meta /\ p.vec = mem.vec /\ p.trans = mem.trans
    BY <2>1 DEF DropAs
  <2>6. /\ q.ver = p.ver /\ q.meta = p.meta
        /\ Len(q.vec) = Len(mem.vec) + 1 /\ Len(q.trans) = Len(mem.trans) + 1
        /\ \A i \in DOMAIN q.vec : (i \in DOMAIN mem.vec /\ q.vec[i] = mem.vec[i]) \/ q.vec[i] = e1[2]
    <3>1. NewHeadAs(q, p, e1, b1)
      BY <2>1
    <3>2. OneMore(q, p, e1)
      BY <2>3, <3>1, NewHeadShape
    <3> QED
      BY <2>5, <3>2 DEF OneMore
  <2>7. /\ r.ver = q.ver /\ r.meta = q.meta /\ HeadsOK(r)
        /\ Len(r.vec) = Len(q.vec) + 1 /\ Len(r.trans) = Len(q.trans) + 1
        /\ \A i \in DOMAIN r.vec : (i \in DOMAIN q.vec /\ r.vec[i] = q.vec[i]) \/ r.vec[i] = e2[2]
    <3>1. NewHeadAs(r, q, e2, b2)
      BY <2>1
    <3>2. OneMore(r, q, e2)
      BY <2>3, <3>1, NewHeadShape
    <3> QED
      BY <3>2 DEF OneMore
  <2>8. /\ mem' \in Memories /\ mem'.vec = r.vec /\ mem'.trans = r.trans /\ mem'.ver = r.ver /\ mem'.meta = r.meta
        /\ mem'.heads = r.heads \ {h}
    BY <2>1 DEF Memories
  <2>9. HeadsOK(mem')
    BY <2>7, <2>8 DEF HeadsOK
  <2>10. Len(mem'.vec) = Len(mem.vec) + 2 /\ Len(mem'.trans) = Len(mem.trans) + 2
    <3>1. Len(mem'.vec) = Len(q.vec) + 1 /\ Len(mem'.trans) = Len(q.trans) + 1
      BY <2>7, <2>8
    <3> QED
      BY <1>0, <2>6, <3>1
  <2>11. \A i \in DOMAIN mem'.vec : (i \in DOMAIN mem.vec /\ mem'.vec[i] = mem.vec[i]) \/ \E e \in Current(h) : mem'.vec[i] = e[2]
    <3> TAKE i \in DOMAIN mem'.vec
    <3>1. CASE r.vec[i] = e2[2]
      BY <3>1, <2>8
    <3>2. CASE i \in DOMAIN q.vec /\ r.vec[i] = q.vec[i]
      BY <3>2, <2>6, <2>8
    <3> QED
      BY <3>1, <3>2, <2>7, <2>8
  <2> QED
    BY <2>4, <2>5, <2>6, <2>7, <2>8, <2>9, <2>10, <2>11 DEF SplitShape
<1> QED
  BY <1>0, <1>1, <1>5, <1>6, <1>7 DEF SplitAs

LEMMA SplitJobBase ==
    ASSUME Base, NEW h \in HeadIds, SplitJob(h)
    PROVE  Base'
<1>0. /\ Types /\ IdsInv /\ NamesInv
      /\ UNCHANGED <<setting, state, disk, log, size, scan, op, saver, todo, sure, gone, trusted, labelled, promise>>
      /\ used'.adds = used.adds /\ used' \in Counts
  <2>1. used \in Counts
    BY DEF Base, Types, WorkOK
  <2> QED
    BY <2>1 DEF Base, SplitJob, history, Counts
<1>1. SplitShape(h) /\ jobs' = jobs \ {h} /\ h \in jobs
  BY SplitShapes
<1>2. SameNames
  BY <1>0 DEF SameNames
<1>3. MemOK' /\ WorkOK'
  BY <1>0, <1>1 DEF SplitShape, MemOK, Types, WorkOK
<1>4. Types'
  BY <1>0, <1>3, TypesKept DEF Types
<1>5. IdsInv'
  BY <1>0, <1>1, <1>2, IdsKept DEF IdsInv, SplitShape
<1>6. JobsInv'
  <2>1. Len(mem.vec) \in Nat /\ Len(mem.trans) \in Nat /\ Len(mem'.vec) \in Nat /\ Len(mem'.trans) \in Nat /\ HeadIds \subseteq Int
        /\ jobs \subseteq HeadIds
    BY <1>0, <1>3 DEF Types, MemOK, Memories, Translations, WorkOK, HeadIds
  <2>2. PICK k \in 0..2 : Len(mem'.vec) = Len(mem.vec) + k /\ Len(mem'.trans) = Len(mem.trans) + k
    BY <1>1 DEF SplitShape
  <2>3. CASE \A g \in jobs : g < Len(mem.vec)
    <3>1. \A g \in jobs : g < Len(mem'.vec)
      <4> TAKE g \in jobs
      <4>1. g \in Int /\ g < Len(mem.vec)
        BY <2>1, <2>3
      <4> QED
        BY <2>1, <2>2, <4>1
    <3>2. jobs' \subseteq jobs
      BY <1>1
    <3> QED
      BY <3>1, <3>2 DEF JobsInv
  <2>4. CASE Len(mem.trans) <= Len(mem.vec)
    <3>1. Len(mem'.trans) <= Len(mem'.vec)
      BY <2>1, <2>2, <2>4
    <3> QED
      BY <3>1 DEF JobsInv
  <2> QED
    BY <2>3, <2>4 DEF Base, JobsInv
<1>7. ASSUME NEW v, NotStored(v), NoHead(v)
      PROVE  NotStored(v)' /\ NoHead(v)'
  <2>1. mem \in Memories /\ blocks \in Postings
    BY <1>0 DEF Types, MemOK
  <2>2. \A e \in Current(h) : e[2] # v
    <3> TAKE e \in Current(h)
    <3>1. e \in Posting(mem, h)
      BY DEF Current
    <3>2. mem.map[h] \in Blocks /\ e \in blocks[mem.map[h]]
      BY <2>1, <3>1, PostingType DEF Posting
    <3> QED
      BY <3>2, <1>7 DEF NotStored
  <2>3. \A e \in Own(h) : e[2] # v
    BY <1>1, <1>7, OwnNamed DEF NoHead
  <2>4. NotStored(v)'
    BY <1>1, <1>7, <2>2, <2>3 DEF NotStored, SplitShape
  <2>5. NoHead(v)'
    BY <1>1, <1>7, <2>2 DEF NoHead, SplitShape
  <2> QED
    BY <2>4, <2>5
<1>8. NewNames'
  BY <1>0, <1>2, <1>7, NamesKept DEF NamesInv, NewNames, Unseen
<1>9. OpNames' /\ SureNotGone'
  BY <1>0, <1>2, NamesKept
<1>10. StatesInv'
  BY <1>0, <1>1 DEF NamesInv, StatesInv
<1> QED
  BY <1>4, <1>5, <1>6, <1>8, <1>9, <1>10 DEF Base, NamesInv

\* A compaction's step runs in an index that runs, over numbers of their types.
LEMMA NamesCounted ==
    ASSUME Base
    PROVE  /\ Names \in Nat \ {0} /\ 0 \in HeadIds /\ NextName \in Nat
           /\ Len(mem.ver) \in Nat /\ Len(mem.ver) <= Names /\ Len(mem.ver) <= NextName
<1>1. /\ Names \in Nat \ {0} /\ MaxHeads \in Nat /\ Cardinality(setting.headsOf) \in 1..MaxHeads
      /\ Cardinality(setting.built) \in 1..Names /\ used.adds \in Nat
  BY SettingFacts, LifecycleBounds DEF Base, Types, RunOK, WorkOK, Counts
<1>2. Len(mem.ver) \in Nat /\ Len(mem.ver) <= NextName /\ NextName <= Names /\ NextName \in Nat
  BY <1>1 DEF Base, Types, MemOK, Memories, Versions, IdsInv, NextName
<1>3. 1 <= MaxHeads
  BY <1>1
<1> QED
  BY <1>1, <1>2, <1>3 DEF HeadIds

LEMMA NewHeadIdType ==
    ASSUME Base
    PROVE  \A h : NewId(HeadOrder, h) \in HeadIds
<1>1. /\ Numbered(HeadOrder, mem.heads) /\ Cardinality(mem.heads) <= Len(mem.vec) /\ Len(mem.vec) \in Nat
      /\ Len(mem.vec) <= MaxHeads /\ MaxHeads \in Nat
  BY OrderNumbers, LifecycleBounds DEF Base, Types, MemOK, HeadsOK
<1>2. 0 \in HeadIds
  BY NamesCounted
<1> TAKE h
<1>3. CASE h \in mem.heads
  <2>1. NewId(HeadOrder, h) \in 0..(Cardinality(mem.heads) - 1) /\ Cardinality(mem.heads) \in Nat
    BY <1>1, <1>3 DEF Numbered
  <2> QED
    BY <2>1, <1>1 DEF HeadIds
<1>4. CASE h \notin mem.heads
  BY <1>1, <1>2, <1>4 DEF Numbered
<1> QED
  BY <1>3, <1>4

\* What the rewriting of one posting does.
Renamed(h) == {<<NewId(VectorOrder, e[1]), e[2]>> : e \in {x \in Posting(mem, h) : Live(mem.ver, x[1])}}

RewriteAs(h, b) ==
    /\ b \in mem.free /\ b \in Blocks
    /\ PutAs(mem', mem, NewId(HeadOrder, h), b)
    /\ blocks' = [blocks EXCEPT ![b] = Renamed(h)]
    /\ Renamed(h) \subseteq Ids \X Vectors

LEMMA RefinePostingEffect ==
    ASSUME Base, NEW h \in HeadIds, RefinePosting(h)
    PROVE  RewriteAs(h, NextBlock(mem.free))
<1> DEFINE b == NextBlock(mem.free)
<1>1. mem \in Memories /\ mem.free \in SUBSET Blocks /\ mem.free # {} /\ blocks \in Postings
  BY DEF Base, Types, MemOK, Memories, RefinePosting
<1>2. b \in mem.free /\ b \in Blocks
  BY <1>1, NextBlockIsFree
<1>3. mem' = PutPosting(mem, NewId(HeadOrder, h), b) /\ blocks' = [blocks EXCEPT ![b] = Renamed(h)]
  BY DEF RefinePosting, Renamed
<1> HIDE DEF b
<1>4. PutAs(mem', mem, NewId(HeadOrder, h), b)
  BY <1>1, <1>2, <1>3, NewHeadIdType, PutEffect
<1>5. Posting(mem, h) \subseteq Ids \X Vectors
  BY <1>1, PostingType
<1>6. \A i \in Int : NewId(VectorOrder, i) \in Ids
  BY NamesCounted, RefineTypes DEF Base, Types
<1>7. \A e \in Ids \X Vectors : <<NewId(VectorOrder, e[1]), e[2]>> \in Ids \X Vectors
  BY <1>6, LifecycleBounds DEF Ids
<1>8. Renamed(h) \subseteq Ids \X Vectors
  BY <1>5, <1>7 DEF Renamed
<1> QED
  BY <1>2, <1>3, <1>4, <1>8 DEF RewriteAs, b

LEMMA RefinePostingBase ==
    ASSUME Base, NEW h \in HeadIds, RefinePosting(h)
    PROVE  Base'
<1> DEFINE b == NextBlock(mem.free)
<1>0. /\ Types /\ IdsInv /\ NamesInv /\ state = "running" /\ AtStep("rewrite")
      /\ UNCHANGED <<setting, state, disk, log, size, scan, jobs, op, used, sure, gone, trusted, labelled, promise>>
      /\ todo' = todo \ {h} /\ (saver' = [saver EXCEPT !.plan = Tail(@)] \/ saver' = saver) /\ SameNames
  BY SavesRun DEF Base, NamesInv, RefinePosting, AtStep, history, SameNames
<1>1. RewriteAs(h, b)
  BY RefinePostingEffect
<1> HIDE DEF b
<1>2. MemOK'
  <2>1. blocks' \in Postings
    BY <1>0, <1>1, WriteType DEF RewriteAs, Types, MemOK
  <2> QED
    BY <2>1, <1>0, <1>1 DEF RewriteAs, PutAs, Types, MemOK, HeadsOK
<1>3. SaverOK'
  <2>1. CASE saver' = [saver EXCEPT !.plan = Tail(@)]
    <3>1. saver.plan # <<>> /\ Head(RefinePlan) = "refine" /\ Head(saver.plan) = "rewrite" /\ Saving
      BY <1>0 DEF RefinePlan, AtStep, Saving
    <3> QED
      BY <3>1, <2>1, <1>0, AdvanceType DEF Types, Advance
  <2>2. CASE saver' = saver
    BY <2>2, <1>0, TypesKept DEF Types
  <2> QED
    BY <2>1, <2>2, <1>0
<1>4. WorkOK'
  BY <1>0 DEF Types, WorkOK
<1>5. Types'
  BY <1>0, <1>2, <1>3, <1>4, TypesKept DEF Types
<1>6. IdsInv'
  BY <1>0, <1>1, IdsKept DEF IdsInv, RewriteAs, PutAs
<1>7. NewNames'
  <2> SUFFICES ASSUME NEW v \in Vectors, New(v)' PROVE Unseen(v)'
    BY DEF NewNames
  <2>1. Unseen(v)
    BY <1>0, NamesKept DEF NamesInv, NewNames
  <2>2. NotStored(v)'
    <3> SUFFICES ASSUME NEW x \in Blocks, NEW e \in blocks'[x] PROVE e[2] # v
      BY DEF NotStored
    <3>1. CASE x # b
      BY <3>1, <1>0, <1>1, <2>1 DEF RewriteAs, Unseen, NotStored, Types, MemOK, Postings
    <3>2. CASE x = b
      <4>1. e \in Renamed(h)
        BY <3>2, <1>0, <1>1 DEF RewriteAs, Types, MemOK, Postings
      <4>2. PICK y \in Posting(mem, h) : e[2] = y[2]
        BY <4>1 DEF Renamed
      <4>3. mem.map[h] \in Blocks /\ y \in blocks[mem.map[h]]
        BY <1>0, <4>2, PostingType DEF Posting, Types, MemOK
      <4> QED
        BY <4>2, <4>3, <2>1 DEF Unseen, NotStored
    <3> QED
      BY <3>1, <3>2
  <2>3. NoHead(v)' /\ NotSaved(v)' /\ NotPromised(v)'
    BY <1>0, <1>1, <2>1, NamesKept DEF RewriteAs, PutAs, Unseen
  <2> QED
    BY <1>0, <2>1, <2>2, <2>3 DEF Unseen
<1>8. OpNames' /\ SureNotGone'
  BY <1>0, NamesKept
<1>9. StatesInv'
  BY <1>0 DEF NamesInv, StatesInv
<1>10. JobsInv'
  BY <1>0, <1>1 DEF Base, JobsInv, RewriteAs, PutAs
<1> QED
  BY <1>5, <1>6, <1>7, <1>8, <1>9, <1>10 DEF Base, NamesInv

LEMMA CompactionFiles ==
    ASSUME Base
    PROVE  /\ FileOfHeads \in HeadFiles /\ HeadsOK(FileOfHeads)
           /\ FileOfTrans \in Translations /\ FileOfVer \in Versions /\ RefineMetadata \in Labels
           /\ Len(FileOfVer) <= Len(mem.ver) /\ Len(FileOfTrans) = Len(FileOfHeads.vec)
           /\ Len(RefineMetadata) = Len(FileOfVer)
           /\ \A i \in DOMAIN FileOfHeads.vec : HeadOrder[i] + 1 \in DOMAIN mem.vec
                                                /\ FileOfHeads.vec[i] = mem.vec[HeadOrder[i] + 1]
<1> DEFINE k == Cardinality(mem.heads)
           f == FileOfHeads.vec
<1>0. /\ mem \in Memories /\ HeadsOK(mem) /\ mem.vec \in Seq(Vectors) /\ mem.trans \in Seq(Ids \cup {NoId})
      /\ Len(mem.vec) \in Nat /\ Len(mem.vec) <= MaxHeads /\ MaxHeads \in Nat
      /\ mem.heads \subseteq 0..(Len(mem.vec) - 1)
  BY LifecycleBounds DEF Base, Types, MemOK, Memories, Translations, HeadsOK
<1>1. /\ Numbered(HeadOrder, mem.heads) /\ k <= Len(mem.vec)
      /\ Cardinality(LiveIds) <= Len(mem.ver)
  BY OrderNumbers DEF Base, Types
<1>2. /\ \A i \in Ids \cup {NoId} : RefineHeadId(i) \in Ids \cup {NoId}
      /\ RefineMetadata \in Labels /\ Len(RefineMetadata) = Cardinality(LiveIds)
      /\ FileOfVer \in Versions /\ Len(FileOfVer) = Cardinality(LiveIds)
  BY NamesCounted, RefineTypes DEF Base, Types, FileOfVer
<1>3. k \in Nat /\ HeadOrder \in [1..k -> mem.heads] /\ DOMAIN HeadOrder = 1..k /\ Len(HeadOrder) = k
  BY <1>1 DEF Numbered
<1>4. \A i \in 1..k : HeadOrder[i] \in 0..(Len(mem.vec) - 1) /\ HeadOrder[i] + 1 \in 1..Len(mem.vec)
  <2> TAKE i \in 1..k
  <2>1. HeadOrder[i] \in 0..(Len(mem.vec) - 1)
    BY <1>0, <1>3
  <2> QED
    BY <2>1, <1>0
<1>5. f = [i \in 1..k |-> mem.vec[HeadOrder[i] + 1]] /\ FileOfHeads.heads = 0..(k - 1)
  BY <1>3 DEF FileOfHeads
<1>6. f \in [1..k -> Vectors] /\ Len(f) = k /\ f \in Seq(Vectors)
  <2>1. \A i \in 1..k : mem.vec[HeadOrder[i] + 1] \in Vectors
    BY <1>0, <1>4
  <2>2. f \in [1..k -> Vectors]
    BY <2>1, <1>5
  <2> HIDE DEF f
  <2> QED
    BY <2>2, <1>3
<1>7. FileOfTrans \in [1..k -> Ids \cup {NoId}]
  <2>1. \A i \in 1..k : HeadOrder[i] < Len(mem.trans) => mem.trans[HeadOrder[i] + 1] \in Ids \cup {NoId}
    <3> TAKE i \in 1..k
    <3> HAVE HeadOrder[i] < Len(mem.trans)
    <3>1. HeadOrder[i] \in Nat /\ Len(mem.trans) \in Nat
      BY <1>0, <1>4
    <3>2. HeadOrder[i] + 1 \in 1..Len(mem.trans)
      BY <3>1
    <3> QED
      BY <3>2, <1>0
  <2> QED
    BY <2>1, <1>2, <1>3 DEF FileOfTrans
<1>8. FileOfTrans \in Translations /\ Len(FileOfTrans) = k
  BY <1>3, <1>7 DEF Translations
<1>9. FileOfHeads \in HeadFiles /\ HeadsOK(FileOfHeads)
  <2>1. 0..(k - 1) \in SUBSET HeadIds /\ k <= MaxHeads
    BY <1>0, <1>1, <1>3 DEF HeadIds
  <2>2. FileOfHeads = [heads |-> 0..(k - 1), vec |-> f]
    BY <1>5 DEF FileOfHeads
  <2> HIDE DEF f
  <2> QED
    BY <2>1, <2>2, <1>3, <1>6 DEF HeadFiles, HeadsOK
<1>10. \A i \in DOMAIN f : HeadOrder[i] + 1 \in DOMAIN mem.vec /\ f[i] = mem.vec[HeadOrder[i] + 1]
  <2>1. DOMAIN mem.vec = 1..Len(mem.vec)
    BY <1>0
  <2> QED
    BY <2>1, <1>4, <1>5
<1> QED
  BY <1>1, <1>2, <1>6, <1>8, <1>9, <1>10

LEMMA RefineFilesBase ==
    ASSUME Base, RefineFiles
    PROVE  Base'
<1> DEFINE r == [disk["index"] EXCEPT !.head = FileOfHeads, !.trans = FileOfTrans, !.ver = FileOfVer, !.meta = RefineMetadata]
<1>0. /\ Types /\ IdsInv /\ NamesInv /\ state = "running" /\ AtStep("refine") /\ jobs = {}
      /\ UNCHANGED <<setting, state, mem, blocks, log, size, scan, jobs, used, sure, gone, trusted, labelled, promise>>
      /\ todo' = mem.heads /\ SameNames
  BY SavesRun DEF Base, NamesInv, RefineFiles, AtStep, history, SameNames
<1>1. "index" \in Dirs /\ disk \in [Dirs -> Directories] /\ disk["index"] \in Directories
  BY <1>0 DEF Dirs, Types, DiskOK
<1>2. disk' = [disk EXCEPT !["index"] = r]
  BY DEF RefineFiles, FileOfHeads, FileOfTrans, FileOfVer
<1>3. r \in Directories /\ r.head = FileOfHeads /\ r.ver = FileOfVer /\ HeadsOK(FileOfHeads)
  BY <1>1, CompactionFiles DEF Directories, File
<1> HIDE DEF r
<1>4. DiskOK'
  BY <1>0, <1>1, <1>2, <1>3, FileType DEF Types
<1>5. SaverOK'
  <2> DEFINE q == \A c \in Clients : op[c] = Idle
  <2>1. saver' = [saver EXCEPT !.kind = "refine", !.plan = Tail(@), !.quiet = q]
    BY DEF RefineFiles
  <2>2. q \in BOOLEAN
    OBVIOUS
  <2> HIDE DEF q
  <2>3. saver.dir = "index" /\ Tail(saver.plan) = <<"rewrite", "map", "pool", "reload">>
    BY <1>0, AtRefine, SaverDirs DEF Types
  <2>4. <<"rewrite", "map", "pool", "reload">> \in RewritePlans /\ <<"rewrite", "map", "pool", "reload">> \in Seq(Steps)
    BY DEF RewritePlans, Steps
  <2> QED
    BY <2>1, <2>2, <2>3, <2>4, <1>0 DEF Types, SaverOK, PlanOK
<1>6. /\ OpsOK'
      /\ \A c \in Clients : (op'[c] = Idle <=> op[c] = Idle) /\ op'[c].kind = op[c].kind
                            /\ op'[c].id = op[c].id /\ op'[c].vec = op[c].vec
  <2>1. op' = [c \in Clients |-> IF op[c] = Idle THEN Idle ELSE [op[c] EXCEPT !.renumbered = TRUE]]
    BY DEF RefineFiles
  <2>2. \A c \in Clients : op[c] \in Operations
    BY <1>0 DEF Types, OpsOK
  <2>3. \A c \in Clients : op[c] # Idle => op[c].kind # "idle"
    BY <1>0 DEF Types, OpsOK
  <2>4. Idle.kind = "idle"
    BY DEF Idle
  <2>5. \A c \in Clients : op[c] # Idle => /\ op'[c] \in Operations /\ op'[c].kind = op[c].kind
                                           /\ op'[c].id = op[c].id /\ op'[c].vec = op[c].vec
    BY <2>1, <2>2 DEF Operations
  <2>6. \A c \in Clients : op[c] = Idle => op'[c] = Idle
    BY <2>1
  <2> QED
    BY <2>1, <2>2, <2>3, <2>4, <2>5, <2>6, <1>0 DEF Types, OpsOK
<1>7. WorkOK'
  BY <1>0 DEF Types, WorkOK, MemOK, Memories
<1>8. Types'
  BY <1>0, <1>4, <1>5, <1>6, <1>7, TypesKept DEF Types
<1>9. NextName' = NextName
  BY <1>0, IdsKept
<1>10. IdsInOps'
  BY <1>0, <1>6, <1>9 DEF IdsInv, IdsInOps
<1>11. IdsInDirs'
  <2>1. Len(FileOfVer) <= Len(mem.ver) /\ Len(FileOfVer) \in Nat
    BY CompactionFiles DEF Versions
  <2>2. Len(FileOfVer) <= NextName
    BY <2>1, NamesCounted
  <2> QED
    BY <2>2, <1>0, <1>1, <1>2, <1>3, <1>9 DEF IdsInv, IdsInDirs
<1>12. IdsInv'
  BY <1>0, <1>10, <1>11, IdsKept DEF IdsInv
<1>13. NewNames'
  <2> SUFFICES ASSUME NEW v \in Vectors, New(v)' PROVE Unseen(v)'
    BY DEF NewNames
  <2>1. New(v)
    BY <1>6, <1>9 DEF New, Adds
  <2>2. Unseen(v)
    BY <1>0, <2>1 DEF NamesInv, NewNames
  <2>3. NotStored(v)' /\ NoHead(v)' /\ NotPromised(v)'
    BY <1>0, <2>2, NamesKept DEF Unseen
  <2>4. NotSaved(v)'
    BY <1>1, <1>2, <1>3, <2>2, CompactionFiles DEF Unseen, NotSaved, NoHead
  <2> QED
    BY <1>0, <2>2, <2>3, <2>4 DEF Unseen
<1>14. OpNames'
  BY <1>0, <1>6 DEF NamesInv, OpNames
<1>15. SureNotGone'
  BY <1>0, NamesKept
<1>16. StatesInv' /\ JobsInv'
  BY <1>0 DEF NamesInv, StatesInv, Base, JobsInv
<1> QED
  BY <1>8, <1>12, <1>13, <1>14, <1>15, <1>16 DEF Base, NamesInv

\* The index that a compaction loads.
LEMMA ReloadType ==
    ASSUME Base, FilesInv, Reload
    PROVE  /\ MemOK' /\ mem' \in Memories /\ InRefine
           /\ mem'.heads = disk["index"].head.heads /\ mem'.vec = disk["index"].head.vec
           /\ mem'.trans = disk["index"].trans /\ mem'.ver = disk["index"].ver
           /\ mem'.meta = mem.meta /\ mem'.map = mem.map /\ mem'.free = mem.free /\ mem'.reserve = mem.reserve
<1> DEFINE f == disk["index"]
           m == [mem EXCEPT !.heads = f.head.heads, !.vec = f.head.vec, !.trans = f.trans, !.ver = f.ver]
<1>0. mem \in Memories /\ blocks \in Postings /\ UNCHANGED blocks /\ SaverOK
  BY DEF Base, Types, MemOK, Reload, durable
<1>1. InRefine
  BY <1>0, AtReload DEF Reload, InRefine
<1>2. f \in Directories /\ f.head # None /\ f.trans # None /\ f.ver # None /\ HeadsOK(f.head)
  BY <1>1 DEF FilesInv, Base, Types, DiskOK, Dirs
<1>3. /\ f.head.heads \in SUBSET HeadIds /\ f.head.vec \in Seq(Vectors)
      /\ f.trans \in Translations /\ f.ver \in Versions
  BY <1>2 DEF Directories, File, HeadFiles
<1>4. mem' = m
  BY DEF Reload
<1> HIDE DEF f
<1>5. /\ m \in Memories /\ m.heads = f.head.heads /\ m.vec = f.head.vec /\ m.trans = f.trans /\ m.ver = f.ver
      /\ m.meta = mem.meta /\ m.map = mem.map /\ m.free = mem.free /\ m.reserve = mem.reserve
  BY <1>0, <1>3 DEF Memories
<1> HIDE DEF m
<1>6. HeadsOK(mem')
  BY <1>2, <1>4, <1>5 DEF HeadsOK
<1>7. MemOK'
  BY <1>0, <1>4, <1>5, <1>6 DEF MemOK
<1> QED
  BY <1>1, <1>4, <1>5, <1>7 DEF f

LEMMA ReloadBase ==
    ASSUME Base, FilesInv, Reload
    PROVE  Base'
<1>0. /\ Types /\ IdsInv /\ NamesInv /\ state = "running"
      /\ UNCHANGED <<setting, state, blocks, disk, log, size, scan, jobs, op, todo, used, trusted, promise>>
      /\ sure' \subseteq sure /\ gone' \subseteq gone /\ labelled' = FALSE /\ SameNames /\ "index" \in Dirs
  BY SavesRun DEF Base, NamesInv, Reload, AtStep, durable, SameNames, Dirs
<1>1. /\ MemOK' /\ mem'.vec = disk["index"].head.vec /\ mem'.trans = disk["index"].trans
      /\ mem'.ver = disk["index"].ver /\ InRefine
  BY ReloadType
<1>2. SaverOK'
  <2> DEFINE p == saver'.plan
             q == saver'.labelled
  <2>1. \E l \in BOOLEAN : saver' = [saver EXCEPT !.plan = MergedPlan, !.labelled = saver.labelled /\ l]
                           \/ saver' = [saver EXCEPT !.plan = <<>>, !.labelled = saver.labelled /\ l]
    BY DEF Reload
  <2>2. PICK l \in BOOLEAN : saver' = [saver EXCEPT !.plan = MergedPlan, !.labelled = saver.labelled /\ l]
                             \/ saver' = [saver EXCEPT !.plan = <<>>, !.labelled = saver.labelled /\ l]
    BY <2>1
  <2>3. saver.kind = "refine" /\ saver.dir = "index"
    BY <1>0, <1>1, SaverDirs DEF InRefine, Types
  <2> QED
    BY <2>2, <2>3, <1>0, PlanTypes DEF Types, SaverOK, PlanOK
<1>3. HistoryOK'
  BY <1>0 DEF Types, HistoryOK
<1>4. Types'
  BY <1>0, <1>1, <1>2, <1>3, TypesKept DEF Types
<1>5. IdsInv'
  <2>1. Len(mem'.ver) <= NextName
    BY <1>0, <1>1 DEF FilesInv, IdsInv, IdsInDirs
  <2> QED
    BY <2>1, <1>0, IdsKept DEF IdsInv
<1>6. NewNames'
  <2> SUFFICES ASSUME NEW v \in Vectors, New(v)' PROVE Unseen(v)'
    BY DEF NewNames
  <2>1. Unseen(v)
    BY <1>0, NamesKept DEF NamesInv, NewNames
  <2>2. NotStored(v)' /\ NotSaved(v)' /\ NotPromised(v)'
    BY <1>0, <2>1, NamesKept DEF Unseen
  <2>3. NoHead(v)'
    BY <1>0, <1>1, <2>1 DEF Unseen, NoHead, NotSaved, FilesInv
  <2> QED
    BY <1>0, <2>1, <2>2, <2>3 DEF Unseen
<1>7. OpNames' /\ SureNotGone'
  BY <1>0 DEF NamesInv, OpNames, SureNotGone
<1>8. StatesInv'
  BY <1>0 DEF NamesInv, StatesInv
<1>9. JobsInv'
  <2>1. Len(mem'.trans) = Len(mem'.vec) /\ Len(mem'.vec) \in Nat
    BY <1>1 DEF FilesInv, MemOK, Memories
  <2>2. Len(mem'.trans) <= Len(mem'.vec)
    BY <2>1
  <2> QED
    BY <2>2 DEF JobsInv
<1> QED
  BY <1>4, <1>5, <1>6, <1>7, <1>8, <1>9 DEF Base, NamesInv

LEMMA BuildIndexBase ==
    ASSUME Base, BuildIndex
    PROVE  Base'
<1> DEFINE n == Cardinality(setting.headsOf)
           N == Cardinality(setting.built)
           M == [heads |-> 0..(n - 1), vec |-> HeadSeq, trans |-> HeadSeq,
                 ver |-> [i \in 1..N |-> "live"], meta |-> [i \in 1..N |-> i - 1],
                 map |-> [h \in HeadIds |-> IF h < n THEN h ELSE NoBlock],
                 free |-> {b \in Blocks : b >= n}, reserve |-> {}]
<1>0. /\ Types /\ IdsInv /\ NamesInv /\ state = "empty" /\ state' = "building"
      /\ UNCHANGED <<setting, disk, log, size, scan, op, saver, todo, used, gone, trusted, labelled, promise>>
      /\ SameNames /\ setting \in Settings
  BY DEF Base, BuildIndex, SameNames, Types, RunOK
<1>1. /\ n \in 1..MaxHeads /\ n <= NumBlocks /\ N \in 1..Names /\ Names \in Nat /\ MaxHeads \in Nat /\ NumBlocks \in Nat
      /\ setting.built = 0..(N - 1) /\ setting.headsOf \subseteq setting.built
  BY <1>0, SettingFacts, LifecycleBounds
<1>2. HeadSeq \in [1..n -> setting.headsOf] /\ HeadSeq \in Seq(Vectors) /\ Len(HeadSeq) = n
  BY <1>0, HeadSeqLists
<1>3. PICK P \in [0..(n - 1) -> SUBSET setting.built] : BuiltAs(n, N, P)
  BY <1>0, BuildEffect
<1>4. mem' = M
  BY DEF BuildIndex
<1> HIDE DEF n, N
<1>5. /\ HeadSeq \in Translations /\ [i \in 1..N |-> "live"] \in Versions /\ [i \in 1..N |-> i - 1] \in Labels
      /\ Len([i \in 1..N |-> "live"]) = N
      /\ [h \in HeadIds |-> IF h < n THEN h ELSE NoBlock] \in Mappings
      /\ 0..(n - 1) \in SUBSET HeadIds
  <2>1. HeadSeq \in Translations
    BY <1>1, <1>2 DEF Translations, Vectors, Ids
  <2>2. [i \in 1..N |-> "live"] \in Versions /\ Len([i \in 1..N |-> "live"]) = N
    BY <1>1 DEF Versions
  <2>3. \A i \in 1..N : i - 1 \in Vectors
    BY <1>1 DEF Vectors
  <2>4. [i \in 1..N |-> i - 1] \in Labels
    BY <1>1, <2>3 DEF Labels
  <2>5. [h \in HeadIds |-> IF h < n THEN h ELSE NoBlock] \in Mappings
    BY <1>1 DEF Mappings, HeadIds, Blocks
  <2>6. 0..(n - 1) \in SUBSET HeadIds
    BY <1>1 DEF HeadIds
  <2> QED
    BY <2>1, <2>2, <2>4, <2>5, <2>6
<1>6. mem' \in Memories /\ mem'.vec = HeadSeq /\ mem'.trans = HeadSeq /\ mem'.heads = 0..(n - 1) /\ Len(mem'.ver) = N
  BY <1>2, <1>4, <1>5 DEF Memories
<1> HIDE DEF M
<1>7. blocks' \in Postings /\ \A b \in Blocks : \A e \in blocks'[b] : e[2] \in setting.built
  <2>1. blocks' = [b \in Blocks |-> IF b \in 0..(n - 1) THEN {<<v, v>> : v \in P[b]} ELSE {}]
    BY <1>3 DEF BuiltAs
  <2>2. setting.built \subseteq Ids /\ setting.built \subseteq Vectors
    BY <1>1 DEF Ids, Vectors
  <2> QED
    BY <2>1, <2>2 DEF Postings
<1>8. MemOK'
  BY <1>1, <1>2, <1>6, <1>7 DEF MemOK, HeadsOK
<1>9. jobs' \subseteq 0..(n - 1) /\ sure' \subseteq setting.built
  BY <1>3 DEF BuiltAs
<1>10. WorkOK' /\ HistoryOK' /\ RunOK'
  BY <1>0, <1>1, <1>5, <1>9 DEF Types, WorkOK, HistoryOK, RunOK, Vectors
<1>11. Types'
  BY <1>0, <1>8, <1>10, TypesKept DEF Types
<1>12. NextName' = NextName /\ N <= NextName /\ NextName \in Int
  <2>1. NextName = N + used.adds /\ used.adds \in Nat
    BY <1>0 DEF NextName, N, Types, WorkOK, Counts
  <2> QED
    BY <2>1, <1>0, <1>1, IdsKept
<1>13. IdsInv'
  BY <1>0, <1>6, <1>12, IdsKept DEF IdsInv
<1>14. NewNames'
  <2> SUFFICES ASSUME NEW v \in Vectors, New(v)' PROVE Unseen(v)'
    BY DEF NewNames
  <2>1. New(v) /\ Unseen(v)
    BY <1>0, NamesKept DEF NamesInv, NewNames
  <2>2. v >= NextName
    BY <1>0, <2>1 DEF New, Adds, NamesInv, StatesInv, Idle
  <2>3. v \notin setting.built
    BY <2>2, <1>1, <1>12 DEF Vectors
  <2>4. NotStored(v)'
    BY <2>3, <1>7 DEF NotStored
  <2>5. NoHead(v)'
    BY <2>3, <1>1, <1>2, <1>6 DEF NoHead
  <2>6. NotSaved(v)' /\ NotPromised(v)'
    BY <1>0, <2>1, NamesKept DEF Unseen
  <2> QED
    BY <1>0, <1>9, <2>1, <2>3, <2>4, <2>5, <2>6 DEF Unseen
<1>15. OpNames'
  <2>1. \A c \in Clients : op'[c] = Idle
    BY <1>0 DEF NamesInv, StatesInv
  <2>2. Idle.kind = "idle"
    BY DEF Idle
  <2>3. \A c \in Clients : op'[c].kind = "idle"
    BY <2>1, <2>2
  <2> QED
    BY <2>1, <2>3 DEF OpNames
<1>16. SureNotGone' /\ StatesInv'
  BY <1>0, <1>9 DEF NamesInv, SureNotGone, StatesInv
<1>17. JobsInv'
  <2>1. Len(mem'.trans) <= Len(mem'.vec)
    BY <1>1, <1>2, <1>6
  <2> QED
    BY <2>1 DEF JobsInv
<1> QED
  BY <1>11, <1>13, <1>14, <1>15, <1>16, <1>17 DEF Base, NamesInv

LEMMA BuildEndBase ==
    ASSUME Base, BuildEnd
    PROVE  Base'
<1> DEFINE t == IF setting.excludeHead THEN mem.trans ELSE [i \in DOMAIN mem.trans |-> NoId]
           r == [disk["index"] EXCEPT !.head = HeadFile(mem), !.trans = t, !.ver = mem.ver]
<1>0. /\ Types /\ IdsInv /\ NamesInv /\ state = "building" /\ jobs = {} /\ state' = "running"
      /\ UNCHANGED <<setting, blocks, log, size, scan, jobs, op, saver, todo, used, sure, gone, trusted, labelled, promise>>
      /\ SameNames /\ mem \in Memories /\ HeadsOK(mem)
  BY DEF Base, BuildEnd, SameNames, Types, history, MemOK
<1>1. t \in Translations
  <2>1. mem.trans \in Seq(Ids \cup {NoId})
    BY <1>0 DEF Memories, Translations
  <2>2. [i \in DOMAIN mem.trans |-> NoId] \in Seq(Ids \cup {NoId})
    <3>1. DOMAIN mem.trans = 1..Len(mem.trans) /\ Len(mem.trans) \in Nat
      BY <2>1
    <3> QED
      BY <3>1
  <2> QED
    BY <2>1, <2>2 DEF Translations
<1>2. mem' = [mem EXCEPT !.trans = t] /\ disk' = [disk EXCEPT !["index"] = r]
  BY DEF BuildEnd
<1> HIDE DEF t
<1>3. mem' \in Memories /\ mem'.vec = mem.vec /\ mem'.ver = mem.ver /\ mem'.heads = mem.heads
  BY <1>0, <1>1, <1>2 DEF Memories
<1>4. "index" \in Dirs /\ disk \in [Dirs -> Directories] /\ disk["index"] \in Directories
  BY <1>0 DEF Dirs, Types, DiskOK
<1>5. HeadFile(mem) \in HeadFiles /\ HeadsOK(HeadFile(mem)) /\ mem.ver \in Versions
  BY <1>0, HeadFileType DEF Memories
<1>6. r \in Directories /\ r.head = HeadFile(mem) /\ r.ver = mem.ver
  BY <1>1, <1>4, <1>5 DEF Directories, File
<1> HIDE DEF r
<1>7. DiskOK'
  BY <1>0, <1>2, <1>4, <1>5, <1>6, FileType DEF Types
<1>8. MemOK' /\ RunOK'
  BY <1>0, <1>3 DEF Types, MemOK, HeadsOK, RunOK
<1>9. Types'
  BY <1>0, <1>7, <1>8, TypesKept DEF Types
<1>10. \A i \in DOMAIN HeadFile(mem).vec : \E j \in DOMAIN mem.vec : HeadFile(mem).vec[i] = mem.vec[j]
  BY <1>0, HeadFileNames DEF Types
<1>11. \A d \in Dirs : disk'[d].ver = disk[d].ver \/ disk'[d].ver = None \/ Len(disk'[d].ver) <= Len(mem.ver)
  <2>1. Len(mem.ver) <= Len(mem.ver)
    BY <1>5 DEF Versions
  <2> QED
    BY <2>1, <1>2, <1>4, <1>6
<1>12. \A d \in Dirs : \/ disk'[d].head = disk[d].head \/ disk'[d].head = None
                       \/ \A i \in DOMAIN disk'[d].head.vec : \E j \in DOMAIN mem.vec : disk'[d].head.vec[i] = mem.vec[j]
  BY <1>2, <1>4, <1>6, <1>10
<1>13. IdsInDirs' /\ NewNames' /\ SureNotGone'
  BY <1>0, <1>3, <1>11, <1>12, FileNames
<1>14. IdsInv'
  BY <1>0, <1>3, <1>13, IdsKept DEF IdsInv
<1>15. OpNames'
  BY <1>0, NamesKept
<1>16. StatesInv' /\ JobsInv'
  BY <1>0 DEF NamesInv, StatesInv, JobsInv
<1> QED
  BY <1>9, <1>13, <1>14, <1>15, <1>16 DEF Base, NamesInv

-----------------------------------------------------------------------------

(***************************************************************************)
(* Every step keeps Base and the files of a compaction                     *)
(***************************************************************************)

LEMMA LeftTail ==
    ASSUME NEW p \in Seq(Steps), p # <<>>
    PROVE  LeftOf(Tail(p)) \subseteq LeftOf(p)
<1>1. Len(p) \in Nat /\ Len(p) >= 1 /\ Len(Tail(p)) = Len(p) - 1 /\ \A i \in 1..(Len(p) - 1) : Tail(p)[i] = p[i + 1]
  OBVIOUS
<1>2. DOMAIN p = 1..Len(p) /\ DOMAIN Tail(p) = 1..(Len(p) - 1)
  BY <1>1
<1> QED
  BY <1>1, <1>2 DEF LeftOf

\* A compaction goes on only from a compaction, and from its files.
LEMMA FilesKept ==
    ASSUME FilesInv, InRefine' => InRefine, Len(mem.ver) \in Nat, Len(disk["index"].ver) \in Nat \/ disk["index"].ver = None,
           disk'["index"].head = disk["index"].head, disk'["index"].trans = disk["index"].trans,
           disk'["index"].ver = disk["index"].ver, mem'.ver = mem.ver \/ Len(mem'.ver) = Len(mem.ver),
           \A c \in Clients : op'[c] # Idle => op[c] # Idle /\ op'[c].renumbered = op[c].renumbered
    PROVE  FilesInv'
  BY DEF FilesInv

LEMMA FilesAfter ==
    ASSUME ~InRefine'
    PROVE  FilesInv'
  BY DEF FilesInv

LEMMA AdvanceRefine ==
    ASSUME SaverOK, saver.plan # <<>>, Advance
    PROVE  /\ InRefine' => InRefine
           /\ saver'.kind = saver.kind /\ saver'.plan = Tail(saver.plan) /\ saver'.dir = saver.dir
           /\ saver'.quiet = saver.quiet /\ saver'.labelled = saver.labelled
           /\ Left' = LeftOf(Tail(saver.plan)) /\ Left' \subseteq Left
<1>1. /\ saver'.kind = saver.kind /\ saver'.plan = Tail(saver.plan) /\ saver.plan \in Seq(Steps)
      /\ saver'.dir = saver.dir /\ saver'.quiet = saver.quiet /\ saver'.labelled = saver.labelled
  BY DEF SaverOK, Advance
<1>2. Left' = LeftOf(Tail(saver.plan)) /\ Left' \subseteq Left
  BY <1>1, LeftTail DEF Left, LeftOf
<1> QED
  BY <1>1, <1>2 DEF InRefine

LEMMA RefineFilesInv ==
    ASSUME Base, RefineFiles
    PROVE  FilesInv'
<1> DEFINE r == [disk["index"] EXCEPT !.head = FileOfHeads, !.trans = FileOfTrans, !.ver = FileOfVer, !.meta = RefineMetadata]
<1>1. "index" \in Dirs /\ disk \in [Dirs -> Directories] /\ disk["index"] \in Directories /\ op \in [Clients -> Operations]
  BY DEF Dirs, Base, Types, DiskOK, OpsOK
<1>2. disk' = [disk EXCEPT !["index"] = r] /\ UNCHANGED mem
  BY DEF RefineFiles, FileOfHeads, FileOfTrans, FileOfVer
<1>3. r.head = FileOfHeads /\ r.trans = FileOfTrans /\ r.ver = FileOfVer
  BY <1>1 DEF Directories
<1> HIDE DEF r
<1>4. disk'["index"] = r
  BY <1>1, <1>2
<1>5. FileOfHeads # None /\ FileOfTrans # None /\ FileOfVer # None
  BY CompactionFiles, LifecycleNone DEF Translations, Versions
<1>6. FileOfHeads.heads = 0..(Len(FileOfHeads.vec) - 1)
  <2>1. Len(HeadOrder) \in Nat /\ DOMAIN HeadOrder = 1..Len(HeadOrder)
    BY OrderNumbers DEF Numbered, Base, Types
  <2> QED
    BY <2>1 DEF FileOfHeads
<1>7. \A c \in Clients : op'[c] # Idle => op'[c].renumbered
  <2>1. \A c \in Clients : op'[c] = IF op[c] = Idle THEN Idle ELSE [op[c] EXCEPT !.renumbered = TRUE]
    BY DEF RefineFiles
  <2> QED
    BY <1>1, <2>1 DEF Operations
<1>8. Len(FileOfVer) <= Len(mem.ver) /\ Len(FileOfTrans) = Len(FileOfHeads.vec)
  BY CompactionFiles
<1> QED
  BY <1>2, <1>3, <1>4, <1>5, <1>6, <1>7, <1>8 DEF FilesInv

\* The steps during which no compaction waits for its load afterwards.
LEMMA NoRefineAfter ==
    ASSUME Base, FilesInv,
           \/ BuildIndex \/ BuildEnd \/ SaveIndex \/ Checkpoint \/ OpenFiles \/ SaveMetadata \/ SaveHeadIndex
           \/ SaveHeadFolder \/ SaveTranslateMap \/ SaveVersionMap \/ ClearLog \/ SaveEnd \/ Reload
           \/ Crash \/ LoadIndex \/ RecoverIndex \/ ReplayAdd \/ ReplayDelete \/ RecoverEnd
    PROVE  ~InRefine'
<1>0. SaverOK /\ StatesInv
  BY DEF Base, Types, NamesInv
<1>1. ASSUME state # "running", UNCHANGED saver
      PROVE  ~InRefine'
  BY <1>0, <1>1 DEF StatesInv, NoSave, InRefine
<1>2. CASE BuildIndex \/ BuildEnd \/ LoadIndex \/ RecoverIndex \/ ReplayAdd \/ ReplayDelete \/ RecoverEnd
  BY <1>1, <1>2 DEF BuildIndex, BuildEnd, LoadIndex, RecoverIndex, ReplayAdd, ReplayDelete, RecoverEnd
<1>3. CASE SaveIndex \/ Checkpoint \/ SaveEnd \/ Crash
  BY <1>3 DEF SaveIndex, Checkpoint, Start, SaveEnd, Crash, NoSave, InRefine
<1>4. CASE OpenFiles
  <2>1. saver.kind = "save"
    BY <1>0, <1>4, AtOpen DEF OpenFiles
  <2>2. saver'.kind = saver.kind
    BY <1>0, <1>4 DEF OpenFiles, SaverOK
  <2> QED
    BY <2>1, <2>2 DEF InRefine
<1>5. ASSUME saver.plan # <<>>, Advance, saver.kind # "refine" \/ "reload" \notin LeftOf(Tail(saver.plan))
      PROVE  ~InRefine'
  BY <1>0, <1>5, AdvanceRefine DEF InRefine
<1>6. CASE SaveMetadata
  BY <1>0, <1>5, <1>6, AtMeta DEF SaveMetadata
<1>7. CASE SaveHeadIndex
  BY <1>0, <1>5, <1>7, AtHead DEF SaveHeadIndex
<1>8. CASE SaveHeadFolder
  <2>1. saver.plan # <<>>
    BY <1>8 DEF SaveHeadFolder, AtStep
  <2> QED
    BY <2>1, <1>0, <1>5, <1>8, AtSaveHead DEF SaveHeadFolder
<1>9. CASE SaveTranslateMap
  <2>1. saver.plan # <<>>
    BY <1>9 DEF SaveTranslateMap, AtStep
  <2> QED
    BY <2>1, <1>0, <1>5, <1>9, AtTrans DEF SaveTranslateMap
<1>10. CASE SaveVersionMap
  <2>1. saver.plan # <<>>
    BY <1>10 DEF SaveVersionMap, AtStep
  <2> QED
    BY <2>1, <1>0, <1>5, <1>10, AtVer DEF SaveVersionMap
<1>11. CASE ClearLog
  <2>1. saver.plan # <<>>
    BY <1>11 DEF ClearLog, AtStep
  <2> QED
    BY <2>1, <1>0, <1>5, <1>11, AtClear DEF ClearLog
<1>12. CASE Reload
  <2>1. saver'.plan = MergedPlan \/ saver'.plan = <<>>
    BY <1>0, <1>12 DEF Reload, SaverOK
  <2>2. "reload" \notin LeftOf(MergedPlan) /\ "reload" \notin LeftOf(<<>>)
    BY DEF MergedPlan, LeftOf
  <2> QED
    BY <2>1, <2>2 DEF InRefine, Left
<1> QED
  BY <1>2, <1>3, <1>4, <1>6, <1>7, <1>8, <1>9, <1>10, <1>11, <1>12

LEMMA FilesNext ==
    ASSUME Base, FilesInv, [Next]_vars
    PROVE  FilesInv'
<1>0. /\ SaverOK /\ op \in [Clients -> Operations] /\ disk \in [Dirs -> Directories] /\ "index" \in Dirs
      /\ mem \in Memories
  BY DEF Base, Types, OpsOK, DiskOK, Dirs, MemOK
<1>1. Len(mem.ver) \in Nat /\ (Len(disk["index"].ver) \in Nat \/ disk["index"].ver = None)
  BY <1>0 DEF Memories, Directories, File, Versions
<1>2. ASSUME \/ BuildIndex \/ BuildEnd \/ SaveIndex \/ Checkpoint \/ OpenFiles \/ SaveMetadata \/ SaveHeadIndex
             \/ SaveHeadFolder \/ SaveTranslateMap \/ SaveVersionMap \/ ClearLog \/ SaveEnd \/ Reload
             \/ Crash \/ LoadIndex \/ RecoverIndex \/ ReplayAdd \/ ReplayDelete \/ RecoverEnd
      PROVE  FilesInv'
  BY <1>2, NoRefineAfter, FilesAfter
<1>3. ASSUME NEW c \in Clients, AddBatch(c)
      PROVE  FilesInv'
  <2>1. saver'.kind = saver.kind /\ saver.kind # "refine"
    BY <1>0, <1>3, OverlapType DEF AddBatch, Refining
  <2> QED
    BY <2>1, FilesAfter DEF InRefine
<1>4. ASSUME NEW c \in Clients, DeleteLog(c)
      PROVE  FilesInv'
  <2>1. saver'.kind = saver.kind /\ saver.kind # "refine"
    BY <1>0, <1>4, OverlapType DEF DeleteLog, Refining
  <2> QED
    BY <2>1, FilesAfter DEF InRefine
<1>5. ASSUME NEW c \in Clients, AddLog(c) \/ AddAppend(c) \/ DeleteMark(c)
      PROVE  FilesInv'
  <2>1. saver' = Overlap /\ UNCHANGED disk /\ op[c] # Idle
    BY <1>5 DEF AddLog, AddAppend, DeleteMark, durable, Idle
  <2>2. InRefine' => InRefine
    BY <1>0, <2>1, OverlapType DEF InRefine, Left
  <2>3. \A e \in Clients : op'[e] # Idle => op[e] # Idle /\ op'[e].renumbered = op[e].renumbered
    <3>1. op[c].renumbered = [op[c] EXCEPT !.kind = "append"].renumbered
      BY <1>0 DEF Operations
    <3>2. op' = [op EXCEPT ![c] = [op[c] EXCEPT !.kind = "append"]] \/ op' = [op EXCEPT ![c] = Idle]
      BY <1>5 DEF AddLog, AddAppend, DeleteMark
    <3> QED
      BY <3>1, <3>2, <2>1, <1>0
  <2>4. mem'.ver = mem.ver \/ Len(mem'.ver) = Len(mem.ver)
    <3>1. CASE AddLog(c)
      BY <3>1 DEF AddLog
    <3>2. CASE AddAppend(c)
      BY <3>2, <1>0 DEF AddAppend, AppendTo, PutPosting, Memories
    <3>3. CASE DeleteMark(c)
      <4>1. mem'.ver = [mem.ver EXCEPT ![op[c].id + 1] = "deleted"]
        BY <3>3, <1>0 DEF DeleteMark, Memories
      <4>2. Len([mem.ver EXCEPT ![op[c].id + 1] = "deleted"]) = Len(mem.ver)
        BY <1>0 DEF Memories, Versions
      <4> QED
        BY <4>1, <4>2
    <3> QED
      BY <3>1, <3>2, <3>3, <1>5
  <2> QED
    BY <2>1, <2>2, <2>3, <2>4, <1>1, FilesKept
<1>6. ASSUME NEW h \in HeadIds, SplitJob(h)
      PROVE  FilesInv'
  <2>1. mem'.ver = mem.ver
    BY <1>6, SplitShapes DEF SplitShape
  <2>2. UNCHANGED <<saver, op, disk>>
    BY <1>6 DEF SplitJob
  <2>3. InRefine' => InRefine
    BY <2>2 DEF InRefine, Left
  <2> QED
    BY <2>1, <2>2, <2>3, <1>1, FilesKept
<1>7. ASSUME NEW h \in HeadIds, RefinePosting(h)
      PROVE  FilesInv'
  <2>1. mem'.ver = mem.ver
    BY <1>7, RefinePostingEffect DEF RewriteAs, PutAs
  <2>2. UNCHANGED <<op, disk>> /\ saver.plan # <<>> /\ (saver' = saver \/ Advance)
    BY <1>7 DEF RefinePosting, AtStep, Advance
  <2>3. InRefine' => InRefine
    BY <2>2, <1>0, AdvanceRefine DEF InRefine, Left
  <2> QED
    BY <2>1, <2>2, <2>3, <1>1, FilesKept
<1>8. ASSUME SaveMapping \/ SavePool
      PROVE  FilesInv'
  <2>1. saver.plan # <<>> /\ Advance /\ UNCHANGED op
    BY <1>8 DEF SaveMapping, SavePool, AtStep
  <2>2. mem'.ver = mem.ver
    BY <1>0, <1>8 DEF SaveMapping, SavePool, Memories
  <2>3. /\ disk'["index"].head = disk["index"].head /\ disk'["index"].trans = disk["index"].trans
        /\ disk'["index"].ver = disk["index"].ver
    BY <1>0, <1>8 DEF SaveMapping, SavePool, Write, Directories
  <2> QED
    BY <2>1, <2>2, <2>3, <1>0, <1>1, AdvanceRefine, FilesKept
<1>9. CASE RefineFiles
  BY <1>9, RefineFilesInv
<1>10. CASE UNCHANGED vars
  <2>1. UNCHANGED <<disk, op, saver, mem>>
    BY <1>10 DEF vars
  <2>2. InRefine' => InRefine
    BY <2>1 DEF InRefine, Left
  <2> QED
    BY <2>1, <2>2, <1>1, FilesKept
<1> QED
  BY <1>2, <1>3, <1>4, <1>5, <1>6, <1>7, <1>8, <1>9, <1>10 DEF Next

LEMMA BaseNext ==
    ASSUME Base, FilesInv, [Next]_vars
    PROVE  Base'
<1>1. CASE BuildIndex \/ BuildEnd
  BY <1>1, BuildIndexBase, BuildEndBase
<1>2. ASSUME NEW c \in Clients, AddBatch(c) \/ AddLog(c) \/ AddAppend(c) \/ DeleteLog(c) \/ DeleteMark(c)
      PROVE  Base'
  BY <1>2, AddBatchBase, AddLogBase, AddAppendBase, DeleteLogBase, DeleteMarkBase
<1>3. ASSUME NEW h \in HeadIds, SplitJob(h) \/ RefinePosting(h)
      PROVE  Base'
  BY <1>3, SplitJobBase, RefinePostingBase
<1>4. CASE SaveIndex \/ Checkpoint
  BY <1>4, StartBase
<1>5. CASE \/ SaveMetadata \/ SaveHeadIndex \/ SaveHeadFolder \/ SaveTranslateMap \/ SaveVersionMap
           \/ SaveMapping \/ SavePool
  BY <1>5, FileStepsBase
<1>6. CASE OpenFiles \/ ClearLog \/ SaveEnd
  BY <1>6, OpenFilesBase, ClearLogBase, SaveEndBase
<1>7. CASE RefineFiles \/ Reload
  BY <1>7, RefineFilesBase, ReloadBase
<1>8. CASE Crash \/ LoadIndex \/ RecoverIndex
  BY <1>8, CrashBase, LoadIndexBase, RecoverIndexBase
<1>9. CASE ReplayAdd \/ ReplayDelete \/ RecoverEnd
  BY <1>9, ReplayAddBase, ReplayDeleteBase, RecoverEndBase
<1>10. CASE UNCHANGED vars
  <2>1. /\ UNCHANGED <<setting, state, mem, blocks, disk, log, size, scan, jobs, op, saver, todo, used, sure, gone,
                       trusted, labelled, promise>> /\ SameNames
    BY <1>10 DEF vars, SameNames
  <2>2. Types /\ IdsInv /\ NamesInv
    BY DEF Base
  <2>3. Types'
    BY <2>1, <2>2, TypesKept DEF Types
  <2>4. IdsInv'
    BY <2>1, <2>2, IdsKept DEF IdsInv
  <2>5. NewNames' /\ OpNames' /\ SureNotGone'
    BY <2>1, <2>2, NamesKept DEF NamesInv, NewNames, Unseen
  <2>6. StatesInv' /\ JobsInv'
    BY <2>1 DEF Base, NamesInv, StatesInv, JobsInv
  <2> QED
    BY <2>3, <2>4, <2>5, <2>6 DEF Base, NamesInv
<1> QED
  BY <1>1, <1>2, <1>3, <1>4, <1>5, <1>6, <1>7, <1>8, <1>9, <1>10 DEF Next

LEMMA BaseTypeOK == Base => TypeOK
<1> SUFFICES ASSUME Base PROVE TypeOK
  OBVIOUS
<1>1. mem \in Memories /\ HeadsOK(mem) /\ blocks \in Postings
  BY DEF Base, Types, MemOK
<1>2. \A d \in Dirs : disk[d].head \in File(HeadFiles) /\ disk[d].pool \in File(SUBSET Blocks)
  BY DEF Base, Types, DiskOK, Directories
<1>3. sure \cap gone = {}
  BY DEF Base, NamesInv, SureNotGone
<1> QED
  BY <1>1, <1>2, <1>3 DEF TypeOK, Base, Types, RunOK, LogOK, WorkOK, Memories, Translations, Versions, Mappings,
                          Postings, NumHeads, HeadsOK

LEMMA BaseInvariant == Spec => [](Base /\ FilesInv)
<1>1. Init => Base /\ FilesInv
  <2>1. Init => ~InRefine
    BY DEF Init, InRefine, NoSave
  <2> QED
    BY <2>1, InitBase DEF FilesInv
<1>2. Base /\ FilesInv /\ [Next]_vars => (Base /\ FilesInv)'
  BY BaseNext, FilesNext
<1> QED
  BY <1>1, <1>2, PTL DEF Spec

\* In every life of an index each part of it, in memory and on disk, has its
\* type, no id or head is out of range, and no vector is both acknowledged as
\* present and as deleted (SPANNIndex.cpp, ExtraDynamicSearcher.h).
THEOREM LifecycleTypes == Spec => []TypeOK
  BY BaseInvariant, BaseTypeOK, PTL

-----------------------------------------------------------------------------

(***************************************************************************)
(* Saves: the steps of a plan                                              *)
(***************************************************************************)

\* A step leaves the later ones.
LEMMA StepLeft ==
    ASSUME SaverOK, NEW s \in Steps, AtStep(s)
    PROVE  LeftOf(Tail(saver.plan)) = Left \ {s} /\ s \in Left /\ saver.plan # <<>> /\ Saving
<1>1. saver.plan # <<>> /\ Saving
  BY DEF AtStep, Saving
<1>2. CASE s = "open"
  BY <1>1, <1>2, AtOpen
<1>3. CASE s = "meta"
  BY <1>1, <1>3, AtMeta
<1>4. CASE s = "head"
  BY <1>1, <1>4, AtHead
<1>5. CASE s = "saveHead"
  BY <1>1, <1>5, AtSaveHead
<1>6. CASE s = "trans"
  BY <1>1, <1>6, AtTrans
<1>7. CASE s = "ver"
  BY <1>1, <1>7, AtVer
<1>8. CASE s = "map"
  BY <1>1, <1>8, AtMap
<1>9. CASE s = "pool"
  BY <1>1, <1>9, AtPool
<1>10. CASE s = "clear"
  BY <1>1, <1>10, AtClear
<1>11. CASE s = "refine"
  BY <1>1, <1>11, AtRefine
<1>12. CASE s = "rewrite"
  BY <1>1, <1>12, AtRewrite
<1>13. CASE s = "reload"
  BY <1>1, <1>13, AtReload
<1> QED
  BY <1>2, <1>3, <1>4, <1>5, <1>6, <1>7, <1>8, <1>9, <1>10, <1>11, <1>12, <1>13 DEF Steps

\* A saver's step: its kind, its directory and whether an update ran stay.
LEMMA StepAdvances ==
    ASSUME SaverOK, NEW s \in Steps, AtStep(s), Advance
    PROVE  /\ Saving /\ saver'.kind = saver.kind /\ saver'.dir = saver.dir /\ saver'.quiet = saver.quiet
           /\ saver'.labelled = saver.labelled /\ Left' = Left \ {s} /\ s \in Left
           /\ (InRefine' <=> InRefine /\ s # "reload") /\ (Reloaded' <=> saver.kind = "refine" /\ ~InRefine')
<1>1. LeftOf(Tail(saver.plan)) = Left \ {s} /\ s \in Left /\ saver.plan # <<>> /\ Saving
  BY StepLeft
<1>2. /\ saver'.kind = saver.kind /\ saver'.dir = saver.dir /\ saver'.quiet = saver.quiet
      /\ saver'.labelled = saver.labelled /\ Left' = LeftOf(Tail(saver.plan))
  BY <1>1, AdvanceRefine
<1> QED
  BY <1>1, <1>2 DEF InRefine, Reloaded

\* The steps of a plan that are still to come while the head index is.
LEMMA PlanOrder ==
    ASSUME SaverOK, saver.kind = "save"
    PROVE  /\ "refine" \in Left => "map" \in Left /\ "pool" \in Left /\ "open" \notin Left
           /\ "head" \in Left => "trans" \in Left /\ "ver" \in Left /\ "map" \in Left /\ "pool" \in Left
<1>1. saver.plan \in SavePlans \cup {RefinePlan}
  BY DEF SaverOK, PlanOK
<1> DEFINE p1 == SavePlan
           p2 == <<"meta", "head", "trans", "ver", "map", "pool", "clear">>
           p3 == <<"head", "trans", "ver", "map", "pool", "clear">>
           p4 == <<"trans", "ver", "map", "pool", "clear">>
           p5 == <<"ver", "map", "pool", "clear">>
           p6 == <<"map", "pool", "clear">>
           p7 == <<"pool", "clear">>
           p8 == <<"clear">>
           p9 == <<>>
<1>2. saver.plan \in {p1, p2, p3, p4, p5, p6, p7, p8, p9, RefinePlan}
  BY <1>1 DEF SavePlans
<1>3. /\ LeftOf(p1) = {"open", "meta", "head", "trans", "ver", "map", "pool", "clear"}
      /\ LeftOf(p2) = {"meta", "head", "trans", "ver", "map", "pool", "clear"}
      /\ LeftOf(p3) = {"head", "trans", "ver", "map", "pool", "clear"}
  BY DEF LeftOf, SavePlan
<1>4. /\ LeftOf(p4) = {"trans", "ver", "map", "pool", "clear"} /\ LeftOf(p5) = {"ver", "map", "pool", "clear"}
      /\ LeftOf(p6) = {"map", "pool", "clear"} /\ LeftOf(p7) = {"pool", "clear"}
      /\ LeftOf(p8) = {"clear"} /\ LeftOf(p9) = {}
  BY DEF LeftOf
<1>5. LeftOf(RefinePlan) = {"refine", "rewrite", "map", "pool", "reload"}
  BY DEF LeftOf, RefinePlan
<1> HIDE DEF p1, p2, p3, p4, p5, p6, p7, p8, p9
<1> QED
  BY <1>2, <1>3, <1>4, <1>5 DEF Left

\* What an update leaves alone; it overlaps a save that is on.
LEMMA UpdateFrame ==
    ASSUME SaverOK, NEW c \in Clients, AddBatch(c) \/ AddLog(c) \/ AddAppend(c) \/ DeleteLog(c) \/ DeleteMark(c)
    PROVE  /\ UNCHANGED <<setting, state, disk, todo, trusted, labelled, promise, scan>>
           /\ saver'.kind = saver.kind /\ saver'.dir = saver.dir /\ saver'.plan = saver.plan /\ Left' = Left
           /\ saver'.labelled = saver.labelled /\ (Saving => ~saver'.quiet) /\ (saver.kind = "none" => saver' = saver)
           /\ (InRefine' <=> InRefine) /\ (Reloaded' <=> Reloaded) /\ (Saving' <=> Saving) /\ (PlainSave' <=> PlainSave)
<1>1. /\ UNCHANGED <<setting, state, disk, todo, trusted, labelled, promise, scan>> /\ saver' = Overlap
  BY DEF AddBatch, AddLog, AddAppend, DeleteLog, DeleteMark, durable, history
<1>2. /\ saver'.kind = saver.kind /\ saver'.plan = saver.plan /\ saver'.dir = saver.dir
      /\ saver'.labelled = saver.labelled /\ (Saving => ~saver'.quiet) /\ (saver.kind = "none" => saver' = saver)
  BY <1>1, OverlapType DEF Saving
<1>3. Left' = Left
  BY <1>2 DEF Left, LeftOf
<1> QED
  BY <1>1, <1>2, <1>3 DEF InRefine, Reloaded, Saving, PlainSave

Updates(c) == AddBatch(c) \/ AddLog(c) \/ AddAppend(c) \/ DeleteLog(c) \/ DeleteMark(c)

\* Steps of an index on which no save is on.
Starts == BuildIndex \/ BuildEnd \/ LoadIndex \/ RecoverIndex \/ ReplayAdd \/ ReplayDelete \/ RecoverEnd

LEMMA StartsFrame ==
    ASSUME Base, Starts
    PROVE  saver = NoSave /\ saver' = NoSave /\ ~Saving /\ ~Saving' /\ \A c \in Clients : op[c] = Idle /\ op'[c] = Idle
<1>1. state # "running" /\ UNCHANGED <<saver, op>>
  BY DEF Starts, BuildIndex, BuildEnd, LoadIndex, RecoverIndex, ReplayAdd, ReplayDelete, RecoverEnd
<1> QED
  BY <1>1 DEF Base, NamesInv, StatesInv, Saving, NoSave

LEMMA EndsFrame ==
    ASSUME SaveEnd \/ Crash
    PROVE  ~Saving'
  BY DEF SaveEnd, Crash, NoSave, Saving

\* The other actions, in the groups in which the proofs treat them.
LEMMA NextCases ==
    ASSUME [Next]_vars
    PROVE  \/ Starts \/ SaveEnd \/ Crash \/ \E c \in Clients : Updates(c)
           \/ \E h \in HeadIds : SplitJob(h) \/ RefinePosting(h)
           \/ SaveIndex \/ Checkpoint \/ OpenFiles \/ SaveMetadata \/ SaveHeadIndex \/ SaveHeadFolder
           \/ SaveTranslateMap \/ SaveVersionMap \/ SaveMapping \/ SavePool \/ ClearLog
           \/ RefineFiles \/ Reload \/ UNCHANGED vars
  BY DEF Next, Starts, Updates

-----------------------------------------------------------------------------

(***************************************************************************)
(* A sound directory is not being written: SaveBreaks                      *)
(***************************************************************************)

LEMMA NoSaveBreaks ==
    ASSUME ~Saving'
    PROVE  SaveBreaks'
  BY DEF Saving, SaveBreaks

LEMMA BreaksKept ==
    ASSUME SaveBreaks, saver'.kind = saver.kind,
           \A x \in {"open", "ver", "pool", "reload"} : x \notin Left' => x \notin Left,
           \A d \in Dirs : Broken(d) => Broken(d)'
    PROVE  SaveBreaks'
  BY DEF SaveBreaks, Dirs

LEMMA BreakBreaks ==
    ASSUME promise \in [Dirs -> Promises], NEW d \in Dirs, Break(d)
    PROVE  ~promise'[d].sound /\ \A e \in Dirs : Broken(e) => Broken(e)'
  BY PromiseType DEF Broken, Void

LEMMA SaveBreaksNext ==
    ASSUME Base, SaveBreaks, [Next]_vars
    PROVE  SaveBreaks'
<1>0. /\ SaverOK /\ promise \in [Dirs -> Promises] /\ "index" \in Dirs /\ "buffer" \in Dirs
      /\ saver.dir \in Dirs /\ Other(saver.dir) \in Dirs
  BY SaverDirs DEF Base, Types, HistoryOK, Dirs
<1>1. CASE Starts \/ SaveEnd \/ Crash
  BY <1>1, StartsFrame, EndsFrame, NoSaveBreaks
<1>2. ASSUME UNCHANGED promise PROVE \A d \in Dirs : Broken(d) => Broken(d)'
  BY <1>2 DEF Broken
<1>3. ASSUME NEW c \in Clients, Updates(c) PROVE SaveBreaks'
  BY <1>0, <1>2, <1>3, UpdateFrame, BreaksKept DEF Updates
<1>4. ASSUME UNCHANGED <<saver, promise>> PROVE SaveBreaks'
  <2>1. Left' = Left /\ saver'.kind = saver.kind
    BY <1>4 DEF Left, LeftOf
  <2> QED
    BY <2>1, <1>2, <1>4, BreaksKept
<1>5. ASSUME NEW s \in {"meta", "head", "saveHead", "trans", "map", "clear", "rewrite"}, AtStep(s), Advance, UNCHANGED promise
      PROVE  SaveBreaks'
  <2>1. s \in Steps
    BY DEF Steps
  <2>2. saver'.kind = saver.kind /\ Left' = Left \ {s}
    BY <2>1, <1>0, <1>5, StepAdvances
  <2>3. \A x \in {"open", "ver", "pool", "reload"} : x \notin Left' => x \notin Left
    BY <2>2
  <2> QED
    BY <2>2, <2>3, <1>2, <1>5, BreaksKept
<1>6. CASE SaveMetadata \/ SaveHeadIndex \/ SaveHeadFolder \/ SaveTranslateMap \/ SaveMapping \/ ClearLog
  BY <1>5, <1>6 DEF SaveMetadata, SaveHeadIndex, SaveHeadFolder, SaveTranslateMap, SaveMapping, ClearLog, history
<1>7. ASSUME NEW h \in HeadIds, SplitJob(h) \/ RefinePosting(h) PROVE SaveBreaks'
  <2>1. UNCHANGED promise /\ (UNCHANGED saver \/ (AtStep("rewrite") /\ Advance))
    BY <1>7 DEF SplitJob, RefinePosting, Advance, history
  <2> QED
    BY <2>1, <1>4, <1>5
<1>8. CASE SaveIndex \/ Checkpoint
  <2>1. \/ saver'.kind = "save" /\ saver'.plan = SavePlan
        \/ saver'.kind = "checkpoint" /\ saver'.plan = CheckpointPlan
    BY <1>8 DEF SaveIndex, Checkpoint, Start
  <2>2. /\ "open" \in LeftOf(SavePlan) /\ "pool" \in LeftOf(SavePlan)
        /\ "ver" \in LeftOf(CheckpointPlan) /\ "pool" \in LeftOf(CheckpointPlan)
    BY DEF LeftOf, SavePlan, CheckpointPlan
  <2>3. Left' = LeftOf(saver'.plan)
    BY DEF Left, LeftOf
  <2> QED
    BY <2>1, <2>2, <2>3 DEF SaveBreaks
<1>9. CASE OpenFiles
  <2>1. saver.kind = "save" /\ LeftOf(Tail(saver.plan)) = {"meta", "head", "trans", "ver", "map", "pool", "clear"}
    BY <1>0, <1>9, AtOpen DEF OpenFiles
  <2>2. saver'.kind = "save" /\ (saver'.plan = RefinePlan \/ saver'.plan = Tail(saver.plan))
    BY <2>1, <1>0, <1>9 DEF OpenFiles, SaverOK
  <2>3. "pool" \in LeftOf(RefinePlan)
    BY DEF LeftOf, RefinePlan
  <2>4. Left' = LeftOf(saver'.plan)
    BY DEF Left, LeftOf
  <2>5. Broken("index")'
    BY <1>0, <1>9, BreakBreaks DEF OpenFiles, Broken
  <2> QED
    BY <2>1, <2>2, <2>3, <2>4, <2>5 DEF SaveBreaks
<1>10. CASE SaveVersionMap
  <2>1. "ver" \in Steps
    BY DEF Steps
  <2>2. saver'.kind = saver.kind /\ Left' = Left \ {"ver"}
    BY <2>1, <1>0, <1>10, StepAdvances DEF SaveVersionMap
  <2>3. ~promise'[saver.dir].sound /\ \A d \in Dirs : Broken(d) => Broken(d)'
    BY <1>0, <1>10, BreakBreaks DEF SaveVersionMap
  <2>4. saver.kind = "checkpoint" => saver.dir = "buffer"
    BY <1>0, SaverDirs
  <2>5. saver.kind = "checkpoint" => Broken("buffer")'
    BY <2>3, <2>4 DEF Broken
  <2>6. Broken("index") => Broken("index")'
    BY <2>3, <1>0
  <2>7. Broken("buffer") => Broken("buffer")'
    BY <2>3, <1>0
  <2> QED
    BY <2>2, <2>5, <2>6, <2>7 DEF SaveBreaks
<1>11. CASE SavePool
  <2>1. saver'.kind = saver.kind /\ saver.kind \in {"save", "checkpoint", "refine"}
    BY <1>0, <1>11, StepAdvances DEF SavePool, Steps, AtStep, SaverOK
  <2>2. ~promise'[Other(saver.dir)].sound /\ \A d \in Dirs : Broken(d) => Broken(d)'
    BY <1>0, <1>11, BreakBreaks DEF SavePool
  <2>3. /\ saver.kind \in {"save", "refine"} => saver.dir = "index" /\ Other(saver.dir) = "buffer"
        /\ saver.kind = "checkpoint" => saver.dir = "buffer" /\ Other(saver.dir) = "index"
    BY <1>0, SaverDirs DEF Other
  <2>4. saver.kind = "save" => "open" \notin Left
    BY <1>0, <1>11, AtPool DEF SavePool
  <2>5. saver.kind = "checkpoint" => "ver" \notin Left
    BY <1>0, <1>11, AtPool DEF SavePool
  <2>6. Broken("index")' /\ Broken("buffer")'
    <3>1. saver.kind \in {"save", "refine"} => Broken("index") /\ Broken("buffer")'
      BY <2>2, <2>3, <2>4 DEF SaveBreaks, Broken
    <3>2. saver.kind = "checkpoint" => Broken("buffer") /\ Broken("index")'
      BY <2>2, <2>3, <2>5 DEF SaveBreaks, Broken
    <3>3. (Broken("index") => Broken("index")') /\ (Broken("buffer") => Broken("buffer")')
      BY <2>2, <1>0
    <3> QED
      BY <3>1, <3>2, <3>3, <2>1
  <2> QED
    BY <2>6 DEF SaveBreaks
<1>12. CASE RefineFiles
  <2>1. saver.kind = "save" /\ "open" \notin Left /\ LeftOf(Tail(saver.plan)) = {"rewrite", "map", "pool", "reload"}
    BY <1>0, <1>12, AtRefine DEF RefineFiles
  <2>2. saver'.kind = "refine" /\ saver'.plan = Tail(saver.plan) /\ UNCHANGED promise
    BY <1>0, <1>12 DEF RefineFiles, SaverOK, history
  <2>3. Left' = LeftOf(saver'.plan)
    BY DEF Left, LeftOf
  <2>4. Broken("index")'
    BY <2>1, <2>2, <1>2, <1>0 DEF SaveBreaks
  <2> QED
    BY <2>1, <2>2, <2>3, <2>4 DEF SaveBreaks
<1>13. CASE Reload
  <2>1. saver.kind = "refine" /\ Left = {"reload"}
    BY <1>0, <1>13, AtReload DEF Reload
  <2>2. saver'.kind = "refine" /\ UNCHANGED promise
    BY <2>1, <1>0, <1>13 DEF Reload, SaverOK
  <2>3. Broken("index")' /\ Broken("buffer")'
    BY <2>1, <2>2, <1>2, <1>0 DEF SaveBreaks
  <2> QED
    BY <2>2, <2>3 DEF SaveBreaks
<1>14. CASE UNCHANGED vars
  BY <1>4, <1>14 DEF vars
<1> QED
  BY <1>1, <1>3, <1>6, <1>7, <1>8, <1>9, <1>10, <1>11, <1>12, <1>13, <1>14, NextCases

-----------------------------------------------------------------------------

(***************************************************************************)
(* A save beside which no update ran: SaveQuiet                            *)
(***************************************************************************)

\* The steps that only move the saver on.
LEMMA StepOnly ==
    ASSUME Base, NEW s \in Steps, AtStep(s), Advance
    PROVE  /\ Saving /\ Saving' /\ saver'.kind = saver.kind /\ saver'.dir = saver.dir /\ saver'.quiet = saver.quiet
           /\ Left' = Left \ {s} /\ s \in Left
           /\ (s \notin {"head", "refine"} => (Settled' <=> Settled))
<1>1. SaverOK
  BY DEF Base, Types
<1>2. /\ Saving /\ saver'.kind = saver.kind /\ saver'.dir = saver.dir /\ saver'.quiet = saver.quiet
      /\ Left' = Left \ {s} /\ s \in Left
  BY <1>1, StepAdvances
<1> QED
  BY <1>2 DEF Saving, Settled, PlainSave

LEMMA QuietKept ==
    ASSUME SaveQuiet, Saving' => Saving, saver'.quiet => saver.quiet, Settled' => Settled, UNCHANGED <<jobs, op>>
    PROVE  SaveQuiet'
  BY DEF SaveQuiet

LEMMA SaveQuietNext ==
    ASSUME Base, SaveQuiet, [Next]_vars
    PROVE  SaveQuiet'
<1>0. SaverOK
  BY DEF Base, Types
<1>1. CASE Starts \/ SaveEnd \/ Crash
  BY <1>1, StartsFrame, EndsFrame DEF SaveQuiet
<1>2. ASSUME NEW c \in Clients, Updates(c) PROVE SaveQuiet'
  BY <1>0, <1>2, UpdateFrame DEF Updates, SaveQuiet
<1>3. ASSUME NEW h \in HeadIds, SplitJob(h) PROVE SaveQuiet'
  <2>1. jobs # {} /\ UNCHANGED <<saver, op>>
    BY <1>3 DEF SplitJob
  <2>2. Left' = Left
    BY <2>1 DEF Left, LeftOf
  <2> QED
    BY <2>1, <2>2 DEF SaveQuiet, Saving, Settled, PlainSave
<1>4. ASSUME NEW h \in HeadIds, RefinePosting(h) PROVE SaveQuiet'
  <2>1. saver.kind = "refine" /\ UNCHANGED <<jobs, op>>
    BY <1>0, <1>4, AtRewrite DEF RefinePosting
  <2>2. saver'.quiet = saver.quiet
    BY <1>0, <1>4 DEF RefinePosting, SaverOK
  <2> QED
    BY <2>1, <2>2 DEF SaveQuiet, Saving, Settled
<1>5. ASSUME NEW s \in {"saveHead", "trans", "ver", "map", "pool", "clear"}, AtStep(s), Advance, UNCHANGED <<jobs, op>>
      PROVE  SaveQuiet'
  <2>1. s \in Steps /\ s \notin {"head", "refine"}
    BY DEF Steps
  <2>2. Saving /\ saver'.quiet = saver.quiet /\ (Settled' <=> Settled)
    BY <2>1, <1>5, StepOnly
  <2> QED
    BY <2>2, <1>5, QuietKept
<1>6. CASE SaveHeadFolder \/ SaveTranslateMap \/ SaveVersionMap \/ SaveMapping \/ SavePool \/ ClearLog
  BY <1>5, <1>6 DEF SaveHeadFolder, SaveTranslateMap, SaveVersionMap, SaveMapping, SavePool, ClearLog, history
<1>7. CASE SaveIndex
  <2>1. saver'.kind = "save" /\ saver'.plan = SavePlan /\ (saver'.quiet => \A c \in Clients : op[c] = Idle) /\ UNCHANGED op
    BY <1>7 DEF SaveIndex, Start
  <2>2. "head" \in Left'
    BY <2>1 DEF Left, LeftOf, SavePlan
  <2> QED
    BY <2>1, <2>2 DEF SaveQuiet, Settled
<1>8. CASE Checkpoint
  BY <1>8 DEF Checkpoint, Start, SaveQuiet
<1>9. CASE OpenFiles
  <2>1. saver.kind = "save" /\ saver'.kind = "save" /\ (saver'.plan = RefinePlan \/ saver'.plan = Tail(saver.plan))
        /\ saver'.quiet = saver.quiet /\ UNCHANGED op
    BY <1>0, <1>9, AtOpen DEF OpenFiles, SaverOK
  <2>2. LeftOf(Tail(saver.plan)) = {"meta", "head", "trans", "ver", "map", "pool", "clear"}
    BY <1>0, <1>9, AtOpen DEF OpenFiles
  <2>3. "refine" \in LeftOf(RefinePlan)
    BY DEF LeftOf, RefinePlan
  <2>4. Left' = LeftOf(saver'.plan)
    BY DEF Left, LeftOf
  <2> QED
    BY <2>1, <2>2, <2>3, <2>4 DEF SaveQuiet, Settled, PlainSave, Saving
<1>10. CASE SaveMetadata
  <2>1. saver.kind = "save" /\ "head" \in Left /\ "meta" \in Steps
    BY <1>0, <1>10, AtMeta DEF SaveMetadata, Steps
  <2>2. Saving /\ saver'.kind = saver.kind /\ saver'.quiet = saver.quiet /\ Left' = Left \ {"meta"}
    BY <2>1, <1>10, StepOnly DEF SaveMetadata
  <2> QED
    BY <2>1, <2>2, <1>10 DEF SaveQuiet, Settled, PlainSave, Saving, SaveMetadata
<1>11. CASE SaveHeadIndex
  <2>1. "head" \in Steps
    BY DEF Steps
  <2>2. Saving /\ saver'.quiet = saver.quiet
    BY <2>1, <1>11, StepOnly DEF SaveHeadIndex
  <2> QED
    BY <2>2, <1>11 DEF SaveQuiet, SaveHeadIndex
<1>12. CASE RefineFiles
  <2>1. /\ jobs' = {} /\ (saver'.quiet => \A c \in Clients : op[c] = Idle)
        /\ op' = [c \in Clients |-> IF op[c] = Idle THEN Idle ELSE [op[c] EXCEPT !.renumbered = TRUE]]
    BY <1>0, <1>12 DEF RefineFiles, SaverOK
  <2> QED
    BY <2>1 DEF SaveQuiet
<1>13. CASE Reload
  <2>1. saver.kind = "refine" /\ UNCHANGED <<jobs, op>>
    BY <1>0, <1>13, AtReload DEF Reload
  <2>2. saver'.quiet = saver.quiet
    BY <1>0, <1>13 DEF Reload, SaverOK
  <2> QED
    BY <2>1, <2>2 DEF SaveQuiet, Saving, Settled
<1>14. CASE UNCHANGED vars
  BY <1>14 DEF vars, SaveQuiet, Saving, Settled, PlainSave, Left, LeftOf
<1> QED
  BY <1>1, <1>2, <1>3, <1>4, <1>6, <1>7, <1>8, <1>9, <1>10, <1>11, <1>12, <1>13, <1>14, NextCases

-----------------------------------------------------------------------------

(***************************************************************************)
(* What a quiet save has written: SaveWritten                              *)
(***************************************************************************)

Files == {"head", "trans", "ver", "meta", "map", "pool"}

\* One file of one directory is written.
Wrote(file, x) ==
    /\ disk'[saver.dir][file] = x
    /\ \A f \in Files : f # file => disk'[saver.dir][f] = disk[saver.dir][f]
    /\ \A d \in Dirs : d # saver.dir => disk'[d] = disk[d]

\* A step s of the saver's plan.
Stepped(s) ==
    /\ Saving /\ Saving' /\ saver'.kind = saver.kind /\ saver'.dir = saver.dir /\ saver'.quiet = saver.quiet
    /\ Left' = Left \ {s} /\ s \in Left
    /\ saver.dir \in Dirs /\ (saver.kind \in {"save", "refine"} => saver.dir = "index")
    /\ (saver.kind = "checkpoint" => saver.dir = "buffer")

LEMMA WriteWrote ==
    ASSUME Base, NEW file \in Files, NEW x, Write(file, x)
    PROVE  Wrote(file, x)
<1>1. disk \in [Dirs -> Directories] /\ saver.dir \in Dirs
  BY SaverDirs DEF Base, Types, DiskOK
<1> DEFINE r == disk[saver.dir]
           t == [r EXCEPT ![file] = x]
<1>2. r \in Directories
  BY <1>1
<1>3. t[file] = x /\ \A f \in Files : f # file => t[f] = r[f]
  BY <1>2 DEF Files, Directories
<1>4. disk' = [disk EXCEPT ![saver.dir] = t]
  BY DEF Write
<1> HIDE DEF t
<1>5. disk'[saver.dir] = t /\ \A d \in Dirs : d # saver.dir => disk'[d] = disk[d]
  BY <1>1, <1>4
<1> QED
  BY <1>3, <1>5 DEF Wrote

LEMMA StepStepped ==
    ASSUME Base, NEW s \in Steps, AtStep(s), Advance
    PROVE  Stepped(s)
  BY StepOnly, SaverDirs DEF Stepped, Base, Types

\* SavePool only gives the reserved blocks back.
PoolSaved ==
    /\ mem'.heads = mem.heads /\ mem'.vec = mem.vec /\ mem'.trans = mem.trans /\ mem'.ver = mem.ver
    /\ mem'.meta = mem.meta /\ mem'.map = mem.map
    /\ mem'.free = mem.free \cup mem.reserve /\ mem'.reserve = {}

\* The steps that write.
LEMMA WriteSteps ==
    ASSUME Base
    PROVE  /\ SaveMetadata => Stepped("meta") /\ Wrote("meta", mem.meta) /\ UNCHANGED <<mem, size>>
           /\ SaveHeadIndex => Stepped("head") /\ Wrote("head", HeadsNow) /\ UNCHANGED <<mem, size>>
           /\ SaveHeadFolder => Stepped("saveHead") /\ Wrote("head", HeadFile(mem)) /\ UNCHANGED <<mem, size>>
           /\ SaveTranslateMap => Stepped("trans") /\ Wrote("trans", mem.trans) /\ UNCHANGED <<mem, size>>
           /\ SaveVersionMap => Stepped("ver") /\ Wrote("ver", mem.ver) /\ UNCHANGED <<mem, size>>
           /\ SaveMapping => Stepped("map") /\ Wrote("map", mem.map) /\ UNCHANGED <<mem, size>>
           /\ SavePool => Stepped("pool") /\ Wrote("pool", mem'.free) /\ PoolSaved /\ UNCHANGED size
           /\ ClearLog => Stepped("clear") /\ UNCHANGED <<mem, disk>> /\ (setting.wal => size' = 0)
<1>1. {"meta", "head", "saveHead", "trans", "ver", "map", "pool", "clear"} \subseteq Steps
      /\ {"meta", "head", "trans", "ver", "map", "pool"} \subseteq Files
  BY DEF Steps, Files
<1>2. SavePool => PoolSaved
  BY DEF SavePool, PoolSaved, Base, Types, MemOK, Memories
<1>3. SaveMetadata => Stepped("meta") /\ Wrote("meta", mem.meta) /\ UNCHANGED <<mem, size>>
  BY <1>1, StepStepped, WriteWrote DEF SaveMetadata
<1>4. SaveHeadIndex => Stepped("head") /\ Wrote("head", HeadsNow) /\ UNCHANGED <<mem, size>>
  BY <1>1, StepStepped, WriteWrote DEF SaveHeadIndex, HeadsNow
<1>5. SaveHeadFolder => Stepped("saveHead") /\ Wrote("head", HeadFile(mem)) /\ UNCHANGED <<mem, size>>
  BY <1>1, StepStepped, WriteWrote DEF SaveHeadFolder
<1>6. SaveTranslateMap => Stepped("trans") /\ Wrote("trans", mem.trans) /\ UNCHANGED <<mem, size>>
  BY <1>1, StepStepped, WriteWrote DEF SaveTranslateMap
<1>7. SaveVersionMap => Stepped("ver") /\ Wrote("ver", mem.ver) /\ UNCHANGED <<mem, size>>
  BY <1>1, StepStepped, WriteWrote DEF SaveVersionMap
<1>8. SaveMapping => Stepped("map") /\ Wrote("map", mem.map) /\ UNCHANGED <<mem, size>>
  BY <1>1, StepStepped, WriteWrote DEF SaveMapping
<1>9. SavePool => Stepped("pool") /\ Wrote("pool", mem.free \cup mem.reserve) /\ UNCHANGED size
  BY <1>1, StepStepped, WriteWrote DEF SavePool
<1>10. ClearLog => Stepped("clear") /\ UNCHANGED <<mem, disk>> /\ (setting.wal => size' = 0)
  BY <1>1, StepStepped DEF ClearLog, ClearPreviousRecord
<1> QED
  BY <1>2, <1>3, <1>4, <1>5, <1>6, <1>7, <1>8, <1>9, <1>10 DEF PoolSaved

\* A split runs beside a quiet save only before its head index is written.
LEMMA SplitEarly ==
    ASSUME Base, SaveQuiet, NEW h \in HeadIds, SplitJob(h)
    PROVE  /\ UNCHANGED <<saver, disk, log, size, op, todo, promise, trusted, labelled, setting, state>> /\ Left' = Left
           /\ Saving /\ saver.quiet =>
                /\ saver.kind = "save" /\ "map" \in Left /\ "pool" \in Left
                /\ PlainSave => "head" \in Left /\ "trans" \in Left /\ "ver" \in Left
<1>1. /\ jobs # {} /\ SaverOK /\ Left' = Left
      /\ UNCHANGED <<saver, disk, log, size, op, todo, promise, trusted, labelled, setting, state>>
  BY DEF SplitJob, Base, Types, Left, LeftOf, history
<1>2. ASSUME Saving, saver.quiet
      PROVE  saver.kind = "save" /\ ("refine" \in Left \/ "head" \in Left) /\ (PlainSave => "head" \in Left)
  <2>1. ~Settled
    BY <1>1, <1>2 DEF SaveQuiet
  <2>2. saver.kind = "save"
    BY <1>1, <1>2, <2>1 DEF SaverOK, Saving, Settled
  <2> QED
    BY <2>1, <2>2 DEF Settled, PlainSave
<1> QED
  BY <1>1, <1>2, PlanOrder

\* The other steps of a saver.
LEMMA OpenSteps ==
    ASSUME Base, OpenFiles
    PROVE  /\ saver.kind = "save" /\ saver'.kind = "save" /\ saver'.quiet = saver.quiet /\ saver'.dir = saver.dir
           /\ saver.dir = "index" /\ UNCHANGED <<mem, size>>
           /\ \/ Left' = {"meta", "head", "trans", "ver", "map", "pool", "clear"}
              \/ Left' = {"refine", "rewrite", "map", "pool", "reload"}
<1>1. SaverOK /\ AtStep("open")
  BY DEF Base, Types, OpenFiles
<1>2. saver.kind = "save" /\ LeftOf(Tail(saver.plan)) = {"meta", "head", "trans", "ver", "map", "pool", "clear"}
  BY <1>1, AtOpen
<1>3. /\ saver'.kind = "save" /\ saver'.quiet = saver.quiet /\ saver'.dir = saver.dir
      /\ (saver'.plan = RefinePlan \/ saver'.plan = Tail(saver.plan)) /\ saver.dir = "index"
  BY <1>1, <1>2, SaverDirs DEF OpenFiles, SaverOK
<1>4. LeftOf(RefinePlan) = {"refine", "rewrite", "map", "pool", "reload"}
  BY DEF LeftOf, RefinePlan
<1>5. Left' = LeftOf(saver'.plan)
  BY DEF Left, LeftOf
<1> QED
  BY <1>2, <1>3, <1>4, <1>5 DEF OpenFiles

LEMMA StartSteps ==
    ASSUME SaveIndex \/ Checkpoint
    PROVE  /\ UNCHANGED <<mem, size, disk, op, promise, jobs, log>>
           /\ (saver'.quiet => \A c \in Clients : op[c] = Idle)
           /\ \/ SaveIndex /\ saver'.kind = "save" /\ saver'.dir = "index" /\ Left' = {"open", "meta", "head", "trans", "ver", "map", "pool", "clear"}
              \/ Checkpoint /\ saver'.kind = "checkpoint" /\ saver'.dir = "buffer" /\ Left' = {"ver", "map", "pool", "clear", "saveHead"}
<1>1. \/ SaveIndex /\ saver'.kind = "save" /\ saver'.dir = "index" /\ saver'.plan = SavePlan
      \/ Checkpoint /\ saver'.kind = "checkpoint" /\ saver'.dir = "buffer" /\ saver'.plan = CheckpointPlan
  BY DEF SaveIndex, Checkpoint, Start
<1>2. Left' = LeftOf(saver'.plan)
  BY DEF Left, LeftOf
<1>3. /\ LeftOf(SavePlan) = {"open", "meta", "head", "trans", "ver", "map", "pool", "clear"}
      /\ LeftOf(CheckpointPlan) = {"ver", "map", "pool", "clear", "saveHead"}
  BY DEF LeftOf, SavePlan, CheckpointPlan
<1>4. UNCHANGED <<mem, size, disk, op, promise, jobs, log>> /\ (saver'.quiet => \A c \in Clients : op[c] = Idle)
  BY DEF SaveIndex, Checkpoint, Start, durable, history
<1> QED
  BY <1>1, <1>2, <1>3, <1>4

LEMMA RewriteSteps ==
    ASSUME Base, NEW h \in HeadIds, RefinePosting(h)
    PROVE  /\ saver.kind = "refine" /\ saver'.kind = "refine" /\ saver'.quiet = saver.quiet /\ saver'.dir = saver.dir
           /\ saver.dir = "index" /\ Left = {"rewrite", "map", "pool", "reload"}
           /\ (todo' # {} => Left' = Left) /\ (todo' = {} => Left' = {"map", "pool", "reload"})
           /\ UNCHANGED <<disk, size, op, promise, jobs, log, setting, state, trusted, labelled>>
<1>1. SaverOK /\ AtStep("rewrite")
  BY DEF Base, Types, RefinePosting
<1>2. /\ saver.kind = "refine" /\ Left = {"rewrite", "map", "pool", "reload"}
      /\ LeftOf(Tail(saver.plan)) = {"map", "pool", "reload"} /\ saver.dir = "index"
  BY <1>1, AtRewrite, SaverDirs
<1>3. /\ saver' = IF todo = {h} THEN [saver EXCEPT !.plan = Tail(@)] ELSE saver
      /\ todo' = todo \ {h} /\ h \in todo
      /\ UNCHANGED <<disk, size, op, promise, jobs, log, setting, state, trusted, labelled>>
  BY DEF RefinePosting, history
<1>4. Left' = LeftOf(saver'.plan)
  BY DEF Left, LeftOf
<1>5. CASE todo = {h}
  <2>1. saver'.plan = Tail(saver.plan) /\ saver'.kind = saver.kind /\ saver'.quiet = saver.quiet /\ saver'.dir = saver.dir
    BY <1>1, <1>3, <1>5 DEF SaverOK
  <2> QED
    BY <1>2, <1>3, <1>4, <1>5, <2>1
<1>6. CASE todo # {h}
  <2>1. saver' = saver /\ todo' # {}
    BY <1>3, <1>6
  <2> QED
    BY <1>2, <1>3, <1>4, <2>1 DEF Left
<1> QED
  BY <1>5, <1>6

LEMMA RefineSteps ==
    ASSUME Base, RefineFiles
    PROVE  /\ saver.kind = "save" /\ "open" \notin Left /\ saver'.kind = "refine" /\ saver'.dir = saver.dir /\ saver.dir = "index"
           /\ Left' = {"rewrite", "map", "pool", "reload"} /\ jobs = {} /\ (saver'.quiet => \A c \in Clients : op[c] = Idle)
           /\ UNCHANGED <<mem, blocks, size, promise, jobs, log, setting, state, trusted, labelled, sure, gone, scan>>
           /\ todo' = mem.heads /\ saver'.labelled = saver.labelled
           /\ (saver'.quiet => \A c \in Clients : op'[c] = Idle)
<1>1. SaverOK /\ AtStep("refine")
  BY DEF Base, Types, RefineFiles
<1>2. /\ saver.kind = "save" /\ "open" \notin Left /\ LeftOf(Tail(saver.plan)) = {"rewrite", "map", "pool", "reload"}
      /\ saver.dir = "index"
  BY <1>1, AtRefine, SaverDirs
<1>3. /\ saver'.kind = "refine" /\ saver'.plan = Tail(saver.plan) /\ saver'.dir = saver.dir
      /\ saver'.labelled = saver.labelled /\ saver'.quiet = \A c \in Clients : op[c] = Idle
  BY <1>1 DEF RefineFiles, SaverOK
<1>4. Left' = LeftOf(saver'.plan)
  BY DEF Left, LeftOf
<1>5. /\ jobs = {} /\ todo' = mem.heads
      /\ UNCHANGED <<mem, blocks, size, promise, jobs, log, setting, state, trusted, labelled, sure, gone, scan>>
      /\ op' = [c \in Clients |-> IF op[c] = Idle THEN Idle ELSE [op[c] EXCEPT !.renumbered = TRUE]]
  BY DEF RefineFiles, history
<1> QED
  BY <1>2, <1>3, <1>4, <1>5

LEMMA ReloadSteps ==
    ASSUME Base, Reload
    PROVE  /\ saver.kind = "refine" /\ saver'.kind = "refine" /\ saver'.quiet = saver.quiet /\ saver'.dir = saver.dir
           /\ saver.dir = "index" /\ Left = {"reload"}
           /\ (Left' = {"ver", "map", "pool", "clear", "saveHead", "trans"} \/ Left' = {})
           /\ UNCHANGED <<disk, blocks, size, op, promise, jobs, log, setting, state, trusted, scan, todo>>
<1>1. SaverOK /\ AtStep("reload")
  BY DEF Base, Types, Reload
<1>2. saver.kind = "refine" /\ Left = {"reload"} /\ saver.dir = "index"
  BY <1>1, AtReload, SaverDirs
<1>3. /\ saver'.kind = saver.kind /\ saver'.quiet = saver.quiet /\ saver'.dir = saver.dir
      /\ (saver'.plan = MergedPlan \/ saver'.plan = <<>>)
  BY <1>1 DEF Reload, SaverOK
<1>4. LeftOf(MergedPlan) = {"ver", "map", "pool", "clear", "saveHead", "trans"} /\ LeftOf(<<>>) = {}
  BY DEF LeftOf, MergedPlan
<1>5. Left' = LeftOf(saver'.plan)
  BY DEF Left, LeftOf
<1>6. UNCHANGED <<disk, blocks, size, op, promise, jobs, log, setting, state, trusted, scan, todo>>
  BY DEF Reload, durable
<1> QED
  BY <1>2, <1>3, <1>4, <1>5, <1>6

LEMMA WrittenSaveNext ==
    ASSUME Base, SaveQuiet, WrittenSave, [Next]_vars
    PROVE  WrittenSave'
<1>0. SaverOK
  BY DEF Base, Types
<1>1. CASE Starts \/ SaveEnd \/ Crash
  BY <1>1, StartsFrame, EndsFrame DEF WrittenSave, PlainSave, Saving
<1>2. ASSUME NEW c \in Clients, Updates(c) PROVE WrittenSave'
  BY <1>0, <1>2, UpdateFrame DEF Updates, WrittenSave, PlainSave, Saving
<1>3. ASSUME NEW h \in HeadIds, SplitJob(h) PROVE WrittenSave'
  <2>1. UNCHANGED <<saver, disk>> /\ Left' = Left
        /\ (PlainSave /\ saver.quiet => "head" \in Left /\ "trans" \in Left /\ "ver" \in Left)
    BY <1>3, SplitEarly DEF PlainSave, Saving
  <2>2. mem'.meta = mem.meta
    BY <1>3, SplitShapes DEF SplitShape
  <2> QED
    BY <2>1, <2>2 DEF WrittenSave, Written, PlainSave
<1>4. ASSUME NEW h \in HeadIds, RefinePosting(h) PROVE WrittenSave'
  BY <1>4, RewriteSteps DEF WrittenSave, PlainSave
<1>5. CASE SaveIndex \/ Checkpoint
  BY <1>5, StartSteps DEF WrittenSave, PlainSave, Written
<1>6. CASE OpenFiles
  BY <1>6, OpenSteps DEF WrittenSave, PlainSave, Written
<1>7. CASE RefineFiles
  BY <1>7, RefineSteps DEF WrittenSave, PlainSave
<1>8. CASE Reload
  BY <1>8, ReloadSteps DEF WrittenSave, PlainSave
<1>9. CASE SaveMetadata
  <2>1. Stepped("meta") /\ Wrote("meta", mem.meta) /\ UNCHANGED mem
    BY <1>9, WriteSteps
  <2>2. saver.kind = "save" /\ Left = {"meta", "head", "trans", "ver", "map", "pool", "clear"}
    BY <1>0, <1>9, AtMeta DEF SaveMetadata
  <2> QED
    BY <2>1, <2>2 DEF WrittenSave, PlainSave, Written, Stepped, Wrote, Files
<1>10. CASE SaveHeadIndex
  <2>1. Stepped("head") /\ Wrote("head", HeadsNow) /\ UNCHANGED mem
    BY <1>10, WriteSteps
  <2>2. saver.kind = "save" /\ Left = {"head", "trans", "ver", "map", "pool", "clear"}
    BY <1>0, <1>10, AtHead DEF SaveHeadIndex
  <2> QED
    BY <2>1, <2>2 DEF WrittenSave, PlainSave, Written, Stepped, Wrote, Files, HeadsNow
<1>11. CASE SaveHeadFolder
  <2>1. saver.kind # "save" /\ Stepped("saveHead")
    BY <1>0, <1>11, AtSaveHead, WriteSteps DEF SaveHeadFolder
  <2> QED
    BY <2>1 DEF WrittenSave, PlainSave, Stepped
<1>12. ASSUME NEW s, NEW file \in Files, NEW x, Stepped(s), Wrote(file, x),
              file \notin {"head", "meta"}, file = "trans" => s = "trans" /\ x = mem.trans,
              file = "ver" => s = "ver" /\ x = mem.ver, s \notin {"open", "refine", "meta", "head"},
              "open" \notin Left,
              s = "trans" => file = "trans", s = "ver" => file = "ver",
              mem'.meta = mem.meta, HeadsNow' = HeadsNow, mem'.trans = mem.trans, mem'.ver = mem.ver
       PROVE  WrittenSave'
  <2>1. SUFFICES ASSUME PlainSave', saver'.quiet
                 PROVE  /\ Written("meta", "meta", "index", mem.meta)'
                        /\ Written("head", "head", "index", HeadsNow)'
                        /\ Written("trans", "trans", "index", mem.trans)'
                        /\ Written("ver", "ver", "index", mem.ver)'
    BY DEF WrittenSave
  <2>2. PlainSave /\ saver.quiet /\ saver.dir = "index" /\ Left' = Left \ {s}
    BY <1>12, <2>1 DEF Stepped, PlainSave
  <2>3. /\ Written("meta", "meta", "index", mem.meta) /\ Written("head", "head", "index", HeadsNow)
        /\ Written("trans", "trans", "index", mem.trans) /\ Written("ver", "ver", "index", mem.ver)
    BY <2>2, <1>12 DEF WrittenSave
  <2>4. Written("meta", "meta", "index", mem.meta)' /\ Written("head", "head", "index", HeadsNow)'
    BY <2>2, <2>3, <1>12 DEF Written, Wrote, Files
  <2>5. Written("trans", "trans", "index", mem.trans)'
    BY <2>2, <2>3, <1>12 DEF Written, Wrote, Files
  <2>6. Written("ver", "ver", "index", mem.ver)'
    BY <2>2, <2>3, <1>12 DEF Written, Wrote, Files
  <2> QED
    BY <2>4, <2>5, <2>6
<1>13. CASE SaveTranslateMap
  <2>1. Stepped("trans") /\ Wrote("trans", mem.trans) /\ UNCHANGED mem /\ "open" \notin Left
    BY <1>0, <1>13, WriteSteps, AtTrans DEF SaveTranslateMap
  <2> QED
    BY <2>1, <1>12 DEF Files, HeadsNow
<1>14. CASE SaveVersionMap
  <2>1. Stepped("ver") /\ Wrote("ver", mem.ver) /\ UNCHANGED mem /\ "open" \notin Left
    BY <1>0, <1>14, WriteSteps, AtVer DEF SaveVersionMap
  <2> QED
    BY <2>1, <1>12 DEF Files, HeadsNow
<1>15. CASE SaveMapping
  <2>1. Stepped("map") /\ Wrote("map", mem.map) /\ UNCHANGED mem /\ "open" \notin Left
    BY <1>0, <1>15, WriteSteps, AtMap DEF SaveMapping
  <2> QED
    BY <2>1, <1>12 DEF Files, HeadsNow
<1>16. CASE SavePool
  <2>1. Stepped("pool") /\ Wrote("pool", mem'.free) /\ PoolSaved /\ "open" \notin Left
    BY <1>0, <1>16, WriteSteps, AtPool DEF SavePool
  <2> QED
    BY <2>1, <1>12 DEF Files, HeadsNow, PoolSaved
<1>17. CASE ClearLog
  <2>1. Stepped("clear") /\ UNCHANGED <<mem, disk>>
    BY <1>17, WriteSteps
  <2>2. "clear" \notin {"open", "refine", "meta", "head", "trans", "ver"}
    OBVIOUS
  <2> QED
    BY <2>1, <2>2 DEF WrittenSave, PlainSave, Written, Stepped, HeadsNow
<1>18. CASE UNCHANGED vars
  BY <1>18 DEF vars, WrittenSave, PlainSave, Written, HeadsNow, Left, LeftOf
<1> QED
  BY <1>1, <1>2, <1>3, <1>4, <1>5, <1>6, <1>7, <1>8, <1>9, <1>10, <1>11, <1>13, <1>14, <1>15, <1>16, <1>17, <1>18, NextCases

LEMMA WrittenCheckpointNext ==
    ASSUME Base, SaveQuiet, WrittenCheckpoint, [Next]_vars
    PROVE  WrittenCheckpoint'
<1>0. SaverOK
  BY DEF Base, Types
<1>1. CASE Starts \/ SaveEnd \/ Crash
  BY <1>1, StartsFrame, EndsFrame DEF WrittenCheckpoint, Saving
<1>2. ASSUME NEW c \in Clients, Updates(c) PROVE WrittenCheckpoint'
  BY <1>0, <1>2, UpdateFrame DEF Updates, WrittenCheckpoint, Saving
<1>3. ASSUME NEW h \in HeadIds, SplitJob(h) PROVE WrittenCheckpoint'
  BY <1>3, SplitEarly DEF WrittenCheckpoint, Saving
<1>4. ASSUME NEW h \in HeadIds, RefinePosting(h) PROVE WrittenCheckpoint'
  BY <1>4, RewriteSteps DEF WrittenCheckpoint
<1>5. CASE SaveIndex \/ Checkpoint
  BY <1>5, StartSteps DEF WrittenCheckpoint, Written
<1>6. CASE OpenFiles
  BY <1>6, OpenSteps DEF WrittenCheckpoint
<1>7. CASE RefineFiles
  BY <1>7, RefineSteps DEF WrittenCheckpoint
<1>8. CASE Reload
  BY <1>8, ReloadSteps DEF WrittenCheckpoint
<1>9. CASE SaveMetadata \/ SaveHeadIndex
  <2>1. saver.kind = "save" /\ saver'.kind = saver.kind
    BY <1>0, <1>9, AtMeta, AtHead, WriteSteps DEF SaveMetadata, SaveHeadIndex, Stepped
  <2> QED
    BY <2>1 DEF WrittenCheckpoint
<1>10. ASSUME NEW s, NEW file \in Files, NEW x, Stepped(s), Wrote(file, x),
              file \in {"head", "ver"} => x = IF file = "ver" THEN mem.ver ELSE HeadFile(mem),
              s \in {"ver", "saveHead", "trans", "map", "pool"},
              s = "ver" <=> file = "ver", s = "saveHead" <=> file = "head",
              mem'.ver = mem.ver, HeadFile(mem)' = HeadFile(mem), UNCHANGED <<size, setting>>
       PROVE  WrittenCheckpoint'
  <2>1. SUFFICES ASSUME saver'.kind = "checkpoint", saver'.quiet
                 PROVE  /\ Written("ver", "ver", "buffer", mem.ver)'
                        /\ Written("saveHead", "head", "buffer", HeadFile(mem))'
                        /\ "clear" \notin Left' /\ setting'.wal => size' = 0
    BY DEF WrittenCheckpoint
  <2>2. saver.kind = "checkpoint" /\ saver.quiet /\ saver.dir = "buffer" /\ Left' = Left \ {s}
    BY <1>10, <2>1 DEF Stepped
  <2>3. /\ Written("ver", "ver", "buffer", mem.ver) /\ Written("saveHead", "head", "buffer", HeadFile(mem))
        /\ "clear" \notin Left /\ setting.wal => size = 0
    BY <2>2 DEF WrittenCheckpoint
  <2>4. Written("ver", "ver", "buffer", mem.ver)'
    BY <2>2, <2>3, <1>10 DEF Written, Wrote, Files
  <2>5. Written("saveHead", "head", "buffer", HeadFile(mem))'
    BY <2>2, <2>3, <1>10 DEF Written, Wrote, Files
  <2>6. "clear" \notin Left' /\ setting'.wal => size' = 0
    BY <2>2, <2>3, <1>10
  <2> QED
    BY <2>4, <2>5, <2>6
<1>11. CASE SaveHeadFolder
  <2>1. Stepped("saveHead") /\ Wrote("head", HeadFile(mem)) /\ UNCHANGED <<mem, size, setting>>
    BY <1>11, WriteSteps DEF SaveHeadFolder
  <2>2. HeadFile(mem)' = HeadFile(mem)
    BY <2>1
  <2> QED
    BY <2>1, <2>2, <1>10 DEF Files
<1>12. CASE SaveTranslateMap
  <2>1. Stepped("trans") /\ Wrote("trans", mem.trans) /\ UNCHANGED <<mem, size, setting>>
    BY <1>12, WriteSteps DEF SaveTranslateMap
  <2>2. HeadFile(mem)' = HeadFile(mem)
    BY <2>1
  <2> QED
    BY <2>1, <2>2, <1>10 DEF Files
<1>13. CASE SaveVersionMap
  <2>1. Stepped("ver") /\ Wrote("ver", mem.ver) /\ UNCHANGED <<mem, size, setting>>
    BY <1>13, WriteSteps DEF SaveVersionMap
  <2>2. HeadFile(mem)' = HeadFile(mem)
    BY <2>1
  <2> QED
    BY <2>1, <2>2, <1>10 DEF Files
<1>14. CASE SaveMapping
  <2>1. Stepped("map") /\ Wrote("map", mem.map) /\ UNCHANGED <<mem, size, setting>>
    BY <1>14, WriteSteps DEF SaveMapping
  <2>2. HeadFile(mem)' = HeadFile(mem)
    BY <2>1
  <2> QED
    BY <2>1, <2>2, <1>10 DEF Files
<1>15. CASE SavePool
  <2>1. Stepped("pool") /\ Wrote("pool", mem'.free) /\ PoolSaved /\ UNCHANGED <<size, setting>>
    BY <1>15, WriteSteps DEF SavePool
  <2>2. HeadFile(mem)' = HeadFile(mem)
    BY <2>1 DEF HeadFile, PoolSaved, NumHeads
  <2> QED
    BY <2>1, <2>2, <1>10 DEF Files, PoolSaved
<1>16. CASE ClearLog
  <2>1. Stepped("clear") /\ UNCHANGED <<mem, disk, setting>> /\ (setting.wal => size' = 0)
    BY <1>16, WriteSteps DEF ClearLog
  <2>2. HeadFile(mem)' = HeadFile(mem)
    BY <2>1
  <2> QED
    BY <2>1, <2>2 DEF WrittenCheckpoint, Written, Stepped
<1>17. CASE UNCHANGED vars
  <2>1. HeadFile(mem)' = HeadFile(mem)
    BY <1>17 DEF vars
  <2> QED
    BY <1>17, <2>1 DEF vars, WrittenCheckpoint, Written, Left, LeftOf
<1> QED
  BY <1>1, <1>2, <1>3, <1>4, <1>5, <1>6, <1>7, <1>8, <1>9, <1>11, <1>12, <1>13, <1>14, <1>15, <1>16, <1>17, NextCases

\* A head index without deleted heads is saved as it is.
LEMMA WholeHeadFile ==
    ASSUME MemOK, mem.heads = 0..(NumHeads(mem) - 1)
    PROVE  HeadFile(mem) = HeadsNow
<1>1. NumHeads(mem) \in Nat
  BY DEF MemOK, Memories, NumHeads
<1>2. (0..(NumHeads(mem) - 1)) \ mem.heads = {}
  OBVIOUS
<1>3. Cardinality({}) = 0 /\ (2 * NumHeads(mem)) \div 5 >= 0
  BY <1>1, FS_EmptySet
<1> DEFINE gaps == (0..(NumHeads(mem) - 1)) \ mem.heads
<1>7. gaps = {}
  BY <1>2
<1> HIDE DEF gaps
<1>8. Cardinality(gaps) = 0 /\ (2 * NumHeads(mem)) \div 5 \in Int
  BY <1>1, <1>3, <1>7
<1>4. ~(Cardinality(gaps) > (2 * NumHeads(mem)) \div 5)
  BY <1>3, <1>8
<1> DEFINE many == Cardinality(gaps) > (2 * NumHeads(mem)) \div 5
           compacted == LET c == Compact(NumHeads(mem), mem.heads)
                        IN [heads |-> 0..(Len(c) - 1), vec |-> [i \in 1..Len(c) |-> mem.vec[c[i] + 1]]]
<1>5. HeadFile(mem) = IF many THEN compacted ELSE [heads |-> mem.heads, vec |-> mem.vec]
  BY DEF HeadFile, gaps
<1>6. ~many
  BY <1>4
<1> HIDE DEF many, compacted
<1> QED
  BY <1>5, <1>6 DEF HeadsNow

LEMMA WrittenReloadedNext ==
    ASSUME Base, FilesInv, SaveQuiet, WrittenReloaded, [Next]_vars
    PROVE  WrittenReloaded'
<1>0. SaverOK /\ MemOK
  BY DEF Base, Types
<1>1. CASE Starts \/ SaveEnd \/ Crash
  BY <1>1, StartsFrame, EndsFrame DEF WrittenReloaded, Reloaded, Saving
<1>2. ASSUME NEW c \in Clients, Updates(c) PROVE WrittenReloaded'
  BY <1>0, <1>2, UpdateFrame DEF Updates, WrittenReloaded, Reloaded, Saving
<1>3. ASSUME NEW h \in HeadIds, SplitJob(h) PROVE WrittenReloaded'
  BY <1>3, SplitEarly DEF WrittenReloaded, Reloaded, Saving
<1>4. ASSUME NEW h \in HeadIds, RefinePosting(h) PROVE WrittenReloaded'
  <2>1. "reload" \in Left'
    BY <1>4, RewriteSteps
  <2> QED
    BY <2>1 DEF WrittenReloaded, Reloaded
<1>5. CASE SaveIndex \/ Checkpoint
  BY <1>5, StartSteps DEF WrittenReloaded, Reloaded
<1>6. CASE OpenFiles
  BY <1>6, OpenSteps DEF WrittenReloaded, Reloaded
<1>7. CASE RefineFiles
  BY <1>7, RefineSteps DEF WrittenReloaded, Reloaded
<1>8. CASE Reload
  <2>1. /\ InRefine
        /\ mem'.heads = disk["index"].head.heads /\ mem'.vec = disk["index"].head.vec
        /\ mem'.trans = disk["index"].trans /\ mem'.ver = disk["index"].ver /\ disk["index"].head # None
    BY <1>8, ReloadType DEF FilesInv
  <2>2. UNCHANGED disk
    BY <1>8, ReloadSteps
  <2>3. disk["index"].head \in HeadFiles
    BY <2>1 DEF Base, Types, DiskOK, Directories, File, Dirs
  <2>4. HeadsNow' = disk'["index"].head
    BY <2>1, <2>2, <2>3 DEF HeadsNow, HeadFiles
  <2>5. mem'.heads = 0..(NumHeads(mem') - 1)
    BY <2>1 DEF FilesInv, NumHeads
  <2> QED
    BY <2>1, <2>2, <2>4, <2>5 DEF WrittenReloaded
<1>9. CASE SaveMetadata \/ SaveHeadIndex
  <2>1. saver.kind = "save" /\ saver'.kind = saver.kind
    BY <1>0, <1>9, AtMeta, AtHead, WriteSteps DEF SaveMetadata, SaveHeadIndex, Stepped
  <2> QED
    BY <2>1 DEF WrittenReloaded, Reloaded
<1>10. ASSUME NEW s, NEW file \in Files, NEW x, Stepped(s), Wrote(file, x), s # "reload",
              WrittenReloaded /\ Reloaded /\ saver.quiet => disk["index"][file] = x \/ file \in {"map", "pool"},
              mem'.heads = mem.heads, mem'.vec = mem.vec, mem'.trans = mem.trans, mem'.ver = mem.ver
       PROVE  WrittenReloaded'
  <2>1. SUFFICES ASSUME Reloaded', saver'.quiet
                 PROVE  /\ disk'["index"].head = HeadsNow'
                        /\ disk'["index"].trans = mem'.trans /\ disk'["index"].ver = mem'.ver
                        /\ mem'.heads = 0..(NumHeads(mem') - 1)
    BY DEF WrittenReloaded
  <2>2. Reloaded /\ saver.quiet /\ saver.dir = "index"
    BY <1>10, <2>1 DEF Stepped, Reloaded
  <2>3. /\ disk["index"].head = HeadsNow
        /\ disk["index"].trans = mem.trans /\ disk["index"].ver = mem.ver
        /\ mem.heads = 0..(NumHeads(mem) - 1)
    BY <2>2 DEF WrittenReloaded
  <2>4. disk["index"][file] = x \/ file \in {"map", "pool"}
    BY <2>2, <1>10
  <2>5. /\ disk'["index"].head = disk["index"].head /\ disk'["index"].trans = disk["index"].trans
        /\ disk'["index"].ver = disk["index"].ver
    BY <2>2, <2>4, <1>10 DEF Wrote, Files
  <2> QED
    BY <2>3, <2>5, <1>10 DEF HeadsNow, NumHeads
<1>11. CASE SaveHeadFolder
  <2>1. Stepped("saveHead") /\ Wrote("head", HeadFile(mem)) /\ UNCHANGED mem
    BY <1>11, WriteSteps
  <2>2. WrittenReloaded /\ Reloaded /\ saver.quiet => disk["index"].head = HeadFile(mem)
    BY <1>0, WholeHeadFile DEF WrittenReloaded
  <2> QED
    BY <2>1, <2>2, <1>10 DEF Files
<1>12. CASE SaveTranslateMap
  <2>1. Stepped("trans") /\ Wrote("trans", mem.trans) /\ UNCHANGED mem
    BY <1>12, WriteSteps
  <2> QED
    BY <2>1, <1>10 DEF Files, WrittenReloaded
<1>13. CASE SaveVersionMap
  <2>1. Stepped("ver") /\ Wrote("ver", mem.ver) /\ UNCHANGED mem
    BY <1>13, WriteSteps
  <2> QED
    BY <2>1, <1>10 DEF Files, WrittenReloaded
<1>14. CASE SaveMapping
  <2>1. Stepped("map") /\ Wrote("map", mem.map) /\ UNCHANGED mem
    BY <1>14, WriteSteps
  <2> QED
    BY <2>1, <1>10 DEF Files
<1>15. CASE SavePool
  <2>1. Stepped("pool") /\ Wrote("pool", mem'.free) /\ PoolSaved
    BY <1>15, WriteSteps
  <2> QED
    BY <2>1, <1>10 DEF Files, PoolSaved
<1>16. CASE ClearLog
  <2>1. Stepped("clear") /\ UNCHANGED <<mem, disk>>
    BY <1>16, WriteSteps
  <2> QED
    BY <2>1 DEF WrittenReloaded, Reloaded, Stepped, HeadsNow
<1>17. CASE UNCHANGED vars
  BY <1>17 DEF vars, WrittenReloaded, Reloaded, HeadsNow, Left, LeftOf
<1> QED
  BY <1>1, <1>2, <1>3, <1>4, <1>5, <1>6, <1>7, <1>8, <1>9, <1>11, <1>12, <1>13, <1>14, <1>15, <1>16, <1>17, NextCases

LEMMA WrittenBlocksNext ==
    ASSUME Base, FilesInv, SaveQuiet, WrittenBlocks, [Next]_vars
    PROVE  WrittenBlocks'
<1>0. SaverOK /\ MemOK
  BY DEF Base, Types
<1>1. CASE Starts \/ SaveEnd \/ Crash
  BY <1>1, StartsFrame, EndsFrame DEF WrittenBlocks
<1>2. ASSUME NEW c \in Clients, Updates(c) PROVE WrittenBlocks'
  BY <1>0, <1>2, UpdateFrame DEF Updates, WrittenBlocks, Saving
<1>3. ASSUME NEW h \in HeadIds, SplitJob(h) PROVE WrittenBlocks'
  BY <1>3, SplitEarly DEF WrittenBlocks, Saving, Written
<1>4. ASSUME NEW h \in HeadIds, RefinePosting(h) PROVE WrittenBlocks'
  <2>1. "map" \in Left' /\ "pool" \in Left'
    BY <1>4, RewriteSteps
  <2> QED
    BY <2>1 DEF WrittenBlocks, Written
<1>5. CASE SaveIndex \/ Checkpoint
  <2>1. "map" \in Left' /\ "pool" \in Left'
    BY <1>5, StartSteps
  <2> QED
    BY <2>1 DEF WrittenBlocks, Written
<1>6. CASE OpenFiles
  <2>1. "map" \in Left' /\ "pool" \in Left'
    BY <1>6, OpenSteps
  <2> QED
    BY <2>1 DEF WrittenBlocks, Written
<1>7. CASE RefineFiles
  <2>1. "map" \in Left' /\ "pool" \in Left'
    BY <1>7, RefineSteps
  <2> QED
    BY <2>1 DEF WrittenBlocks, Written
<1>8. CASE Reload
  <2>1. mem'.map = mem.map /\ mem'.free = mem.free /\ mem'.reserve = mem.reserve
    BY <1>8, ReloadType
  <2>2. /\ UNCHANGED disk /\ saver'.dir = saver.dir /\ saver'.quiet = saver.quiet /\ saver.kind = "refine"
        /\ Left = {"reload"} /\ (Left' = {"ver", "map", "pool", "clear", "saveHead", "trans"} \/ Left' = {})
    BY <1>8, ReloadSteps
  <2> QED
    BY <2>1, <2>2 DEF WrittenBlocks, Written, Saving
<1>9. ASSUME NEW s, NEW file \in Files, NEW x, Stepped(s), Wrote(file, x),
             s # "map", s # "pool", file # "map", file # "pool", UNCHANGED mem
      PROVE  WrittenBlocks'
  BY <1>9 DEF WrittenBlocks, Written, Stepped, Wrote, Files
<1>10. CASE SaveMetadata \/ SaveHeadIndex \/ SaveHeadFolder
  <2>1. SaveMetadata => Stepped("meta") /\ Wrote("meta", mem.meta) /\ UNCHANGED mem
    BY WriteSteps
  <2>2. SaveHeadIndex => Stepped("head") /\ Wrote("head", HeadsNow) /\ UNCHANGED mem
    BY WriteSteps
  <2>3. SaveHeadFolder => Stepped("saveHead") /\ Wrote("head", HeadFile(mem)) /\ UNCHANGED mem
    BY WriteSteps
  <2> QED
    BY <2>1, <2>2, <2>3, <1>9, <1>10 DEF Files
<1>11. CASE SaveTranslateMap \/ SaveVersionMap
  <2>1. SaveTranslateMap => Stepped("trans") /\ Wrote("trans", mem.trans) /\ UNCHANGED mem
    BY WriteSteps
  <2>2. SaveVersionMap => Stepped("ver") /\ Wrote("ver", mem.ver) /\ UNCHANGED mem
    BY WriteSteps
  <2> QED
    BY <2>1, <2>2, <1>9, <1>11 DEF Files
<1>12. CASE SaveMapping
  <2>1. Stepped("map") /\ Wrote("map", mem.map) /\ UNCHANGED mem
    BY <1>12, WriteSteps
  <2> QED
    BY <2>1 DEF WrittenBlocks, Written, Stepped, Wrote, Files
<1>13. CASE SavePool
  <2>1. Stepped("pool") /\ Wrote("pool", mem'.free) /\ PoolSaved
    BY <1>13, WriteSteps
  <2> QED
    BY <2>1 DEF WrittenBlocks, Written, Stepped, Wrote, Files, PoolSaved
<1>14. CASE ClearLog
  <2>1. Stepped("clear") /\ UNCHANGED <<mem, disk>>
    BY <1>14, WriteSteps
  <2> QED
    BY <2>1 DEF WrittenBlocks, Written, Stepped
<1>15. CASE UNCHANGED vars
  BY <1>15 DEF vars, WrittenBlocks, Written, Saving, Left, LeftOf
<1> QED
  BY <1>1, <1>2, <1>3, <1>4, <1>5, <1>6, <1>7, <1>8, <1>10, <1>11, <1>12, <1>13, <1>14, <1>15, NextCases

-----------------------------------------------------------------------------

(***************************************************************************)
(* The files of a quiet compaction: RefineWritten                          *)
(***************************************************************************)

\* The numbering of a compaction depends on heads, versions and metadata alone.
SameNumbers ==
    mem'.heads = mem.heads /\ mem'.vec = mem.vec /\ mem'.trans = mem.trans /\ mem'.ver = mem.ver /\ mem'.meta = mem.meta

LEMMA NumberingKept ==
    ASSUME SameNumbers
    PROVE  /\ HeadOrder' = HeadOrder /\ VectorOrder' = VectorOrder /\ RefineMetadata' = RefineMetadata
           /\ FileOfHeads' = FileOfHeads /\ FileOfTrans' = FileOfTrans /\ FileOfVer' = FileOfVer
<1>1. HeadOrder' = HeadOrder /\ VectorOrder' = VectorOrder
  BY DEF SameNumbers, HeadOrder, VectorOrder, NumHeads
<1>2. \A i : RefineHeadId(i)' = IF i = NoId \/ i >= Len(mem.ver) THEN NoId ELSE NewId(VectorOrder, i)
  BY <1>1 DEF SameNumbers, RefineHeadId, NewId
<1>3. FileOfVer' = FileOfVer /\ RefineMetadata' = RefineMetadata /\ FileOfHeads' = FileOfHeads
  BY <1>1 DEF FileOfVer, RefineMetadata, FileOfHeads, SameNumbers
<1>4. FileOfTrans' = FileOfTrans
  BY <1>1 DEF FileOfTrans, SameNumbers, RefineHeadId
<1> QED
  BY <1>1, <1>3, <1>4

LEMMA RefineWrittenNext ==
    ASSUME Base, FilesInv, SaveQuiet, RefineWritten, [Next]_vars
    PROVE  RefineWritten'
<1>0. SaverOK /\ MemOK
  BY DEF Base, Types
<1>1. CASE Starts \/ SaveEnd \/ Crash
  BY <1>1, StartsFrame, EndsFrame DEF RefineWritten, InRefine, Saving
<1>2. ASSUME NEW c \in Clients, Updates(c) PROVE RefineWritten'
  BY <1>0, <1>2, UpdateFrame DEF Updates, RefineWritten, InRefine, Saving
<1>3. ASSUME NEW h \in HeadIds, SplitJob(h) PROVE RefineWritten'
  BY <1>3, SplitEarly DEF RefineWritten, InRefine, Saving
<1>4. CASE SaveIndex \/ Checkpoint
  BY <1>4, StartSteps DEF RefineWritten, InRefine
<1>5. CASE OpenFiles
  BY <1>5, OpenSteps DEF RefineWritten, InRefine
<1>6. CASE SaveMetadata \/ SaveHeadIndex \/ SaveHeadFolder \/ SaveTranslateMap \/ SaveVersionMap \/ ClearLog \/ Reload
  BY <1>6, NoRefineAfter DEF RefineWritten
<1>7. ASSUME NEW h \in HeadIds, RefinePosting(h) PROVE RefineWritten'
  <2>1. RewriteAs(h, NextBlock(mem.free))
    BY <1>7, RefinePostingEffect
  <2>2. SameNumbers
    BY <2>1 DEF RewriteAs, PutAs, SameNumbers
  <2>3. /\ saver.kind = "refine" /\ saver'.quiet = saver.quiet /\ UNCHANGED disk /\ todo' \subseteq todo
        /\ "reload" \in Left /\ (todo' # {} => "rewrite" \in Left')
    BY <1>7, RewriteSteps DEF RefinePosting
  <2> QED
    BY <2>2, <2>3, NumberingKept DEF RefineWritten, InRefine, SameNumbers
<1>8. CASE RefineFiles
  <2> DEFINE r == [disk["index"] EXCEPT !.head = FileOfHeads, !.trans = FileOfTrans, !.ver = FileOfVer, !.meta = RefineMetadata]
  <2>1. disk["index"] \in Directories /\ disk \in [Dirs -> Directories] /\ "index" \in Dirs
    BY DEF Base, Types, DiskOK, Dirs
  <2>2. disk' = [disk EXCEPT !["index"] = r]
    BY <1>8 DEF RefineFiles, FileOfHeads, FileOfTrans, FileOfVer
  <2>3. r.head = FileOfHeads /\ r.trans = FileOfTrans /\ r.ver = FileOfVer /\ r.meta = RefineMetadata
    BY <2>1 DEF Directories
  <2> HIDE DEF r
  <2>4. disk'["index"] = r
    BY <2>1, <2>2
  <2>5. UNCHANGED mem /\ todo' = mem.heads /\ "rewrite" \in Left'
    BY <1>8, RefineSteps
  <2>6. SameNumbers
    BY <2>5 DEF SameNumbers
  <2> QED
    BY <2>3, <2>4, <2>5, <2>6, NumberingKept DEF RefineWritten
<1>9. ASSUME NEW s \in {"map", "pool"}, NEW file \in {"map", "pool"}, NEW x, Stepped(s), Wrote(file, x), SameNumbers, UNCHANGED todo
      PROVE  RefineWritten'
  <2>1. SUFFICES ASSUME InRefine', saver'.quiet
                 PROVE  RefineWritten'
    BY DEF RefineWritten
  <2>2. InRefine /\ saver.quiet /\ saver.dir = "index" /\ ("rewrite" \notin Left' => "rewrite" \notin Left)
    BY <2>1, <1>9 DEF Stepped, InRefine
  <2>3. /\ disk'["index"].head = disk["index"].head /\ disk'["index"].trans = disk["index"].trans
        /\ disk'["index"].ver = disk["index"].ver /\ disk'["index"].meta = disk["index"].meta
    BY <2>2, <1>9 DEF Wrote, Files
  <2> QED
    BY <2>2, <2>3, <1>9, NumberingKept DEF RefineWritten, SameNumbers
<1>10. CASE SaveMapping
  <2>1. Stepped("map") /\ Wrote("map", mem.map) /\ UNCHANGED <<mem, todo>>
    BY <1>10, WriteSteps DEF SaveMapping
  <2> QED
    BY <2>1, <1>9 DEF SameNumbers
<1>11. CASE SavePool
  <2>1. Stepped("pool") /\ Wrote("pool", mem'.free) /\ PoolSaved /\ UNCHANGED todo
    BY <1>11, WriteSteps DEF SavePool
  <2> QED
    BY <2>1, <1>9 DEF SameNumbers, PoolSaved
<1>12. CASE UNCHANGED vars
  <2>1. SameNumbers /\ UNCHANGED <<saver, disk, todo, mem>> /\ Left' = Left
    BY <1>12 DEF SameNumbers, vars, Left, LeftOf
  <2> QED
    BY <2>1, NumberingKept DEF RefineWritten, InRefine
<1> QED
  BY <1>1, <1>2, <1>3, <1>4, <1>5, <1>6, <1>7, <1>8, <1>10, <1>11, <1>12, NextCases

-----------------------------------------------------------------------------

(***************************************************************************)
(* A block has one posting: BlocksInv                                      *)
(***************************************************************************)

\* A memory in which the posting of h has moved to block b, or to none.
Moved(p, m, h, b) ==
    /\ p \in Memories /\ m \in Memories /\ h \in HeadIds /\ (b \in m.free \/ b = NoBlock)
    /\ p.map = [m.map EXCEPT ![h] = b] /\ p.free = m.free \ {b} /\ p.reserve = m.reserve \cup Released(m, h)

LEMMA MovedBlocks ==
    ASSUME NEW m, NEW p, NEW h, NEW b, Moved(p, m, h, b), BlocksOf(m)
    PROVE  BlocksOf(p) /\ p.free \subseteq m.free
<1>1. /\ m.map \in [HeadIds -> Blocks \cup {NoBlock}] /\ m.free \subseteq Blocks /\ m.reserve \subseteq Blocks
      /\ p \in Memories /\ h \in HeadIds /\ (b \in m.free \/ b = NoBlock)
      /\ p.free = m.free \ {b} /\ p.reserve = m.reserve \cup Released(m, h)
  BY DEF Moved, Memories, Mappings
<1>2. NoBlock \notin Blocks
  BY LifecycleBounds DEF Blocks, NoBlock
<1>3. \A g \in HeadIds : p.map[g] = IF g = h THEN b ELSE m.map[g]
  BY <1>1 DEF Moved
<1>4. /\ \A f, g \in HeadIds : m.map[f] = m.map[g] /\ m.map[f] # NoBlock => f = g
      /\ \A g \in HeadIds : m.map[g] \notin m.free /\ m.map[g] \notin m.reserve
      /\ m.free \cap m.reserve = {}
  BY DEF BlocksOf, OneOwner, Apart
<1>5. \A x : x \in Released(m, h) <=> x = m.map[h] /\ m.map[h] # NoBlock
  BY DEF Released
<1>6. OneOwner(p.map)
  BY <1>1, <1>3, <1>4 DEF OneOwner
<1>7. Apart(p.map, p.free)
  BY <1>1, <1>2, <1>3, <1>4 DEF Apart
<1>8. Apart(p.map, p.reserve)
  BY <1>1, <1>2, <1>3, <1>4, <1>5 DEF Apart
<1>9. p.free \cap p.reserve = {}
  BY <1>1, <1>4, <1>5
<1> QED
  BY <1>1, <1>6, <1>7, <1>8, <1>9 DEF BlocksOf

LEMMA PutMoves ==
    ASSUME NEW m \in Memories, NEW p, NEW h \in HeadIds, NEW b \in m.free, PutAs(p, m, h, b)
    PROVE  Moved(p, m, h, b)
  BY DEF PutAs, Moved

LEMMA DropMoves ==
    ASSUME NEW m \in Memories, NEW p, NEW h \in HeadIds, DropAs(p, m, h)
    PROVE  Moved(p, m, h, NoBlock)
<1>1. m.free \subseteq Blocks /\ NoBlock \notin Blocks
  BY LifecycleBounds DEF Memories, Blocks, NoBlock
<1>2. m.free \ {NoBlock} = m.free
  BY <1>1
<1> QED
  BY <1>2 DEF DropAs, Moved

LEMMA NewHeadMoves ==
    ASSUME NEW m \in Memories, NEW p, NEW e, NEW b \in m.free, NewHeadAs(p, m, e, b)
    PROVE  Moved(p, m, Len(m.vec), b)
  BY DEF NewHeadAs, Moved

\* The append of an entry to a posting.
AppendAs(h, e, b) ==
    /\ b \in mem.free /\ b \in Blocks /\ h \in HeadIds
    /\ PutAs(mem', mem, h, b)
    /\ blocks' = [blocks EXCEPT ![b] = Posting(mem, h) \cup {e}]
    /\ jobs' \subseteq jobs \cup {h}

LEMMA AppendEffect ==
    ASSUME MemOK, NEW h \in mem.heads, NEW e, AppendTo(h, e)
    PROVE  AppendAs(h, e, NextBlock(mem.free))
<1>1. mem \in Memories /\ mem.free \in SUBSET Blocks /\ mem.free # {} /\ h \in HeadIds
  BY DEF MemOK, Memories, AppendTo
<1>2. NextBlock(mem.free) \in mem.free /\ NextBlock(mem.free) \in Blocks
  BY <1>1, NextBlockIsFree
<1>3. PutAs(mem', mem, h, NextBlock(mem.free))
  BY <1>1, <1>2, PutEffect DEF AppendTo
<1> QED
  BY <1>1, <1>2, <1>3 DEF AppendTo, AppendAs

\* The replay of an addition.
ReplayAs(h, b, V) ==
    /\ b \in mem.free /\ b \in Blocks /\ h \in mem.heads
    /\ V \in Versions
    /\ LET r == Head(scan).rec
           m == [mem EXCEPT !.ver = V]
       IN /\ m \in Memories /\ PutAs(mem', m, h, b)
          /\ blocks' = [blocks EXCEPT ![b] = Posting(mem, h) \cup {<<r.id, r.vec>>}]
          /\ jobs' \subseteq jobs \cup {h}
          /\ r.id < Len(mem.ver) => V = mem.ver
          /\ ~(r.id < Len(mem.ver)) => /\ Len(V) = r.id + 1
                                       /\ \A i \in 1..(r.id + 1) : V[i] = IF i <= Len(mem.ver) THEN mem.ver[i] ELSE "live"

LEMMA ReplayEffect ==
    ASSUME Base, ReplayAdd
    PROVE  \E h \in HeadIds, b \in Blocks, V \in Versions : ReplayAs(h, b, V)
<1> DEFINE r == Head(scan).rec
           V == IF r.id < Len(mem.ver) THEN mem.ver
                ELSE [i \in 1..(r.id + 1) |-> IF i <= Len(mem.ver) THEN mem.ver[i] ELSE "live"]
           m == [mem EXCEPT !.ver = V]
           b == NextBlock(mem.free)
<1>0. Types /\ IdsInv /\ scan # <<>> /\ mem.free # {}
  BY DEF Base, ReplayAdd
<1>1. PICK h \in mem.heads :
        /\ mem' = PutPosting(m, h, b)
        /\ blocks' = [blocks EXCEPT ![b] = Posting(mem, h) \cup {<<r.id, r.vec>>}]
        /\ jobs' \subseteq jobs \cup {h}
  BY DEF ReplayAdd
<1>2. r.id \in Nat
  BY <1>0, NextRecord DEF Ids
<1>3. h \in HeadIds /\ mem \in Memories /\ mem.free \in SUBSET Blocks
  BY <1>0 DEF Types, MemOK, Memories
<1>4. b \in Blocks /\ b \in mem.free
  BY <1>0, <1>3, NextBlockIsFree
<1>5. /\ V \in Versions /\ (r.id < Len(mem.ver) => V = mem.ver)
      /\ ~(r.id < Len(mem.ver)) => /\ Len(V) = r.id + 1
                                   /\ \A i \in 1..(r.id + 1) : V[i] = IF i <= Len(mem.ver) THEN mem.ver[i] ELSE "live"
  <2>1. mem.ver \in Versions /\ Len(mem.ver) \in Nat
    BY <1>3 DEF Memories, Versions
  <2> HIDE DEF r
  <2>4. CASE r.id < Len(mem.ver)
    BY <2>1, <2>4
  <2>5. CASE ~(r.id < Len(mem.ver))
    <3>1. V = [i \in 1..(r.id + 1) |-> IF i <= Len(mem.ver) THEN mem.ver[i] ELSE "live"]
      BY <2>5
    <3>2. \A i \in 1..(r.id + 1) : i <= Len(mem.ver) => mem.ver[i] \in {"live", "deleted"}
      BY <2>1 DEF Versions
    <3>3. V \in [1..(r.id + 1) -> {"live", "deleted"}]
      BY <3>1, <3>2
    <3>4. \A i \in 1..(r.id + 1) : V[i] = IF i <= Len(mem.ver) THEN mem.ver[i] ELSE "live"
      BY <3>1
    <3> HIDE DEF V
    <3>5. V \in Versions /\ Len(V) = r.id + 1
      BY <3>3, <1>2 DEF Versions
    <3> QED
      BY <3>4, <3>5, <2>5
  <2> QED
    BY <2>4, <2>5
<1> HIDE DEF V
<1>6. m \in Memories /\ m.free = mem.free /\ m.map = mem.map
  BY <1>3, <1>5 DEF Memories
<1>7. PutAs(mem', m, h, b)
  BY <1>1, <1>3, <1>4, <1>6, PutEffect
<1>8. ReplayAs(h, b, V)
  BY <1>1, <1>3, <1>4, <1>5, <1>6, <1>7 DEF ReplayAs
<1> QED
  BY <1>3, <1>4, <1>5, <1>8

\* What most steps do to the store: they write free blocks alone.
Stores ==
    /\ mem'.free \subseteq mem.free
    /\ \A x \in Blocks : x \notin mem.free => blocks'[x] = blocks[x]
    /\ MemBlocks => MemBlocks'

LEMMA StoresKept ==
    ASSUME UNCHANGED blocks, mem'.map = mem.map, mem'.free = mem.free, mem'.reserve = mem.reserve
    PROVE  Stores
  BY DEF Stores, MemBlocks, BlocksOf

LEMMA StoresMoved ==
    ASSUME NEW h, NEW b, Moved(mem', mem, h, b), \A x \in Blocks : x \notin mem.free => blocks'[x] = blocks[x]
    PROVE  Stores
<1>1. mem'.free \subseteq mem.free
  BY DEF Moved
<1>2. MemBlocks => BlocksOf(mem')
  BY MovedBlocks DEF MemBlocks
<1>3. BlocksOf(mem') <=> MemBlocks'
  BY DEF MemBlocks, BlocksOf
<1> QED
  BY <1>1, <1>2, <1>3 DEF Stores

LEMMA SplitStores ==
    ASSUME Base, NEW h \in HeadIds, SplitJob(h)
    PROVE  Stores
<1>0. Types /\ mem \in Memories /\ blocks \in Postings
  BY DEF Base, Types, MemOK
<1>1. PICK b1 \in Blocks, b2 \in Blocks : SplitAs(h, b1, b2)
  BY <1>0, SplitEffect
<1>2. b1 \in mem.free /\ b2 \in mem.free /\ b1 # b2
  BY <1>1 DEF SplitAs
<1>3. ASSUME NEW A, NEW B, blocks' = [blocks EXCEPT ![b1] = A, ![b2] = B] \/ blocks' = [blocks EXCEPT ![b1] = A]
      PROVE  \A x \in Blocks : x \notin mem.free => blocks'[x] = blocks[x]
  BY <1>0, <1>2, <1>3 DEF Postings
<1>4. CASE SplitKept(h, b1)
  BY <1>0, <1>2, <1>3, <1>4, PutMoves, StoresMoved DEF SplitKept
<1>5. ASSUME NEW first \in SUBSET Current(h), NEW e1 \in first, NEW e2 \in Current(h) \ first, SplitSame(h, first, e2, b1, b2)
      PROVE  Stores
  <2>1. PICK p \in Memories : /\ PutAs(p, mem, h, b1) /\ NewHeadAs(mem', p, e2, b2)
                              /\ blocks' = [blocks EXCEPT ![b1] = first, ![b2] = Stored(Current(h) \ first, e2)]
    BY <1>5 DEF SplitSame
  <2>2. Moved(p, mem, h, b1) /\ p.free = mem.free \ {b1}
    BY <1>0, <1>2, <2>1, PutMoves DEF Moved
  <2>3. b2 \in p.free
    BY <1>2, <2>2
  <2>4. Moved(mem', p, Len(p.vec), b2)
    BY <2>1, <2>3, NewHeadMoves
  <2>5. mem'.free \subseteq mem.free /\ (MemBlocks => BlocksOf(mem'))
    <3>1. MemBlocks => BlocksOf(p)
      BY <2>2, MovedBlocks DEF MemBlocks
    <3>2. MemBlocks => BlocksOf(mem')
      BY <2>4, <3>1, MovedBlocks
    <3> QED
      BY <3>2, <2>2, <2>4 DEF Moved
  <2>6. BlocksOf(mem') <=> MemBlocks'
    BY DEF MemBlocks, BlocksOf
  <2> QED
    BY <1>3, <2>1, <2>5, <2>6 DEF Stores
<1>6. ASSUME NEW first \in SUBSET Current(h), NEW e1 \in first, NEW e2 \in Current(h) \ first, SplitTwo(h, first, e1, e2, b1, b2)
      PROVE  Stores
  <2>1. PICK p \in Memories, q \in Memories, r \in Memories :
          /\ DropAs(p, mem, h) /\ NewHeadAs(q, p, e1, b1) /\ NewHeadAs(r, q, e2, b2)
          /\ mem' = [r EXCEPT !.heads = r.heads \ {h}]
          /\ blocks' = [blocks EXCEPT ![b1] = Stored(first, e1) \cup Own(h), ![b2] = Stored(Current(h) \ first, e2)]
    BY <1>6 DEF SplitTwo
  <2>2. Moved(p, mem, h, NoBlock) /\ p.free = mem.free
    BY <1>0, <2>1, DropMoves DEF DropAs
  <2>3. Moved(q, p, Len(p.vec), b1) /\ q.free = p.free \ {b1}
    BY <1>2, <2>1, <2>2, NewHeadMoves DEF NewHeadAs
  <2>4. b2 \in q.free
    BY <1>2, <2>2, <2>3
  <2>5. Moved(r, q, Len(q.vec), b2)
    BY <2>1, <2>4, NewHeadMoves
  <2>6. r.free \subseteq mem.free /\ (MemBlocks => BlocksOf(r))
    <3>1. MemBlocks => BlocksOf(p)
      BY <2>2, MovedBlocks DEF MemBlocks
    <3>2. MemBlocks => BlocksOf(q)
      BY <2>3, <3>1, MovedBlocks
    <3>3. MemBlocks => BlocksOf(r)
      BY <2>5, <3>2, MovedBlocks
    <3> QED
      BY <3>3, <2>2, <2>3, <2>5 DEF Moved
  <2>7. mem'.free = r.free /\ mem'.map = r.map /\ mem'.reserve = r.reserve
    BY <2>1 DEF Memories
  <2>8. BlocksOf(r) <=> MemBlocks'
    BY <2>7 DEF MemBlocks, BlocksOf
  <2> QED
    BY <1>3, <2>1, <2>6, <2>7, <2>8 DEF Stores
<1> QED
  BY <1>1, <1>4, <1>5, <1>6 DEF SplitAs

LEMMA UpdateStores ==
    ASSUME Base, NEW c \in Clients, Updates(c)
    PROVE  Stores
<1>0. MemOK /\ mem \in Memories /\ blocks \in Postings
  BY DEF Base, Types, MemOK
<1>1. CASE AddBatch(c) \/ AddLog(c) \/ DeleteLog(c) \/ DeleteMark(c)
  <2>1. UNCHANGED blocks /\ mem'.map = mem.map /\ mem'.free = mem.free /\ mem'.reserve = mem.reserve
    BY <1>0, <1>1 DEF AddBatch, AddLog, DeleteLog, DeleteMark, durable, Memories
  <2> QED
    BY <2>1, StoresKept
<1>2. CASE AddAppend(c)
  <2>1. PICK h \in mem.heads : AppendTo(h, <<op[c].id, op[c].vec>>)
    BY <1>2 DEF AddAppend
  <2> DEFINE b == NextBlock(mem.free)
  <2>2. AppendAs(h, <<op[c].id, op[c].vec>>, b)
    BY <1>0, <2>1, AppendEffect
  <2> HIDE DEF b
  <2>3. Moved(mem', mem, h, b)
    BY <1>0, <2>2, PutMoves DEF AppendAs
  <2>4. \A x \in Blocks : x \notin mem.free => blocks'[x] = blocks[x]
    BY <1>0, <2>2 DEF AppendAs, Postings
  <2> QED
    BY <2>3, <2>4, StoresMoved
<1> QED
  BY <1>1, <1>2 DEF Updates

LEMMA StoresNext ==
    ASSUME Base, FilesInv, [Next]_vars
    PROVE  Stores \/ BuildIndex \/ SavePool \/ LoadIndex \/ RecoverIndex
<1>0. MemOK /\ mem \in Memories /\ blocks \in Postings
  BY DEF Base, Types, MemOK
<1>1. ASSUME NEW h \in HeadIds, SplitJob(h) PROVE Stores
  BY <1>1, SplitStores
<1>2. ASSUME NEW c \in Clients, Updates(c) PROVE Stores
  BY <1>2, UpdateStores
<1>3. ASSUME NEW h \in HeadIds, RefinePosting(h) PROVE Stores
  <2> DEFINE b == NextBlock(mem.free)
  <2>1. RewriteAs(h, b)
    BY <1>3, RefinePostingEffect
  <2>2. NewId(HeadOrder, h) \in HeadIds
    BY NewHeadIdType
  <2> HIDE DEF b
  <2>3. Moved(mem', mem, NewId(HeadOrder, h), b)
    BY <1>0, <2>1, <2>2, PutMoves DEF RewriteAs
  <2>4. \A x \in Blocks : x \notin mem.free => blocks'[x] = blocks[x]
    BY <1>0, <2>1 DEF RewriteAs, Postings
  <2> QED
    BY <2>3, <2>4, StoresMoved
<1>4. CASE ReplayAdd
  <2>1. PICK h \in HeadIds, b \in Blocks, V \in Versions : ReplayAs(h, b, V)
    BY <1>4, ReplayEffect
  <2> DEFINE m == [mem EXCEPT !.ver = V]
  <2>2. m \in Memories /\ m.free = mem.free /\ m.map = mem.map /\ m.reserve = mem.reserve
    BY <1>0 DEF Memories
  <2>3. b \in m.free /\ PutAs(mem', m, h, b)
    BY <2>1, <2>2 DEF ReplayAs
  <2> HIDE DEF m
  <2>4. Moved(mem', m, h, b)
    BY <2>2, <2>3, PutMoves
  <2>5. \A x \in Blocks : x \notin mem.free => blocks'[x] = blocks[x]
    BY <1>0, <2>1 DEF ReplayAs, Postings
  <2>6. Moved(mem', mem, h, b)
    BY <1>0, <2>2, <2>4 DEF Moved, Released
  <2> QED
    BY <2>5, <2>6, StoresMoved
<1>5. CASE Reload
  <2>1. mem'.map = mem.map /\ mem'.free = mem.free /\ mem'.reserve = mem.reserve /\ UNCHANGED blocks
    BY <1>5, ReloadType, ReloadSteps
  <2> QED
    BY <2>1, StoresKept
<1>6. CASE BuildEnd \/ ReplayDelete
  <2>1. UNCHANGED blocks /\ mem'.map = mem.map /\ mem'.free = mem.free /\ mem'.reserve = mem.reserve
    BY <1>0, <1>6 DEF BuildEnd, ReplayDelete, durable, Memories
  <2> QED
    BY <2>1, StoresKept
<1>7. ASSUME UNCHANGED <<mem, blocks>> PROVE Stores
  BY <1>7, StoresKept
<1>8. CASE RecoverEnd \/ SaveEnd \/ Crash \/ SaveIndex \/ Checkpoint \/ OpenFiles \/ SaveMetadata \/ SaveHeadIndex
  BY <1>7, <1>8 DEF RecoverEnd, SaveEnd, Crash, SaveIndex, Checkpoint, OpenFiles, SaveMetadata, SaveHeadIndex, durable
<1>9. CASE SaveHeadFolder \/ SaveTranslateMap \/ SaveVersionMap \/ SaveMapping \/ ClearLog \/ RefineFiles \/ UNCHANGED vars
  BY <1>7, <1>9 DEF SaveHeadFolder, SaveTranslateMap, SaveVersionMap, SaveMapping, ClearLog, RefineFiles, durable, vars
<1> QED
  BY <1>1, <1>2, <1>3, <1>4, <1>5, <1>6, <1>8, <1>9, NextCases DEF Starts

\* The directory that a step of a saver writes is broken.
LEMMA WriterBroken ==
    ASSUME Base, SaveBreaks', NEW s \in Steps, AtStep(s), Advance
    PROVE  ~promise'[saver.dir].sound
<1>0. SaverOK
  BY DEF Base, Types
<1>1. Stepped(s) /\ saver.kind \in {"save", "checkpoint", "refine"}
  BY <1>0, StepStepped DEF Stepped, Saving, SaverOK
<1>2. saver.kind = "save" => "open" \notin Left'
  <2>1. saver.kind = "save" => Left' \subseteq {"meta", "head", "trans", "ver", "map", "pool", "clear", "refine", "rewrite", "reload"}
    <3>1. saver.kind = "save" => s \in {"open", "meta", "head", "trans", "ver", "map", "pool", "clear", "refine"}
      BY <1>0, AtSaveHead, AtRewrite, AtReload DEF Steps
    <3> QED
      BY <1>0, <1>1, <3>1, AtOpen, AtMeta, AtHead, AtTrans, AtVer, AtMap, AtPool, AtClear, AtRefine DEF Stepped
  <2> QED
    BY <2>1
<1>3. saver.kind = "checkpoint" => "ver" \notin Left'
  <2>1. saver.kind = "checkpoint" => s \in {"ver", "map", "pool", "clear", "saveHead"}
    BY <1>0, AtOpen, AtMeta, AtHead, AtTrans, AtRefine, AtRewrite, AtReload DEF Steps
  <2> QED
    BY <1>0, <1>1, <2>1, AtVer, AtMap, AtPool, AtClear, AtSaveHead DEF Stepped
<1>4. /\ saver.kind = "save" => Broken("index")' /\ saver.dir = "index"
      /\ saver.kind = "checkpoint" => Broken("buffer")' /\ saver.dir = "buffer"
      /\ saver.kind = "refine" => Broken("index")' /\ saver.dir = "index"
  BY <1>1, <1>2, <1>3 DEF SaveBreaks, Stepped
<1> QED
  BY <1>1, <1>4 DEF Broken

\* The files of a directory that stays sound, and what they promise, stay.
Untouched(d) ==
    /\ promise[d].sound /\ disk'[d] = disk[d]
    /\ promise'[d].sure = promise[d].sure /\ promise'[d].gone = promise[d].gone
    /\ promise'[d].labelled = promise[d].labelled /\ (promise'[d].logged => promise[d].logged)

LEMMA SoundUntouched ==
    ASSUME Base, SaveBreaks, BlocksInv, [Next]_vars, NEW d \in Dirs, promise'[d].sound, ~SaveEnd
    PROVE  Untouched(d)
<1>0. /\ SaverOK /\ SaveBreaks' /\ promise \in [Dirs -> Promises] /\ disk \in [Dirs -> Directories]
      /\ Dirs = {"index", "buffer"} /\ saver.dir \in Dirs
  BY SaveBreaksNext, SaverDirs DEF Base, Types, HistoryOK, DiskOK, Dirs
<1>1. ASSUME UNCHANGED <<promise, disk>> PROVE Untouched(d)
  BY <1>1 DEF Untouched
<1>2. ASSUME NEW e \in Dirs, promise' = [promise EXCEPT ![e] = Void], disk'[d] = disk[d]
      PROVE  Untouched(d)
  <2>1. d # e
    BY <1>0, <1>2 DEF Void
  <2> QED
    BY <1>0, <1>2, <2>1 DEF Untouched
<1>3. ASSUME NEW l \in BOOLEAN, l => promise["buffer"].logged,
             promise' = [promise EXCEPT !["buffer"].logged = l], UNCHANGED disk
      PROVE  Untouched(d)
  <2> DEFINE q == [promise["buffer"] EXCEPT !.logged = l]
  <2>1. promise["buffer"] \in Promises
    BY <1>0
  <2>2. q.logged = l /\ q.sound = promise["buffer"].sound /\ q.sure = promise["buffer"].sure
        /\ q.gone = promise["buffer"].gone /\ q.labelled = promise["buffer"].labelled
    BY <2>1 DEF Promises
  <2>3. promise' = [promise EXCEPT !["buffer"] = q]
    BY <1>3
  <2> HIDE DEF q
  <2>4. promise'[d] = IF d = "buffer" THEN q ELSE promise[d]
    BY <1>0, <2>3
  <2> QED
    BY <1>3, <2>2, <2>4 DEF Untouched
<1>4. CASE BuildIndex \/ ReplayAdd \/ RecoverEnd \/ SaveIndex \/ Checkpoint
  BY <1>1, <1>4 DEF BuildIndex, ReplayAdd, RecoverEnd, SaveIndex, Checkpoint, durable, history
<1>5. CASE BuildEnd
  <2>1. promise[d].sound /\ state = "building"
    BY <1>5 DEF BuildEnd, history
  <2> QED
    BY <2>1 DEF BlocksInv
<1>6. CASE LoadIndex
  BY <1>0, <1>2, <1>6 DEF LoadIndex, durable
<1>7. CASE RecoverIndex
  <2> DEFINE l == promise["buffer"].logged /\ LogInOrder
             q == [promise["buffer"] EXCEPT !.logged = l]
  <2>1. promise["buffer"] \in Promises /\ l \in BOOLEAN
    BY <1>0 DEF LogInOrder, Promises
  <2>2. q.logged = l /\ q.sound = promise["buffer"].sound /\ q.sure = promise["buffer"].sure
        /\ q.gone = promise["buffer"].gone /\ q.labelled = promise["buffer"].labelled
    BY <2>1 DEF Promises
  <2>3. promise' = [promise EXCEPT !["index"] = Void, !["buffer"] = q] /\ UNCHANGED disk
    BY <1>7 DEF RecoverIndex, durable
  <2>5. l => promise["buffer"].logged
    OBVIOUS
  <2> HIDE DEF q, l
  <2>4. promise'[d] = IF d = "buffer" THEN q ELSE Void
    BY <1>0, <2>3
  <2>6. d = "buffer" /\ promise'[d] = q
    BY <2>4 DEF Void
  <2> QED
    BY <2>2, <2>3, <2>5, <2>6 DEF Untouched
<1>8. CASE ReplayDelete
  BY <1>3, <1>8 DEF ReplayDelete, durable
<1>9. CASE Crash
  <2>1. UNCHANGED disk /\ (promise' = [promise EXCEPT !["buffer"].logged = FALSE] \/ promise' = promise)
    BY <1>9 DEF Crash, durable
  <2> QED
    BY <2>1, <1>1, <1>3
<1>10. ASSUME NEW c \in Clients, Updates(c) PROVE Untouched(d)
  BY <1>0, <1>1, <1>10, UpdateFrame DEF Updates
<1>11. ASSUME NEW h \in HeadIds, SplitJob(h) \/ RefinePosting(h) PROVE Untouched(d)
  BY <1>1, <1>11 DEF SplitJob, RefinePosting, history
<1>12. CASE OpenFiles
  <2>1. promise' = [promise EXCEPT !["index"] = Void] /\ \A e \in Dirs : e # "index" => disk'[e] = disk[e]
    BY <1>0, <1>12 DEF OpenFiles, Break
  <2>2. d # "index"
    BY <1>0, <2>1 DEF Void
  <2> QED
    BY <1>0, <1>2, <2>1, <2>2
<1>13. ASSUME NEW s \in Steps, AtStep(s), Advance, \A e \in Dirs : e # saver.dir => disk'[e] = disk[e],
              UNCHANGED promise \/ \E e \in Dirs : promise' = [promise EXCEPT ![e] = Void]
       PROVE  Untouched(d)
  <2>1. d # saver.dir
    BY <1>0, <1>13, WriterBroken
  <2>2. disk'[d] = disk[d]
    BY <1>13, <2>1
  <2> QED
    BY <1>13, <2>2, <1>2 DEF Untouched
<1>14. CASE SaveMetadata \/ SaveHeadIndex \/ SaveHeadFolder \/ SaveTranslateMap \/ SaveMapping
  <2>1. PICK s \in {"meta", "head", "saveHead", "trans", "map"} : AtStep(s)
    BY <1>14 DEF SaveMetadata, SaveHeadIndex, SaveHeadFolder, SaveTranslateMap, SaveMapping
  <2>2. s \in Steps /\ Advance /\ UNCHANGED promise
    BY <1>14 DEF SaveMetadata, SaveHeadIndex, SaveHeadFolder, SaveTranslateMap, SaveMapping, Steps, history
  <2>3. \A e \in Dirs : e # saver.dir => disk'[e] = disk[e]
    BY <1>14, WriteSteps DEF Wrote
  <2> QED
    BY <2>1, <2>2, <2>3, <1>13
<1>15. CASE SaveVersionMap \/ SavePool
  <2>1. PICK s \in {"ver", "pool"} : AtStep(s)
    BY <1>15 DEF SaveVersionMap, SavePool
  <2>2. s \in Steps /\ Advance /\ \E e \in Dirs : promise' = [promise EXCEPT ![e] = Void]
    BY <1>0, <1>15, SaverDirs DEF SaveVersionMap, SavePool, Steps, Break
  <2>3. \A e \in Dirs : e # saver.dir => disk'[e] = disk[e]
    BY <1>15, WriteSteps DEF Wrote
  <2> QED
    BY <2>1, <2>2, <2>3, <1>13
<1>16. CASE ClearLog \/ Reload
  BY <1>1, <1>16, ReloadSteps DEF ClearLog, history
<1>17. CASE RefineFiles
  <2>1. Broken("index") /\ UNCHANGED promise
    BY <1>17, RefineSteps DEF SaveBreaks
  <2>2. d = "buffer"
    BY <1>0, <2>1 DEF Broken
  <2>3. disk'["buffer"] = disk["buffer"]
    BY <1>0, <1>17 DEF RefineFiles
  <2> QED
    BY <2>1, <2>2, <2>3, <1>1 DEF Untouched
<1>18. CASE UNCHANGED vars
  BY <1>1, <1>18 DEF vars
<1> QED
  BY <1>4, <1>5, <1>6, <1>7, <1>8, <1>9, <1>10, <1>11, <1>12, <1>14, <1>15, <1>16, <1>17, <1>18, NextCases DEF Starts

\* What the end of a save promises, and what it finds on disk.
Ends ==
    /\ Saving /\ Left = {} /\ UNCHANGED <<setting, state, mem, blocks, disk, log, size, scan, jobs, op, todo, used>>
    /\ UNCHANGED <<sure, gone, trusted, labelled>>
    /\ saver.dir \in Dirs /\ (saver.dir = "buffer" <=> saver.kind = "checkpoint")
    /\ \A d \in Dirs : d # saver.dir => promise'[d] = promise[d]
    /\ promise'[saver.dir].sure = sure /\ promise'[saver.dir].gone = gone
    /\ promise'[saver.dir].labelled = saver.labelled
    /\ promise'[saver.dir].logged = (saver.dir = "buffer" /\ setting.wal)

Whole ==
    /\ trusted /\ saver.quiet /\ jobs = {} /\ (\A c \in Clients : op[c] = Idle)
    /\ (saver.dir = "buffer" => ~setting.excludeHead /\ DOMAIN log = {})
    /\ LET f == disk[saver.dir] IN
       /\ f.ver = mem.ver /\ f.map = mem.map /\ f.pool = mem.free /\ mem.reserve = {}
       /\ f.head \in HeadFiles /\ f.head.heads = mem.heads
    /\ saver.kind \in {"save", "refine"} => disk["index"].head = HeadsNow /\ disk["index"].trans = mem.trans
    /\ saver.kind = "save" => disk["index"].meta = mem.meta
    /\ saver.kind = "checkpoint" /\ setting.wal => size = 0

LEMMA SaveEnds ==
    ASSUME Base, SaveQuiet, SaveWritten, SaveEnd
    PROVE  Ends /\ (promise'[saver.dir].sound => Whole)
<1> DEFINE d == saver.dir
           s == trusted /\ saver.quiet /\ disk[d].head.heads = mem.heads
                /\ (d = "buffer" => ~setting.excludeHead /\ DOMAIN log = {})
           l == d = "buffer" /\ setting.wal
           p == [sound |-> s, logged |-> l, labelled |-> saver.labelled, sure |-> sure, gone |-> gone]
<1>0. /\ SaverOK /\ promise \in [Dirs -> Promises] /\ d \in Dirs /\ MemOK /\ disk \in [Dirs -> Directories]
      /\ saver.kind \in {"save", "checkpoint", "refine"}
  BY SaverDirs DEF Base, Types, HistoryOK, SaveEnd, SaverOK, DiskOK
<1>1. saver.dir = "buffer" <=> saver.kind = "checkpoint"
  BY <1>0, SaverDirs DEF Dirs
<1>2. Left = {} /\ Saving
  BY DEF SaveEnd, Left, LeftOf, Saving
<1>3. /\ UNCHANGED <<setting, state, mem, blocks, disk, log, size, scan, jobs, op, todo, used>>
      /\ UNCHANGED <<sure, gone, trusted, labelled>>
  BY DEF SaveEnd, durable
<1>4. promise' = [promise EXCEPT ![d] = p]
  BY DEF SaveEnd
<1>5. p.sound = s /\ p.logged = l /\ p.labelled = saver.labelled /\ p.sure = sure /\ p.gone = gone
  OBVIOUS
<1> HIDE DEF p
<1>6. promise'[d] = p /\ \A e \in Dirs : e # d => promise'[e] = promise[e]
  BY <1>0, <1>4
<1>7. Ends
  BY <1>0, <1>1, <1>2, <1>3, <1>5, <1>6 DEF Ends
<1>8. ASSUME promise'[d].sound PROVE Whole
  <2>1. s
    BY <1>5, <1>6, <1>8
  <2>2. PlainSave <=> saver.kind = "save"
    BY <1>2 DEF PlainSave
  <2>3. Settled
    BY <1>0, <1>2, <2>2 DEF Settled
  <2>4. jobs = {} /\ \A c \in Clients : op[c] = Idle
    BY <1>2, <2>1, <2>3 DEF SaveQuiet
  <2>5. disk[d].map = mem.map /\ disk[d].pool = mem.free /\ mem.reserve = {}
    BY <1>2, <2>1 DEF SaveWritten, WrittenBlocks, Written
  <2>6. HeadsNow \in HeadFiles /\ HeadFile(mem) \in HeadFiles
    BY <1>0, HeadFileType DEF HeadsNow, MemOK
  <2>7. CASE saver.kind = "save"
    <3>1. /\ disk["index"].head = HeadsNow /\ disk["index"].trans = mem.trans
          /\ disk["index"].meta = mem.meta /\ disk["index"].ver = mem.ver
      BY <1>2, <2>1, <2>2, <2>7 DEF SaveWritten, WrittenSave, Written
    <3>2. d = "index"
      BY <1>0, <2>7, SaverDirs
    <3> QED
      BY <2>1, <2>4, <2>5, <2>6, <2>7, <3>1, <3>2 DEF Whole
  <2>8. CASE saver.kind = "refine"
    <3>1. disk["index"].head = HeadsNow /\ disk["index"].trans = mem.trans /\ disk["index"].ver = mem.ver
      BY <1>2, <2>1, <2>8 DEF SaveWritten, WrittenReloaded, Reloaded
    <3>2. d = "index"
      BY <1>0, <2>8, SaverDirs
    <3> QED
      BY <2>1, <2>4, <2>5, <2>6, <2>8, <3>1, <3>2 DEF Whole
  <2>9. CASE saver.kind = "checkpoint"
    <3>1. disk["buffer"].ver = mem.ver /\ disk["buffer"].head = HeadFile(mem) /\ (setting.wal => size = 0)
      BY <1>2, <2>1, <2>9 DEF SaveWritten, WrittenCheckpoint, Written
    <3>2. d = "buffer"
      BY <1>1, <2>9
    <3> QED
      BY <2>1, <2>4, <2>5, <2>6, <2>9, <3>1, <3>2 DEF Whole
  <2> QED
    BY <1>0, <2>7, <2>8, <2>9
<1> QED
  BY <1>7, <1>8

LEMMA DirBlocksKept ==
    ASSUME NEW d, DirBlocks(d), disk'[d] = disk[d], mem'.free \subseteq mem.free
    PROVE  DirBlocks(d)'
  BY DEF DirBlocks, Apart, OneOwner

LEMMA NoneIsNoFile ==
    /\ \A f \in HeadFiles : f # None
    /\ \A v \in Versions : v # None
    /\ \A m \in Mappings : m # None
    /\ \A t \in Translations : t # None
    /\ \A p \in SUBSET Blocks : p # None
  BY LifecycleNone DEF Versions, Mappings, Translations

LEMMA MemBlocksNext ==
    ASSUME Base, FilesInv, SaveBreaks, BlocksInv, [Next]_vars, trusted', ~SavePool
    PROVE  MemBlocks'
<1>0. MemOK
  BY DEF Base, Types
<1>1. CASE BuildIndex
  <2> DEFINE n == Cardinality(setting.headsOf)
  <2>1. setting \in Settings
    BY DEF Base, Types, RunOK
  <2>2. PICK P \in [0..(n - 1) -> SUBSET setting.built] : BuiltAs(n, Cardinality(setting.built), P)
    BY <1>1, <2>1, BuildEffect
  <2>3. /\ mem'.map = [h \in HeadIds |-> IF h < n THEN h ELSE NoBlock]
        /\ mem'.free = {b \in Blocks : b >= n} /\ mem'.reserve = {}
    BY <2>2 DEF BuiltAs
  <2>4. n \in Nat
    BY <2>1, SettingFacts
  <2> HIDE DEF n
  <2>5. NoBlock \notin Blocks /\ HeadIds \subseteq Nat /\ Blocks \subseteq Nat
    BY LifecycleBounds DEF NoBlock, Blocks, HeadIds
  <2>6. OneOwner(mem'.map)
    BY <2>3, <2>4, <2>5 DEF OneOwner
  <2>7. Apart(mem'.map, mem'.free) /\ Apart(mem'.map, mem'.reserve) /\ mem'.free \cap mem'.reserve = {}
    BY <2>3, <2>4, <2>5 DEF Apart
  <2>8. BlocksOf(mem')
    BY <2>6, <2>7 DEF BlocksOf
  <2> QED
    BY <2>8 DEF MemBlocks, BlocksOf
<1>2. ASSUME NEW d \in Dirs, promise[d].sound, disk[d].head # None, disk["index"].trans # None, mem' = LoadedFrom(d)
      PROVE  MemBlocks'
  <2>1. DirBlocks(d)
    BY <1>2 DEF BlocksInv
  <2>2. mem'.map = disk[d].map /\ mem'.free = disk[d].pool /\ mem'.reserve = {}
    BY <1>2, <2>1, LoadedType DEF DirBlocks, Base
  <2>3. BlocksOf(mem')
    BY <2>1, <2>2 DEF DirBlocks, BlocksOf, Apart
  <2> QED
    BY <2>3 DEF MemBlocks, BlocksOf
<1>3. CASE LoadIndex
  BY <1>2, <1>3 DEF LoadIndex, Dirs
<1>4. CASE RecoverIndex
  BY <1>2, <1>4 DEF RecoverIndex, Dirs
<1>5. CASE Stores
  <2>1. trusted
    <3>1. CASE LoadIndex \/ RecoverIndex
      BY <3>1 DEF LoadIndex, RecoverIndex, BlocksInv, Dirs
    <3>2. CASE ~LoadIndex /\ ~RecoverIndex
      <4>1. CASE \E c \in Clients : Updates(c)
        BY <4>1, UpdateFrame DEF Updates, Base, Types
      <4>2. CASE \E h \in HeadIds : SplitJob(h) \/ RefinePosting(h)
        BY <4>2 DEF SplitJob, RefinePosting, history
      <4>3. CASE BuildIndex \/ BuildEnd \/ ReplayAdd \/ ReplayDelete \/ RecoverEnd \/ SaveEnd \/ Crash
        BY <4>3 DEF BuildIndex, BuildEnd, ReplayAdd, ReplayDelete, RecoverEnd, SaveEnd, Crash, history
      <4>4. CASE SaveIndex \/ Checkpoint \/ OpenFiles \/ SaveMetadata \/ SaveHeadIndex \/ SaveHeadFolder
                 \/ SaveTranslateMap \/ SaveVersionMap
        BY <4>4 DEF SaveIndex, Checkpoint, OpenFiles, SaveMetadata, SaveHeadIndex, SaveHeadFolder, SaveTranslateMap, SaveVersionMap, history
      <4>5. CASE SaveMapping \/ SavePool \/ ClearLog \/ RefineFiles \/ Reload \/ UNCHANGED vars
        BY <4>5 DEF SaveMapping, SavePool, ClearLog, RefineFiles, Reload, history, vars
      <4> QED
        BY <3>2, <4>1, <4>2, <4>3, <4>4, <4>5, NextCases DEF Starts
    <3> QED
      BY <3>1, <3>2
  <2> QED
    BY <1>5, <2>1 DEF Stores, BlocksInv
<1> QED
  BY <1>1, <1>3, <1>4, <1>5, StoresNext

LEMMA BlocksInvNext ==
    ASSUME Base, FilesInv, SaveBreaks, SaveQuiet, SaveWritten, BlocksInv, [Next]_vars
    PROVE  BlocksInv'
<1>0. /\ SaverOK /\ SaveBreaks' /\ MemOK /\ disk \in [Dirs -> Directories]
      /\ Dirs = {"index", "buffer"} /\ saver.dir \in Dirs
  BY SaveBreaksNext, SaverDirs DEF Base, Types, DiskOK, Dirs
<1>1. CASE SavePool
  <2>1. PoolSaved /\ UNCHANGED trusted /\ Stepped("pool") /\ saver.kind \in {"save", "checkpoint", "refine"}
    BY <1>0, <1>1, WriteSteps DEF SavePool, AtStep, SaverOK
  <2>2. Broken("index")' /\ Broken("buffer")'
    BY <1>0, <2>1 DEF SaveBreaks, Stepped
  <2>3. trusted => MemBlocks'
    BY <2>1 DEF PoolSaved, BlocksInv, MemBlocks, BlocksOf, Apart, OneOwner
  <2> QED
    BY <1>0, <2>1, <2>2, <2>3 DEF BlocksInv, Broken
<1>2. CASE ~SavePool
  <2>1. trusted' => MemBlocks'
    BY <1>2, MemBlocksNext
  <2>2. ASSUME NEW d \in Dirs, promise'[d].sound, promise[d].sound, disk'[d] = disk[d], ~LoadIndex, ~RecoverIndex
        PROVE  DirBlocks(d)'
    <3>1. DirBlocks(d) /\ state # "empty"
      BY <2>2 DEF BlocksInv
    <3>2. mem'.free \subseteq mem.free
      BY <1>2, <2>2, <3>1, StoresNext DEF Stores, BuildIndex
    <3> QED
      BY <2>2, <3>1, <3>2, DirBlocksKept
  <2>3. ASSUME NEW d \in Dirs, promise[d].sound, disk'[d] = disk[d], mem' = LoadedFrom(d), disk[d].head # None, disk["index"].trans # None
        PROVE  DirBlocks(d)'
    <3>1. DirBlocks(d)
      BY <2>3 DEF BlocksInv
    <3>2. mem'.free = disk[d].pool
      BY <2>3, <3>1, LoadedType DEF DirBlocks, Base
    <3> QED
      BY <2>3, <3>1, <3>2 DEF DirBlocks, Apart, OneOwner
  <2>4. CASE LoadIndex
    <3>1. /\ trusted' = promise["index"].sound /\ state' = "running" /\ mem' = LoadedFrom("index") /\ UNCHANGED disk
          /\ disk["index"].head # None /\ disk["index"].trans # None
          /\ promise' = [promise EXCEPT !["buffer"] = Void]
      BY <2>4 DEF LoadIndex, durable
    <3>2. promise'["index"] = promise["index"] /\ ~promise'["buffer"].sound
      BY <1>0, <3>1 DEF Void, Base, Types, HistoryOK
    <3>3. promise["index"].sound => DirBlocks("index")'
      BY <1>0, <2>3, <3>1
    <3> QED
      BY <1>0, <2>1, <3>1, <3>2, <3>3 DEF BlocksInv
  <2>5. CASE RecoverIndex
    <3>1. /\ trusted' = promise["buffer"].sound /\ state' = "replay" /\ mem' = LoadedFrom("buffer") /\ UNCHANGED disk
          /\ disk["buffer"].head # None /\ disk["index"].trans # None
          /\ promise' = [promise EXCEPT !["index"] = Void, !["buffer"].logged = @ /\ LogInOrder]
      BY <2>5 DEF RecoverIndex, durable
    <3>2. promise'["buffer"].sound = promise["buffer"].sound /\ ~promise'["index"].sound
      <4>1. promise \in [Dirs -> Promises] /\ promise["buffer"] \in Promises
        BY <1>0 DEF Base, Types, HistoryOK
      <4> DEFINE l == promise["buffer"].logged /\ LogInOrder
                 q == [promise["buffer"] EXCEPT !.logged = l]
      <4>2. q.sound = promise["buffer"].sound
        BY <4>1 DEF Promises
      <4>3. promise' = [promise EXCEPT !["index"] = Void, !["buffer"] = q]
        BY <3>1
      <4> HIDE DEF q
      <4>4. promise'["buffer"] = q /\ promise'["index"] = Void
        BY <1>0, <4>1, <4>3
      <4> QED
        BY <4>2, <4>4 DEF Void
    <3>3. promise["buffer"].sound => DirBlocks("buffer")'
      BY <1>0, <2>3, <3>1
    <3> QED
      BY <1>0, <2>1, <3>1, <3>2, <3>3 DEF BlocksInv
  <2>6. CASE ~LoadIndex /\ ~RecoverIndex /\ ~SaveEnd
    <3>1. ASSUME NEW d \in Dirs, promise'[d].sound
          PROVE  trusted' /\ state' \notin {"empty", "building"} /\ DirBlocks(d)'
      <4>1. Untouched(d)
        BY <2>6, <3>1, SoundUntouched
      <4>2. trusted /\ state \notin {"empty", "building"}
        BY <4>1 DEF BlocksInv, Untouched
      <4>3. DirBlocks(d)'
        BY <2>2, <2>6, <3>1, <4>1 DEF Untouched
      <4>4. trusted' = trusted /\ state' \notin {"empty", "building"}
        <5>1. CASE \E c \in Clients : Updates(c)
          BY <1>0, <4>2, <5>1, UpdateFrame DEF Updates
        <5>2. CASE \E h \in HeadIds : SplitJob(h) \/ RefinePosting(h)
          BY <4>2, <5>2 DEF SplitJob, RefinePosting, history
        <5>3. CASE BuildIndex \/ BuildEnd \/ ReplayAdd \/ ReplayDelete \/ RecoverEnd \/ Crash
          BY <4>2, <5>3 DEF BuildIndex, BuildEnd, ReplayAdd, ReplayDelete, RecoverEnd, Crash, history
        <5>4. CASE SaveIndex \/ Checkpoint \/ OpenFiles \/ SaveMetadata \/ SaveHeadIndex \/ SaveHeadFolder
                   \/ SaveTranslateMap \/ SaveVersionMap
          BY <4>2, <5>4 DEF SaveIndex, Checkpoint, OpenFiles, SaveMetadata, SaveHeadIndex, SaveHeadFolder, SaveTranslateMap, SaveVersionMap, history
        <5>5. CASE SaveMapping \/ ClearLog \/ RefineFiles \/ Reload \/ UNCHANGED vars
          BY <4>2, <5>5 DEF SaveMapping, ClearLog, RefineFiles, Reload, history, vars
        <5> QED
          BY <1>2, <2>6, <5>1, <5>2, <5>3, <5>4, <5>5, NextCases DEF Starts
      <4> QED
        BY <4>2, <4>3, <4>4
    <3> QED
      BY <2>1, <3>1 DEF BlocksInv
  <2>7. CASE SaveEnd
    <3>1. Ends /\ (promise'[saver.dir].sound => Whole)
      BY <2>7, SaveEnds
    <3>2. state = "running"
      BY <3>1, SavesRun DEF Ends, Saving, Base, NamesInv
    <3>3. ASSUME promise'[saver.dir].sound PROVE trusted /\ DirBlocks(saver.dir)
      <4>1. Whole /\ MemBlocks
        BY <3>1, <3>3 DEF Whole, BlocksInv
      <4>2. mem.ver \in Versions /\ mem.map \in Mappings /\ mem.free \in SUBSET Blocks
        BY <1>0 DEF MemOK, Memories
      <4> QED
        BY <4>1, <4>2, NoneIsNoFile DEF Whole, DirBlocks, MemBlocks, BlocksOf
    <3>4. ASSUME NEW d \in Dirs, promise'[d].sound PROVE trusted /\ DirBlocks(d)
      <4>1. CASE d = saver.dir
        BY <3>3, <3>4, <4>1
      <4>2. CASE d # saver.dir
        BY <3>1, <3>4, <4>2 DEF Ends, BlocksInv
      <4> QED
        BY <4>1, <4>2
    <3>5. UNCHANGED <<mem, disk, trusted, state>>
      BY <3>1 DEF Ends
    <3>6. \A d : DirBlocks(d)' <=> DirBlocks(d)
      BY <3>5 DEF DirBlocks
    <3> QED
      BY <2>1, <3>2, <3>4, <3>5, <3>6 DEF BlocksInv
  <2> QED
    BY <2>4, <2>5, <2>6, <2>7
<1> QED
  BY <1>1, <1>2

-----------------------------------------------------------------------------

(***************************************************************************)
(* The heads a translation file names: HeadsNamed                          *)
(***************************************************************************)

LEMMA RunFrame ==
    ASSUME Base, [Next]_vars
    PROVE  /\ UNCHANGED setting
           /\ LoadIndex \/ RecoverIndex \/ UNCHANGED trusted
           /\ LoadIndex \/ RecoverIndex \/ BuildIndex \/ BuildEnd \/ RecoverEnd \/ Crash \/ UNCHANGED state
<1>1. CASE \E c \in Clients : Updates(c)
  BY <1>1, UpdateFrame DEF Updates, Base, Types
<1>2. CASE \E h \in HeadIds : SplitJob(h) \/ RefinePosting(h)
  BY <1>2 DEF SplitJob, RefinePosting, history
<1>3. CASE BuildIndex \/ BuildEnd \/ LoadIndex \/ RecoverIndex \/ ReplayAdd \/ ReplayDelete \/ RecoverEnd \/ SaveEnd \/ Crash
  BY <1>3 DEF BuildIndex, BuildEnd, LoadIndex, RecoverIndex, ReplayAdd, ReplayDelete, RecoverEnd, SaveEnd, Crash, history
<1>4. CASE SaveIndex \/ Checkpoint \/ OpenFiles \/ SaveMetadata \/ SaveHeadIndex \/ SaveHeadFolder
           \/ SaveTranslateMap \/ SaveVersionMap
  BY <1>4 DEF SaveIndex, Checkpoint, OpenFiles, SaveMetadata, SaveHeadIndex, SaveHeadFolder, SaveTranslateMap, SaveVersionMap, history
<1>5. CASE SaveMapping \/ SavePool \/ ClearLog \/ RefineFiles \/ Reload \/ UNCHANGED vars
  BY <1>5 DEF SaveMapping, SavePool, ClearLog, RefineFiles, Reload, history, vars
<1> QED
  BY <1>1, <1>2, <1>3, <1>4, <1>5, NextCases DEF Starts

SameHeads == mem'.heads = mem.heads /\ mem'.vec = mem.vec /\ mem'.trans = mem.trans

\* The steps that change the head index.
LEMMA HeadsFrame ==
    ASSUME Base, [Next]_vars
    PROVE  \/ SameHeads
           \/ BuildIndex \/ BuildEnd \/ LoadIndex \/ RecoverIndex \/ Reload
           \/ \E h \in HeadIds : SplitJob(h)
<1>0. MemOK /\ mem \in Memories /\ blocks \in Postings
  BY DEF Base, Types, MemOK
<1>1. ASSUME NEW c \in Clients, Updates(c) PROVE SameHeads
  <2>1. CASE AddBatch(c) \/ AddLog(c) \/ DeleteLog(c) \/ DeleteMark(c)
    BY <1>0, <2>1 DEF AddBatch, AddLog, DeleteLog, DeleteMark, durable, Memories, SameHeads
  <2>2. CASE AddAppend(c)
    <3>1. PICK h \in mem.heads : AppendTo(h, <<op[c].id, op[c].vec>>)
      BY <2>2 DEF AddAppend
    <3> QED
      BY <1>0, <3>1, AppendEffect DEF AppendAs, PutAs, SameHeads
  <2> QED
    BY <1>1, <2>1, <2>2 DEF Updates
<1>2. ASSUME NEW h \in HeadIds, RefinePosting(h) PROVE SameHeads
  BY <1>2, RefinePostingEffect DEF RewriteAs, PutAs, SameHeads
<1>3. CASE ReplayAdd
  <2>1. PICK h \in HeadIds, b \in Blocks, V \in Versions : ReplayAs(h, b, V)
    BY <1>3, ReplayEffect
  <2> DEFINE m == [mem EXCEPT !.ver = V]
  <2>2. m.heads = mem.heads /\ m.vec = mem.vec /\ m.trans = mem.trans
    BY <1>0 DEF Memories
  <2>3. PutAs(mem', m, h, b)
    BY <2>1 DEF ReplayAs
  <2> HIDE DEF m
  <2> QED
    BY <2>2, <2>3 DEF PutAs, SameHeads
<1>4. CASE ReplayDelete
  BY <1>0, <1>4 DEF ReplayDelete, Memories, SameHeads
<1>5. CASE SavePool
  BY <1>5, WriteSteps DEF PoolSaved, SameHeads
<1>6. CASE RecoverEnd \/ SaveEnd \/ Crash \/ SaveIndex \/ Checkpoint \/ OpenFiles \/ SaveMetadata \/ SaveHeadIndex
  BY <1>6 DEF RecoverEnd, SaveEnd, Crash, SaveIndex, Checkpoint, OpenFiles, SaveMetadata, SaveHeadIndex, SameHeads
<1>7. CASE SaveHeadFolder \/ SaveTranslateMap \/ SaveVersionMap \/ SaveMapping \/ ClearLog \/ RefineFiles \/ UNCHANGED vars
  BY <1>7 DEF SaveHeadFolder, SaveTranslateMap, SaveVersionMap, SaveMapping, ClearLog, RefineFiles, vars, SameHeads
<1> QED
  BY <1>1, <1>2, <1>3, <1>4, <1>5, <1>6, <1>7, NextCases DEF Starts

SameTransFile == disk'["index"].trans = disk["index"].trans

\* The steps that change the translation file.
LEMMA TransFrame ==
    ASSUME Base, [Next]_vars
    PROVE  SameTransFile \/ BuildEnd \/ OpenFiles \/ RefineFiles \/ SaveTranslateMap
<1>1. ASSUME NEW file \in Files, NEW x, Wrote(file, x), file # "trans" PROVE SameTransFile
  <2>1. disk'[saver.dir].trans = disk[saver.dir].trans /\ \A d \in Dirs : d # saver.dir => disk'[d] = disk[d]
    BY <1>1 DEF Wrote, Files
  <2> QED
    BY <2>1 DEF SameTransFile, Dirs
<1>2. CASE SaveMetadata \/ SaveHeadIndex \/ SaveHeadFolder \/ SaveVersionMap \/ SaveMapping \/ SavePool
  <2>1. \E file \in Files \ {"trans"} : \E x : Wrote(file, x)
    BY <1>2, WriteSteps DEF Files
  <2> QED
    BY <1>1, <2>1
<1>3. CASE \E c \in Clients : Updates(c)
  BY <1>3, UpdateFrame DEF Updates, Base, Types, SameTransFile
<1>4. CASE \E h \in HeadIds : SplitJob(h) \/ RefinePosting(h)
  BY <1>4 DEF SplitJob, RefinePosting, SameTransFile
<1>5. CASE BuildIndex \/ LoadIndex \/ RecoverIndex \/ ReplayAdd \/ ReplayDelete \/ RecoverEnd \/ SaveEnd \/ Crash
  BY <1>5 DEF BuildIndex, LoadIndex, RecoverIndex, ReplayAdd, ReplayDelete, RecoverEnd, SaveEnd, Crash, durable, SameTransFile
<1>6. CASE SaveIndex \/ Checkpoint \/ ClearLog \/ Reload \/ UNCHANGED vars
  BY <1>6 DEF SaveIndex, Checkpoint, ClearLog, Reload, durable, vars, SameTransFile
<1> QED
  BY <1>2, <1>3, <1>4, <1>5, <1>6, NextCases DEF Starts

Nameless(t) == \A i \in DOMAIN t : t[i] = NoId

LEMMA SplitNameless ==
    ASSUME Base, NEW h \in HeadIds, SplitJob(h), ~setting.excludeHead, Nameless(mem.trans)
    PROVE  Nameless(mem'.trans)
<1>0. Types /\ mem \in Memories /\ blocks \in Postings
  BY DEF Base, Types, MemOK
<1>1. PICK b1 \in Blocks, b2 \in Blocks : SplitAs(h, b1, b2)
  BY <1>0, SplitEffect
<1>2. ASSUME NEW p, NEW m \in Memories, NEW e, NEW b, NewHeadAs(p, m, e, b), Nameless(m.trans)
      PROVE  Nameless(p.trans)
  <2>1. p.trans = Append(m.trans, NoId) /\ m.trans \in Seq(Ids \cup {NoId})
    BY <1>2 DEF NewHeadAs, Memories, Translations
  <2> QED
    BY <1>2, <2>1 DEF Nameless
<1>3. CASE SplitKept(h, b1)
  BY <1>3 DEF SplitKept, PutAs, Nameless
<1>4. ASSUME NEW first \in SUBSET Current(h), NEW e1 \in first, NEW e2 \in Current(h) \ first, SplitSame(h, first, e2, b1, b2)
      PROVE  Nameless(mem'.trans)
  BY <1>2, <1>4 DEF SplitSame, PutAs, Nameless
<1>5. ASSUME NEW first \in SUBSET Current(h), NEW e1 \in first, NEW e2 \in Current(h) \ first, SplitTwo(h, first, e1, e2, b1, b2)
      PROVE  Nameless(mem'.trans)
  <2>1. PICK p \in Memories, q \in Memories, r \in Memories :
          /\ DropAs(p, mem, h) /\ NewHeadAs(q, p, e1, b1) /\ NewHeadAs(r, q, e2, b2)
          /\ mem' = [r EXCEPT !.heads = r.heads \ {h}]
    BY <1>5 DEF SplitTwo
  <2>2. Nameless(p.trans)
    BY <2>1 DEF DropAs, Nameless
  <2>3. Nameless(q.trans)
    BY <1>2, <2>1, <2>2
  <2>4. Nameless(r.trans)
    BY <1>2, <2>1, <2>3
  <2>5. mem'.trans = r.trans
    BY <2>1 DEF Memories
  <2> QED
    BY <2>4, <2>5 DEF Nameless
<1> QED
  BY <1>1, <1>3, <1>4, <1>5 DEF SplitAs

LEMMA NoneNamedNext ==
    ASSUME Base, FilesInv, NoneNamed, [Next]_vars
    PROVE  NoneNamed'
<1> SUFFICES ASSUME ~setting'.excludeHead
             PROVE  /\ state' \notin {"empty", "building"} => Nameless(mem'.trans)
                    /\ disk'["index"].trans # None => Nameless(disk'["index"].trans)
  BY DEF NoneNamed, Nameless
<1>0. /\ ~setting.excludeHead /\ MemOK /\ mem \in Memories /\ disk \in [Dirs -> Directories] /\ "index" \in Dirs
      /\ disk["index"] \in Directories
      /\ state \notin {"empty", "building"} => Nameless(mem.trans)
      /\ disk["index"].trans # None => Nameless(disk["index"].trans)
  BY RunFrame DEF NoneNamed, Base, Types, MemOK, DiskOK, Dirs, Nameless
<1> DEFINE none == [i \in DOMAIN mem.trans |-> NoId]
<1>1. ASSUME BuildEnd PROVE mem'.trans = none /\ disk'["index"].trans = none
  <2>1. mem' = [mem EXCEPT !.trans = none]
        /\ disk' = [disk EXCEPT !["index"] = [@ EXCEPT !.head = HeadFile(mem), !.trans = none, !.ver = mem.ver]]
    BY <1>0, <1>1 DEF BuildEnd
  <2>2. [mem EXCEPT !.trans = none].trans = none
    BY <1>0 DEF Memories
  <2>3. [disk["index"] EXCEPT !.head = HeadFile(mem), !.trans = none, !.ver = mem.ver].trans = none
    BY <1>0 DEF Directories
  <2> DEFINE f == [disk["index"] EXCEPT !.head = HeadFile(mem), !.trans = none, !.ver = mem.ver]
  <2>4. disk' = [disk EXCEPT !["index"] = f]
    BY <2>1
  <2> HIDE DEF f
  <2>5. disk'["index"] = f
    BY <1>0, <2>4
  <2>6. f.trans = none
    BY <2>3 DEF f
  <2> HIDE DEF none
  <2> QED
    BY <2>1, <2>2, <2>5, <2>6
<1>2. Nameless(none)
  BY DEF Nameless
<1> HIDE DEF none
<1>3. state' \notin {"empty", "building"} => Nameless(mem'.trans)
  <2>0. SUFFICES ASSUME state' \notin {"empty", "building"} PROVE Nameless(mem'.trans)
    OBVIOUS
  <2>1. ASSUME SameHeads, ~BuildEnd PROVE Nameless(mem'.trans)
    <3>1. state \notin {"empty", "building"} \/ LoadIndex \/ RecoverIndex
      BY <2>0, <2>1, RunFrame DEF BuildEnd, BuildIndex, RecoverEnd, Crash
    <3>2. CASE state \notin {"empty", "building"}
      BY <1>0, <2>1, <3>2 DEF SameHeads
    <3>3. CASE LoadIndex \/ RecoverIndex
      BY <1>0, <2>1, <3>3 DEF LoadIndex, RecoverIndex, SameHeads
    <3> QED
      BY <3>1, <3>2, <3>3
  <2>2. CASE BuildIndex
    BY <2>0, <2>2 DEF BuildIndex
  <2>3. CASE BuildEnd
    BY <1>1, <1>2, <2>3
  <2>4. CASE LoadIndex \/ RecoverIndex
    <3>1. PICK d \in Dirs : mem' = LoadedFrom(d) /\ disk["index"].trans # None
      BY <2>4 DEF LoadIndex, RecoverIndex, Dirs
    <3>2. mem'.trans = disk["index"].trans
      BY <3>1 DEF LoadedFrom
    <3> QED
      BY <1>0, <3>1, <3>2
  <2>5. CASE Reload
    <3>1. mem'.trans = disk["index"].trans /\ disk["index"].trans # None
      BY <2>5, ReloadType DEF FilesInv
    <3> QED
      BY <1>0, <3>1
  <2>6. ASSUME NEW h \in HeadIds, SplitJob(h) PROVE Nameless(mem'.trans)
    <3>1. state \notin {"empty", "building"}
      BY <2>0, <2>6 DEF SplitJob
    <3> QED
      BY <1>0, <2>6, <3>1, SplitNameless
  <2> QED
    BY <2>0, <2>1, <2>2, <2>3, <2>4, <2>5, <2>6, HeadsFrame
<1>4. disk'["index"].trans # None => Nameless(disk'["index"].trans)
  <2>1. CASE SameTransFile
    BY <1>0, <2>1 DEF SameTransFile
  <2>2. CASE BuildEnd
    BY <1>1, <1>2, <2>2
  <2>3. CASE OpenFiles
    <3>1. disk'["index"].trans = None
      BY <1>0, <2>3 DEF OpenFiles, Directories
    <3> QED
      BY <3>1
  <2>4. CASE RefineFiles
    <3>1. state = "running"
      BY <2>4, SavesRun DEF RefineFiles, AtStep, Base, NamesInv
    <3>2. Nameless(mem.trans)
      BY <1>0, <3>1
    <3>3. disk'["index"].trans = FileOfTrans
      BY <1>0, <2>4 DEF RefineFiles, FileOfTrans, Directories
    <3>4. \A i \in DOMAIN HeadOrder : HeadOrder[i] \in 0..(Len(mem.vec) - 1)
      BY OrderNumbers DEF Base, Types, Numbered, MemOK, HeadsOK
    <3>5. mem.trans \in Seq(Ids \cup {NoId})
      BY <1>0 DEF Memories, Translations
    <3>6. ASSUME NEW i \in DOMAIN HeadOrder, HeadOrder[i] < Len(mem.trans) PROVE mem.trans[HeadOrder[i] + 1] = NoId
      <4>1. HeadOrder[i] + 1 \in DOMAIN mem.trans
        BY <3>4, <3>5, <3>6
      <4> QED
        BY <3>2, <4>1 DEF Nameless
    <3>7. RefineHeadId(NoId) = NoId
      BY DEF RefineHeadId
    <3> QED
      BY <3>3, <3>6, <3>7 DEF FileOfTrans, Nameless
  <2>5. CASE SaveTranslateMap
    <3>1. disk'[saver.dir].trans = mem.trans /\ AtStep("trans") /\ SaverOK /\ state = "running"
      BY <2>5, WriteSteps, SavesRun DEF Wrote, SaveTranslateMap, AtStep, Base, Types, NamesInv
    <3>2. saver.dir = "index"
      BY <3>1, AtTrans, SaverDirs
    <3> QED
      BY <1>0, <3>1, <3>2
  <2> QED
    BY <2>1, <2>2, <2>3, <2>4, <2>5, TransFrame
<1> QED
  BY <1>3, <1>4

LEMMA AllNamedNext ==
    ASSUME Base, FilesInv, SaveBreaks, SaveQuiet, SaveWritten, BlocksInv, HeadsNamed, [Next]_vars
    PROVE  AllNamed'
<1> SUFFICES ASSUME setting'.excludeHead
             PROVE  /\ trusted' => Len(mem'.trans) = Len(mem'.vec)
                    /\ promise'["index"].sound =>
                        disk'["index"].trans # None /\ Len(disk'["index"].trans) = Len(disk'["index"].head.vec)
  BY DEF AllNamed
<1>0. /\ setting.excludeHead /\ MemOK /\ mem \in Memories /\ ~promise["buffer"].sound /\ "index" \in Dirs
      /\ trusted => Len(mem.trans) = Len(mem.vec)
      /\ promise["index"].sound =>
            disk["index"].trans # None /\ Len(disk["index"].trans) = Len(disk["index"].head.vec)
  BY RunFrame DEF HeadsNamed, AllNamed, BufferNamed, Base, Types, MemOK, Dirs
<1>1. ASSUME trusted' PROVE Len(mem'.trans) = Len(mem'.vec)
  <2>1. CASE LoadIndex
    <3>1. promise["index"].sound /\ mem' = LoadedFrom("index")
      BY <1>1, <2>1 DEF LoadIndex
    <3>2. mem'.vec = disk["index"].head.vec /\ mem'.trans = disk["index"].trans
      BY <3>1 DEF LoadedFrom
    <3> QED
      BY <1>0, <3>1, <3>2
  <2>2. CASE RecoverIndex
    BY <1>0, <1>1, <2>2 DEF RecoverIndex
  <2>3. CASE Reload
    BY <2>3, ReloadType DEF FilesInv
  <2>4. CASE BuildIndex
    <3>1. setting \in Settings
      BY DEF Base, Types, RunOK
    <3>2. mem'.vec = HeadSeq /\ mem'.trans = HeadSeq
      BY <2>4, <3>1, BuildEffect DEF BuiltAs
    <3> QED
      BY <3>2
  <2>5. trusted \/ LoadIndex \/ RecoverIndex
    BY <1>1, RunFrame
  <2>6. CASE BuildEnd
    <3>1. mem' = [mem EXCEPT !.trans = mem.trans]
      BY <1>0, <2>6 DEF BuildEnd
    <3>2. mem'.vec = mem.vec /\ mem'.trans = mem.trans
      BY <1>0, <3>1 DEF Memories
    <3>3. trusted
      BY <2>6, <2>5 DEF BuildEnd, LoadIndex, RecoverIndex
    <3> QED
      BY <1>0, <3>2, <3>3
  <2>7. ASSUME NEW h \in HeadIds, SplitJob(h) PROVE Len(mem'.trans) = Len(mem'.vec)
    <3>1. SplitShape(h) /\ trusted
      BY <1>1, <2>7, SplitShapes DEF SplitJob, history
    <3> QED
      BY <1>0, <3>1 DEF SplitShape
  <2>8. CASE SameHeads /\ ~LoadIndex /\ ~RecoverIndex
    BY <1>0, <2>5, <2>8 DEF SameHeads
  <2> QED
    BY <2>1, <2>2, <2>3, <2>4, <2>6, <2>7, <2>8, HeadsFrame
<1>2. ASSUME promise'["index"].sound
      PROVE  disk'["index"].trans # None /\ Len(disk'["index"].trans) = Len(disk'["index"].head.vec)
  <2>1. CASE ~SaveEnd
    <3>1. Untouched("index")
      BY <1>0, <1>2, <2>1, SoundUntouched
    <3> QED
      BY <1>0, <3>1 DEF Untouched
  <2>2. CASE SaveEnd
    <3>1. Ends /\ (promise'[saver.dir].sound => Whole)
      BY <2>2, SaveEnds
    <3>2. CASE saver.dir = "index"
      <4>1. Whole /\ saver.kind \in {"save", "refine"}
        BY <1>2, <3>1, <3>2 DEF Ends, SaverOK, Saving, Base, Types
      <4>2. disk["index"].head = HeadsNow /\ disk["index"].trans = mem.trans /\ trusted
        BY <4>1 DEF Whole
      <4>3. mem.trans \in Translations
        BY <1>0 DEF Memories
      <4>4. disk["index"].trans # None /\ Len(disk["index"].trans) = Len(disk["index"].head.vec)
        BY <1>0, <4>2, <4>3, NoneIsNoFile DEF HeadsNow
      <4> QED
        BY <3>1, <4>4 DEF Ends
    <3>3. CASE saver.dir # "index"
      BY <1>0, <1>2, <3>1, <3>3 DEF Ends
    <3> QED
      BY <3>2, <3>3
  <2> QED
    BY <2>1, <2>2
<1> QED
  BY <1>1, <1>2

LEMMA BufferNamedNext ==
    ASSUME Base, SaveBreaks, SaveQuiet, SaveWritten, BlocksInv, BufferNamed, [Next]_vars
    PROVE  BufferNamed'
<1> SUFFICES ASSUME promise'["buffer"].sound
             PROVE  ~setting'.excludeHead /\ (promise'["buffer"].logged => setting'.wal)
  BY DEF BufferNamed
<1>0. "buffer" \in Dirs /\ setting' = setting
  BY RunFrame DEF Dirs
<1>1. CASE ~SaveEnd
  <2>1. Untouched("buffer")
    BY <1>0, <1>1, SoundUntouched
  <2> QED
    BY <1>0, <2>1 DEF Untouched, BufferNamed
<1>2. CASE SaveEnd
  <2>1. Ends /\ (promise'[saver.dir].sound => Whole)
    BY <1>2, SaveEnds
  <2> QED
    BY <1>0, <2>1 DEF Ends, Whole, BufferNamed
<1> QED
  BY <1>1, <1>2

LEMMA UntrustedNext ==
    ASSUME Base, Untrusted, [Next]_vars
    PROVE  Untrusted'
<1> SUFFICES ASSUME ~trusted'
             PROVE  sure' = {} /\ gone' = {} /\ \A c \in Clients : op'[c].kind # "delete"
  BY DEF Untrusted
<1>0. OpsOK /\ SaverOK
  BY DEF Base, Types
<1>1. \A c \in Clients : Idle.kind # "delete"
  BY DEF Idle
<1>2. CASE LoadIndex \/ RecoverIndex
  <2>1. sure' = {} /\ gone' = {} /\ UNCHANGED op /\ state = "down"
    BY <1>2 DEF LoadIndex, RecoverIndex
  <2>2. \A c \in Clients : op[c] = Idle
    BY <2>1 DEF Base, NamesInv, StatesInv
  <2> QED
    BY <1>1, <2>1, <2>2
<1> SUFFICES ASSUME ~LoadIndex, ~RecoverIndex
             PROVE  sure' = {} /\ gone' = {} /\ \A c \in Clients : op'[c].kind # "delete"
  BY <1>2
<1>3. sure = {} /\ gone = {} /\ ~trusted /\ \A c \in Clients : op[c].kind # "delete"
  BY RunFrame DEF Untrusted
<1>4. ASSUME UNCHANGED <<sure, gone, op>> PROVE sure' = {} /\ gone' = {} /\ \A c \in Clients : op'[c].kind # "delete"
  BY <1>3, <1>4
<1>5. CASE BuildIndex
  BY <1>3, <1>5 DEF BuildIndex, Base, NamesInv, StatesInv
<1>6. CASE BuildEnd \/ ReplayAdd \/ ReplayDelete \/ RecoverEnd \/ SaveIndex \/ Checkpoint \/ OpenFiles \/ SaveMetadata
  BY <1>4, <1>6 DEF BuildEnd, ReplayAdd, ReplayDelete, RecoverEnd, SaveIndex, Checkpoint, OpenFiles, SaveMetadata, history
<1>7. CASE SaveHeadIndex \/ SaveHeadFolder \/ SaveTranslateMap \/ SaveVersionMap \/ SaveMapping \/ SavePool
           \/ ClearLog \/ SaveEnd \/ UNCHANGED vars
  BY <1>4, <1>7 DEF SaveHeadIndex, SaveHeadFolder, SaveTranslateMap, SaveVersionMap, SaveMapping, SavePool, ClearLog, SaveEnd, history, vars
<1>8. CASE Crash
  BY <1>1, <1>3, <1>8 DEF Crash
<1>9. CASE RefineFiles
  <2>1. sure' = sure /\ gone' = gone
        /\ op' = [c \in Clients |-> IF op[c] = Idle THEN Idle ELSE [op[c] EXCEPT !.renumbered = TRUE]]
    BY <1>9 DEF RefineFiles, history
  <2>2. \A c \in Clients : [op[c] EXCEPT !.renumbered = TRUE].kind = op[c].kind
    BY <1>0 DEF OpsOK, Operations
  <2>3. ASSUME NEW c \in Clients PROVE op'[c].kind # "delete"
    <3>1. op'[c] = IF op[c] = Idle THEN Idle ELSE [op[c] EXCEPT !.renumbered = TRUE]
      BY <2>1
    <3> QED
      BY <1>1, <1>3, <2>2, <3>1
  <2> QED
    BY <1>3, <2>1, <2>3
<1>10. CASE Reload
  BY <1>3, <1>10 DEF Reload
<1>11. ASSUME NEW h \in HeadIds, SplitJob(h) \/ RefinePosting(h)
       PROVE  sure' = {} /\ gone' = {} /\ \A c \in Clients : op'[c].kind # "delete"
  BY <1>4, <1>11 DEF SplitJob, RefinePosting, history
<1>12. ASSUME NEW c \in Clients, Updates(c)
       PROVE  sure' = {} /\ gone' = {} /\ \A d \in Clients : op'[d].kind # "delete"
  <2>1. ASSUME NEW o, op' = [op EXCEPT ![c] = o], o.kind # "delete" PROVE \A d \in Clients : op'[d].kind # "delete"
    BY <1>0, <1>3, <2>1 DEF OpsOK
  <2>2. CASE AddBatch(c)
    BY <1>3, <2>1, <2>2 DEF AddBatch, history
  <2>3. CASE AddLog(c)
    <3> DEFINE o == [op[c] EXCEPT !.kind = "append"]
    <3>1. op' = [op EXCEPT ![c] = o] /\ UNCHANGED <<sure, gone>>
      BY <2>3 DEF AddLog, history
    <3>2. o.kind = "append"
      BY <1>0 DEF OpsOK, Operations
    <3> QED
      BY <1>3, <2>1, <3>1, <3>2
  <2>4. CASE AddAppend(c)
    BY <1>1, <1>3, <2>1, <2>4 DEF AddAppend
  <2>5. CASE DeleteLog(c)
    BY <1>3, <2>5 DEF DeleteLog
  <2>6. CASE DeleteMark(c)
    BY <1>3, <2>6 DEF DeleteMark
  <2> QED
    BY <1>12, <2>2, <2>3, <2>4, <2>5, <2>6 DEF Updates
<1> QED
  BY <1>5, <1>6, <1>7, <1>8, <1>9, <1>10, <1>11, <1>12, NextCases DEF Starts

-----------------------------------------------------------------------------

(***************************************************************************)
(* Saves: the invariant                                                    *)
(***************************************************************************)

LEMMA InitSaves == Init => SavesInv
<1> SUFFICES ASSUME Init PROVE SavesInv
  OBVIOUS
<1>1. ~Saving /\ ~InRefine /\ ~Reloaded /\ ~PlainSave
  BY DEF Init, Saving, InRefine, Reloaded, PlainSave, NoSave
<1>2. SaveBreaks /\ SaveQuiet /\ SaveWritten /\ FilesInv /\ RefineWritten
  BY <1>1 DEF SaveBreaks, SaveQuiet, SaveWritten, WrittenSave, WrittenCheckpoint, WrittenReloaded, WrittenBlocks,
              FilesInv, RefineWritten, Saving, Init, NoSave
<1>3. mem.map = NoMap /\ mem.reserve = {} /\ mem.free = Blocks /\ NoBlock \notin Blocks
  BY LifecycleBounds DEF Init, NoBlock, Blocks
<1>4. MemBlocks
  BY <1>3 DEF MemBlocks, BlocksOf, OneOwner, Apart, NoMap
<1>5. \A d \in Dirs : ~promise[d].sound
  BY DEF Init, Void
<1>6. disk["index"].trans = None
  BY DEF Init, NoFiles, Dirs
<1>7. BlocksInv /\ HeadsNamed /\ Untrusted
  BY <1>4, <1>5, <1>6 DEF BlocksInv, HeadsNamed, NoneNamed, AllNamed, BufferNamed, Untrusted, Init, Dirs
<1> QED
  BY <1>2, <1>7 DEF SavesInv

LEMMA SavesNext ==
    ASSUME Base, SavesInv, [Next]_vars
    PROVE  SavesInv'
<1>1. SaveBreaks' /\ SaveQuiet'
  BY SaveBreaksNext, SaveQuietNext DEF SavesInv
<1>2. SaveWritten'
  BY WrittenSaveNext, WrittenCheckpointNext, WrittenReloadedNext, WrittenBlocksNext DEF SavesInv, SaveWritten
<1>3. FilesInv' /\ RefineWritten'
  BY FilesNext, RefineWrittenNext DEF SavesInv
<1>4. BlocksInv'
  BY BlocksInvNext DEF SavesInv
<1>5. HeadsNamed'
  BY NoneNamedNext, AllNamedNext, BufferNamedNext DEF SavesInv, HeadsNamed
<1>6. Untrusted'
  BY UntrustedNext DEF SavesInv
<1> QED
  BY <1>1, <1>2, <1>3, <1>4, <1>5, <1>6 DEF SavesInv

LEMMA SavesInvariant == Spec => [](Base /\ SavesInv)
<1>1. Init => Base /\ SavesInv
  BY InitBase, InitSaves
<1>2. Base /\ SavesInv /\ [Next]_vars => (Base /\ SavesInv)'
  BY BaseNext, SavesNext DEF SavesInv
<1> QED
  BY <1>1, <1>2, PTL DEF Spec

\* No block of a posting is free, kept for the next checkpoint or another
\* posting's, in an index that was built or loaded from files that belong
\* together: BlockController gives out what no mapping in use refers to.
\* (Without the condition it is the claim that PostingsKept refutes.)
THEOREM PostingsApart == Spec => [](trusted => MemBlocks)
<1>1. Base /\ SavesInv => (trusted => MemBlocks)
  BY DEF SavesInv, BlocksInv
<1> QED
  BY <1>1, SavesInvariant, PTL

LEMMA SavedKeptNext ==
    ASSUME Base, SavesInv, [Next]_vars
    PROVE  SavedKept
<1> SUFFICES ASSUME NEW d \in Dirs, promise[d].sound, promise'[d].sound, ~SaveEnd
             PROVE  /\ disk'[d] = disk[d]
                    /\ \A h \in HeadIds : disk[d].map[h] # NoBlock =>
                            blocks'[disk[d].map[h]] = blocks[disk[d].map[h]]
  BY DEF SavedKept
<1>1. disk'[d] = disk[d]
  BY SoundUntouched DEF SavesInv, Untouched
<1>2. Apart(disk[d].map, mem.free) /\ state # "empty" /\ disk[d].map \in Mappings
  BY DEF SavesInv, BlocksInv, DirBlocks, Base, Types, DiskOK, Directories, File
<1>3. ASSUME NEW h \in HeadIds, disk[d].map[h] # NoBlock PROVE blocks'[disk[d].map[h]] = blocks[disk[d].map[h]]
  <2>1. disk[d].map[h] \in Blocks /\ disk[d].map[h] \notin mem.free
    BY <1>2, <1>3 DEF Apart, Mappings
  <2>2. CASE Stores
    BY <2>1, <2>2 DEF Stores
  <2>3. CASE SavePool \/ LoadIndex \/ RecoverIndex
    BY <2>3 DEF SavePool, LoadIndex, RecoverIndex, durable
  <2>4. ~BuildIndex
    BY <1>2 DEF BuildIndex
  <2> QED
    BY <2>2, <2>3, <2>4, StoresNext DEF SavesInv
<1> QED
  BY <1>1, <1>3

\* What was saved is not written in place: as long as a directory can be relied
\* on, its files and the blocks its mapping names stay as they are (SavedStays).
THEOREM SavedPostingsKept == Spec => SavedStays
<1>1. Base /\ SavesInv /\ [Next]_vars => [SavedKept]_vars
  BY SavedKeptNext
<1> QED
  BY <1>1, SavesInvariant, PTL DEF Spec, SavedStays
=============================================================================
