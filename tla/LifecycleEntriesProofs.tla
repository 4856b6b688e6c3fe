----------------------- MODULE LifecycleEntriesProofs -----------------------
(***************************************************************************)
(* Proofs about what an index holds through its life, for any vectors,     *)
(* heads, blocks, clients and settings: ids mean the same in every part.   *)
(* The invariant follows every entry of a posting and every head through   *)
(* memory, the files of a compaction and those of a save: what its id is   *)
(* called, what is claimed of its vector, and what the records of the log  *)
(* say of both, so that a recovery gives back what was acknowledged.       *)
(***************************************************************************)
EXTENDS LifecycleProofs

(***************************************************************************)
(* Entries: what is stored under the heads of a set, and the heads         *)
(* themselves where they are in no posting.                                *)
(***************************************************************************)

Stands(m, h) == h < Len(m.trans) /\ h < Len(m.vec) /\ m.trans[h + 1] # NoId

InPostings(m, H) == UNION {Posting(m, h) : h \in H}
AsHeads(m, H) ==
    IF setting.excludeHead THEN {<<m.trans[h + 1], m.vec[h + 1]>> : h \in {g \in H : Stands(m, g)}} ELSE {}
Entries(m, H) == InPostings(m, H) \cup AsHeads(m, H)

\* A queued split reads the posting of its head, also when a compaction has
\* meanwhile given the head another number.
Known == Entries(mem, mem.heads \cup jobs)
Reached == Entries(mem, mem.heads)
SavedIn(d) == Entries(LoadedFrom(d), disk[d].head.heads)

\* What a compaction will load, of the postings it has rewritten and of those
\* it still has to.
Kept == {x \in InPostings(mem, todo) : Live(mem.ver, x[1])}
Rewritten == UNION {Posting(mem, NewId(HeadOrder, h)) : h \in mem.heads \ todo}
Renumbered == {<<NewId(VectorOrder, e[1]), e[2]>> : e \in Kept}
NewHeads == AsHeads(LoadedFrom("index"), disk["index"].head.heads)
Coming == Renumbered \cup Rewritten \cup NewHeads
Misnamed == {mem.vec[h + 1] : h \in {g \in mem.heads : /\ g < Len(mem.trans) /\ mem.trans[g + 1] # NoId
                                                       /\ ~Live(mem.ver, mem.trans[g + 1])}}

(***************************************************************************)
(* Labels: the metadata of an entry is its vector's, in memory, in the     *)
(* files of a compaction and in those of a save.                           *)
(***************************************************************************)

Labelled(E, meta, ver) == \A e \in E : e[1] < Len(ver) /\ (e[1] < Len(meta) => meta[e[1] + 1] \in {NoId, e[2]})
LabelsFit(meta, ver) == Len(meta) <= Len(ver) /\ (~setting.spfresh => Len(meta) = Len(ver))

LabelsRun ==
    /\ labelled => trusted /\ ~Reloaded /\ state # "replay"
    /\ saver.labelled => trusted /\ (labelled \/ Reloaded)

\* An entry's id, and that of a vector being added, is of the version map.
MemLabelled ==
    /\ Labelled(Known, mem.meta, mem.ver) /\ LabelsFit(mem.meta, mem.ver)
    /\ \A c \in Clients : Adds(c) => /\ op[c].id < Len(mem.ver)
                                     /\ op[c].id < Len(mem.meta) => mem.meta[op[c].id + 1] = op[c].vec

LabelsInMemory == labelled /\ ~InRefine /\ state \in {"building", "running"} => MemLabelled

LabelsComing ==
    InRefine /\ saver.quiet /\ saver.labelled =>
        /\ disk["index"].meta # None /\ LabelsFit(disk["index"].meta, disk["index"].ver)
        /\ Misnamed = {} => Labelled(Coming, disk["index"].meta, disk["index"].ver)

LabelsReloaded ==
    Reloaded /\ saver.quiet /\ saver.labelled =>
        /\ disk["index"].meta # None /\ LabelsFit(disk["index"].meta, mem.ver)
        /\ Labelled(Known, disk["index"].meta, mem.ver)

LabelsSaved ==
    promise["index"].sound /\ promise["index"].labelled =>
        /\ disk["index"].meta # None /\ LabelsFit(disk["index"].meta, disk["index"].ver)
        /\ Labelled(SavedIn("index"), disk["index"].meta, disk["index"].ver)

LabelsInv == LabelsRun /\ LabelsInMemory /\ LabelsComing /\ LabelsReloaded /\ LabelsSaved

-----------------------------------------------------------------------------

(***************************************************************************)
(* What the steps do to the entries                                        *)
(***************************************************************************)

\* The posting of g in a memory m over the blocks B, and what is stored under
\* the heads of H.
At(m, B, g) == IF m.map[g] = NoBlock THEN {} ELSE B[m.map[g]]
HeadEntry(m, g) == <<m.trans[g + 1], m.vec[g + 1]>>
Holds(m, B, H, e) ==
    \/ \E g \in H : e \in At(m, B, g)
    \/ setting.excludeHead /\ \E g \in H : Stands(m, g) /\ e = HeadEntry(m, g)

LEMMA EntriesAre ==
    ASSUME NEW m, NEW H
    PROVE  \A e : e \in Entries(m, H) <=> Holds(m, blocks, H, e)
<1>1. \A e : e \in InPostings(m, H) <=> \E g \in H : e \in At(m, blocks, g)
  BY DEF InPostings, Posting, At
<1>2. \A e : e \in AsHeads(m, H) <=> setting.excludeHead /\ \E g \in H : Stands(m, g) /\ e = HeadEntry(m, g)
  BY DEF AsHeads, HeadEntry
<1> QED
  BY <1>1, <1>2 DEF Entries, Holds

LEMMA EntriesNow ==
    /\ \A e : e \in Known <=> Holds(mem, blocks, mem.heads \cup jobs, e)
    /\ \A e : e \in Reached <=> Holds(mem, blocks, mem.heads, e)
  BY EntriesAre DEF Known, Reached

LEMMA EntriesNext ==
    ASSUME setting' = setting
    PROVE  /\ \A e : e \in Known' <=> Holds(mem', blocks', mem'.heads \cup jobs', e)
           /\ \A e : e \in Reached' <=> Holds(mem', blocks', mem'.heads, e)
<1>1. \A e : e \in InPostings(mem, mem.heads \cup jobs)' <=> \E g \in mem'.heads \cup jobs' : e \in At(mem', blocks', g)
  BY DEF InPostings, Posting, At
<1>2. \A e : e \in AsHeads(mem, mem.heads \cup jobs)' <=>
                setting.excludeHead /\ \E g \in mem'.heads \cup jobs' : Stands(mem', g) /\ e = HeadEntry(mem', g)
  BY DEF AsHeads, HeadEntry, Stands
<1>3. \A e : e \in InPostings(mem, mem.heads)' <=> \E g \in mem'.heads : e \in At(mem', blocks', g)
  BY DEF InPostings, Posting, At
<1>4. \A e : e \in AsHeads(mem, mem.heads)' <=>
                setting.excludeHead /\ \E g \in mem'.heads : Stands(mem', g) /\ e = HeadEntry(mem', g)
  BY DEF AsHeads, HeadEntry, Stands
<1>5. \A e : e \in Known' <=> e \in InPostings(mem, mem.heads \cup jobs)' \/ e \in AsHeads(mem, mem.heads \cup jobs)'
  BY DEF Known, Entries
<1>6. \A e : e \in Reached' <=> e \in InPostings(mem, mem.heads)' \/ e \in AsHeads(mem, mem.heads)'
  BY DEF Reached, Entries
<1> QED
  BY <1>1, <1>2, <1>3, <1>4, <1>5, <1>6 DEF Holds

\* The postings, the heads and the queued splits are as they were.
SameEntries == SameHeads /\ mem'.map = mem.map /\ UNCHANGED <<jobs, blocks, setting>>

LEMMA KnownKept ==
    ASSUME SameEntries
    PROVE  Known' = Known /\ Reached' = Reached
<1>1. \A g : At(mem', blocks', g) = At(mem, blocks, g) /\ (Stands(mem', g) <=> Stands(mem, g))
             /\ HeadEntry(mem', g) = HeadEntry(mem, g)
  BY DEF SameEntries, SameHeads, At, Stands, HeadEntry
<1>2. mem'.heads = mem.heads /\ jobs' = jobs /\ setting' = setting
  BY DEF SameEntries, SameHeads
<1>3. \A H, e : Holds(mem', blocks', H, e) <=> Holds(mem, blocks, H, e)
  BY <1>1 DEF Holds
<1>4. (\A e : e \in Known' <=> e \in Known) /\ (\A e : e \in Reached' <=> e \in Reached)
  BY <1>2, <1>3, EntriesNow, EntriesNext
<1> QED
  BY <1>4

\* One posting is E, the others are as they were.
PostingSet(p, C, m, B, h, E) == \A g \in HeadIds : At(p, C, g) = IF g # h THEN At(m, B, g) ELSE E

LEMMA WrittenPosting ==
    ASSUME NEW m, NEW p, NEW h, NEW b \in m.free, Moved(p, m, h, b), BlocksOf(m), NEW B \in Postings, NEW E,
           NEW C, C = [B EXCEPT ![b] = E]
    PROVE  PostingSet(p, C, m, B, h, E)
<1>1. /\ m.map \in [HeadIds -> Blocks \cup {NoBlock}] /\ m.free \subseteq Blocks
      /\ h \in HeadIds /\ p.map = [m.map EXCEPT ![h] = b] /\ b \in Blocks
  BY DEF Moved, Memories, Mappings
<1>2. NoBlock \notin Blocks
  BY LifecycleBounds DEF Blocks, NoBlock
<1>3. \A g \in HeadIds : p.map[g] = (IF g = h THEN b ELSE m.map[g]) /\ m.map[g] \notin m.free
  BY <1>1 DEF BlocksOf, Apart
<1>4. DOMAIN B = Blocks
  BY DEF Postings
<1>5. \A x \in Blocks : C[x] = IF x = b THEN E ELSE B[x]
  BY <1>4
<1>6. ASSUME NEW g \in HeadIds PROVE At(p, C, g) = IF g # h THEN At(m, B, g) ELSE E
  <2>1. m.map[g] \in Blocks \cup {NoBlock} /\ m.map[g] # b
    BY <1>1, <1>3
  <2> QED
    BY <1>1, <1>2, <1>3, <1>5, <2>1 DEF At
<1> QED
  BY <1>6 DEF PostingSet

LEMMA DroppedPosting ==
    ASSUME NEW m, NEW p, NEW h, Moved(p, m, h, NoBlock), NEW B
    PROVE  PostingSet(p, B, m, B, h, {})
<1>1. m.map \in [HeadIds -> Blocks \cup {NoBlock}] /\ h \in HeadIds /\ p.map = [m.map EXCEPT ![h] = NoBlock]
  BY DEF Moved, Memories, Mappings
<1>2. \A g \in HeadIds : p.map[g] = IF g = h THEN NoBlock ELSE m.map[g]
  BY <1>1
<1> QED
  BY <1>2 DEF At, PostingSet

\* The heads of a memory to which a posting was moved.
LEMMA PutHolds ==
    ASSUME MemBlocks, mem \in Memories, blocks \in Postings, NEW h \in HeadIds, NEW b \in mem.free, NEW E,
           PutAs(mem', mem, h, b), blocks' = [blocks EXCEPT ![b] = E]
    PROVE  SameHeads /\ PostingSet(mem', blocks', mem, blocks, h, E)
<1>1. Moved(mem', mem, h, b) /\ SameHeads
  BY PutMoves DEF PutAs, SameHeads
<1>2. BlocksOf(mem)
  BY DEF MemBlocks
<1> QED
  BY <1>1, <1>2, WrittenPosting

\* A head that is given an entry, in a posting that was moved.
GrownPosting(h, e) ==
    /\ SameHeads /\ jobs' \subseteq jobs \cup {h} /\ h \in mem.heads /\ setting' = setting
    /\ mem.heads \subseteq HeadIds /\ jobs \subseteq HeadIds
    /\ \A g \in HeadIds : At(mem', blocks', g) = IF g # h THEN At(mem, blocks, g) ELSE At(mem, blocks, h) \cup {e}

LEMMA GrownEntries ==
    ASSUME NEW h, NEW e, GrownPosting(h, e)
    PROVE  /\ \A x : x \in Known' => x \in Known \/ x = e
           /\ \A x : x \in Reached \/ x = e => x \in Reached'
<1>1. /\ setting' = setting /\ h \in mem.heads /\ mem.heads \cup jobs \subseteq HeadIds
      /\ mem'.heads = mem.heads /\ mem'.heads \cup jobs' \subseteq mem.heads \cup jobs
  BY DEF GrownPosting, SameHeads
<1>2. \A g \in HeadIds : At(mem', blocks', g) = IF g # h THEN At(mem, blocks, g) ELSE At(mem, blocks, h) \cup {e}
  BY DEF GrownPosting
<1>3. \A g : (Stands(mem', g) <=> Stands(mem, g)) /\ HeadEntry(mem', g) = HeadEntry(mem, g)
  BY DEF GrownPosting, SameHeads, Stands, HeadEntry
<1>4. \A x : x \in Known' => x \in Known \/ x = e
  <2> TAKE x
  <2> HAVE x \in Known'
  <2>1. Holds(mem', blocks', mem'.heads \cup jobs', x)
    BY <1>1, EntriesNext
  <2>2. CASE \E g \in mem'.heads \cup jobs' : x \in At(mem', blocks', g)
    <3>1. PICK g \in mem.heads \cup jobs : x \in At(mem', blocks', g)
      BY <1>1, <2>2
    <3>2. x \in At(mem, blocks, g) \/ x = e
      BY <1>1, <1>2, <3>1
    <3> QED
      BY <3>1, <3>2, EntriesNow DEF Holds
  <2>3. CASE ~\E g \in mem'.heads \cup jobs' : x \in At(mem', blocks', g)
    <3>1. setting.excludeHead /\ \E g \in mem.heads \cup jobs : Stands(mem, g) /\ x = HeadEntry(mem, g)
      BY <1>1, <1>3, <2>1, <2>3 DEF Holds
    <3> QED
      BY <3>1, EntriesNow DEF Holds
  <2> QED
    BY <2>2, <2>3
<1>5. \A x : x \in Reached \/ x = e => x \in Reached'
  <2> TAKE x
  <2> HAVE x \in Reached \/ x = e
  <2>1. CASE x = e
    <3>1. x \in At(mem', blocks', h)
      BY <1>1, <1>2, <2>1
    <3> QED
      BY <1>1, <3>1, EntriesNext DEF Holds
  <2>2. CASE x \in Reached
    <3>1. Holds(mem, blocks, mem.heads, x)
      BY <2>2, EntriesNow
    <3>2. \A g \in mem.heads : x \in At(mem, blocks, g) => x \in At(mem', blocks', g)
      BY <1>1, <1>2
    <3>3. Holds(mem', blocks', mem'.heads, x)
      BY <1>1, <1>3, <3>1, <3>2 DEF Holds
    <3> QED
      BY <1>1, <3>3, EntriesNext
  <2> QED
    BY <2>1, <2>2
<1> QED
  BY <1>4, <1>5

\* An append adds its entry and nothing else.
LEMMA AppendEntries ==
    ASSUME Base, MemBlocks, NEW c \in Clients, AddAppend(c)
    PROVE  /\ \A x : x \in Known' => x \in Known \/ x = <<op[c].id, op[c].vec>>
           /\ \A x : x \in Reached \/ x = <<op[c].id, op[c].vec>> => x \in Reached'
<1> DEFINE e == <<op[c].id, op[c].vec>>
<1>0. MemOK /\ mem \in Memories /\ blocks \in Postings /\ setting' = setting /\ jobs \subseteq HeadIds
      /\ mem.heads \subseteq HeadIds
  BY DEF Base, Types, MemOK, WorkOK, AddAppend, Memories
<1>1. PICK h \in mem.heads : AppendTo(h, e)
  BY DEF AddAppend
<1> DEFINE b == NextBlock(mem.free)
<1>2. AppendAs(h, e, b)
  BY <1>0, <1>1, AppendEffect
<1> HIDE DEF e, b
<1>3. GrownPosting(h, e)
  <2>1. /\ h \in HeadIds /\ b \in mem.free /\ PutAs(mem', mem, h, b) /\ jobs' \subseteq jobs \cup {h}
        /\ blocks' = [blocks EXCEPT ![b] = At(mem, blocks, h) \cup {e}]
    BY <1>2 DEF AppendAs, Posting, At
  <2>2. SameHeads /\ PostingSet(mem', blocks', mem, blocks, h, At(mem, blocks, h) \cup {e})
    BY <1>0, <2>1, PutHolds
  <2> QED
    BY <1>0, <1>1, <2>1, <2>2 DEF PostingSet, GrownPosting
<1> QED
  BY <1>3, GrownEntries DEF e

\* So does a record that is replayed.
LEMMA ReplayEntries ==
    ASSUME Base, MemBlocks, ReplayAdd
    PROVE  /\ \A x : x \in Known' => x \in Known \/ x = <<Head(scan).rec.id, Head(scan).rec.vec>>
           /\ \A x : x \in Reached \/ x = <<Head(scan).rec.id, Head(scan).rec.vec>> => x \in Reached'
<1> DEFINE e == <<Head(scan).rec.id, Head(scan).rec.vec>>
<1>0. mem \in Memories /\ blocks \in Postings /\ setting' = setting /\ jobs \subseteq HeadIds /\ mem.heads \subseteq HeadIds
  BY DEF Base, Types, MemOK, WorkOK, ReplayAdd, Memories
<1>1. PICK h \in HeadIds, b \in Blocks, V \in Versions : ReplayAs(h, b, V)
  BY ReplayEffect
<1> DEFINE m == [mem EXCEPT !.ver = V]
<1>2. /\ m.heads = mem.heads /\ m.vec = mem.vec /\ m.trans = mem.trans
      /\ m.map = mem.map /\ m.free = mem.free /\ m.reserve = mem.reserve
  BY <1>0 DEF Memories
<1>3. /\ h \in mem.heads /\ b \in mem.free /\ m \in Memories /\ PutAs(mem', m, h, b) /\ jobs' \subseteq jobs \cup {h}
      /\ blocks' = [blocks EXCEPT ![b] = At(mem, blocks, h) \cup {e}]
  BY <1>1 DEF ReplayAs, Posting, At
<1> HIDE DEF m, e
<1>4. Moved(mem', m, h, b) /\ BlocksOf(m) /\ SameHeads
  <2>1. Moved(mem', m, h, b)
    BY <1>2, <1>3, PutMoves
  <2> QED
    BY <1>2, <1>3, <2>1 DEF MemBlocks, BlocksOf, PutAs, SameHeads
<1>5. PostingSet(mem', blocks', m, blocks, h, At(mem, blocks, h) \cup {e})
  BY <1>0, <1>2, <1>3, <1>4, WrittenPosting
<1>6. \A g : At(m, blocks, g) = At(mem, blocks, g)
  BY <1>2 DEF At
<1>7. GrownPosting(h, e)
  BY <1>0, <1>3, <1>4, <1>5, <1>6 DEF PostingSet, GrownPosting
<1> QED
  BY <1>7, GrownEntries DEF e

\* A new head stands for its entry where heads are in no posting.
NewHeadStands(p, m, e) ==
    /\ p.heads = m.heads \cup {Len(m.vec)} /\ Len(m.vec) \in HeadIds /\ Len(p.vec) = Len(m.vec) + 1
    /\ setting.excludeHead /\ Len(m.trans) = Len(m.vec) =>
        /\ Len(p.trans) = Len(p.vec)
        /\ Stands(p, Len(m.vec)) /\ HeadEntry(p, Len(m.vec)) = e
        /\ \A g \in HeadIds : g # Len(m.vec) =>
                (Stands(p, g) <=> Stands(m, g)) /\ (Stands(m, g) => HeadEntry(p, g) = HeadEntry(m, g))

LEMMA NewHeadStanding ==
    ASSUME NEW m \in Memories, NEW p, NEW e \in Ids \X Vectors, NEW b, NewHeadAs(p, m, e, b)
    PROVE  NewHeadStands(p, m, e)
<1>1. /\ m.vec \in Seq(Vectors) /\ m.trans \in Seq(Ids \cup {NoId}) /\ e[2] \in Vectors /\ e[1] \in Ids
      /\ p.vec = Append(m.vec, e[2]) /\ p.heads = m.heads \cup {Len(m.vec)} /\ Len(m.vec) \in HeadIds
  BY DEF Memories, Translations, NewHeadAs
<1>2. e = <<e[1], e[2]>> /\ e[1] # NoId
  BY LifecycleBounds DEF NoId, Ids
<1>3. Len(p.vec) = Len(m.vec) + 1 /\ Len(m.vec) \in Nat /\ Len(m.trans) \in Nat
  BY <1>1
<1>4. ASSUME setting.excludeHead, Len(m.trans) = Len(m.vec)
      PROVE  /\ Len(p.trans) = Len(p.vec)
             /\ Stands(p, Len(m.vec)) /\ HeadEntry(p, Len(m.vec)) = e
             /\ \A g \in HeadIds : g # Len(m.vec) =>
                    (Stands(p, g) <=> Stands(m, g)) /\ (Stands(m, g) => HeadEntry(p, g) = HeadEntry(m, g))
  <2>1. p.trans = Append(m.trans, e[1])
    BY <1>4 DEF NewHeadAs
  <2>2. Len(p.trans) = Len(p.vec) /\ Len(p.trans) = Len(m.vec) + 1
    BY <1>1, <1>3, <1>4, <2>1
  <2>3. p.trans[Len(m.vec) + 1] = e[1] /\ p.vec[Len(m.vec) + 1] = e[2]
    BY <1>1, <1>4, <2>1
  <2>4. \A i \in 1..Len(m.vec) : p.trans[i] = m.trans[i] /\ p.vec[i] = m.vec[i]
    BY <1>1, <1>4, <2>1
  <2>5. Stands(p, Len(m.vec)) /\ HeadEntry(p, Len(m.vec)) = e
    BY <1>2, <1>3, <2>2, <2>3 DEF Stands, HeadEntry
  <2>6. ASSUME NEW g \in HeadIds, g # Len(m.vec)
        PROVE  (Stands(p, g) <=> Stands(m, g)) /\ (Stands(m, g) => HeadEntry(p, g) = HeadEntry(m, g))
    <3>1. g \in Nat /\ (g < Len(p.vec) <=> g < Len(m.vec)) /\ (g < Len(m.vec) => g + 1 \in 1..Len(m.vec))
      BY <1>3, <2>6, LifecycleBounds DEF HeadIds
    <3> QED
      BY <1>3, <1>4, <2>2, <2>4, <3>1 DEF Stands, HeadEntry
  <2> QED
    BY <2>2, <2>5, <2>6
<1> QED
  BY <1>1, <1>3, <1>4 DEF NewHeadStands

AllTrans == setting.excludeHead => Len(mem.trans) = Len(mem.vec)

\* A split adds no entry and drops dead ones alone.
SplitKeeps ==
    /\ \A x : x \in Known' => x \in Known
    /\ \A x : x \in Reached /\ Live(mem.ver, x[1]) => x \in Reached'

\* It is enough to look at the postings and at the heads.
LEMMA SplitKeepsFrom ==
    ASSUME setting' = setting,
           NEW G, mem'.heads \cup jobs' \subseteq G,
           \A g \in G : \A x \in At(mem', blocks', g) : x \in Known,
           setting.excludeHead => \A g \in G : Stands(mem', g) => HeadEntry(mem', g) \in Known,
           \A g \in mem.heads : \A x \in At(mem, blocks, g) : Live(mem.ver, x[1]) => x \in Reached',
           setting.excludeHead =>
                \A g \in mem.heads : Stands(mem, g) /\ Live(mem.ver, mem.trans[g + 1]) => HeadEntry(mem, g) \in Reached'
    PROVE  SplitKeeps
<1>1. ASSUME NEW x, x \in Known' PROVE x \in Known
  <2>1. Holds(mem', blocks', mem'.heads \cup jobs', x)
    BY <1>1, EntriesNext
  <2>2. \/ \E g \in G : x \in At(mem', blocks', g)
        \/ setting.excludeHead /\ \E g \in G : Stands(mem', g) /\ x = HeadEntry(mem', g)
    BY <2>1 DEF Holds
  <2> QED
    BY <2>2
<1>2. ASSUME NEW x, x \in Reached, Live(mem.ver, x[1]) PROVE x \in Reached'
  <2>1. Holds(mem, blocks, mem.heads, x)
    BY <1>2, EntriesNow
  <2>2. CASE \E g \in mem.heads : x \in At(mem, blocks, g)
    BY <1>2, <2>2
  <2>3. CASE setting.excludeHead /\ \E g \in mem.heads : Stands(mem, g) /\ x = HeadEntry(mem, g)
    <3>1. PICK g \in mem.heads : Stands(mem, g) /\ x = HeadEntry(mem, g)
      BY <2>3
    <3>2. x[1] = mem.trans[g + 1]
      BY <3>1 DEF HeadEntry
    <3> QED
      BY <1>2, <2>3, <3>1, <3>2
  <2> QED
    BY <2>1, <2>2, <2>3 DEF Holds
<1> QED
  BY <1>1, <1>2 DEF SplitKeeps

\* What a split starts from.
SplitFrom(h) ==
    /\ mem \in Memories /\ blocks \in Postings /\ h \in HeadIds /\ h \in jobs /\ jobs' = jobs \ {h} /\ setting' = setting
    /\ mem.heads \subseteq HeadIds /\ jobs \subseteq HeadIds /\ \A g \in mem.heads : g < Len(mem.vec)
    /\ Len(mem.vec) \in Nat
    /\ Current(h) \subseteq Ids \X Vectors
    /\ \A x : x \in Current(h) <=> x \in At(mem, blocks, h) /\ Live(mem.ver, x[1])
    /\ \A x \in Current(h) : x \in Known
    /\ \A x \in Own(h) : x \in Known
    /\ setting.excludeHead /\ Stands(mem, h) /\ Live(mem.ver, mem.trans[h + 1]) => HeadEntry(mem, h) \in Own(h)
    /\ \A g \in mem.heads \cup jobs : \A x \in At(mem, blocks, g) : x \in Known
    /\ setting.excludeHead => \A g \in mem.heads \cup jobs : Stands(mem, g) => HeadEntry(mem, g) \in Known
    /\ \A g \in mem'.heads : \A x \in At(mem', blocks', g) : x \in Reached'
    /\ setting.excludeHead => \A g \in mem'.heads : Stands(mem', g) => HeadEntry(mem', g) \in Reached'

LEMMA SplitStart ==
    ASSUME Base, AllTrans, NEW h \in HeadIds, SplitJob(h)
    PROVE  SplitFrom(h)
<1>0. /\ mem \in Memories /\ blocks \in Postings /\ HeadsOK(mem) /\ h \in jobs /\ jobs' = jobs \ {h} /\ setting' = setting
      /\ jobs \subseteq HeadIds
  BY DEF Base, Types, MemOK, SplitJob, WorkOK
<1>1. mem.heads \subseteq HeadIds /\ Len(mem.vec) \in Nat /\ \A g \in mem.heads : g < Len(mem.vec)
  BY <1>0 DEF Memories, HeadsOK
<1>2. Current(h) \subseteq Ids \X Vectors
  BY <1>0, PostingType DEF Current
<1>3. \A x : x \in Current(h) <=> x \in At(mem, blocks, h) /\ Live(mem.ver, x[1])
  BY DEF Current, Posting, At
<1>4. \A g \in mem.heads \cup jobs : \A x \in At(mem, blocks, g) : x \in Known
  BY EntriesNow DEF Holds
<1>5. setting.excludeHead => \A g \in mem.heads \cup jobs : Stands(mem, g) => HeadEntry(mem, g) \in Known
  BY EntriesNow DEF Holds
<1>6. \A g \in mem'.heads : \A x \in At(mem', blocks', g) : x \in Reached'
  BY <1>0, EntriesNext DEF Holds
<1>7. setting.excludeHead => \A g \in mem'.heads : Stands(mem', g) => HeadEntry(mem', g) \in Reached'
  BY <1>0, EntriesNext DEF Holds
<1>8. ASSUME NEW x \in Own(h) PROVE x \in Known
  <2>1. setting.excludeHead /\ h < Len(mem.trans) /\ Live(mem.ver, mem.trans[h + 1]) /\ x = HeadEntry(mem, h)
    BY <1>8 DEF Own, HeadEntry
  <2>2. mem.trans[h + 1] # NoId
    BY <2>1 DEF Live, NoId
  <2>3. Stands(mem, h)
    BY <2>1, <2>2 DEF Stands, AllTrans
  <2> QED
    BY <1>0, <1>5, <2>1, <2>3
<1>9. setting.excludeHead /\ Stands(mem, h) /\ Live(mem.ver, mem.trans[h + 1]) => HeadEntry(mem, h) \in Own(h)
  BY DEF Own, HeadEntry, Stands
<1> QED
  BY <1>0, <1>1, <1>2, <1>3, <1>4, <1>5, <1>6, <1>7, <1>8, <1>9 DEF SplitFrom

LEMMA SplitKeptKeeps ==
    ASSUME MemBlocks, NEW h, SplitFrom(h), NEW b1 \in mem.free, SplitKept(h, b1)
    PROVE  SplitKeeps
<1>1. SameHeads /\ PostingSet(mem', blocks', mem, blocks, h, Current(h))
  BY PutHolds DEF SplitFrom, SplitKept
<1>2. \A g : (Stands(mem', g) <=> Stands(mem, g)) /\ HeadEntry(mem', g) = HeadEntry(mem, g)
  BY <1>1 DEF SameHeads, Stands, HeadEntry
<1>3. \A g \in HeadIds : At(mem', blocks', g) = IF g # h THEN At(mem, blocks, g) ELSE Current(h)
  BY <1>1 DEF PostingSet
<1> DEFINE G == mem.heads \cup jobs
<1>4. mem'.heads \cup jobs' \subseteq G /\ G \subseteq HeadIds /\ mem'.heads = mem.heads
  BY <1>1 DEF SplitFrom, SameHeads
<1>5. \A g \in G : \A x \in At(mem', blocks', g) : x \in Known
  BY <1>3, <1>4 DEF SplitFrom
<1>6. setting.excludeHead => \A g \in G : Stands(mem', g) => HeadEntry(mem', g) \in Known
  BY <1>2 DEF SplitFrom
<1>7. \A g \in mem.heads : \A x \in At(mem, blocks, g) : Live(mem.ver, x[1]) => x \in Reached'
  BY <1>3, <1>4 DEF SplitFrom
<1>8. setting.excludeHead => \A g \in mem.heads : Stands(mem, g) /\ Live(mem.ver, mem.trans[g + 1]) => HeadEntry(mem, g) \in Reached'
  BY <1>2, <1>4 DEF SplitFrom
<1>9. setting' = setting
  BY DEF SplitFrom
<1> HIDE DEF G
<1> QED
  BY <1>4, <1>5, <1>6, <1>7, <1>8, <1>9, SplitKeepsFrom

LEMMA SplitSameKeeps ==
    ASSUME MemBlocks, AllTrans, NEW h, SplitFrom(h), NEW b1 \in Blocks, NEW b2 \in Blocks, b1 \in mem.free, b2 \in mem.free, b1 # b2,
           NEW first \in SUBSET Current(h), NEW e2 \in Current(h) \ first, SplitSame(h, first, e2, b1, b2)
    PROVE  SplitKeeps
<1>0. /\ mem \in Memories /\ blocks \in Postings /\ h \in HeadIds /\ h \in jobs /\ jobs' = jobs \ {h} /\ setting' = setting
      /\ BlocksOf(mem) /\ e2 \in Ids \X Vectors
  BY DEF SplitFrom, MemBlocks
<1> DEFINE n == Len(mem.vec)
           rest == Stored(Current(h) \ first, e2)
           B1 == [blocks EXCEPT ![b1] = first]
<1>1. PICK p \in Memories : /\ PutAs(p, mem, h, b1) /\ NewHeadAs(mem', p, e2, b2)
                            /\ blocks' = [blocks EXCEPT ![b1] = first, ![b2] = rest]
  BY DEF SplitSame
<1>2. Moved(p, mem, h, b1) /\ p.free = mem.free \ {b1}
  BY <1>0, <1>1, PutMoves DEF Moved
<1>3. b2 \in p.free /\ BlocksOf(p)
  BY <1>0, <1>2, MovedBlocks
<1>4. Moved(mem', p, Len(p.vec), b2) /\ p.vec = mem.vec /\ p.trans = mem.trans /\ p.heads = mem.heads
  BY <1>1, <1>3, NewHeadMoves DEF PutAs
<1>5. B1 \in Postings /\ blocks' = [B1 EXCEPT ![b2] = rest]
  BY <1>0, <1>1 DEF Postings, SplitFrom
<1>6. PostingSet(p, B1, mem, blocks, h, first)
  BY <1>0, <1>2, WrittenPosting
<1> HIDE DEF B1, rest
<1>7. PostingSet(mem', blocks', p, B1, n, rest)
  BY <1>3, <1>4, <1>5, WrittenPosting
<1>8. NewHeadStands(mem', p, e2)
  BY <1>0, <1>1, NewHeadStanding
<1>9. /\ mem'.heads = mem.heads \cup {n} /\ n \in HeadIds
      /\ setting.excludeHead =>
            /\ Stands(mem', n) /\ HeadEntry(mem', n) = e2
            /\ \A g \in HeadIds : g # n =>
                    (Stands(mem', g) <=> Stands(mem, g)) /\ (Stands(mem, g) => HeadEntry(mem', g) = HeadEntry(mem, g))
  BY <1>4, <1>8 DEF NewHeadStands, AllTrans, Stands, HeadEntry
<1>10. \A g \in HeadIds : At(mem', blocks', g) = IF g = n THEN rest ELSE IF g # h THEN At(mem, blocks, g) ELSE first
  BY <1>6, <1>7 DEF PostingSet
<1>11. \A g \in mem.heads : g # n
  BY DEF SplitFrom
<1>12. /\ \A x \in rest : x \in Current(h)
       /\ \A x \in Current(h) : x \in first \/ x \in rest \/ (setting.excludeHead /\ x = e2)
  BY DEF rest, Stored
<1> HIDE DEF n
<1> DEFINE G == mem.heads \cup jobs \cup {n}
<1>13. mem'.heads \cup jobs' \subseteq G /\ G \subseteq HeadIds
  BY <1>0, <1>9 DEF SplitFrom
<1>14. \A g \in G : \A x \in At(mem', blocks', g) : x \in Known
  BY <1>10, <1>12, <1>13 DEF SplitFrom
<1>15. setting.excludeHead => \A g \in G : Stands(mem', g) => HeadEntry(mem', g) \in Known
  BY <1>9, <1>13 DEF SplitFrom
<1>16. ASSUME NEW g \in mem.heads, NEW x \in At(mem, blocks, g), Live(mem.ver, x[1]) PROVE x \in Reached'
  <2>1. g \in HeadIds /\ g # n /\ g \in mem'.heads /\ n \in mem'.heads
    BY <1>9, <1>11 DEF SplitFrom
  <2>2. CASE g # h
    BY <1>10, <1>16, <2>1, <2>2 DEF SplitFrom
  <2>3. CASE g = h
    <3>1. x \in first \/ x \in rest \/ (setting.excludeHead /\ x = e2)
      BY <1>12, <1>16, <2>3 DEF SplitFrom
    <3>2. At(mem', blocks', g) = first /\ At(mem', blocks', n) = rest
      BY <1>9, <1>10, <2>1, <2>3
    <3> QED
      BY <1>9, <2>1, <3>1, <3>2 DEF SplitFrom
  <2> QED
    BY <2>2, <2>3
<1>17. setting.excludeHead => \A g \in mem.heads : Stands(mem, g) /\ Live(mem.ver, mem.trans[g + 1]) => HeadEntry(mem, g) \in Reached'
  <2> SUFFICES ASSUME setting.excludeHead, NEW g \in mem.heads, Stands(mem, g) PROVE HeadEntry(mem, g) \in Reached'
    OBVIOUS
  <2>1. g \in HeadIds /\ g # n /\ g \in mem'.heads
    BY <1>9, <1>11 DEF SplitFrom
  <2>2. Stands(mem', g) /\ HeadEntry(mem', g) = HeadEntry(mem, g)
    BY <1>9, <2>1
  <2> QED
    BY <2>1, <2>2 DEF SplitFrom
<1> HIDE DEF G
<1> QED
  BY <1>0, <1>13, <1>14, <1>15, <1>16, <1>17, SplitKeepsFrom

LEMMA SplitTwoKeeps ==
    ASSUME MemBlocks, AllTrans, NEW h, SplitFrom(h), NEW b1 \in Blocks, NEW b2 \in Blocks, b1 \in mem.free, b2 \in mem.free, b1 # b2,
           NEW first \in SUBSET Current(h), NEW e1 \in first, NEW e2 \in Current(h) \ first, SplitTwo(h, first, e1, e2, b1, b2)
    PROVE  SplitKeeps
<1>0. /\ mem \in Memories /\ blocks \in Postings /\ h \in HeadIds /\ h \in jobs /\ jobs' = jobs \ {h} /\ setting' = setting
      /\ BlocksOf(mem) /\ e1 \in Ids \X Vectors /\ e2 \in Ids \X Vectors
  BY DEF SplitFrom, MemBlocks
<1> DEFINE n == Len(mem.vec)
           one == Stored(first, e1) \cup Own(h)
           rest == Stored(Current(h) \ first, e2)
           B1 == [blocks EXCEPT ![b1] = one]
<1>1. PICK p \in Memories, q \in Memories, r \in Memories :
        /\ DropAs(p, mem, h) /\ NewHeadAs(q, p, e1, b1) /\ NewHeadAs(r, q, e2, b2)
        /\ mem' = [r EXCEPT !.heads = r.heads \ {h}]
        /\ blocks' = [blocks EXCEPT ![b1] = one, ![b2] = rest]
  BY DEF SplitTwo
<1>2. Moved(p, mem, h, NoBlock) /\ p.free = mem.free /\ p.vec = mem.vec /\ p.trans = mem.trans /\ p.heads = mem.heads
  BY <1>0, <1>1, DropMoves DEF DropAs
<1>3. BlocksOf(p)
  BY <1>0, <1>2, MovedBlocks
<1>4. Moved(q, p, n, b1) /\ q.free = p.free \ {b1}
  BY <1>1, <1>2, NewHeadMoves DEF NewHeadAs
<1>5. b2 \in q.free /\ BlocksOf(q)
  BY <1>2, <1>3, <1>4, MovedBlocks
<1>6. NewHeadStands(q, p, e1) /\ NewHeadStands(r, q, e2)
  BY <1>0, <1>1, NewHeadStanding
<1>7. Len(q.vec) = n + 1 /\ n \in HeadIds /\ n + 1 \in HeadIds /\ n \in Nat
  BY <1>2, <1>6 DEF NewHeadStands, SplitFrom
<1>8. Moved(r, q, n + 1, b2)
  BY <1>1, <1>5, <1>7, NewHeadMoves
<1>9. B1 \in Postings /\ blocks' = [B1 EXCEPT ![b2] = rest]
  <2>1. one \subseteq Ids \X Vectors
    <3>1. Own(h) \subseteq Ids \X Vectors
      <4>1. setting.excludeHead /\ h < Len(mem.trans) /\ Live(mem.ver, mem.trans[h + 1]) =>
              mem.trans[h + 1] \in Ids /\ mem.vec[h + 1] \in Vectors
        <5> SUFFICES ASSUME setting.excludeHead, h < Len(mem.trans), Live(mem.ver, mem.trans[h + 1])
                     PROVE  mem.trans[h + 1] \in Ids /\ mem.vec[h + 1] \in Vectors
          OBVIOUS
        <5>1. mem.trans \in Seq(Ids \cup {NoId}) /\ mem.vec \in Seq(Vectors) /\ h \in Nat
          BY <1>0, LifecycleBounds DEF Memories, Translations, HeadIds
        <5>2. h + 1 \in 1..Len(mem.trans) /\ Len(mem.trans) = Len(mem.vec)
          BY <5>1 DEF AllTrans
        <5>3. mem.trans[h + 1] # NoId
          BY DEF Live, NoId
        <5> QED
          BY <5>1, <5>2, <5>3
      <4> QED
        BY <4>1 DEF Own
    <3> QED
      BY <3>1 DEF Stored, SplitFrom
  <2> HIDE DEF one, rest
  <2> QED
    BY <1>0, <1>1, <2>1 DEF Postings
<1>10. PostingSet(p, blocks, mem, blocks, h, {})
  BY <1>2, DroppedPosting
<1> HIDE DEF one, rest
<1>11. PostingSet(q, B1, p, blocks, n, one)
  BY <1>0, <1>2, <1>3, <1>4, WrittenPosting
<1> HIDE DEF B1
<1>12. PostingSet(r, blocks', q, B1, n + 1, rest)
  BY <1>5, <1>8, <1>9, WrittenPosting
<1>13. mem'.heads = r.heads \ {h} /\ mem'.vec = r.vec /\ mem'.trans = r.trans /\ mem'.map = r.map
  BY <1>1 DEF Memories
<1>14. \A g : At(mem', blocks', g) = At(r, blocks', g) /\ (Stands(mem', g) <=> Stands(r, g)) /\ HeadEntry(mem', g) = HeadEntry(r, g)
  BY <1>13 DEF At, Stands, HeadEntry
<1>15. \A g \in HeadIds : At(mem', blocks', g) =
            IF g = n + 1 THEN rest ELSE IF g = n THEN one ELSE IF g # h THEN At(mem, blocks, g) ELSE {}
  BY <1>10, <1>11, <1>12, <1>14 DEF PostingSet
<1>16. mem'.heads = (mem.heads \cup {n, n + 1}) \ {h}
  BY <1>2, <1>6, <1>7, <1>13 DEF NewHeadStands
<1>17. setting.excludeHead =>
            /\ Stands(mem', n) /\ HeadEntry(mem', n) = e1
            /\ Stands(mem', n + 1) /\ HeadEntry(mem', n + 1) = e2
            /\ \A g \in HeadIds : g # n /\ g # n + 1 =>
                    (Stands(mem', g) <=> Stands(mem, g)) /\ (Stands(mem, g) => HeadEntry(mem', g) = HeadEntry(mem, g))
  <2> SUFFICES ASSUME setting.excludeHead
               PROVE  /\ Stands(mem', n) /\ HeadEntry(mem', n) = e1
                      /\ Stands(mem', n + 1) /\ HeadEntry(mem', n + 1) = e2
                      /\ \A g \in HeadIds : g # n /\ g # n + 1 =>
                            (Stands(mem', g) <=> Stands(mem, g)) /\ (Stands(mem, g) => HeadEntry(mem', g) = HeadEntry(mem, g))
    OBVIOUS
  <2>1. Len(p.trans) = Len(p.vec) /\ Len(p.vec) = n
    BY <1>2 DEF AllTrans
  <2>2. /\ Len(q.trans) = Len(q.vec) /\ Stands(q, n) /\ HeadEntry(q, n) = e1
        /\ \A g \in HeadIds : g # n => (Stands(q, g) <=> Stands(p, g)) /\ (Stands(p, g) => HeadEntry(q, g) = HeadEntry(p, g))
    BY <1>6, <2>1 DEF NewHeadStands
  <2>3. /\ Stands(r, n + 1) /\ HeadEntry(r, n + 1) = e2
        /\ \A g \in HeadIds : g # n + 1 => (Stands(r, g) <=> Stands(q, g)) /\ (Stands(q, g) => HeadEntry(r, g) = HeadEntry(q, g))
    BY <1>6, <1>7, <2>2 DEF NewHeadStands
  <2>4. \A g : (Stands(p, g) <=> Stands(mem, g)) /\ HeadEntry(p, g) = HeadEntry(mem, g)
    BY <1>2 DEF Stands, HeadEntry
  <2>5. n # n + 1
    BY <1>7
  <2> QED
    BY <1>7, <1>14, <2>2, <2>3, <2>4, <2>5
<1>18. \A g \in mem.heads : g # n /\ g # n + 1
  BY <1>7 DEF SplitFrom
<1>19. /\ \A x \in rest : x \in Current(h)
       /\ \A x \in one : x \in Current(h) \/ x \in Own(h)
       /\ \A x \in Own(h) : x \in one
       /\ \A x \in Current(h) : \/ x \in one \/ x \in rest
                                \/ setting.excludeHead /\ (x = e1 \/ x = e2)
  BY DEF rest, one, Stored
<1>20. n # n + 1
  BY <1>7
<1> DEFINE k == n + 1
<1> HIDE DEF n, k
<1> DEFINE G == mem.heads \cup jobs \cup {n, k}
<1>21. mem'.heads \cup jobs' \subseteq G /\ G \subseteq HeadIds
  BY <1>0, <1>7, <1>16 DEF SplitFrom, k
<1>22. \A g \in G : \A x \in At(mem', blocks', g) : x \in Known
  BY <1>15, <1>19, <1>21 DEF SplitFrom, k
<1>23. setting.excludeHead => \A g \in G : Stands(mem', g) => HeadEntry(mem', g) \in Known
  BY <1>17, <1>21 DEF SplitFrom, k
<1>24. ASSUME NEW g \in mem.heads, g = h PROVE n \in mem'.heads /\ k \in mem'.heads
  BY <1>16, <1>18, <1>24 DEF k
<1>25. At(mem', blocks', n) = one /\ At(mem', blocks', k) = rest
  BY <1>7, <1>15, <1>20 DEF k
<1>26. ASSUME NEW g \in mem.heads, NEW x \in At(mem, blocks, g), Live(mem.ver, x[1]) PROVE x \in Reached'
  <2>1. g \in HeadIds /\ g # n /\ g # k
    BY <1>18 DEF SplitFrom, k
  <2>2. CASE g # h
    <3>1. At(mem', blocks', g) = At(mem, blocks, g) /\ g \in mem'.heads
      BY <1>15, <1>16, <2>1, <2>2 DEF k
    <3> QED
      BY <1>26, <3>1 DEF SplitFrom
  <2>3. CASE g = h
    <3>1. x \in one \/ x \in rest \/ (setting.excludeHead /\ (x = e1 \/ x = e2))
      BY <1>19, <1>26, <2>3 DEF SplitFrom
    <3> QED
      BY <1>17, <1>24, <1>25, <2>3, <3>1 DEF SplitFrom, k
  <2> QED
    BY <2>2, <2>3
<1>27. setting.excludeHead => \A g \in mem.heads : Stands(mem, g) /\ Live(mem.ver, mem.trans[g + 1]) => HeadEntry(mem, g) \in Reached'
  <2> SUFFICES ASSUME setting.excludeHead, NEW g \in mem.heads, Stands(mem, g), Live(mem.ver, mem.trans[g + 1])
               PROVE  HeadEntry(mem, g) \in Reached'
    OBVIOUS
  <2>1. g \in HeadIds /\ g # n /\ g # k
    BY <1>18 DEF SplitFrom, k
  <2>2. CASE g # h
    <3>1. Stands(mem', g) /\ HeadEntry(mem', g) = HeadEntry(mem, g) /\ g \in mem'.heads
      BY <1>16, <1>17, <2>1, <2>2 DEF k
    <3> QED
      BY <3>1 DEF SplitFrom
  <2>3. CASE g = h
    <3>1. HeadEntry(mem, g) \in one
      BY <1>19, <2>3 DEF SplitFrom
    <3> QED
      BY <1>24, <1>25, <2>3, <3>1 DEF SplitFrom
  <2> QED
    BY <2>2, <2>3
<1> HIDE DEF G
<1> QED
  BY <1>0, <1>21, <1>22, <1>23, <1>26, <1>27, SplitKeepsFrom

LEMMA SplitEntries ==
    ASSUME Base, MemBlocks, AllTrans, NEW h \in HeadIds, SplitJob(h)
    PROVE  SplitKeeps
<1>0. Types /\ SplitFrom(h)
  BY SplitStart DEF Base
<1>1. PICK b1 \in Blocks, b2 \in Blocks : SplitAs(h, b1, b2)
  BY <1>0, SplitEffect
<1>2. b1 \in mem.free /\ b2 \in mem.free /\ b1 # b2
  BY <1>1 DEF SplitAs
<1>3. CASE SplitKept(h, b1)
  BY <1>0, <1>2, <1>3, SplitKeptKeeps
<1>4. ASSUME NEW first \in SUBSET Current(h), NEW e1 \in first, NEW e2 \in Current(h) \ first, SplitSame(h, first, e2, b1, b2)
      PROVE  SplitKeeps
  BY <1>0, <1>2, <1>4, SplitSameKeeps
<1>5. ASSUME NEW first \in SUBSET Current(h), NEW e1 \in first, NEW e2 \in Current(h) \ first, SplitTwo(h, first, e1, e2, b1, b2)
      PROVE  SplitKeeps
  BY <1>0, <1>2, <1>5, SplitTwoKeeps
<1> QED
  BY <1>1, <1>3, <1>4, <1>5 DEF SplitAs

-----------------------------------------------------------------------------

(***************************************************************************)
(* What a compaction makes of the entries                                  *)
(***************************************************************************)

\* A head's new number is its own or no head's, so that a posting can be
\* rewritten in place while others are still to be read.
LEMMA NumbersFree ==
    ASSUME MemOK
    PROVE  \A h \in mem.heads : NewId(HeadOrder, h) = h \/ NewId(HeadOrder, h) \notin mem.heads
<1> DEFINE k == Cardinality(mem.heads)
<1>1. Numbered(HeadOrder, mem.heads) /\ Len(mem.vec) \in Nat
  BY OrderNumbers
<1>2. mem.heads \in SUBSET (0..(NumHeads(mem) - 1)) /\ NumHeads(mem) \in Nat
  BY <1>1 DEF MemOK, HeadsOK, NumHeads
<1>3. \A i \in 1..k : i - 1 \in mem.heads => HeadOrder[i] = i - 1
  BY <1>2, CompactLists DEF HeadOrder
<1>4. ASSUME NEW h \in mem.heads, NewId(HeadOrder, h) \in mem.heads PROVE NewId(HeadOrder, h) = h
  <2>1. NewId(HeadOrder, h) \in 0..(k - 1) /\ HeadOrder[NewId(HeadOrder, h) + 1] = h /\ k \in Nat
    BY <1>1 DEF Numbered
  <2> DEFINE i == NewId(HeadOrder, h) + 1
  <2>2. i \in 1..k /\ i - 1 = NewId(HeadOrder, h)
    BY <2>1
  <2> QED
    BY <1>3, <1>4, <2>1, <2>2
<1> QED
  BY <1>4

\* The live entries of a posting under their new ids.
RenamedOf(P) == {<<NewId(VectorOrder, e[1]), e[2]>> : e \in {x \in P : Live(mem.ver, x[1])}}

LEMMA ComingNow ==
    \A x : x \in Coming <=> \/ \E g \in todo : x \in RenamedOf(At(mem, blocks, g))
                            \/ \E g \in mem.heads \ todo : x \in At(mem, blocks, NewId(HeadOrder, g))
                            \/ x \in NewHeads
<1>1. \A x : x \in Renumbered <=> \E g \in todo : x \in RenamedOf(At(mem, blocks, g))
  BY DEF Renumbered, Kept, InPostings, Posting, At, RenamedOf
<1>2. \A x : x \in Rewritten <=> \E g \in mem.heads \ todo : x \in At(mem, blocks, NewId(HeadOrder, g))
  BY DEF Rewritten, Posting, At
<1> QED
  BY <1>1, <1>2 DEF Coming

LEMMA ComingNext ==
    ASSUME SameNumbers
    PROVE  \A x : x \in Coming' <=> \/ \E g \in todo' : x \in RenamedOf(At(mem', blocks', g))
                                    \/ \E g \in mem.heads \ todo' : x \in At(mem', blocks', NewId(HeadOrder, g))
                                    \/ x \in NewHeads'
<1>1. HeadOrder' = HeadOrder /\ VectorOrder' = VectorOrder /\ mem'.heads = mem.heads /\ mem'.ver = mem.ver
  BY NumberingKept DEF SameNumbers
<1>2. \A x : x \in Renumbered' <=> \E g \in todo' : x \in RenamedOf(At(mem', blocks', g))
  BY <1>1 DEF Renumbered, Kept, InPostings, Posting, At, RenamedOf, NewId
<1>3. \A x : x \in Rewritten' <=> \E g \in mem.heads \ todo' : x \in At(mem', blocks', NewId(HeadOrder, g))
  BY <1>1 DEF Rewritten, Posting, At, NewId
<1> QED
  BY <1>2, <1>3 DEF Coming

SameNewHeads == UNCHANGED setting /\ disk'["index"].head = disk["index"].head /\ disk'["index"].trans = disk["index"].trans

LEMMA NewHeadsKept ==
    ASSUME SameNewHeads
    PROVE  NewHeads' = NewHeads
<1> DEFINE NewAs(t, v, H) == IF setting.excludeHead
                             THEN {<<t[h + 1], v[h + 1]>> : h \in {g \in H : g < Len(t) /\ g < Len(v) /\ t[g + 1] # NoId}}
                             ELSE {}
<1>1. /\ LoadedFrom("index").trans = disk["index"].trans /\ LoadedFrom("index").vec = disk["index"].head.vec
      /\ (LoadedFrom("index")').trans = disk'["index"].trans /\ (LoadedFrom("index")').vec = disk'["index"].head.vec
  BY DEF LoadedFrom
<1>2. NewHeads = NewAs(disk["index"].trans, disk["index"].head.vec, disk["index"].head.heads)
  BY <1>1 DEF NewHeads, AsHeads, Stands
<1>3. NewHeads' = NewAs(disk["index"].trans, disk["index"].head.vec, disk["index"].head.heads)'
  BY <1>1 DEF NewHeads, AsHeads, Stands
<1>4. setting' = setting
  BY DEF SameNewHeads
<1> QED
  BY <1>2, <1>3, <1>4 DEF SameNewHeads

LEMMA ComingKept ==
    ASSUME SameNumbers, SameNewHeads, mem'.map = mem.map, UNCHANGED <<blocks, todo>>
    PROVE  Coming' = Coming /\ Misnamed' = Misnamed
<1>1. \A g : At(mem', blocks', g) = At(mem, blocks, g)
  BY DEF At
<1>2. \A x : x \in Coming' <=> x \in Coming
  BY <1>1, ComingNow, ComingNext, NewHeadsKept
<1>3. Misnamed' = Misnamed
  BY DEF Misnamed, SameNumbers
<1> QED
  BY <1>2, <1>3

\* A posting that is rewritten leaves what is coming as it was.
LEMMA RewriteEntries ==
    ASSUME Base, MemBlocks, todo \subseteq mem.heads, NEW h \in HeadIds, RefinePosting(h)
    PROVE  Coming' = Coming /\ Misnamed' = Misnamed
<1>0. /\ MemOK /\ mem \in Memories /\ blocks \in Postings /\ h \in todo /\ todo' = todo \ {h}
      /\ UNCHANGED <<disk, setting>> /\ mem.heads \subseteq HeadIds
  BY DEF Base, Types, MemOK, RefinePosting, Memories
<1> DEFINE b == NextBlock(mem.free)
           n == NewId(HeadOrder, h)
<1>1. RewriteAs(h, b) /\ n \in HeadIds
  BY RefinePostingEffect, NewHeadIdType
<1> HIDE DEF b
<1>2. /\ b \in mem.free /\ PutAs(mem', mem, n, b) /\ blocks' = [blocks EXCEPT ![b] = Renamed(h)]
  BY <1>1 DEF RewriteAs
<1>3. PostingSet(mem', blocks', mem, blocks, n, Renamed(h))
  BY <1>0, <1>1, <1>2, PutHolds
<1>4. SameNumbers
  BY <1>2 DEF SameNumbers, PutAs
<1>5. Renamed(h) = RenamedOf(At(mem, blocks, h))
  BY DEF Renamed, RenamedOf, Posting, At
<1>6. /\ \A g \in mem.heads : NewId(HeadOrder, g) \in HeadIds
      /\ \A g \in mem.heads : NewId(HeadOrder, g) = n => g = h
      /\ n = h \/ n \notin mem.heads
  BY <1>0, OrderNumbers, NumbersFree, NewHeadIdType DEF Numbered
<1> HIDE DEF n
<1>7. \A g \in HeadIds : At(mem', blocks', g) = IF g # n THEN At(mem, blocks, g) ELSE RenamedOf(At(mem, blocks, h))
  BY <1>3, <1>5 DEF PostingSet
<1>8. \A g \in todo' : At(mem', blocks', g) = At(mem, blocks, g)
  BY <1>0, <1>6, <1>7
<1>9. \A g \in mem.heads \ todo : At(mem', blocks', NewId(HeadOrder, g)) = At(mem, blocks, NewId(HeadOrder, g))
  BY <1>0, <1>6, <1>7
<1>10. At(mem', blocks', NewId(HeadOrder, h)) = RenamedOf(At(mem, blocks, h))
  BY <1>1, <1>7 DEF n
<1>11. NewHeads' = NewHeads
  BY <1>0, NewHeadsKept DEF SameNewHeads
<1>12. ASSUME NEW x PROVE x \in Coming' <=> x \in Coming
  <2>1. (\E g \in todo' : x \in RenamedOf(At(mem', blocks', g))) <=> \E g \in todo' : x \in RenamedOf(At(mem, blocks, g))
    BY <1>8
  <2>2. (\E g \in mem.heads \ todo' : x \in At(mem', blocks', NewId(HeadOrder, g))) <=>
            \/ x \in RenamedOf(At(mem, blocks, h))
            \/ \E g \in mem.heads \ todo : x \in At(mem, blocks, NewId(HeadOrder, g))
    BY <1>0, <1>9, <1>10
  <2>3. (\E g \in todo : x \in RenamedOf(At(mem, blocks, g))) <=>
            \/ x \in RenamedOf(At(mem, blocks, h))
            \/ \E g \in todo' : x \in RenamedOf(At(mem, blocks, g))
    BY <1>0
  <2> QED
    BY <1>4, <1>11, <2>1, <2>2, <2>3, ComingNow, ComingNext
<1>13. Misnamed' = Misnamed
  BY <1>4 DEF Misnamed, SameNumbers
<1> QED
  BY <1>12, <1>13

\* What a compaction is about to write: every live entry under its new id, and
\* heads whose vector is deleted under the id 0.
RefinedAs ==
    /\ \A x \in Coming' : \E y \in Reached : /\ x = <<NewId(VectorOrder, y[1]), y[2]>>
                                             /\ Live(mem.ver, y[1]) \/ y[2] \in Misnamed
    /\ \A y \in Reached : Live(mem.ver, y[1]) => <<NewId(VectorOrder, y[1]), y[2]>> \in Coming'

LEMMA RefineEntries ==
    ASSUME Base, RefineFiles
    PROVE  RefinedAs /\ Misnamed' = Misnamed
<1>0. /\ MemOK /\ mem \in Memories /\ blocks \in Postings /\ todo' = mem.heads /\ UNCHANGED <<mem, blocks, setting>>
      /\ disk \in [Dirs -> Directories] /\ "index" \in Dirs
  BY DEF Base, Types, MemOK, RefineFiles, DiskOK, Dirs
<1>1. SameNumbers /\ Misnamed' = Misnamed
  BY <1>0 DEF SameNumbers, Misnamed
<1>2. disk'["index"].head = FileOfHeads /\ disk'["index"].trans = FileOfTrans
  BY <1>0 DEF RefineFiles, FileOfHeads, FileOfTrans, Directories
<1>3. FileOfHeads \in HeadFiles /\ FileOfTrans \in Translations /\ Len(FileOfTrans) = Len(FileOfHeads.vec)
  BY CompactionFiles
<1>4. Numbered(HeadOrder, mem.heads)
  BY <1>0, OrderNumbers
<1> DEFINE k == Cardinality(mem.heads)
<1>5. k \in Nat /\ HeadOrder \in [1..k -> mem.heads] /\ Len(HeadOrder) = k /\ DOMAIN HeadOrder = 1..k
  BY <1>4 DEF Numbered
<1> HIDE DEF k
<1>6. /\ FileOfHeads.heads = 0..(k - 1) /\ Len(FileOfHeads.vec) = k /\ Len(FileOfTrans) = k
      /\ \A i \in 1..k : /\ FileOfHeads.vec[i] = mem.vec[HeadOrder[i] + 1]
                         /\ FileOfTrans[i] = IF HeadOrder[i] < Len(mem.trans) THEN RefineHeadId(mem.trans[HeadOrder[i] + 1]) ELSE NoId
  <2>1. FileOfHeads.heads = 0..(k - 1) /\ FileOfHeads.vec = [i \in DOMAIN HeadOrder |-> mem.vec[HeadOrder[i] + 1]]
    BY <1>5 DEF FileOfHeads
  <2>2. FileOfHeads.vec \in Seq(Vectors) /\ DOMAIN FileOfHeads.vec = 1..k
    BY <1>3, <1>5, <2>1 DEF HeadFiles
  <2>3. Len(FileOfHeads.vec) = k
    BY <1>5, <2>2
  <2> QED
    BY <1>3, <1>5, <2>1, <2>3 DEF FileOfTrans
<1>7. \A g : Stands(LoadedFrom("index")', g) <=> g < k /\ FileOfTrans[g + 1] # NoId
  BY <1>2, <1>6 DEF Stands, LoadedFrom
<1>8. \A x : x \in NewHeads' <=> setting.excludeHead /\ \E g \in 0..(k - 1) :
                FileOfTrans[g + 1] # NoId /\ x = <<FileOfTrans[g + 1], FileOfHeads.vec[g + 1]>>
  <2>1. /\ LoadedFrom("index")'.trans = FileOfTrans /\ LoadedFrom("index")'.vec = FileOfHeads.vec
        /\ disk'["index"].head.heads = 0..(k - 1)
    BY <1>2, <1>6 DEF LoadedFrom
  <2>2. \A x : x \in NewHeads' <=> setting.excludeHead /\ \E g \in 0..(k - 1) :
                Stands(LoadedFrom("index")', g) /\ x = <<FileOfTrans[g + 1], FileOfHeads.vec[g + 1]>>
    BY <1>0, <2>1 DEF NewHeads, AsHeads, Stands
  <2>3. \A g \in 0..(k - 1) : g < k
    BY <1>5
  <2> QED
    BY <1>7, <2>2, <2>3
<1>9. \A g \in 0..(k - 1) : g + 1 \in 1..k /\ HeadOrder[g + 1] \in mem.heads
  BY <1>5
<1>10. mem.heads \subseteq HeadIds /\ HeadIds \subseteq Nat /\ Len(mem.trans) \in Nat /\ Len(mem.vec) \in Nat
       /\ \A h \in mem.heads : h < Len(mem.vec)
  BY <1>0, LifecycleBounds DEF Memories, Translations, MemOK, HeadsOK, HeadIds
<1>11. \A x : x \in Coming' <=> (\E g \in mem.heads : x \in RenamedOf(At(mem, blocks, g))) \/ x \in NewHeads'
  BY <1>0, <1>1, ComingNext
<1>12. ASSUME NEW x, x \in NewHeads'
       PROVE  \E y \in Reached : x = <<NewId(VectorOrder, y[1]), y[2]>> /\ (Live(mem.ver, y[1]) \/ y[2] \in Misnamed)
  <2>1. PICK g \in 0..(k - 1) : FileOfTrans[g + 1] # NoId /\ x = <<FileOfTrans[g + 1], FileOfHeads.vec[g + 1]>>
    BY <1>8, <1>12
  <2> DEFINE h == HeadOrder[g + 1]
             t == mem.trans[h + 1]
  <2>2. h \in mem.heads /\ FileOfHeads.vec[g + 1] = mem.vec[h + 1]
        /\ FileOfTrans[g + 1] = IF h < Len(mem.trans) THEN RefineHeadId(t) ELSE NoId
    BY <1>6, <1>9
  <2> HIDE DEF h
  <2>3. h < Len(mem.trans) /\ t # NoId /\ FileOfTrans[g + 1] = NewId(VectorOrder, t)
    BY <2>1, <2>2 DEF RefineHeadId
  <2>4. Stands(mem, h) /\ setting.excludeHead
    BY <1>8, <1>10, <1>12, <2>2, <2>3 DEF Stands
  <2>5. HeadEntry(mem, h) \in Reached
    BY <2>2, <2>4, EntriesNow DEF Holds
  <2>6. Live(mem.ver, t) \/ mem.vec[h + 1] \in Misnamed
    BY <2>2, <2>3 DEF Misnamed
  <2>7. x = <<NewId(VectorOrder, t), mem.vec[h + 1]>>
    BY <2>1, <2>2, <2>3
  <2> QED
    BY <2>5, <2>6, <2>7 DEF HeadEntry
<1>13. ASSUME NEW x, NEW g \in mem.heads, x \in RenamedOf(At(mem, blocks, g))
       PROVE  \E y \in Reached : x = <<NewId(VectorOrder, y[1]), y[2]>> /\ (Live(mem.ver, y[1]) \/ y[2] \in Misnamed)
  <2>1. PICK y \in At(mem, blocks, g) : Live(mem.ver, y[1]) /\ x = <<NewId(VectorOrder, y[1]), y[2]>>
    BY <1>13 DEF RenamedOf
  <2>2. y \in Reached
    BY <1>13, <2>1, EntriesNow DEF Holds
  <2> QED
    BY <2>1, <2>2
<1>14. ASSUME NEW y \in Reached, Live(mem.ver, y[1]) PROVE <<NewId(VectorOrder, y[1]), y[2]>> \in Coming'
  <2>1. Holds(mem, blocks, mem.heads, y)
    BY <1>14, EntriesNow
  <2>2. CASE \E g \in mem.heads : y \in At(mem, blocks, g)
    BY <1>11, <1>14, <2>2 DEF RenamedOf
  <2>3. CASE setting.excludeHead /\ \E g \in mem.heads : Stands(mem, g) /\ y = HeadEntry(mem, g)
    <3>1. PICK h \in mem.heads : Stands(mem, h) /\ y = HeadEntry(mem, h)
      BY <2>3
    <3> DEFINE g == NewId(HeadOrder, h)
               t == mem.trans[h + 1]
    <3>2. g \in 0..(k - 1) /\ HeadOrder[g + 1] = h
      BY <1>4 DEF Numbered, k
    <3>3. y[1] = t /\ y[2] = mem.vec[h + 1] /\ h < Len(mem.trans) /\ t # NoId
      BY <3>1 DEF HeadEntry, Stands
    <3>4. t < Len(mem.ver)
      <4>1. t \in 0..(Len(mem.ver) - 1) /\ Len(mem.ver) \in Nat
        BY <1>0, <1>14, <3>3 DEF Live, Memories, Versions
      <4> QED
        BY <4>1
    <3>5. RefineHeadId(t) = NewId(VectorOrder, t)
      <4>1. ~(t >= Len(mem.ver))
        BY <1>0, <1>14, <3>3 DEF Live, Memories, Versions
      <4> QED
        BY <3>3, <4>1 DEF RefineHeadId
    <3> HIDE DEF g
    <3>6. FileOfTrans[g + 1] = NewId(VectorOrder, t) /\ FileOfHeads.vec[g + 1] = mem.vec[h + 1]
      BY <1>6, <1>9, <3>2, <3>3, <3>5
    <3>7. NewId(VectorOrder, t) # NoId
      <4>1. t \in LiveIds
        BY <1>0, <1>14, <3>3 DEF LiveIds, Live
      <4>2. NewId(VectorOrder, t) \in Nat
        BY <1>0, <4>1, OrderNumbers DEF Numbered
      <4> QED
        BY <4>2 DEF NoId
    <3>8. <<NewId(VectorOrder, t), mem.vec[h + 1]>> \in NewHeads'
      BY <1>8, <2>3, <3>2, <3>6, <3>7
    <3> QED
      BY <1>11, <3>3, <3>8
  <2> QED
    BY <2>1, <2>2, <2>3 DEF Holds
<1> QED
  BY <1>1, <1>11, <1>12, <1>13, <1>14 DEF RefinedAs

\* The load at the end of a quiet compaction brings what was coming.
LEMMA ReloadEntries ==
    ASSUME Base, FilesInv, RefineWritten, jobs = {}, saver.quiet, Reload
    PROVE  /\ \A x : x \in Known' <=> x \in Coming
           /\ \A x : x \in Reached' <=> x \in Coming
<1>0. /\ MemOK /\ UNCHANGED <<blocks, setting, jobs>> /\ InRefine /\ mem'.map = mem.map
      /\ mem'.heads = disk["index"].head.heads /\ mem'.vec = disk["index"].head.vec /\ mem'.trans = disk["index"].trans
  BY ReloadType, ReloadSteps DEF Base, Types
<1>1. Left = {"reload"}
  BY ReloadSteps
<1>2. todo = {} /\ disk["index"].head = FileOfHeads
  BY <1>0, <1>1 DEF RefineWritten
<1>3. Numbered(HeadOrder, mem.heads)
  BY <1>0, OrderNumbers
<1> DEFINE k == Cardinality(mem.heads)
<1>4. k \in Nat /\ mem'.heads = 0..(k - 1)
  BY <1>0, <1>2, <1>3 DEF FileOfHeads, Numbered
<1>5. \A g \in mem'.heads : \E h \in mem.heads : NewId(HeadOrder, h) = g
  <2> TAKE g \in mem'.heads
  <2>1. g + 1 \in 1..k /\ g \in Int
    BY <1>4
  <2>2. HeadOrder[g + 1] \in mem.heads /\ NewId(HeadOrder, HeadOrder[g + 1]) = (g + 1) - 1
    BY <1>3, <2>1 DEF Numbered
  <2> QED
    BY <2>1, <2>2
<1>6. \A h \in mem.heads : NewId(HeadOrder, h) \in mem'.heads
  BY <1>3, <1>4 DEF Numbered
<1>7. \A g : At(mem', blocks', g) = At(mem, blocks, g)
  BY <1>0 DEF At
<1>8. \A x : x \in NewHeads <=> setting.excludeHead /\ \E g \in mem'.heads : Stands(mem', g) /\ x = HeadEntry(mem', g)
  <2>1. LoadedFrom("index").trans = mem'.trans /\ LoadedFrom("index").vec = mem'.vec
    BY <1>0 DEF LoadedFrom
  <2>2. \A g : Stands(LoadedFrom("index"), g) <=> Stands(mem', g)
    BY <2>1 DEF Stands
  <2> QED
    BY <1>0, <2>1, <2>2 DEF NewHeads, AsHeads, HeadEntry
<1>9. \A x : x \in Coming <=> Holds(mem', blocks', mem'.heads, x)
  BY <1>2, <1>5, <1>6, <1>7, <1>8, ComingNow DEF Holds
<1>10. mem'.heads \cup jobs' = mem'.heads
  BY <1>0
<1> QED
  BY <1>0, <1>9, <1>10, EntriesNext

-----------------------------------------------------------------------------

(***************************************************************************)
(* Labels: when they hold                                                  *)
(***************************************************************************)

\* A compaction is loaded once.
LEMMA ReloadedFrame ==
    ASSUME Base, [Next]_vars
    PROVE  /\ Reloaded' => Reloaded \/ Reload
           /\ Reload => Reloaded'
           /\ Reloaded => Reloaded' \/ saver' = NoSave
<1>0. SaverOK
  BY DEF Base, Types
<1>1. ASSUME saver' = saver PROVE Reloaded' <=> Reloaded
  BY <1>1 DEF Reloaded, Left, LeftOf
<1>2. CASE Starts
  <2>1. saver = NoSave /\ saver' = NoSave
    BY <1>2, StartsFrame
  <2> QED
    BY <1>1, <1>2, <2>1, ReloadSteps DEF NoSave
<1>3. CASE SaveEnd \/ Crash
  <2>1. saver' = NoSave /\ ~Reloaded'
    BY <1>3 DEF SaveEnd, Crash, NoSave, Reloaded
  <2>2. ~Reload
    BY <1>3, ReloadSteps, <2>1 DEF NoSave
  <2> QED
    BY <2>1, <2>2
<1>4. ASSUME NEW c \in Clients, Updates(c)
      PROVE  (Reloaded' <=> Reloaded) /\ ~Reload
  <2>1. (Reloaded' <=> Reloaded) /\ saver'.plan = saver.plan
    BY <1>0, <1>4, UpdateFrame DEF Updates
  <2>2. Reload => Left = {"reload"} /\ "reload" \notin Left'
    BY ReloadSteps
  <2>3. Left' = Left
    BY <2>1 DEF Left, LeftOf
  <2> QED
    BY <2>1, <2>2, <2>3
<1>5. ASSUME NEW h \in HeadIds, SplitJob(h)
      PROVE  (Reloaded' <=> Reloaded) /\ ~Reload
  <2>1. saver' = saver
    BY <1>5 DEF SplitJob
  <2>2. Reload => Left = {"reload"} /\ "reload" \notin Left'
    BY ReloadSteps
  <2> QED
    BY <1>1, <2>1, <2>2 DEF Left, LeftOf
<1>6. ASSUME NEW h \in HeadIds, RefinePosting(h)
      PROVE  ~Reloaded' /\ ~Reloaded /\ ~Reload
  <2>1. "reload" \in Left' /\ "reload" \in Left
    BY <1>6, RewriteSteps
  <2>2. Reload => "reload" \notin Left'
    BY ReloadSteps
  <2> QED
    BY <2>1, <2>2 DEF Reloaded
<1>7. CASE SaveIndex \/ Checkpoint
  <2>1. saver'.kind # "refine" /\ saver.kind = "none"
    BY <1>7, StartSteps DEF SaveIndex, Checkpoint
  <2> QED
    BY <2>1, ReloadSteps DEF Reloaded
<1>8. CASE OpenFiles
  <2>1. saver.kind = "save" /\ saver'.kind = "save"
    BY <1>8, OpenSteps
  <2> QED
    BY <2>1, ReloadSteps DEF Reloaded
<1>9. ASSUME NEW s \in Steps, s # "reload", AtStep(s), Advance
      PROVE  /\ Reloaded' <=> Reloaded
             /\ ~Reload
  <2>1. (InRefine' <=> InRefine) /\ (Reloaded' <=> saver.kind = "refine" /\ ~InRefine')
    BY <1>0, <1>9, StepAdvances
  <2>2. Reloaded <=> saver.kind = "refine" /\ ~InRefine
    BY DEF Reloaded, InRefine
  <2>3. Reload => AtStep("reload")
    BY DEF Reload
  <2> QED
    BY <1>9, <2>1, <2>2, <2>3 DEF AtStep
<1>10. CASE SaveMetadata \/ SaveHeadIndex \/ SaveHeadFolder \/ SaveTranslateMap
  <2>1. \E s \in {"meta", "head", "saveHead", "trans"} : AtStep(s) /\ Advance
    BY <1>10 DEF SaveMetadata, SaveHeadIndex, SaveHeadFolder, SaveTranslateMap
  <2> QED
    BY <1>9, <2>1 DEF Steps
<1>11. CASE SaveVersionMap \/ SaveMapping \/ SavePool \/ ClearLog
  <2>1. \E s \in {"ver", "map", "pool", "clear"} : AtStep(s) /\ Advance
    BY <1>11 DEF SaveVersionMap, SaveMapping, SavePool, ClearLog
  <2> QED
    BY <1>9, <2>1 DEF Steps
<1>12. CASE RefineFiles
  <2>1. saver.kind = "save" /\ "reload" \in Left'
    BY <1>12, RefineSteps
  <2> QED
    BY <2>1, ReloadSteps DEF Reloaded
<1>13. CASE Reload
  <2>1. saver.kind = "refine" /\ saver'.kind = "refine" /\ "reload" \in Left /\ "reload" \notin Left'
    BY <1>13, ReloadSteps
  <2> QED
    BY <1>13, <2>1 DEF Reloaded
<1>14. CASE UNCHANGED vars
  <2>1. saver' = saver
    BY <1>14 DEF vars
  <2>2. Reload => Left = {"reload"} /\ "reload" \notin Left'
    BY ReloadSteps
  <2> QED
    BY <1>1, <2>1, <2>2 DEF Left, LeftOf
<1> QED
  BY <1>2, <1>3, <1>4, <1>5, <1>6, <1>7, <1>8, <1>10, <1>11, <1>12, <1>13, <1>14, NextCases

\* A save remembers whether the metadata was right when it started.
LEMMA LabelledFrame ==
    ASSUME Base, [Next]_vars
    PROVE  /\ LoadIndex \/ RecoverIndex \/ Reload \/ UNCHANGED labelled
           /\ LoadIndex => labelled' = (promise["index"].sound /\ promise["index"].labelled) /\ trusted' = promise["index"].sound
           /\ RecoverIndex \/ Reload => ~labelled'
           /\ saver'.labelled => \/ saver.labelled /\ ~Starts
                                 \/ (SaveIndex \/ Checkpoint) /\ labelled
           /\ Reload /\ saver'.labelled => Misnamed = {}
<1>0. SaverOK
  BY DEF Base, Types
<1>1. LoadIndex => labelled' = (promise["index"].sound /\ promise["index"].labelled) /\ trusted' = promise["index"].sound
  BY DEF LoadIndex
<1>2. RecoverIndex \/ Reload => ~labelled'
  BY DEF RecoverIndex, Reload
<1>3. Reload => saver'.labelled = (saver.labelled /\ Misnamed = {})
  BY <1>0 DEF Reload, Misnamed, SaverOK
<1> DEFINE Frame == LoadIndex \/ RecoverIndex \/ Reload \/ UNCHANGED labelled
           Keeps == saver'.labelled => (saver.labelled /\ ~Starts) \/ ((SaveIndex \/ Checkpoint) /\ labelled)
<1> SUFFICES Frame /\ Keeps
  BY <1>1, <1>2, <1>3
<1>4. CASE Starts
  <2>1. ~saver'.labelled
    BY <1>4, StartsFrame DEF NoSave
  <2>2. Frame
    BY <1>4 DEF Starts, BuildIndex, BuildEnd, ReplayAdd, ReplayDelete, RecoverEnd, history
  <2> QED
    BY <2>1, <2>2
<1> SUFFICES ASSUME ~Starts PROVE Frame /\ Keeps
  BY <1>4
<1>5. CASE SaveEnd \/ Crash
  BY <1>5 DEF SaveEnd, Crash, NoSave
<1>6. ASSUME NEW c \in Clients, Updates(c) PROVE Frame /\ Keeps
  BY <1>0, <1>6, UpdateFrame DEF Updates
<1>7. ASSUME NEW h \in HeadIds, SplitJob(h) \/ RefinePosting(h) PROVE Frame /\ Keeps
  <2>1. saver'.labelled = saver.labelled /\ UNCHANGED labelled
    BY <1>0, <1>7 DEF SplitJob, RefinePosting, history, SaverOK
  <2> QED
    BY <2>1
<1>8. CASE SaveIndex \/ Checkpoint
  <2>1. saver'.labelled = labelled /\ UNCHANGED labelled
    BY <1>8 DEF SaveIndex, Checkpoint, Start, history
  <2> QED
    BY <1>8, <2>1
<1>9. ASSUME Advance, UNCHANGED labelled PROVE Frame /\ Keeps
  <2>1. saver'.labelled = saver.labelled
    BY <1>0, <1>9 DEF Advance, SaverOK
  <2> QED
    BY <1>9, <2>1
<1>10. CASE SaveMetadata \/ SaveHeadIndex \/ SaveHeadFolder \/ SaveTranslateMap \/ SaveVersionMap \/ SaveMapping \/ SavePool \/ ClearLog
  BY <1>9, <1>10 DEF SaveMetadata, SaveHeadIndex, SaveHeadFolder, SaveTranslateMap, SaveVersionMap, SaveMapping, SavePool,
                     ClearLog, history
<1>11. CASE OpenFiles
  <2>1. saver'.labelled = saver.labelled /\ UNCHANGED labelled
    BY <1>0, <1>11 DEF OpenFiles, SaverOK
  <2> QED
    BY <2>1
<1>12. CASE RefineFiles
  <2>1. saver'.labelled = saver.labelled /\ UNCHANGED labelled
    BY <1>12, RefineSteps
  <2> QED
    BY <2>1
<1>13. CASE Reload
  BY <1>3, <1>13
<1>14. CASE UNCHANGED vars
  BY <1>14 DEF vars
<1> QED
  BY <1>5, <1>6, <1>7, <1>8, <1>10, <1>11, <1>12, <1>13, <1>14, NextCases

LEMMA LabelsRunNext ==
    ASSUME Base, LabelsRun, [Next]_vars
    PROVE  LabelsRun'
<1>0. ~NoSave.labelled /\ NoSave.kind = "none"
  BY DEF NoSave
<1>1. CASE LoadIndex \/ RecoverIndex
  <2>1. saver' = NoSave
    BY <1>1, StartsFrame DEF Starts
  <2>2. ~saver'.labelled /\ ~Reloaded'
    BY <1>0, <2>1 DEF Reloaded
  <2>3. labelled' => trusted' /\ state' # "replay"
    BY <1>1, LabelledFrame DEF LoadIndex, RecoverIndex
  <2> QED
    BY <2>2, <2>3 DEF LabelsRun
<1>2. CASE ~LoadIndex /\ ~RecoverIndex
  <2>1. UNCHANGED trusted /\ (Reload \/ UNCHANGED labelled) /\ (Reload => ~labelled')
    BY <1>2, RunFrame, LabelledFrame
  <2>2. state' = "replay" => state = "replay"
    BY <1>2, RunFrame DEF BuildIndex, BuildEnd, RecoverEnd, Crash
  <2>3. labelled' => trusted' /\ ~Reloaded' /\ state' # "replay"
    BY <2>1, <2>2, ReloadedFrame DEF LabelsRun
  <2>4. ASSUME saver'.labelled PROVE trusted' /\ (labelled' \/ Reloaded')
    <3>1. CASE saver.labelled
      <4>1. trusted /\ (labelled \/ Reloaded)
        BY <3>1 DEF LabelsRun
      <4>2. saver' # NoSave
        BY <1>0, <2>4
      <4> QED
        BY <2>1, <4>1, <4>2, ReloadedFrame
    <3>2. CASE (SaveIndex \/ Checkpoint) /\ labelled
      <4>1. ~Reload
        BY <3>2, ReloadSteps DEF SaveIndex, Checkpoint
      <4> QED
        BY <2>1, <3>2, <4>1 DEF LabelsRun
    <3> QED
      BY <2>4, <3>1, <3>2, LabelledFrame
  <2> QED
    BY <2>3, <2>4 DEF LabelsRun
<1> QED
  BY <1>1, <1>2

-----------------------------------------------------------------------------

(***************************************************************************)
(* What a sound directory holds                                            *)
(***************************************************************************)

LEMMA SavedNow ==
    ASSUME NEW d
    PROVE  \A x : x \in SavedIn(d) <=> Holds(LoadedFrom(d), blocks, disk[d].head.heads, x)
  BY EntriesAre DEF SavedIn

LEMMA SavedNext ==
    ASSUME NEW d, setting' = setting
    PROVE  \A x : x \in SavedIn(d)' <=> Holds(LoadedFrom(d)', blocks', disk'[d].head.heads, x)
<1>1. \A x : x \in InPostings(LoadedFrom(d), disk[d].head.heads)' <=>
                \E g \in disk'[d].head.heads : x \in At(LoadedFrom(d)', blocks', g)
  BY DEF InPostings, Posting, At
<1>2. \A x : x \in AsHeads(LoadedFrom(d), disk[d].head.heads)' <=>
                setting.excludeHead /\ \E g \in disk'[d].head.heads :
                                          Stands(LoadedFrom(d)', g) /\ x = HeadEntry(LoadedFrom(d)', g)
  BY DEF AsHeads, HeadEntry, Stands
<1>3. \A x : x \in SavedIn(d)' <=> \/ x \in InPostings(LoadedFrom(d), disk[d].head.heads)'
                                   \/ x \in AsHeads(LoadedFrom(d), disk[d].head.heads)'
  BY DEF SavedIn, Entries
<1> QED
  BY <1>1, <1>2, <1>3 DEF Holds

\* The entries of a directory that stays sound stay.
LEMMA SavedSame ==
    ASSUME Base, SavesInv, [Next]_vars, NEW d \in Dirs, promise'[d].sound, SaveEnd => d # saver.dir
    PROVE  Untouched(d) /\ \A x : x \in SavedIn(d)' <=> x \in SavedIn(d)
<1>0. Untouched(d) /\ setting' = setting /\ "index" \in Dirs
  <2>1. CASE ~SaveEnd
    BY <2>1, SoundUntouched, RunFrame DEF SavesInv, Dirs
  <2>2. CASE SaveEnd
    BY <2>2, SaveEnds DEF SavesInv, Ends, Untouched, Dirs
  <2> QED
    BY <2>1, <2>2
<1>1. /\ DirBlocks(d) /\ disk[d] \in Directories
      /\ setting.excludeHead => d = "index"
  BY <1>0 DEF SavesInv, BlocksInv, HeadsNamed, BufferNamed, Untouched, Base, Types, DiskOK, Dirs
<1>2. disk[d].map \in Mappings /\ disk[d].head.heads \subseteq HeadIds /\ disk'[d] = disk[d]
  BY <1>0, <1>1 DEF DirBlocks, Directories, File, HeadFiles, Untouched
<1>3. \A g \in HeadIds : disk[d].map[g] # NoBlock => blocks'[disk[d].map[g]] = blocks[disk[d].map[g]]
  BY <1>0, SavedKeptNext DEF SavedKept, Untouched, SaveEnd, durable
<1>4. \A g \in HeadIds : At(LoadedFrom(d)', blocks', g) = At(LoadedFrom(d), blocks, g)
  <2>1. LoadedFrom(d).map = disk[d].map /\ LoadedFrom(d)'.map = disk[d].map
    BY <1>1, <1>2 DEF LoadedFrom, OrElse, DirBlocks
  <2> QED
    BY <1>3, <2>1 DEF At
<1>5. CASE ~setting.excludeHead
  BY <1>0, <1>2, <1>4, <1>5, SavedNow, SavedNext DEF Holds
<1>6. CASE setting.excludeHead
  <2>1. /\ LoadedFrom(d)'.trans = LoadedFrom(d).trans /\ LoadedFrom(d)'.vec = LoadedFrom(d).vec
    BY <1>1, <1>2, <1>6 DEF LoadedFrom
  <2>2. \A g : (Stands(LoadedFrom(d)', g) <=> Stands(LoadedFrom(d), g)) /\ HeadEntry(LoadedFrom(d)', g) = HeadEntry(LoadedFrom(d), g)
    BY <2>1 DEF Stands, HeadEntry
  <2> QED
    BY <1>0, <1>2, <1>4, <2>2, SavedNow, SavedNext DEF Holds
<1> QED
  BY <1>0, <1>5, <1>6

\* A save that is relied on holds what is in memory.
LEMMA SavedWhole ==
    ASSUME Base, SavesInv, SaveEnd, NEW d \in Dirs, d = saver.dir, promise'[d].sound
    PROVE  /\ Ends /\ Whole
           /\ \A x : x \in SavedIn(d)' <=> x \in Known
           /\ \A x : x \in Known <=> x \in Reached
<1>0. Ends /\ Whole
  BY SaveEnds DEF SavesInv
<1>1. /\ setting' = setting /\ blocks' = blocks /\ disk' = disk /\ jobs = {}
      /\ disk[d].map = mem.map /\ disk[d].head.heads = mem.heads /\ mem.map \in Mappings
  BY <1>0 DEF Ends, Whole, Base, Types, MemOK, Memories
<1>2. mem.map # None
  BY <1>1, NoneIsNoFile
<1>3. \A g : At(LoadedFrom(d)', blocks', g) = At(mem, blocks, g)
  BY <1>1, <1>2 DEF LoadedFrom, OrElse, At
<1>4. mem.heads \cup jobs = mem.heads
  BY <1>1
<1>5. CASE ~setting.excludeHead
  BY <1>0, <1>1, <1>3, <1>4, <1>5, EntriesNow, SavedNext DEF Holds
<1>6. CASE setting.excludeHead
  <2>1. d = "index" /\ saver.kind \in {"save", "refine"}
    BY <1>0, <1>6 DEF Ends, Whole, Dirs, Base, Types, SaverOK, Saving
  <2>2. disk["index"].head = HeadsNow /\ disk["index"].trans = mem.trans
    BY <1>0, <2>1 DEF Whole
  <2>3. LoadedFrom(d)'.trans = mem.trans /\ LoadedFrom(d)'.vec = mem.vec
    BY <1>1, <2>1, <2>2 DEF LoadedFrom, HeadsNow
  <2>4. \A g : (Stands(LoadedFrom(d)', g) <=> Stands(mem, g)) /\ HeadEntry(LoadedFrom(d)', g) = HeadEntry(mem, g)
    BY <2>3 DEF Stands, HeadEntry
  <2> QED
    BY <1>0, <1>1, <1>3, <1>4, <2>4, EntriesNow, SavedNext DEF Holds
<1> QED
  BY <1>0, <1>4, <1>5, <1>6, EntriesNow

\* A load brings what the directory holds.
LEMMA LoadEntries ==
    ASSUME NEW d \in Dirs, mem' = LoadedFrom(d), UNCHANGED <<setting, blocks, jobs>>, jobs = {}
    PROVE  /\ \A x : x \in Known' <=> x \in SavedIn(d)
           /\ \A x : x \in Reached' <=> x \in SavedIn(d)
<1>1. mem'.heads = disk[d].head.heads /\ mem'.heads \cup jobs' = mem'.heads
  BY DEF LoadedFrom
<1> QED
  BY <1>1, EntriesNext, SavedNow

LEMMA LabelsSavedNext ==
    ASSUME Base, SavesInv, LabelsInv, [Next]_vars
    PROVE  LabelsSaved'
<1> SUFFICES ASSUME promise'["index"].sound, promise'["index"].labelled PROVE LabelsSaved'
  BY DEF LabelsSaved
<1>0. "index" \in Dirs /\ setting' = setting /\ SaverOK /\ MemOK
  BY RunFrame DEF Dirs, Base, Types
<1>1. CASE SaveEnd => saver.dir # "index"
  <2>1. Untouched("index") /\ \A x : x \in SavedIn("index")' <=> x \in SavedIn("index")
    BY <1>0, <1>1, SavedSame
  <2>2. /\ disk["index"].meta # None /\ LabelsFit(disk["index"].meta, disk["index"].ver)
        /\ Labelled(SavedIn("index"), disk["index"].meta, disk["index"].ver)
    BY <2>1 DEF LabelsInv, LabelsSaved, Untouched
  <2> QED
    BY <1>0, <2>1, <2>2 DEF LabelsSaved, Labelled, LabelsFit, Untouched
<1>2. CASE SaveEnd /\ saver.dir = "index"
  <2>1. Ends /\ Whole /\ \A x : x \in SavedIn("index")' <=> x \in Known
    BY <1>0, <1>2, SavedWhole
  <2>2. /\ Saving /\ Left = {} /\ saver.labelled /\ trusted /\ saver.quiet /\ saver.kind \in {"save", "refine"}
        /\ ~InRefine /\ disk' = disk /\ disk["index"].ver = mem.ver
    BY <1>0, <1>2, <2>1, SaverDirs DEF Ends, Whole, InRefine, SaverOK, Saving, Dirs
  <2>3. disk["index"].meta # None /\ LabelsFit(disk["index"].meta, mem.ver) /\ Labelled(Known, disk["index"].meta, mem.ver)
    <3>1. CASE saver.kind = "refine"
      BY <2>2, <3>1 DEF LabelsInv, LabelsReloaded, Reloaded
    <3>2. CASE saver.kind = "save"
      <4>1. disk["index"].meta = mem.meta
        BY <2>1, <3>2 DEF Whole
      <4>2. labelled
        BY <2>2, <3>2 DEF LabelsInv, LabelsRun, Reloaded
      <4>3. state = "running"
        BY <2>2 DEF Base, NamesInv, StatesInv, Saving, NoSave
      <4>4. mem.meta # None
        BY <1>0, LifecycleNone, LifecycleBounds DEF MemOK, Memories, Labels, Vectors, Ids
      <4> QED
        BY <2>2, <4>1, <4>2, <4>3, <4>4 DEF LabelsInv, LabelsInMemory, MemLabelled
    <3> QED
      BY <2>2, <3>1, <3>2
  <2> QED
    BY <1>0, <2>1, <2>2, <2>3 DEF LabelsSaved, Labelled, LabelsFit
<1> QED
  BY <1>1, <1>2

-----------------------------------------------------------------------------

(***************************************************************************)
(* Labels: the steps of a saver                                            *)
(***************************************************************************)

\* The steps that leave the index in memory as it is.
SaverStep ==
    \/ SaveIndex \/ Checkpoint \/ OpenFiles \/ SaveMetadata \/ SaveHeadIndex \/ SaveHeadFolder \/ SaveTranslateMap
    \/ SaveVersionMap \/ SaveMapping \/ SavePool \/ ClearLog \/ SaveEnd \/ RefineFiles \/ UNCHANGED vars

LEMMA SaverStepKeeps ==
    ASSUME Base, SaverStep
    PROVE  /\ SameNumbers /\ SameEntries /\ UNCHANGED <<state, sure, gone, trusted, labelled>>
           /\ Known' = Known /\ Reached' = Reached
           /\ RefineFiles \/ UNCHANGED <<op, todo>>
<1> DEFINE Same == UNCHANGED <<setting, state, blocks, jobs, sure, gone, trusted, labelled>>
<1>1. Same /\ (RefineFiles \/ UNCHANGED <<op, todo>>)
  <2>1. CASE SaveIndex \/ Checkpoint \/ OpenFiles \/ SaveMetadata \/ SaveHeadIndex \/ SaveHeadFolder \/ SaveTranslateMap
    BY <2>1 DEF SaveIndex, Checkpoint, OpenFiles, SaveMetadata, SaveHeadIndex, SaveHeadFolder, SaveTranslateMap, durable, history
  <2>2. CASE SaveVersionMap \/ SaveMapping \/ SavePool \/ ClearLog \/ SaveEnd \/ RefineFiles \/ UNCHANGED vars
    BY <2>2 DEF SaveVersionMap, SaveMapping, SavePool, ClearLog, SaveEnd, RefineFiles, vars, durable, history
  <2> QED
    BY <2>1, <2>2 DEF SaverStep
<1>2. SameNumbers /\ mem'.map = mem.map
  <2>1. CASE SavePool
    BY <2>1, WriteSteps DEF PoolSaved, SameNumbers
  <2>2. CASE ~SavePool
    <3>1. mem' = mem
      BY <2>2 DEF SaverStep, SaveIndex, Checkpoint, OpenFiles, SaveMetadata, SaveHeadIndex, SaveHeadFolder, SaveTranslateMap,
                  SaveVersionMap, SaveMapping, ClearLog, SaveEnd, RefineFiles, vars
    <3> QED
      BY <3>1 DEF SameNumbers
  <2> QED
    BY <2>1, <2>2
<1>3. SameEntries
  BY <1>1, <1>2 DEF SameEntries, SameNumbers, SameHeads
<1> QED
  BY <1>1, <1>2, <1>3, KnownKept

SameMetaFile == disk'["index"].meta = disk["index"].meta

\* The steps that change the metadata file.
LEMMA MetaFrame ==
    ASSUME Base, [Next]_vars
    PROVE  SameMetaFile \/ OpenFiles \/ RefineFiles \/ SaveMetadata
<1>1. ASSUME NEW file \in Files, NEW x, Wrote(file, x), file # "meta" PROVE SameMetaFile
  <2>1. disk'[saver.dir].meta = disk[saver.dir].meta /\ \A d \in Dirs : d # saver.dir => disk'[d] = disk[d]
    BY <1>1 DEF Wrote, Files
  <2> QED
    BY <2>1 DEF SameMetaFile, Dirs
<1>2. CASE SaveTranslateMap \/ SaveHeadIndex \/ SaveHeadFolder \/ SaveVersionMap \/ SaveMapping \/ SavePool
  <2>1. \E file \in Files \ {"meta"} : \E x : Wrote(file, x)
    BY <1>2, WriteSteps DEF Files
  <2> QED
    BY <1>1, <2>1
<1>3. CASE \E c \in Clients : Updates(c)
  BY <1>3, UpdateFrame DEF Updates, Base, Types, SameMetaFile
<1>4. CASE \E h \in HeadIds : SplitJob(h) \/ RefinePosting(h)
  BY <1>4 DEF SplitJob, RefinePosting, SameMetaFile
<1>5. CASE BuildEnd
  <2>1. disk["index"] \in Directories /\ disk \in [Dirs -> Directories]
    BY DEF Base, Types, DiskOK, Dirs
  <2> QED
    BY <1>5, <2>1 DEF BuildEnd, Directories, SameMetaFile, Dirs
<1>6. CASE BuildIndex \/ LoadIndex \/ RecoverIndex \/ ReplayAdd \/ ReplayDelete \/ RecoverEnd \/ SaveEnd \/ Crash
  BY <1>6 DEF BuildIndex, LoadIndex, RecoverIndex, ReplayAdd, ReplayDelete, RecoverEnd, SaveEnd, Crash, durable, SameMetaFile
<1>7. CASE SaveIndex \/ Checkpoint \/ ClearLog \/ Reload \/ UNCHANGED vars
  BY <1>7 DEF SaveIndex, Checkpoint, ClearLog, Reload, durable, vars, SameMetaFile
<1> QED
  BY <1>2, <1>3, <1>4, <1>5, <1>6, <1>7, NextCases DEF Starts

\* A compaction that goes on without an update beside it.
LEMMA RefineGoesOn ==
    ASSUME Base, SaveQuiet, [Next]_vars, saver.kind = "refine", saver'.kind = "refine", saver'.quiet
    PROVE  /\ saver.quiet /\ jobs = {} /\ \A c \in Clients : op[c] = Idle
           /\ \/ SaveTranslateMap \/ SaveVersionMap \/ SaveHeadFolder \/ SaveMapping \/ SavePool \/ ClearLog
              \/ UNCHANGED vars \/ Reload \/ \E h \in HeadIds : RefinePosting(h)
<1>0. SaverOK /\ Saving
  BY DEF Base, Types, Saving
<1> DEFINE Goes == \/ SaveTranslateMap \/ SaveVersionMap \/ SaveHeadFolder \/ SaveMapping \/ SavePool \/ ClearLog
                   \/ UNCHANGED vars \/ Reload \/ \E h \in HeadIds : RefinePosting(h)
<1>1. ~Starts /\ ~SaveEnd /\ ~Crash
  <2>1. NoSave.kind # "refine"
    BY DEF NoSave
  <2> QED
    BY <2>1, StartsFrame DEF SaveEnd, Crash
<1>2. \A c \in Clients : ~Updates(c)
  BY <1>0, UpdateFrame DEF Updates
<1>3. ~SaveIndex /\ ~Checkpoint /\ ~OpenFiles /\ ~SaveMetadata /\ ~SaveHeadIndex /\ ~RefineFiles
  BY <1>0, StartSteps, OpenSteps, RefineSteps, AtMeta, AtHead DEF SaveMetadata, SaveHeadIndex
<1>4. Goes \/ \E h \in HeadIds : SplitJob(h)
  BY <1>1, <1>2, <1>3, NextCases
<1>5. saver.quiet
  <2>1. CASE \E h \in HeadIds : SplitJob(h)
    BY <2>1 DEF SplitJob
  <2>2. CASE Reload \/ \E h \in HeadIds : RefinePosting(h)
    BY <2>2, ReloadSteps, RewriteSteps
  <2>3. CASE SaveTranslateMap \/ SaveVersionMap \/ SaveHeadFolder \/ SaveMapping \/ SavePool \/ ClearLog
    BY <2>3, WriteSteps DEF Stepped
  <2>4. CASE UNCHANGED vars
    BY <2>4 DEF vars
  <2> QED
    BY <1>4, <2>1, <2>2, <2>3, <2>4
<1>6. jobs = {} /\ \A c \in Clients : op[c] = Idle
  BY <1>0, <1>5 DEF SaveQuiet, Settled
<1>7. \A h \in HeadIds : ~SplitJob(h)
  BY <1>6 DEF SplitJob
<1> QED
  BY <1>4, <1>5, <1>6, <1>7

LEMMA LabelsReloadedNext ==
    ASSUME Base, SavesInv, LabelsInv, [Next]_vars
    PROVE  LabelsReloaded'
<1> SUFFICES ASSUME Reloaded', saver'.quiet, saver'.labelled PROVE LabelsReloaded'
  BY DEF LabelsReloaded
<1>0. setting' = setting /\ SaverOK
  BY RunFrame DEF Base, Types
<1>1. CASE Reload
  <2>1. /\ InRefine /\ saver.quiet /\ jobs = {} /\ disk' = disk /\ mem'.ver = disk["index"].ver
    <3>1. InRefine /\ saver.quiet /\ disk' = disk /\ mem'.ver = disk["index"].ver /\ saver.kind = "refine"
      BY <1>1, ReloadSteps, ReloadType DEF SavesInv
    <3> QED
      BY <3>1 DEF SavesInv, SaveQuiet, Saving, Settled
  <2>2. saver.labelled /\ Misnamed = {}
    BY <1>1, LabelledFrame, ReloadSteps DEF SaveIndex, Checkpoint
  <2>3. /\ disk["index"].meta # None /\ LabelsFit(disk["index"].meta, disk["index"].ver)
        /\ Labelled(Coming, disk["index"].meta, disk["index"].ver)
    BY <2>1, <2>2 DEF LabelsInv, LabelsComing
  <2>4. \A x : x \in Known' <=> x \in Coming
    BY <1>1, <2>1, ReloadEntries DEF SavesInv
  <2> QED
    BY <1>0, <2>1, <2>3, <2>4 DEF LabelsReloaded, Labelled, LabelsFit
<1>2. CASE ~Reload
  <2>1. Reloaded /\ saver.kind = "refine" /\ saver'.kind = "refine"
    BY <1>2, ReloadedFrame DEF Reloaded
  <2>2. saver.quiet /\ saver.labelled
    BY <2>1, RefineGoesOn, LabelledFrame DEF SavesInv, SaveIndex, Checkpoint
  <2>3. SaverStep /\ ~RefineFiles /\ ~OpenFiles /\ ~SaveMetadata
    <3>1. \A h \in HeadIds : ~RefinePosting(h)
      BY <2>1, RewriteSteps DEF Reloaded
    <3>2. SaverStep
      BY <1>2, <2>1, <3>1, RefineGoesOn DEF SavesInv, SaverStep
    <3> QED
      BY <1>0, <2>1, <3>2, OpenSteps, RefineSteps, AtMeta DEF SaveMetadata
  <2>4. Known' = Known /\ mem'.ver = mem.ver /\ SameMetaFile
    BY <2>3, SaverStepKeeps, MetaFrame DEF SameNumbers
  <2> QED
    BY <1>0, <2>1, <2>2, <2>4 DEF LabelsInv, LabelsReloaded, Labelled, LabelsFit, SameMetaFile
<1> QED
  BY <1>1, <1>2

\* A compaction has started, and is not yet loaded.
LEMMA InRefineFrame ==
    ASSUME Base, [Next]_vars
    PROVE  /\ InRefine' => InRefine \/ RefineFiles
           /\ InRefine => InRefine' \/ Reload \/ Crash
<1>0. SaverOK
  BY DEF Base, Types
<1>1. ASSUME saver' = saver PROVE InRefine' <=> InRefine
  BY <1>1 DEF InRefine, Left, LeftOf
<1>2. CASE Starts
  BY <1>1, <1>2, StartsFrame
<1>3. CASE SaveEnd
  <2>1. ~InRefine /\ ~InRefine'
    BY <1>3 DEF SaveEnd, NoSave, InRefine, Left, LeftOf
  <2> QED
    BY <2>1
<1>4. CASE Crash
  BY <1>4 DEF Crash, NoSave, InRefine
<1>5. CASE \E c \in Clients : Updates(c)
  BY <1>0, <1>5, UpdateFrame DEF Updates
<1>6. ASSUME NEW h \in HeadIds, SplitJob(h) \/ RefinePosting(h) PROVE InRefine' <=> InRefine
  <2>1. CASE SplitJob(h)
    BY <1>1, <2>1 DEF SplitJob
  <2>2. CASE RefinePosting(h)
    <3>1. saver.kind = "refine" /\ saver'.kind = "refine" /\ "reload" \in Left /\ "reload" \in Left'
      BY <2>2, RewriteSteps
    <3> QED
      BY <3>1 DEF InRefine
  <2> QED
    BY <1>6, <2>1, <2>2
<1>7. CASE SaveIndex \/ Checkpoint
  <2>1. saver'.kind # "refine" /\ saver.kind = "none"
    BY <1>7, StartSteps DEF SaveIndex, Checkpoint
  <2> QED
    BY <2>1 DEF InRefine
<1>8. CASE OpenFiles
  BY <1>8, OpenSteps DEF InRefine
<1>9. ASSUME NEW s \in Steps, s # "reload", AtStep(s), Advance PROVE InRefine' <=> InRefine
  BY <1>0, <1>9, StepAdvances
<1>10. CASE SaveMetadata \/ SaveHeadIndex \/ SaveHeadFolder \/ SaveTranslateMap
  <2>1. \E s \in {"meta", "head", "saveHead", "trans"} : AtStep(s) /\ Advance
    BY <1>10 DEF SaveMetadata, SaveHeadIndex, SaveHeadFolder, SaveTranslateMap
  <2> QED
    BY <1>9, <2>1 DEF Steps
<1>11. CASE SaveVersionMap \/ SaveMapping \/ SavePool \/ ClearLog
  <2>1. \E s \in {"ver", "map", "pool", "clear"} : AtStep(s) /\ Advance
    BY <1>11 DEF SaveVersionMap, SaveMapping, SavePool, ClearLog
  <2> QED
    BY <1>9, <2>1 DEF Steps
<1>12. CASE RefineFiles
  <2>1. saver.kind = "save"
    BY <1>12, RefineSteps
  <2> QED
    BY <1>12, <2>1 DEF InRefine
<1>13. CASE Reload
  <2>1. "reload" \notin Left'
    BY <1>13, ReloadSteps
  <2> QED
    BY <1>13, <2>1 DEF InRefine
<1>14. CASE UNCHANGED vars
  BY <1>1, <1>14 DEF vars
<1> QED
  BY <1>2, <1>3, <1>4, <1>5, <1>6, <1>7, <1>8, <1>10, <1>11, <1>12, <1>13, <1>14, NextCases

\* The metadata of a compaction is numbered as its vectors are.
LEMMA RefinedLabels ==
    ASSUME MemOK, Labelled(Known, mem.meta, mem.ver), NEW x, NEW y \in Known, Live(mem.ver, y[1]),
           x = <<NewId(VectorOrder, y[1]), y[2]>>
    PROVE  /\ x[1] < Len(FileOfVer)
           /\ x[1] < Len(RefineMetadata) => RefineMetadata[x[1] + 1] \in {NoId, x[2]}
<1> DEFINE k == Cardinality(LiveIds)
           n == NewId(VectorOrder, y[1])
<1>1. Numbered(VectorOrder, LiveIds) /\ k \in Nat /\ DOMAIN VectorOrder = 1..k
  BY OrderNumbers DEF Numbered
<1>2. y[1] \in LiveIds
  BY DEF LiveIds, Live
<1>3. n \in 0..(k - 1) /\ VectorOrder[n + 1] = y[1]
  BY <1>1, <1>2 DEF Numbered
<1> HIDE DEF k, n
<1>4. n + 1 \in 1..k /\ x[1] = n /\ x[2] = y[2]
  BY <1>1, <1>3 DEF n
<1>5. Len(FileOfVer) = k
  BY <1>1 DEF FileOfVer
<1>6. RefineMetadata[n + 1] = IF y[1] < Len(mem.meta) THEN mem.meta[y[1] + 1] ELSE NoId
  BY <1>1, <1>3, <1>4 DEF RefineMetadata
<1>7. y[1] < Len(mem.meta) => mem.meta[y[1] + 1] \in {NoId, y[2]}
  BY DEF Labelled
<1>8. n < k
  BY <1>1, <1>3
<1> QED
  BY <1>4, <1>5, <1>6, <1>7, <1>8

LEMMA LabelsComingNext ==
    ASSUME Base, SavesInv, LabelsInv, [Next]_vars
    PROVE  LabelsComing'
<1> SUFFICES ASSUME InRefine', saver'.quiet, saver'.labelled PROVE LabelsComing'
  BY DEF LabelsComing
<1>0. setting' = setting /\ SaverOK /\ MemOK
  BY RunFrame DEF Base, Types
<1>1. CASE RefineFiles
  <2>1. /\ saver.kind = "save" /\ saver'.labelled = saver.labelled /\ jobs = {} /\ UNCHANGED mem /\ SameNumbers
    BY <1>1, RefineSteps DEF SameNumbers
  <2>2. labelled /\ ~InRefine /\ state = "running"
    BY <2>1 DEF LabelsInv, LabelsRun, Reloaded, InRefine, Base, NamesInv, StatesInv, NoSave
  <2>3. Labelled(Known, mem.meta, mem.ver) /\ LabelsFit(mem.meta, mem.ver)
    BY <2>2 DEF LabelsInv, LabelsInMemory, MemLabelled
  <2>4. RefinedAs /\ Misnamed' = Misnamed
    BY <1>1, RefineEntries
  <2>5. disk'["index"].meta = RefineMetadata /\ disk'["index"].ver = FileOfVer
    <3>1. RefineWritten'
      BY RefineWrittenNext DEF SavesInv
    <3> QED
      BY <2>1, <3>1, NumberingKept DEF RefineWritten
  <2>6. RefineMetadata \in Labels /\ Len(RefineMetadata) = Len(FileOfVer) /\ RefineMetadata # None
    <3>1. RefineMetadata \in Labels /\ Len(RefineMetadata) = Len(FileOfVer)
      BY CompactionFiles
    <3> QED
      BY <3>1, LifecycleNone DEF Labels, Vectors, Ids
  <2>7. LabelsFit(disk["index"].meta, disk["index"].ver)'
    BY <2>5, <2>6 DEF LabelsFit, FileOfVer, Labels
  <2>8. ASSUME Misnamed = {} PROVE Labelled(Coming', RefineMetadata, FileOfVer)
    <3> SUFFICES ASSUME NEW x \in Coming'
                 PROVE  x[1] < Len(FileOfVer) /\ (x[1] < Len(RefineMetadata) => RefineMetadata[x[1] + 1] \in {NoId, x[2]})
      BY DEF Labelled
    <3>1. PICK y \in Reached : x = <<NewId(VectorOrder, y[1]), y[2]>> /\ Live(mem.ver, y[1])
      BY <2>4, <2>8 DEF RefinedAs
    <3>2. y \in Known
      BY <3>1, EntriesNow DEF Holds
    <3> QED
      BY <1>0, <2>3, <3>1, <3>2, RefinedLabels
  <2> QED
    BY <2>4, <2>5, <2>6, <2>7, <2>8 DEF LabelsComing, Labelled
<1>2. CASE ~RefineFiles
  <2>1. InRefine /\ saver.kind = "refine" /\ saver'.kind = "refine"
    BY <1>2, InRefineFrame DEF InRefine
  <2>2. saver.quiet /\ jobs = {} /\ saver.labelled
    BY <2>1, RefineGoesOn, LabelledFrame DEF SavesInv, SaveIndex, Checkpoint
  <2>3. SaveMapping \/ SavePool \/ UNCHANGED vars \/ \E h \in HeadIds : RefinePosting(h)
    BY <2>1, RefineGoesOn, NoRefineAfter DEF SavesInv
  <2>5. /\ disk["index"].meta # None /\ LabelsFit(disk["index"].meta, disk["index"].ver)
        /\ Misnamed = {} => Labelled(Coming, disk["index"].meta, disk["index"].ver)
        /\ MemBlocks /\ todo \subseteq mem.heads
    BY <2>1, <2>2 DEF LabelsInv, LabelsComing, LabelsRun, SavesInv, BlocksInv, RefineWritten
  <2>6. /\ Coming' = Coming /\ Misnamed' = Misnamed
        /\ disk'["index"].meta = disk["index"].meta /\ disk'["index"].ver = disk["index"].ver
    <3>1. CASE \E h \in HeadIds : RefinePosting(h)
      BY <2>5, <3>1, RewriteEntries, RewriteSteps
    <3>2. CASE SaveMapping \/ SavePool \/ UNCHANGED vars
      <4>1. SameNumbers /\ SameEntries /\ UNCHANGED todo
        BY <1>2, <3>2, SaverStepKeeps DEF SaverStep
      <4>2. /\ disk'["index"].head = disk["index"].head /\ disk'["index"].trans = disk["index"].trans
            /\ disk'["index"].meta = disk["index"].meta /\ disk'["index"].ver = disk["index"].ver
        <5>1. saver.dir = "index"
          BY <2>1, SaverDirs DEF Base, Types
        <5> QED
          BY <3>2, <5>1, WriteSteps DEF Wrote, Files, vars
      <4> QED
        BY <1>0, <4>1, <4>2, ComingKept DEF SameNewHeads, SameEntries
    <3> QED
      BY <2>3, <3>1, <3>2
  <2> QED
    BY <1>0, <2>5, <2>6 DEF LabelsComing, Labelled, LabelsFit
<1> QED
  BY <1>1, <1>2

-----------------------------------------------------------------------------

(***************************************************************************)
(* Labels in memory                                                        *)
(***************************************************************************)

LEMMA EntryTypes ==
    ASSUME MemOK, jobs \subseteq HeadIds
    PROVE  \A x \in Known : x \in Ids \X Vectors
<1>0. mem \in Memories /\ mem.heads \subseteq HeadIds /\ blocks \in Postings /\ NoBlock \notin Blocks
  BY LifecycleBounds DEF MemOK, Memories, Blocks, NoBlock
<1>1. \A g \in HeadIds : At(mem, blocks, g) \subseteq Ids \X Vectors
  BY <1>0 DEF At, Memories, Mappings, Postings
<1>2. ASSUME NEW g \in HeadIds, Stands(mem, g) PROVE HeadEntry(mem, g) \in Ids \X Vectors
  <2>1. mem.trans \in Seq(Ids \cup {NoId}) /\ mem.vec \in Seq(Vectors) /\ g \in Nat
    BY <1>0, LifecycleBounds DEF Memories, Translations, HeadIds
  <2>2. g + 1 \in 1..Len(mem.trans) /\ g + 1 \in 1..Len(mem.vec) /\ mem.trans[g + 1] # NoId
    BY <1>2, <2>1 DEF Stands
  <2> QED
    BY <2>1, <2>2 DEF HeadEntry
<1> QED
  BY <1>0, <1>1, <1>2, EntriesNow DEF Holds

\* A built index holds the vectors it was built from, each under its number.
LEMMA BuiltEntries ==
    ASSUME Base, BuildIndex
    PROVE  /\ \A x : x \in Known' => \E v \in setting.built : x = <<v, v>>
           /\ \A v \in sure' : <<v, v>> \in Reached'
           /\ mem'.ver = [i \in 1..Cardinality(setting.built) |-> "live"]
           /\ mem'.meta = [i \in 1..Cardinality(setting.built) |-> i - 1]
<1> DEFINE n == Cardinality(setting.headsOf)
           N == Cardinality(setting.built)
<1>0. setting \in Settings /\ setting' = setting
  BY DEF Base, Types, RunOK, BuildIndex
<1>1. PICK P \in [0..(n - 1) -> SUBSET setting.built] : BuiltAs(n, N, P)
  BY <1>0, BuildEffect
<1>2. n \in 1..MaxHeads /\ n <= NumBlocks /\ setting.headsOf \subseteq setting.built /\ MaxHeads \in Nat /\ NumBlocks \in Nat
  BY <1>0, SettingFacts, LifecycleBounds
<1>3. HeadSeq \in [1..n -> setting.headsOf] /\ Len(HeadSeq) = n /\ HeadSeq \in Seq(Vectors)
      /\ \A v \in setting.headsOf : \E i \in 1..n : HeadSeq[i] = v
  BY <1>0, HeadSeqLists
<1> HIDE DEF n, N
<1>4. ASSUME NEW g \in 0..(n - 1) PROVE At(mem', blocks', g) = {<<v, v>> : v \in P[g]}
  <2>1. g \in HeadIds /\ g \in Blocks /\ g < n /\ g # NoBlock
    BY <1>2 DEF HeadIds, Blocks, NoBlock
  <2>2. mem'.map[g] = g /\ blocks'[g] = {<<v, v>> : v \in P[g]}
    BY <1>1, <2>1 DEF BuiltAs
  <2> QED
    BY <2>1, <2>2 DEF At
<1>5. ASSUME NEW g \in 0..(n - 1)
      PROVE  HeadEntry(mem', g) = <<HeadSeq[g + 1], HeadSeq[g + 1]>> /\ Stands(mem', g) /\ HeadSeq[g + 1] \in setting.headsOf
  <2>1. g + 1 \in 1..n /\ g < n
    BY <1>2
  <2>2. HeadSeq[g + 1] \in Vectors /\ HeadSeq[g + 1] \in setting.headsOf
    BY <1>3, <2>1
  <2>3. HeadSeq[g + 1] # NoId
    BY <2>2, LifecycleBounds DEF Vectors, NoId
  <2> QED
    BY <1>1, <1>3, <2>1, <2>2, <2>3 DEF BuiltAs, HeadEntry, Stands
<1>6. mem'.heads = 0..(n - 1) /\ mem'.heads \cup jobs' = 0..(n - 1)
  BY <1>1 DEF BuiltAs
<1>7. \A x : x \in Known' => \E v \in setting.built : x = <<v, v>>
  <2> TAKE x
  <2> HAVE x \in Known'
  <2>1. Holds(mem', blocks', 0..(n - 1), x)
    BY <1>0, <1>6, EntriesNext
  <2>2. CASE \E g \in 0..(n - 1) : x \in At(mem', blocks', g)
    <3>1. PICK g \in 0..(n - 1) : x \in At(mem', blocks', g)
      BY <2>2
    <3>2. PICK v \in P[g] : x = <<v, v>>
      BY <1>4, <3>1
    <3> QED
      BY <3>2
  <2>3. CASE \E g \in 0..(n - 1) : x = HeadEntry(mem', g)
    BY <1>2, <1>5, <2>3
  <2> QED
    BY <2>1, <2>2, <2>3 DEF Holds
<1>8. ASSUME NEW v \in sure' PROVE <<v, v>> \in Reached'
  <2>1. (\E g \in 0..(n - 1) : v \in P[g]) \/ (setting.excludeHead /\ v \in setting.headsOf)
    BY <1>1 DEF BuiltAs
  <2>2. CASE \E g \in 0..(n - 1) : v \in P[g]
    <3>1. PICK g \in 0..(n - 1) : v \in P[g]
      BY <2>2
    <3>2. <<v, v>> \in At(mem', blocks', g)
      BY <1>4, <3>1
    <3> QED
      BY <1>0, <1>6, <3>2, EntriesNext DEF Holds
  <2>3. CASE setting.excludeHead /\ v \in setting.headsOf
    <3>1. PICK i \in 1..n : HeadSeq[i] = v
      BY <1>3, <2>3
    <3>2. i - 1 \in 0..(n - 1) /\ (i - 1) + 1 = i
      BY <1>2, <3>1
    <3>3. Stands(mem', i - 1) /\ HeadEntry(mem', i - 1) = <<v, v>>
      BY <1>5, <3>1, <3>2
    <3> QED
      BY <1>0, <1>6, <2>3, <3>2, <3>3, EntriesNext DEF Holds
  <2> QED
    BY <2>1, <2>2, <2>3
<1> QED
  BY <1>1, <1>7, <1>8 DEF BuiltAs, N

\* Forgetting which vectors the heads are loses no entry of a posting.
LEMMA BuildEndEntries ==
    ASSUME Base, BuildEnd
    PROVE  Known' = Known /\ Reached' = Reached /\ mem'.ver = mem.ver /\ mem'.meta = mem.meta
<1>0. /\ mem \in Memories /\ setting' = setting /\ jobs' = jobs /\ blocks' = blocks
      /\ mem' = [mem EXCEPT !.trans = IF setting.excludeHead THEN mem.trans ELSE [i \in DOMAIN mem.trans |-> NoId]]
  BY DEF Base, Types, MemOK, BuildEnd
<1>1. /\ mem'.heads = mem.heads /\ mem'.vec = mem.vec /\ mem'.map = mem.map /\ mem'.ver = mem.ver /\ mem'.meta = mem.meta
      /\ setting.excludeHead => mem'.trans = mem.trans
  BY <1>0 DEF Memories
<1>2. \A g : At(mem', blocks', g) = At(mem, blocks, g)
  BY <1>0, <1>1 DEF At
<1>3. setting.excludeHead => \A g : (Stands(mem', g) <=> Stands(mem, g)) /\ HeadEntry(mem', g) = HeadEntry(mem, g)
  BY <1>1 DEF Stands, HeadEntry
<1>4. \A H, x : Holds(mem', blocks', H, x) <=> Holds(mem, blocks, H, x)
  BY <1>2, <1>3 DEF Holds
<1>5. (\A x : x \in Known' <=> x \in Known) /\ (\A x : x \in Reached' <=> x \in Reached)
  BY <1>0, <1>1, <1>4, EntriesNow, EntriesNext
<1> QED
  BY <1>1, <1>5

\* The entries are old ones and those of vectors being added.
LEMMA MemLabelledKept ==
    ASSUME MemLabelled, setting' = setting, mem'.meta = mem.meta, Len(mem'.ver) = Len(mem.ver),
           \A x : x \in Known' => x \in Known \/ \E c \in Clients : Adds(c) /\ x = <<op[c].id, op[c].vec>>,
           \A c \in Clients : Adds(c)' => Adds(c) /\ op'[c].id = op[c].id /\ op'[c].vec = op[c].vec
    PROVE  MemLabelled'
<1>1. LabelsFit(mem.meta, mem.ver)'
  BY DEF MemLabelled, LabelsFit
<1>2. ASSUME NEW x \in Known'
      PROVE  x[1] < Len(mem.ver) /\ (x[1] < Len(mem.meta) => mem.meta[x[1] + 1] \in {NoId, x[2]})
  <2>1. CASE x \in Known
    BY <2>1 DEF MemLabelled, Labelled
  <2>2. CASE x \notin Known
    <3>1. PICK c \in Clients : Adds(c) /\ x = <<op[c].id, op[c].vec>>
      BY <1>2, <2>2
    <3> QED
      BY <3>1 DEF MemLabelled
  <2> QED
    BY <2>1, <2>2
<1>3. Labelled(Known, mem.meta, mem.ver)'
  BY <1>2 DEF Labelled
<1>4. ASSUME NEW c \in Clients, Adds(c)'
      PROVE  op'[c].id < Len(mem'.ver) /\ (op'[c].id < Len(mem'.meta) => mem'.meta[op'[c].id + 1] = op'[c].vec)
  BY <1>4 DEF MemLabelled
<1> QED
  BY <1>1, <1>3, <1>4 DEF MemLabelled

LEMMA AddBatchLabels ==
    ASSUME Base, MemLabelled, NEW c \in Clients, AddBatch(c)
    PROVE  MemLabelled'
<1> DEFINE o == [kind |-> "log", vec |-> NextName, id |-> Len(mem.ver), renumbered |-> FALSE]
           M == IF setting.spfresh THEN mem.meta ELSE Append(mem.meta, NextName)
<1>0. /\ mem \in Memories /\ MemOK /\ OpsOK /\ jobs \subseteq HeadIds
      /\ mem' = [mem EXCEPT !.ver = Append(@, "live"), !.meta = M]
      /\ op' = [op EXCEPT ![c] = o] /\ UNCHANGED <<setting, blocks, jobs>>
  BY DEF Base, Types, MemOK, WorkOK, AddBatch, durable
<1>1. /\ mem.ver \in Seq({"live", "deleted"}) /\ mem.meta \in Seq(Vectors \cup {NoId})
      /\ Len(mem.ver) \in Nat /\ Len(mem.meta) \in Nat
  BY <1>0 DEF Memories, Versions, Labels
<1>2. mem'.ver = Append(mem.ver, "live") /\ mem'.meta = M /\ Len(mem'.ver) = Len(mem.ver) + 1
  BY <1>0, <1>1 DEF Memories
<1>3. Known' = Known
  <2>1. SameEntries
    BY <1>0 DEF Memories, SameEntries, SameHeads
  <2> QED
    BY <2>1, KnownKept
<1>4. Len(mem.meta) <= Len(mem.ver) /\ (~setting.spfresh => Len(mem.meta) = Len(mem.ver))
  BY DEF MemLabelled, LabelsFit
<1>5. /\ setting.spfresh => mem'.meta = mem.meta
      /\ ~setting.spfresh => mem'.meta = Append(mem.meta, NextName) /\ Len(mem'.meta) = Len(mem.meta) + 1
  BY <1>1, <1>2
<1>6. \A i \in Nat : i < Len(mem.ver) /\ i < Len(mem'.meta) => i < Len(mem.meta) /\ mem'.meta[i + 1] = mem.meta[i + 1]
  <2>1. CASE setting.spfresh
    BY <1>5, <2>1
  <2>2. CASE ~setting.spfresh
    BY SMTT(20), <1>1, <1>4, <1>5, <2>2
  <2> QED
    BY <2>1, <2>2
<1>7. LabelsFit(mem'.meta, mem'.ver)
  BY <1>1, <1>2, <1>4, <1>5 DEF LabelsFit
<1>8. ASSUME NEW x \in Known
      PROVE  x[1] < Len(mem'.ver) /\ (x[1] < Len(mem'.meta) => mem'.meta[x[1] + 1] \in {NoId, x[2]})
  <2>1. x[1] \in Nat
    BY <1>0, EntryTypes, LifecycleBounds DEF Ids
  <2>2. x[1] < Len(mem.ver) /\ (x[1] < Len(mem.meta) => mem.meta[x[1] + 1] \in {NoId, x[2]})
    BY DEF MemLabelled, Labelled
  <2> QED
    BY <1>1, <1>2, <1>6, <2>1, <2>2
<1>9. ASSUME NEW d \in Clients, Adds(d)'
      PROVE  op'[d].id < Len(mem'.ver) /\ (op'[d].id < Len(mem'.meta) => mem'.meta[op'[d].id + 1] = op'[d].vec)
  <2>1. CASE d = c
    <3>1. op'[d] = o
      BY <1>0, <2>1 DEF OpsOK
    <3>2. op'[d].id = Len(mem.ver) /\ op'[d].vec = NextName
      BY <3>1
    <3>3. CASE setting.spfresh
      BY <1>1, <1>2, <1>4, <1>5, <3>2, <3>3
    <3>4. CASE ~setting.spfresh
      <4>1. mem'.meta[Len(mem.meta) + 1] = NextName
        BY <1>1, <1>5, <3>4
      <4> QED
        BY <1>1, <1>2, <1>4, <3>2, <3>4, <4>1
    <3> QED
      BY <3>3, <3>4
  <2>2. CASE d # c
    <3>1. op'[d] = op[d] /\ Adds(d)
      BY <1>0, <1>9, <2>2 DEF OpsOK, Adds
    <3>2. op[d].id \in Nat
      BY <1>0, <3>1, LifecycleBounds DEF OpsOK, Adds, Idle, Ids
    <3>3. op[d].id < Len(mem.ver) /\ (op[d].id < Len(mem.meta) => mem.meta[op[d].id + 1] = op[d].vec)
      BY <3>1 DEF MemLabelled
    <3> QED
      BY <1>1, <1>2, <1>6, <3>1, <3>2, <3>3
  <2> QED
    BY <2>1, <2>2
<1> HIDE DEF o, M
<1> QED
  BY <1>0, <1>3, <1>7, <1>8, <1>9 DEF MemLabelled, Labelled, LabelsFit

LEMMA UpdateLabels ==
    ASSUME Base, MemBlocks, MemLabelled, NEW c \in Clients, Updates(c)
    PROVE  MemLabelled'
<1>0. /\ SaverOK /\ OpsOK /\ MemOK /\ mem \in Memories
      /\ setting' = setting
  BY UpdateFrame DEF Base, Types, MemOK, Updates
<1>1. ASSUME NEW o, op' = [op EXCEPT ![c] = o],
             o.kind \in {"log", "append"} => Adds(c) /\ o.id = op[c].id /\ o.vec = op[c].vec
      PROVE  \A d \in Clients : Adds(d)' => Adds(d) /\ op'[d].id = op[d].id /\ op'[d].vec = op[d].vec
  <2> SUFFICES ASSUME NEW d \in Clients, Adds(d)' PROVE Adds(d) /\ op'[d].id = op[d].id /\ op'[d].vec = op[d].vec
    OBVIOUS
  <2>1. op'[d] = IF d = c THEN o ELSE op[d]
    BY <1>0, <1>1 DEF OpsOK
  <2> QED
    BY <1>1, <2>1 DEF Adds
<1>2. CASE AddBatch(c)
  BY <1>2, AddBatchLabels
<1>3. ASSUME mem' = mem, UNCHANGED <<blocks, jobs>> PROVE Known' = Known
  BY <1>0, <1>3, KnownKept DEF SameEntries, SameHeads
<1>4. CASE AddLog(c)
  <2> DEFINE o == [op[c] EXCEPT !.kind = "append"]
  <2>1. op' = [op EXCEPT ![c] = o] /\ UNCHANGED <<mem, blocks, jobs>> /\ op[c].kind = "log"
    BY <1>4 DEF AddLog
  <2>2. o.id = op[c].id /\ o.vec = op[c].vec /\ Adds(c)
    BY <1>0, <2>1 DEF OpsOK, Operations, Adds
  <2> HIDE DEF o
  <2> QED
    BY <1>0, <1>1, <1>3, <2>1, <2>2, MemLabelledKept
<1>5. CASE AddAppend(c)
  <2>1. op' = [op EXCEPT ![c] = Idle] /\ Adds(c)
    BY <1>5 DEF AddAppend, Adds
  <2>2. PICK h \in mem.heads : AppendTo(h, <<op[c].id, op[c].vec>>)
    BY <1>5 DEF AddAppend
  <2>3. mem'.ver = mem.ver /\ mem'.meta = mem.meta
    BY <1>0, <2>2, AppendEffect DEF AppendAs, PutAs
  <2>4. \A x : x \in Known' => x \in Known \/ x = <<op[c].id, op[c].vec>>
    BY <1>5, AppendEntries
  <2>5. Idle.kind \notin {"log", "append"}
    BY DEF Idle
  <2>6. \A d \in Clients : Adds(d)' => Adds(d) /\ op'[d].id = op[d].id /\ op'[d].vec = op[d].vec
    BY <1>1, <2>1, <2>5
  <2> QED
    BY <1>0, <2>1, <2>3, <2>4, <2>6, MemLabelledKept
<1>6. CASE DeleteLog(c)
  <2>1. PICK e \in Answers(mem) :
            op' = [op EXCEPT ![c] = [kind |-> "delete", vec |-> e[2], id |-> e[1], renumbered |-> FALSE]]
    BY <1>6 DEF DeleteLog
  <2> DEFINE o == [kind |-> "delete", vec |-> e[2], id |-> e[1], renumbered |-> FALSE]
  <2>2. op' = [op EXCEPT ![c] = o] /\ o.kind = "delete" /\ UNCHANGED <<mem, blocks, jobs>>
    BY <1>6, <2>1 DEF DeleteLog
  <2> HIDE DEF o
  <2> QED
    BY <1>0, <1>1, <1>3, <2>2, MemLabelledKept
<1>7. CASE DeleteMark(c)
  <2>1. /\ op' = [op EXCEPT ![c] = Idle] /\ UNCHANGED <<blocks, jobs>>
        /\ mem' = [mem EXCEPT !.ver[op[c].id + 1] = "deleted"]
    BY <1>7 DEF DeleteMark, durable
  <2>2. /\ mem'.heads = mem.heads /\ mem'.vec = mem.vec /\ mem'.trans = mem.trans /\ mem'.map = mem.map
        /\ mem'.meta = mem.meta /\ mem'.ver = [mem.ver EXCEPT ![op[c].id + 1] = "deleted"]
    BY <1>0, <2>1 DEF Memories
  <2>3. Len(mem'.ver) = Len(mem.ver)
    BY <1>0, <2>2 DEF Memories, Versions
  <2>4. Known' = Known
    BY <1>0, <2>1, <2>2, KnownKept DEF SameEntries, SameHeads
  <2>5. Idle.kind \notin {"log", "append"}
    BY DEF Idle
  <2>6. \A d \in Clients : Adds(d)' => Adds(d) /\ op'[d].id = op[d].id /\ op'[d].vec = op[d].vec
    BY <1>1, <2>1, <2>5
  <2> QED
    BY <1>0, <2>2, <2>3, <2>4, <2>6, MemLabelledKept
<1> QED
  BY <1>2, <1>4, <1>5, <1>6, <1>7 DEF Updates

LEMMA LabelsInMemoryNext ==
    ASSUME Base, SavesInv, LabelsInv, [Next]_vars
    PROVE  LabelsInMemory'
<1> SUFFICES ASSUME labelled', ~InRefine', state' \in {"building", "running"} PROVE MemLabelled'
  BY DEF LabelsInMemory
<1>0. setting' = setting /\ SaverOK /\ OpsOK /\ "index" \in Dirs /\ Types /\ StatesInv
  BY RunFrame DEF Base, Types, NamesInv, Dirs
<1>1. ~RecoverIndex /\ ~Reload /\ ~ReplayAdd /\ ~ReplayDelete /\ ~RecoverEnd /\ ~Crash
  <2>1. ~RecoverIndex /\ ~Reload
    BY LabelledFrame
  <2>2. ~ReplayAdd /\ ~ReplayDelete /\ ~Crash
    BY DEF ReplayAdd, ReplayDelete, Crash
  <2>3. ~RecoverEnd
    BY DEF RecoverEnd, history, LabelsInv, LabelsRun
  <2> QED
    BY <2>1, <2>2, <2>3
<1>2. Idle.kind \notin {"log", "append"}
  BY DEF Idle
<1>3. CASE BuildIndex
  <2> DEFINE N == Cardinality(setting.built)
  <2>1. /\ \A x : x \in Known' => \E v \in setting.built : x = <<v, v>>
        /\ mem'.ver = [i \in 1..N |-> "live"] /\ mem'.meta = [i \in 1..N |-> i - 1]
    BY <1>3, BuiltEntries
  <2>2. setting.built = 0..(N - 1) /\ N \in Nat
    BY <1>0, SettingFacts DEF Types, RunOK
  <2> HIDE DEF N
  <2>3. Len(mem'.ver) = N /\ Len(mem'.meta) = N
    BY <2>1, <2>2
  <2>4. \A v \in setting.built : v < N /\ v \in Nat /\ mem'.meta[v + 1] = v
    BY <2>1, <2>2
  <2>5. \A x \in Known' : x[1] < Len(mem'.ver) /\ (x[1] < Len(mem'.meta) => mem'.meta[x[1] + 1] \in {NoId, x[2]})
    <3> TAKE x \in Known'
    <3>1. PICK v \in setting.built : x = <<v, v>>
      BY <2>1
    <3>2. x[1] = v /\ x[2] = v
      BY <3>1
    <3> QED
      BY <2>3, <2>4, <3>2
  <2>6. \A c \in Clients : ~Adds(c)'
    BY <1>2, <1>3, StartsFrame DEF Starts, Adds
  <2> QED
    BY <2>2, <2>3, <2>5, <2>6 DEF MemLabelled, Labelled, LabelsFit
<1>4. CASE LoadIndex
  <2>1. promise["index"].sound /\ promise["index"].labelled
    BY <1>4, LabelledFrame
  <2>2. /\ disk["index"].meta # None /\ LabelsFit(disk["index"].meta, disk["index"].ver)
        /\ Labelled(SavedIn("index"), disk["index"].meta, disk["index"].ver) /\ DirBlocks("index")
    BY <1>0, <2>1 DEF LabelsInv, LabelsSaved, SavesInv, BlocksInv
  <2>3. mem' = LoadedFrom("index") /\ UNCHANGED <<blocks, jobs>> /\ jobs = {}
    BY <1>0, <1>4 DEF LoadIndex, durable, StatesInv
  <2>4. mem'.meta = disk["index"].meta /\ mem'.ver = disk["index"].ver
    BY <2>2, <2>3 DEF LoadedFrom, OrElse, DirBlocks
  <2>5. \A x : x \in Known' <=> x \in SavedIn("index")
    BY <1>0, <2>3, LoadEntries
  <2>6. \A c \in Clients : ~Adds(c)'
    BY <1>2, <1>4, StartsFrame DEF Starts, Adds
  <2> QED
    BY <1>0, <2>2, <2>4, <2>5, <2>6 DEF MemLabelled, Labelled, LabelsFit
<1>5. CASE ~BuildIndex /\ ~LoadIndex
  <2>1. labelled /\ state \in {"building", "running"} /\ ~InRefine
    <3>1. UNCHANGED labelled
      BY <1>1, <1>5, LabelledFrame
    <3>2. state \in {"building", "running"}
      BY <1>1, <1>5, RunFrame DEF BuildEnd
    <3> QED
      BY <1>1, <3>1, <3>2, InRefineFrame
  <2>2. MemLabelled /\ trusted /\ MemBlocks
    BY <2>1 DEF LabelsInv, LabelsInMemory, LabelsRun, SavesInv, BlocksInv
  <2>3. CASE BuildEnd
    <3>1. \A c \in Clients : ~Adds(c)'
      BY <1>2, <2>3, StartsFrame DEF Starts, Adds
    <3> QED
      BY <1>0, <2>2, <2>3, <3>1, BuildEndEntries, MemLabelledKept
  <2>4. ASSUME NEW c \in Clients, Updates(c) PROVE MemLabelled'
    BY <2>2, <2>4, UpdateLabels
  <2>5. ASSUME NEW h \in HeadIds, SplitJob(h) PROVE MemLabelled'
    <3>1. AllTrans
      BY <2>2 DEF AllTrans, SavesInv, HeadsNamed, AllNamed
    <3>2. SplitKeeps
      BY <2>2, <2>5, <3>1, SplitEntries
    <3>3. mem'.meta = mem.meta /\ mem'.ver = mem.ver /\ op' = op
      BY <2>5, SplitShapes DEF SplitShape, SplitJob
    <3>4. \A c \in Clients : Adds(c)' => Adds(c)
      BY <3>3 DEF Adds
    <3> QED
      BY <1>0, <2>2, <3>2, <3>3, <3>4, MemLabelledKept DEF SplitKeeps
  <2>6. \A h \in HeadIds : ~RefinePosting(h)
    BY <2>1, RewriteSteps DEF InRefine
  <2>7. CASE SaverStep
    <3>1. ~RefineFiles
      BY RefineSteps DEF InRefine
    <3>2. mem'.meta = mem.meta /\ mem'.ver = mem.ver /\ Known' = Known /\ op' = op
      BY <2>7, <3>1, SaverStepKeeps DEF SameNumbers
    <3>3. \A c \in Clients : Adds(c)' => Adds(c)
      BY <3>2 DEF Adds
    <3> QED
      BY <1>0, <2>2, <3>2, <3>3, MemLabelledKept
  <2> QED
    BY <1>1, <1>5, <2>3, <2>4, <2>5, <2>6, <2>7, NextCases DEF Starts, SaverStep
<1> QED
  BY <1>3, <1>4, <1>5

LEMMA InitLabels == Init => LabelsInv
<1> SUFFICES ASSUME Init PROVE LabelsInv
  OBVIOUS
<1>1. saver.kind = "none" /\ ~saver.labelled /\ state = "empty" /\ trusted
  BY DEF Init, NoSave
<1>2. ~promise["index"].sound
  BY DEF Init, Void, Dirs
<1> QED
  BY <1>1, <1>2 DEF LabelsInv, LabelsRun, LabelsInMemory, LabelsComing, LabelsReloaded, LabelsSaved, InRefine, Reloaded

LEMMA LabelsInvariant == Spec => [](Base /\ SavesInv /\ LabelsInv)
<1>1. Init => LabelsInv
  BY InitLabels
<1>2. Base /\ SavesInv /\ LabelsInv /\ [Next]_vars => LabelsInv'
  BY LabelsRunNext, LabelsInMemoryNext, LabelsComingNext, LabelsReloadedNext, LabelsSavedNext DEF LabelsInv
<1> QED
  BY <1>1, <1>2, SavesInvariant, PTL DEF Spec

\* What a search can return is known.
LEMMA AnswersKnown ==
    ASSUME Base, SavesInv, state = "running"
    PROVE  \A e \in Answers(mem) : e \in Reached
<1> TAKE e \in Answers(mem)
<1>1. e[1] # NoId
  BY DEF Answers
<1>2. CASE \E g \in mem.heads : e \in Posting(mem, g)
  BY <1>2, EntriesNow DEF Holds, Posting, At
<1>3. CASE \E g \in mem.heads : g < Len(mem.trans) /\ e = <<mem.trans[g + 1], mem.vec[g + 1]>>
  <2>1. PICK g \in mem.heads : g < Len(mem.trans) /\ e = <<mem.trans[g + 1], mem.vec[g + 1]>>
    BY <1>3
  <2>2. mem.trans[g + 1] # NoId
    BY <1>1, <2>1
  <2>3. mem.heads \subseteq 0..(Len(mem.vec) - 1) /\ Len(mem.vec) \in Nat /\ Len(mem.trans) \in Nat /\ DOMAIN mem.trans = 1..Len(mem.trans)
    BY DEF Base, Types, MemOK, HeadsOK, Memories, Translations
  <2>4. g < Len(mem.vec) /\ g + 1 \in DOMAIN mem.trans
    BY <2>1, <2>3
  <2>5. setting.excludeHead
    BY <2>2, <2>4 DEF SavesInv, HeadsNamed, NoneNamed
  <2> QED
    BY <2>1, <2>2, <2>4, <2>5, EntriesNow DEF Holds, Stands, HeadEntry
<1> QED
  BY <1>2, <1>3 DEF Answers

\* Ids mean the same in the version map, in postings, in the translate map, in
\* the metadata and in their files, through any saves, loads, crashes, recoveries
\* and compactions: an answer never carries the metadata of another vector
\* (MetadataSet::RefineMetadata, Index::RefineIndex, SaveIndexData, LoadIndexData).
THEOREM IdsMatchAlways == Spec => []IdsMatch
<1>1. Base /\ SavesInv /\ LabelsInv => IdsMatch
  <2> SUFFICES ASSUME Base, SavesInv, LabelsInv PROVE IdsMatch
    OBVIOUS
  <2>1. TypeOK
    BY BaseTypeOK
  <2>2. LabelsMatch
    <3> SUFFICES ASSUME Visible, labelled, NEW e \in Answers(mem), e[1] < Len(mem.meta)
                 PROVE  mem.meta[e[1] + 1] \in {NoId, e[2]}
      BY DEF LabelsMatch
    <3>1. state = "running" /\ ~InRefine
      BY DEF Visible, Refining, InRefine
    <3>2. MemLabelled
      BY <3>1 DEF LabelsInv, LabelsInMemory
    <3>3. e \in Known
      BY <3>1, AnswersKnown, EntriesNow DEF Holds
    <3> QED
      BY <3>2, <3>3 DEF MemLabelled, Labelled
  <2> QED
    BY <2>1, <2>2 DEF IdsMatch
<1> QED
  BY <1>1, LabelsInvariant, PTL

-----------------------------------------------------------------------------

(***************************************************************************)
(* Claims: the vectors of S are in F, and in E under one live id each that *)
(* is no other's; those of G are dead wherever E holds them.               *)
(***************************************************************************)

Dead(ver, i) == i \in 0..(Len(ver) - 1) /\ ver[i + 1] = "deleted"

Claims(F, E, ver, S, G) ==
    /\ \A v \in S : \E e \in F : e[2] = v
    /\ \A e \in E : e[2] \in S => Live(ver, e[1])
    /\ \A e, f \in E : e[2] \in S /\ f[2] \in S => (e[1] = f[1] <=> e[2] = f[2])
    /\ \A e \in E : e[2] \in G => Dead(ver, e[1])

\* The id of an operation is its vector's alone, unless a compaction numbered
\* the vectors anew meanwhile.
Pending(c) == op[c] # Idle /\ ~op[c].renumbered
OpClaimed(c) ==
    /\ Adds(c) => Live(mem.ver, op[c].id)
    /\ op[c].kind = "delete" =>
        /\ op[c].id < Len(mem.ver)
        /\ \A e \in Known : e[2] = op[c].vec => e[1] = op[c].id
    /\ \A e \in Known : e[2] \in sure => e[1] # op[c].id
    /\ \A d \in Clients : d # c /\ Pending(d) => op[d].id # op[c].id

MemClaimed ==
    /\ Claims(Reached, Known, mem.ver, sure, gone)
    /\ \A c \in Clients : Pending(c) => OpClaimed(c)

ClaimsInMemory == trusted /\ ~InRefine /\ state \in {"building", "running"} => MemClaimed
DeletesPending == \A c \in Clients : op[c].kind = "delete" => ~op[c].renumbered
ClaimsComing ==
    trusted /\ InRefine /\ saver.quiet => Claims(Coming, Coming, disk["index"].ver, sure, gone \ Misnamed)
ClaimsSaved ==
    \A d \in Dirs : promise[d].sound =>
        Claims(SavedIn(d), SavedIn(d), disk[d].ver, promise[d].sure, promise[d].gone)

(***************************************************************************)
(* The log: its records say nothing else than the checkpoint of a vector   *)
(* that the checkpoint claims, or of its id.                               *)
(***************************************************************************)

Buffer == promise["buffer"]
BufferIds == Len(disk["buffer"].ver)
LogRecs == {log[k] : k \in DOMAIN log}
ScanRecs == {scan[i].rec : i \in DOMAIN scan}
Recs == LogRecs \cup ScanRecs
AddOf(r) == r.kind = "add"

RecordOK(r) ==
    /\ AddOf(r) => /\ r.id >= BufferIds
                   /\ r.vec \notin Buffer.sure /\ r.vec \notin Buffer.gone
                   /\ \A s \in SavedIn("buffer") : s[2] # r.vec
    /\ ~AddOf(r) => \A s \in SavedIn("buffer") : s[2] \in Buffer.sure /\ s[1] = r.id => s[2] = r.vec

RecordsInv == Buffer.sound => \A r \in Recs : RecordOK(r)

\* What the memory and the checkpoint say of an entry.
Agree(e) ==
    \A s \in SavedIn("buffer") :
        /\ e[2] = s[2] => e[1] = s[1]
        /\ s[2] \in Buffer.sure /\ e[1] = s[1] => e[2] = s[2]

SinceCheckpoint ==
    Buffer.sound /\ state # "down" =>
        /\ \A c \in Clients : Adds(c) => op[c].id >= BufferIds
        /\ \A c, d \in Clients : c # d /\ op[c] # Idle /\ op[d] # Idle => op[c].id # op[d].id
        /\ ~InRefine => /\ Len(mem.ver) >= BufferIds
                        /\ \A e \in Known : e[2] \in sure => Agree(e)
                        /\ \A c \in Clients : ~op[c].renumbered

(***************************************************************************)
(* A log that holds every update since the checkpoint.                     *)
(***************************************************************************)

Complete == Buffer.sound /\ Buffer.logged

Pairs == \A r, s \in Recs : AddOf(r) => (r.id = s.id <=> r.vec = s.vec)

SureLogged ==
    \A v \in sure : /\ v \in Buffer.sure \/ \E r \in LogRecs : AddOf(r) /\ r.vec = v
                    /\ \A r \in LogRecs : ~AddOf(r) => r.vec # v

DeletedAt(k, v, i) ==
    /\ log[k].kind = "delete" /\ log[k].vec = v /\ log[k].id = i
    /\ \A j \in DOMAIN log : AddOf(log[j]) /\ log[j].vec = v => j < k
    /\ \A s \in SavedIn("buffer") : s[2] = v => s[1] = i /\ v \in Buffer.sure

GoneLogged == \A v \in gone : v \in Buffer.gone \/ \E k \in DOMAIN log : DeletedAt(k, v, log[k].id)

\* What the records say of the entries in memory, and of the operations.
KnownLogged ==
    /\ \A r \in LogRecs : r.id < Len(mem.ver)
    /\ \A e \in Known : e[2] \in sure => \A r \in LogRecs : AddOf(r) => (r.id = e[1] <=> r.vec = e[2])

OpLogged(c) ==
    /\ op[c].kind = "log" => \A r \in LogRecs : r.id # op[c].id
    /\ op[c].kind = "append" => /\ \E r \in LogRecs : AddOf(r) /\ r.vec = op[c].vec
                                /\ \A r \in LogRecs : /\ r.id = op[c].id <=> r.vec = op[c].vec
                                                      /\ r.vec = op[c].vec => AddOf(r)
    /\ op[c].kind = "delete" => \E k \in DOMAIN log : DeletedAt(k, op[c].vec, op[c].id)

CompleteInv ==
    Complete /\ state # "replay" =>
        /\ Pairs /\ SureLogged /\ GoneLogged
        /\ state = "running" => /\ \A k \in DOMAIN log : k < size
                                /\ ~InRefine => KnownLogged
                                /\ \A c \in Clients : OpLogged(c)

(***************************************************************************)
(* A recovery on its way: the records still to come, with the entries      *)
(* there are, say what the index will hold.                                *)
(***************************************************************************)

Foretold == Known \cup {<<r.id, r.vec>> : r \in {x \in ScanRecs : AddOf(x)}}

DeletedLater(i, v) ==
    /\ ~AddOf(scan[i].rec) /\ scan[i].rec.vec = v
    /\ \A j \in DOMAIN scan : AddOf(scan[j].rec) /\ scan[j].rec.vec = v => j < i
    /\ \A e \in Foretold : e[2] = v => e[1] = scan[i].rec.id

SureForetold ==
    /\ \A v \in sure : \/ \E e \in Reached : e[2] = v
                       \/ \E r \in ScanRecs : AddOf(r) /\ r.vec = v
    /\ \A e \in Known : e[2] \in sure => Live(mem.ver, e[1])
    /\ \A r \in ScanRecs : AddOf(r) /\ r.vec \in sure /\ r.id < Len(mem.ver) => Live(mem.ver, r.id)
    /\ \A e, f \in Foretold : e[2] \in sure /\ f[2] \in sure => (e[1] = f[1] <=> e[2] = f[2])
    /\ \A r \in ScanRecs : ~AddOf(r) => /\ r.vec \notin sure
                                        /\ \A e \in Foretold : e[2] \in sure => e[1] # r.id

GoneForetold ==
    /\ \A e \in Known : e[2] \in gone => e[1] < Len(mem.ver)
    /\ \A v \in gone : \/ \E i \in DOMAIN scan : DeletedLater(i, v)
                       \/ /\ \A r \in ScanRecs : AddOf(r) => r.vec # v
                          /\ \A e \in Known : e[2] = v => Dead(mem.ver, e[1])

ReplayInv ==
    state = "replay" => /\ trusted => Buffer.sound
                        /\ Buffer.sound => SureForetold /\ GoneForetold

\* A complete log stays so unless a deletion is replayed.
KeysAhead ==
    /\ \A i, j \in DOMAIN scan : i < j => scan[i].key < scan[j].key
    /\ \A i \in DOMAIN scan : scan[i].key >= size - 1
    /\ \A k \in DOMAIN log : k < size \/ \E i \in DOMAIN scan : scan[i].key = k /\ log[k] = scan[i].rec
    /\ \A k \in DOMAIN log : k < size => AddOf(log[k]) /\ log[k].id < Len(mem.ver)

SureReplayed ==
    \A v \in sure : \/ v \in Buffer.sure
                    \/ \E k \in DOMAIN log : k < size /\ AddOf(log[k]) /\ log[k].vec = v
                    \/ \E r \in ScanRecs : AddOf(r) /\ r.vec = v

ReplayedInv ==
    Complete /\ state = "replay" =>
        /\ Pairs /\ KeysAhead /\ SureReplayed
        /\ \A v \in gone : v \in Buffer.gone \/ \E r \in ScanRecs : ~AddOf(r) /\ r.vec = v
        /\ \A e \in Known : e[2] \in sure => \A r \in Recs : AddOf(r) => (r.id = e[1] <=> r.vec = e[2])

DownEmpty == state = "down" => size = 0

ClaimsInv == ClaimsInMemory /\ DeletesPending /\ ClaimsComing /\ ClaimsSaved
LogInv == RecordsInv /\ SinceCheckpoint /\ CompleteInv /\ ReplayInv /\ ReplayedInv /\ DownEmpty
-----------------------------------------------------------------------------

(***************************************************************************)
(* Claims: vectors being added are in no entry                             *)
(***************************************************************************)

Fresh(v) ==
    /\ \A e \in Known : e[2] # v
    /\ \A d \in Dirs : promise[d].sound => /\ \A e \in SavedIn(d) : e[2] # v
                                           /\ v \notin promise[d].sure /\ v \notin promise[d].gone
    /\ v \notin sure /\ v \notin gone

LEMMA FreshNames ==
    ASSUME Base, SavesInv, NEW c \in Clients, Adds(c)
    PROVE  Fresh(op[c].vec)
<1> DEFINE v == op[c].vec
<1>0. /\ MemOK /\ mem \in Memories /\ blocks \in Postings /\ jobs \subseteq HeadIds /\ mem.heads \subseteq HeadIds
      /\ mem.map \in Mappings /\ mem.vec \in Seq(Vectors) /\ HeadIds \subseteq Nat
  BY LifecycleBounds DEF Base, Types, MemOK, WorkOK, Memories, HeadIds
<1>1. Unseen(v) /\ v \in Vectors
  <2>1. op[c] \in Operations /\ New(v)
    BY DEF Base, Types, OpsOK, New
  <2> QED
    BY <2>1 DEF Base, NamesInv, NewNames, Operations
<1> HIDE DEF v
<1>2. \A m : m.map \in Mappings => \A g \in HeadIds : \A e \in At(m, blocks, g) : e[2] # v
  BY <1>1 DEF Unseen, NotStored, At, Mappings
<1>3. ASSUME NEW e \in Known PROVE e[2] # v
  <2>1. CASE \E g \in mem.heads \cup jobs : e \in At(mem, blocks, g)
    BY <1>0, <1>2, <2>1
  <2>2. CASE \E g \in mem.heads \cup jobs : Stands(mem, g) /\ e = HeadEntry(mem, g)
    <3>1. PICK g \in mem.heads \cup jobs : Stands(mem, g) /\ e = HeadEntry(mem, g)
      BY <2>2
    <3>2. g \in Nat /\ g < Len(mem.vec)
      BY <1>0, <3>1 DEF Stands
    <3>3. g + 1 \in DOMAIN mem.vec
      BY <1>0, <3>2
    <3> QED
      BY <1>1, <3>1, <3>3 DEF Unseen, NoHead, HeadEntry
  <2> QED
    BY <2>1, <2>2, EntriesNow DEF Holds
<1>4. ASSUME NEW d \in Dirs, promise[d].sound PROVE \A e \in SavedIn(d) : e[2] # v
  <2>1. DirBlocks(d) /\ disk[d] \in Directories /\ HeadsOK(disk[d].head)
    BY <1>4 DEF SavesInv, BlocksInv, Base, Types, DiskOK, DirBlocks
  <2>2. /\ disk[d].map \in Mappings /\ disk[d].head \in HeadFiles
        /\ LoadedFrom(d).map = disk[d].map /\ LoadedFrom(d).vec = disk[d].head.vec
    BY <2>1 DEF DirBlocks, Directories, File, LoadedFrom, OrElse
  <2>3. disk[d].head.heads \subseteq HeadIds /\ disk[d].head.vec \in Seq(Vectors)
    BY <2>2 DEF HeadFiles
  <2> TAKE e \in SavedIn(d)
  <2>4. CASE \E g \in disk[d].head.heads : e \in At(LoadedFrom(d), blocks, g)
    BY <1>2, <2>2, <2>3, <2>4
  <2>5. CASE \E g \in disk[d].head.heads : Stands(LoadedFrom(d), g) /\ e = HeadEntry(LoadedFrom(d), g)
    <3>1. PICK g \in disk[d].head.heads : Stands(LoadedFrom(d), g) /\ e = HeadEntry(LoadedFrom(d), g)
      BY <2>5
    <3>2. g \in Nat /\ g < Len(disk[d].head.vec) /\ e[2] = disk[d].head.vec[g + 1]
      BY <1>0, <2>2, <2>3, <3>1 DEF Stands, HeadEntry
    <3>3. g + 1 \in DOMAIN disk[d].head.vec
      BY <2>3, <3>2
    <3> QED
      BY <1>1, <2>1, <3>2, <3>3 DEF Unseen, NotSaved, DirBlocks
  <2> QED
    BY <2>4, <2>5, SavedNow DEF Holds
<1>5. v \notin sure /\ v \notin gone /\ \A d \in Dirs : v \notin promise[d].sure /\ v \notin promise[d].gone
  BY <1>1 DEF Unseen, NotPromised
<1> QED
  BY <1>3, <1>4, <1>5 DEF Fresh, v

-----------------------------------------------------------------------------

(***************************************************************************)
(* Claims: what the updates do                                             *)
(***************************************************************************)

\* A version map that grew, and one in which a vector was marked.
Grows(w, ver) ==
    Len(ver) <= Len(w) /\ \A i \in 1..Len(w) : w[i] = IF i <= Len(ver) THEN ver[i] ELSE "live"
Marks(w, ver, k) ==
    Len(w) = Len(ver) /\ \A i \in 1..Len(w) : w[i] = IF i = k + 1 THEN "deleted" ELSE ver[i]

LEMMA GrownIds ==
    ASSUME NEW ver \in Versions, NEW w \in Versions, Grows(w, ver)
    PROVE  /\ \A i : (Live(ver, i) => Live(w, i)) /\ (Dead(ver, i) => Dead(w, i))
           /\ \A i \in Nat : i < Len(w) /\ ~(i < Len(ver)) => Live(w, i)
           /\ \A i : i < Len(ver) => (Live(w, i) => Live(ver, i))
<1>1. Len(ver) \in Nat /\ Len(w) \in Nat /\ Len(ver) <= Len(w)
  BY DEF Versions, Grows
<1>2. ASSUME NEW i \in 0..(Len(ver) - 1) PROVE i \in 0..(Len(w) - 1) /\ w[i + 1] = ver[i + 1]
  <2>1. i + 1 \in 1..Len(w) /\ i + 1 <= Len(ver) /\ i \in 0..(Len(w) - 1)
    BY <1>1
  <2> QED
    BY <2>1 DEF Grows
<1>3. ASSUME NEW i \in Nat, i < Len(w), ~(i < Len(ver)) PROVE Live(w, i)
  <2>1. i + 1 \in 1..Len(w) /\ ~(i + 1 <= Len(ver)) /\ i \in 0..(Len(w) - 1)
    BY <1>1, <1>3
  <2> QED
    BY <2>1 DEF Grows, Live
<1>4. ASSUME NEW i, i < Len(ver), Live(w, i) PROVE Live(ver, i)
  <2>1. i \in 0..(Len(ver) - 1)
    BY <1>1, <1>4 DEF Live
  <2> QED
    BY <1>2, <1>4, <2>1 DEF Live
<1> QED
  BY <1>2, <1>3, <1>4 DEF Live, Dead

LEMMA MarkedIds ==
    ASSUME NEW ver \in Versions, NEW w, NEW k \in Nat, Marks(w, ver, k)
    PROVE  /\ \A i : (i # k /\ Live(ver, i) => Live(w, i)) /\ (Dead(ver, i) => Dead(w, i))
           /\ k < Len(ver) => Dead(w, k)
<1>1. Len(ver) \in Nat /\ Len(w) = Len(ver)
  BY DEF Versions, Marks
<1>2. ASSUME NEW i \in 0..(Len(ver) - 1) PROVE w[i + 1] = IF i = k THEN "deleted" ELSE ver[i + 1]
  <2>1. i + 1 \in 1..Len(w) /\ (i + 1 = k + 1 <=> i = k)
    BY <1>1
  <2> QED
    BY <2>1 DEF Marks
<1>3. k < Len(ver) => k \in 0..(Len(ver) - 1)
  BY <1>1
<1> QED
  BY <1>1, <1>2, <1>3 DEF Live, Dead

\* What an addition that begins does.
BatchAs(c) ==
    /\ op' = [op EXCEPT ![c] = [kind |-> "log", vec |-> NextName, id |-> Len(mem.ver), renumbered |-> FALSE]]
    /\ op[c] = Idle /\ Grows(mem'.ver, mem.ver) /\ Len(mem'.ver) = Len(mem.ver) + 1
    /\ mem.ver \in Versions /\ mem'.ver \in Versions /\ Len(mem.ver) \in Nat
    /\ Known' = Known /\ Reached' = Reached /\ UNCHANGED <<sure, gone, log, size, scan, disk, promise, state>>
    /\ saver.kind # "refine"

LEMMA AddBatchEffect ==
    ASSUME Base, NEW c \in Clients, AddBatch(c)
    PROVE  BatchAs(c)
<1>1. mem \in Memories /\ UNCHANGED <<setting, blocks, jobs>>
  BY DEF Base, Types, MemOK, AddBatch, durable
<1>2. mem.ver \in Seq({"live", "deleted"}) /\ Len(mem.ver) \in Nat
  BY <1>1 DEF Memories, Versions
<1>3. /\ mem'.ver = Append(mem.ver, "live")
      /\ mem'.heads = mem.heads /\ mem'.vec = mem.vec /\ mem'.trans = mem.trans /\ mem'.map = mem.map
  BY <1>1 DEF AddBatch, Memories
<1>4. Known' = Known /\ Reached' = Reached
  BY <1>1, <1>3, KnownKept DEF SameEntries, SameHeads
<1>5. Grows(mem'.ver, mem.ver) /\ Len(mem'.ver) = Len(mem.ver) + 1 /\ mem'.ver \in Seq({"live", "deleted"})
  BY <1>2, <1>3 DEF Grows
<1> QED
  BY <1>2, <1>4, <1>5 DEF BatchAs, AddBatch, durable, history, Refining, Versions

LEMMA AddBatchClaims ==
    ASSUME Base, MemClaimed, NEW c \in Clients, AddBatch(c)
    PROVE  MemClaimed'
<1> DEFINE n == Len(mem.ver)
<1>0. OpsOK /\ BatchAs(c)
  BY AddBatchEffect DEF Base, Types
<1>1. /\ \A i : (Live(mem.ver, i) => Live(mem'.ver, i)) /\ (Dead(mem.ver, i) => Dead(mem'.ver, i))
      /\ Live(mem'.ver, n)
  BY <1>0, GrownIds DEF BatchAs
<1>2. \A i : Live(mem.ver, i) => i # n
  BY <1>0 DEF BatchAs, Live
<1>3. /\ op'[c].kind = "log" /\ op'[c].id = n /\ ~op'[c].renumbered
      /\ \A d \in Clients : d # c => op'[d] = op[d]
      /\ ~Pending(c)
  BY <1>0 DEF BatchAs, OpsOK, Pending, Idle
<1>4. Claims(Reached', Known', mem'.ver, sure', gone')
  BY <1>0, <1>1 DEF MemClaimed, Claims, BatchAs
<1>5. \A d \in Clients : Pending(d) => op[d].id # n
  <2> SUFFICES ASSUME NEW d \in Clients, Pending(d) PROVE op[d].id # n
    OBVIOUS
  <2>1. OpClaimed(d) /\ op[d].kind \in {"log", "append", "delete"}
    BY DEF MemClaimed, Pending, Operations, Base, Types, OpsOK
  <2>2. CASE Adds(d)
    BY <1>2, <2>1, <2>2 DEF OpClaimed
  <2>3. CASE op[d].kind = "delete"
    BY <1>0, <2>1, <2>3 DEF OpClaimed, BatchAs
  <2> QED
    BY <2>1, <2>2, <2>3 DEF Adds
<1>6. ASSUME NEW d \in Clients, Pending(d)' PROVE OpClaimed(d)'
  <2>1. CASE d = c
    <3>1. \A e \in Known : e[2] \in sure => e[1] # n
      BY <1>2 DEF MemClaimed, Claims
    <3>2. \A x \in Clients : x # c /\ Pending(x)' => op'[x].id # n
      BY <1>3, <1>5 DEF Pending
    <3> QED
      BY <1>0, <1>1, <1>3, <2>1, <3>1, <3>2 DEF OpClaimed, Adds, BatchAs
  <2>2. CASE d # c
    <3>1. op'[d] = op[d] /\ Pending(d) /\ OpClaimed(d)
      BY <1>3, <1>6, <2>2 DEF Pending, MemClaimed
    <3>2. \A x \in Clients : x # d /\ Pending(x)' => op'[x].id # op[d].id
      <4> TAKE x \in Clients
      <4>1. CASE x = c
        BY <1>3, <1>5, <3>1, <4>1
      <4>2. CASE x # c
        BY <1>3, <3>1, <4>2 DEF Pending, OpClaimed
      <4> QED
        BY <4>1, <4>2
    <3>3. op[d].kind = "delete" => op[d].id < Len(mem'.ver)
      BY <1>0, <3>1 DEF OpClaimed, BatchAs, Base, Types, OpsOK, Operations, Ids, NoId
    <3> QED
      BY <1>0, <1>1, <3>1, <3>2, <3>3 DEF OpClaimed, Adds, BatchAs
  <2> QED
    BY <2>1, <2>2
<1> HIDE DEF n
<1> QED
  BY <1>4, <1>6 DEF MemClaimed

\* A logged addition, and one that is done.
LoggedAs(c) ==
    /\ op[c].kind = "log" /\ op'[c].kind = "append" /\ op'[c].id = op[c].id /\ op'[c].vec = op[c].vec
    /\ op'[c].renumbered = op[c].renumbered /\ \A d \in Clients : d # c => op'[d] = op[d]
    /\ Known' = Known /\ Reached' = Reached /\ UNCHANGED <<mem, sure, gone, scan, disk, promise, state>>
    /\ PutAssignment([kind |-> "add", id |-> op[c].id, vec |-> op[c].vec])

LEMMA AddLogEffect ==
    ASSUME Base, NEW c \in Clients, AddLog(c)
    PROVE  LoggedAs(c)
<1>1. OpsOK /\ op[c].kind = "log" /\ op[c] \in Operations /\ op' = [op EXCEPT ![c] = [@ EXCEPT !.kind = "append"]]
  BY DEF Base, Types, OpsOK, AddLog
<1>2. /\ op'[c].kind = "append" /\ op'[c].id = op[c].id /\ op'[c].vec = op[c].vec /\ op'[c].renumbered = op[c].renumbered
      /\ \A d \in Clients : d # c => op'[d] = op[d]
  BY <1>1 DEF OpsOK, Operations
<1>3. UNCHANGED <<setting, mem, blocks, jobs, sure, gone, scan, disk, promise, state>>
  BY DEF AddLog, history
<1>4. Known' = Known /\ Reached' = Reached
  BY <1>3, KnownKept DEF SameEntries, SameHeads
<1> QED
  BY <1>1, <1>2, <1>3, <1>4 DEF LoggedAs, AddLog

LEMMA AddLogClaims ==
    ASSUME Base, MemClaimed, NEW c \in Clients, AddLog(c)
    PROVE  MemClaimed'
<1>0. LoggedAs(c) /\ Idle.kind = "idle"
  BY AddLogEffect DEF Idle
<1>1. \A d \in Clients : op'[d].id = op[d].id /\ op'[d].vec = op[d].vec /\ (Pending(d)' <=> Pending(d))
                         /\ (Adds(d)' <=> Adds(d)) /\ (op'[d].kind = "delete" <=> op[d].kind = "delete")
  <2> TAKE d \in Clients
  <2>1. CASE d = c
    BY <1>0, <2>1 DEF LoggedAs, Pending, Adds
  <2>2. CASE d # c
    BY <1>0, <2>2 DEF LoggedAs, Pending, Adds
  <2> QED
    BY <2>1, <2>2
<1>2. Claims(Reached', Known', mem'.ver, sure', gone')
  BY <1>0 DEF MemClaimed, LoggedAs
<1>3. ASSUME NEW d \in Clients, Pending(d)' PROVE OpClaimed(d)'
  <2>1. OpClaimed(d)
    BY <1>1, <1>3 DEF MemClaimed
  <2> QED
    BY <1>0, <1>1, <2>1 DEF OpClaimed, LoggedAs
<1> QED
  BY <1>2, <1>3 DEF MemClaimed

AppendedAs(c) ==
    LET e == <<op[c].id, op[c].vec>> IN
    /\ op[c].kind = "append" /\ op' = [op EXCEPT ![c] = Idle] /\ mem'.ver = mem.ver
    /\ \A x : x \in Known' => x \in Known \/ x = e
    /\ \A x : x \in Reached \/ x = e => x \in Reached'
    /\ sure' = (IF op[c].renumbered \/ ~trusted THEN sure ELSE sure \cup {op[c].vec})
    /\ UNCHANGED <<gone, log, size, scan, disk, promise, state>>

LEMMA AddAppendEffect ==
    ASSUME Base, MemBlocks, NEW c \in Clients, AddAppend(c)
    PROVE  AppendedAs(c)
<1>1. PICK h \in mem.heads : AppendTo(h, <<op[c].id, op[c].vec>>)
  BY DEF AddAppend
<1>2. mem'.ver = mem.ver
  BY <1>1, AppendEffect DEF AppendAs, PutAs, Base, Types
<1> QED
  BY <1>2, AppendEntries DEF AppendedAs, AddAppend

LEMMA AddAppendClaims ==
    ASSUME Base, SavesInv, trusted, MemClaimed, NEW c \in Clients, AddAppend(c)
    PROVE  MemClaimed'
<1> DEFINE e == <<op[c].id, op[c].vec>>
<1>0. AppendedAs(c) /\ Fresh(op[c].vec) /\ op \in [Clients -> Operations] /\ NamesInv /\ Adds(c)
  <2>1. MemBlocks /\ Adds(c)
    BY DEF SavesInv, BlocksInv, AddAppend, Adds
  <2> QED
    BY <2>1, AddAppendEffect, FreshNames DEF Base, Types, OpsOK
<1>1. e[1] = op[c].id /\ e[2] = op[c].vec /\ (Pending(c) <=> ~op[c].renumbered)
  BY <1>0 DEF Pending, Adds, Idle
<1> HIDE DEF e
<1>2. /\ \A x \in Known' : x \in Known \/ x = e
      /\ \A x : x \in Reached \/ x = e => x \in Reached'
      /\ mem'.ver = mem.ver /\ gone' = gone
      /\ \A x \in Known : x[2] # e[2]
      /\ e[2] \notin sure /\ e[2] \notin gone
  BY <1>0, <1>1 DEF AppendedAs, Fresh, e
<1>3. \A v : v \in sure' <=> v \in sure \/ (v = e[2] /\ Pending(c))
  BY <1>0, <1>1 DEF AppendedAs
<1>4. \A x \in Known' : x[2] \in sure' => (x \in Known /\ x[2] \in sure) \/ (x = e /\ Pending(c))
  BY <1>2, <1>3
<1>5. Pending(c) => Live(mem.ver, e[1]) /\ \A x \in Known : x[2] \in sure => x[1] # e[1]
  BY <1>0, <1>1 DEF MemClaimed, OpClaimed
<1>6. Claims(Reached, Known, mem.ver, sure, gone)
  BY DEF MemClaimed
<1>7. Claims(Reached', Known', mem'.ver, sure', gone')
  <2>1. \A v \in sure' : \E x \in Reached' : x[2] = v
    BY <1>2, <1>3, <1>6 DEF Claims
  <2>2. \A x \in Known' : x[2] \in sure' => Live(mem'.ver, x[1])
    BY <1>2, <1>4, <1>5, <1>6 DEF Claims
  <2>3. \A x, y \in Known' : x[2] \in sure' /\ y[2] \in sure' => (x[1] = y[1] <=> x[2] = y[2])
    BY <1>2, <1>4, <1>5, <1>6 DEF Claims
  <2>4. \A x \in Known' : x[2] \in gone' => Dead(mem'.ver, x[1])
    BY <1>2, <1>6 DEF Claims
  <2> QED
    BY <2>1, <2>2, <2>3, <2>4 DEF Claims
<1>8. ASSUME NEW d \in Clients, Pending(d)' PROVE OpClaimed(d)'
  <2>1. d # c /\ op'[d] = op[d] /\ Pending(d) /\ OpClaimed(d)
    BY <1>0, <1>8 DEF AppendedAs, Pending, MemClaimed
  <2>2. \A x \in Clients : x # d /\ Pending(x)' => op'[x].id # op[d].id
    BY <1>0, <2>1 DEF AppendedAs, Pending, OpClaimed
  <2>3. Pending(c) => op[c].id # op[d].id
    BY <2>1 DEF OpClaimed
  <2>4. op[c].vec # op[d].vec
    BY <1>0, <2>1 DEF NamesInv, OpNames, Pending, Adds, Idle
  <2>5. \A x \in Known' : x[2] \in sure' => x[1] # op[d].id
    BY <1>1, <1>4, <2>1, <2>3 DEF OpClaimed
  <2>6. op[d].kind = "delete" => \A x \in Known' : x[2] = op[d].vec => x[1] = op[d].id
    BY <1>1, <1>2, <2>1, <2>4 DEF OpClaimed
  <2> QED
    BY <1>2, <2>1, <2>2, <2>5, <2>6 DEF OpClaimed, Adds
<1> QED
  BY <1>7, <1>8 DEF MemClaimed

\* A deletion that is logged, and one that is done.
DeletedAs(c, e) ==
    /\ state = "running" /\ saver.kind # "refine" /\ op[c] = Idle
    /\ e \in Reached /\ e \in Known /\ e[2] \in sure /\ Live(mem.ver, e[1]) /\ e[1] < Len(mem.ver) /\ e \in Ids \X Vectors
    /\ op' = [op EXCEPT ![c] = [kind |-> "delete", vec |-> e[2], id |-> e[1], renumbered |-> FALSE]]
    /\ sure' = sure \ {e[2]}
    /\ Known' = Known /\ Reached' = Reached /\ UNCHANGED <<mem, gone, scan, disk, promise, state>>
    /\ PutAssignment([kind |-> "delete", id |-> e[1], vec |-> e[2]])

LEMMA DeleteLogEffect ==
    ASSUME Base, SavesInv, NEW c \in Clients, DeleteLog(c)
    PROVE  \E e \in Answers(mem) : DeletedAs(c, e)
<1>1. PICK e \in Answers(mem) :
        /\ e[2] \in sure \cap setting.deletable
        /\ PutAssignment([kind |-> "delete", id |-> e[1], vec |-> e[2]])
        /\ op' = [op EXCEPT ![c] = [kind |-> "delete", vec |-> e[2], id |-> e[1], renumbered |-> FALSE]]
        /\ sure' = sure \ {e[2]}
  BY DEF DeleteLog
<1>2. state = "running" /\ op[c] = Idle /\ UNCHANGED <<setting, mem, blocks, jobs, gone, scan, disk, promise, state>>
  BY DEF DeleteLog
<1>3. e \in Reached /\ e \in Known
  BY <1>2, AnswersKnown, EntriesNow DEF Holds
<1>4. Live(mem.ver, e[1]) /\ e \in Ids \X Vectors
  BY <1>3, EntryTypes DEF Answers, Base, Types, WorkOK
<1>5. e[1] < Len(mem.ver)
  <2>1. Len(mem.ver) \in Nat
    BY DEF Base, Types, MemOK, Memories, Versions
  <2> QED
    BY <1>4, <2>1 DEF Live
<1>6. Known' = Known /\ Reached' = Reached
  BY <1>2, KnownKept DEF SameEntries, SameHeads
<1> QED
  BY <1>1, <1>2, <1>3, <1>4, <1>5, <1>6 DEF DeletedAs, DeleteLog, Refining

\* The id of an answer is that of no operation.
LEMMA OthersIds ==
    ASSUME MemClaimed, NEW e \in Known, e[2] \in sure, NEW c \in Clients, Pending(c)
    PROVE  op[c].id # e[1]
  BY DEF MemClaimed, OpClaimed

LEMMA DeleteLogClaims ==
    ASSUME Base, SavesInv, MemClaimed, NEW c \in Clients, DeleteLog(c)
    PROVE  MemClaimed'
<1>0. PICK e \in Answers(mem) : DeletedAs(c, e)
  BY DeleteLogEffect
<1>1. /\ op \in [Clients -> Operations] /\ op'[c].kind = "delete" /\ op'[c].vec = e[2] /\ op'[c].id = e[1]
      /\ \A d \in Clients : d # c => op'[d] = op[d]
      /\ e \in Known /\ e[2] \in sure /\ sure' \subseteq sure /\ e[2] \notin sure'
  BY <1>0 DEF DeletedAs, Base, Types, OpsOK
<1>2. Claims(Reached, Known, mem.ver, sure, gone)
  BY DEF MemClaimed
<1>3. Claims(Reached', Known', mem'.ver, sure', gone')
  BY <1>0, <1>1, <1>2 DEF DeletedAs, Claims
<1>4. ASSUME NEW d \in Clients, Pending(d)' PROVE OpClaimed(d)'
  <2>1. CASE d = c
    <3>1. \A x \in Known : x[2] = e[2] => x[1] = e[1]
      BY <1>1, <1>2 DEF Claims
    <3>2. \A x \in Known : x[2] \in sure' => x[1] # e[1]
      BY <1>1, <1>2 DEF Claims
    <3>3. \A x \in Clients : x # c /\ Pending(x)' => op'[x].id # e[1]
      BY <1>1, OthersIds DEF Pending
    <3> QED
      BY <1>0, <1>1, <2>1, <3>1, <3>2, <3>3 DEF DeletedAs, OpClaimed, Adds
  <2>2. CASE d # c
    <3>1. op'[d] = op[d] /\ Pending(d) /\ OpClaimed(d)
      BY <1>1, <1>4, <2>2 DEF Pending, MemClaimed
    <3>2. op[d].id # e[1]
      BY <1>1, <3>1, OthersIds
    <3>3. \A x \in Clients : x # d /\ Pending(x)' => op'[x].id # op[d].id
      <4> TAKE x \in Clients
      <4>1. CASE x = c
        BY <1>1, <3>2, <4>1
      <4>2. CASE x # c
        BY <1>1, <3>1, <4>2 DEF Pending, OpClaimed
      <4> QED
        BY <4>1, <4>2
    <3> QED
      BY <1>0, <1>1, <3>1, <3>3 DEF DeletedAs, OpClaimed, Adds
  <2> QED
    BY <2>1, <2>2
<1> QED
  BY <1>3, <1>4 DEF MemClaimed

MarkedAs(c) ==
    /\ op[c].kind = "delete" /\ op' = [op EXCEPT ![c] = Idle] /\ gone' = gone \cup {op[c].vec}
    /\ mem.ver \in Versions /\ Marks(mem'.ver, mem.ver, op[c].id) /\ op[c].id \in Nat
    /\ Known' = Known /\ Reached' = Reached /\ UNCHANGED <<sure, log, size, scan, disk, promise, state>>

LEMMA DeleteMarkEffect ==
    ASSUME Base, NEW c \in Clients, DeleteMark(c)
    PROVE  MarkedAs(c)
<1>1. /\ mem \in Memories /\ op[c].kind = "delete" /\ op[c].id \in Nat /\ UNCHANGED <<setting, blocks, jobs>>
      /\ mem' = [mem EXCEPT !.ver[op[c].id + 1] = "deleted"]
  BY LifecycleBounds DEF Base, Types, MemOK, OpsOK, Idle, Ids, DeleteMark, durable
<1>2. /\ mem'.ver = [mem.ver EXCEPT ![op[c].id + 1] = "deleted"] /\ mem.ver \in Seq({"live", "deleted"})
      /\ mem'.heads = mem.heads /\ mem'.vec = mem.vec /\ mem'.trans = mem.trans /\ mem'.map = mem.map
  BY <1>1 DEF Memories, Versions
<1>3. Marks(mem'.ver, mem.ver, op[c].id)
  BY <1>1, <1>2 DEF Marks
<1>4. Known' = Known /\ Reached' = Reached
  BY <1>1, <1>2, KnownKept DEF SameEntries, SameHeads
<1> QED
  BY <1>1, <1>2, <1>3, <1>4 DEF MarkedAs, DeleteMark, durable, Versions

LEMMA DeleteMarkClaims ==
    ASSUME Base, MemClaimed, NEW c \in Clients, ~op[c].renumbered, DeleteMark(c)
    PROVE  MemClaimed'
<1> DEFINE i == op[c].id
<1>0. MarkedAs(c) /\ op \in [Clients -> Operations] /\ Pending(c) /\ OpClaimed(c) /\ op[c].kind = "delete"
  <2>1. MarkedAs(c)
    BY DeleteMarkEffect
  <2>2. op[c].kind = "delete" /\ Pending(c)
    BY <2>1 DEF MarkedAs, Pending, Idle
  <2> QED
    BY <2>1, <2>2 DEF Base, Types, OpsOK, MemClaimed
<1>1. /\ \A j : (j # i /\ Live(mem.ver, j) => Live(mem'.ver, j)) /\ (Dead(mem.ver, j) => Dead(mem'.ver, j))
      /\ i < Len(mem.ver) => Dead(mem'.ver, i)
  BY <1>0, MarkedIds DEF MarkedAs
<1>2. i < Len(mem.ver) /\ (\A e \in Known : e[2] = op[c].vec => e[1] = i) /\ \A e \in Known : e[2] \in sure => e[1] # i
  BY <1>0 DEF OpClaimed
<1>3. Claims(Reached, Known, mem.ver, sure, gone)
  BY DEF MemClaimed
<1>4. Claims(Reached', Known', mem'.ver, sure', gone')
  BY <1>0, <1>1, <1>2, <1>3 DEF MarkedAs, Claims
<1>5. ASSUME NEW d \in Clients, Pending(d)' PROVE OpClaimed(d)'
  <2>1. d # c /\ op'[d] = op[d] /\ Pending(d) /\ OpClaimed(d)
    BY <1>0, <1>5 DEF MarkedAs, Pending, MemClaimed
  <2>2. op[d].id # i
    BY <1>0, <2>1 DEF OpClaimed
  <2>3. \A x \in Clients : x # d /\ Pending(x)' => op'[x].id # op[d].id
    BY <1>0, <2>1 DEF MarkedAs, Pending, OpClaimed
  <2>4. Len(mem'.ver) = Len(mem.ver)
    BY <1>0 DEF MarkedAs, Marks
  <2> QED
    BY <1>0, <1>1, <2>1, <2>2, <2>3, <2>4 DEF MarkedAs, OpClaimed, Adds
<1> HIDE DEF i
<1> QED
  BY <1>4, <1>5 DEF MemClaimed

LEMMA UpdateClaims ==
    ASSUME Base, SavesInv, trusted, DeletesPending, MemClaimed, NEW c \in Clients, Updates(c)
    PROVE  MemClaimed'
<1>1. CASE AddBatch(c)
  BY <1>1, AddBatchClaims
<1>2. CASE AddLog(c)
  BY <1>2, AddLogClaims
<1>3. CASE AddAppend(c)
  BY <1>3, AddAppendClaims
<1>4. CASE DeleteLog(c)
  BY <1>4, DeleteLogClaims
<1>5. CASE DeleteMark(c)
  <2>1. ~op[c].renumbered
    BY <1>5 DEF DeleteMark, DeletesPending
  <2> QED
    BY <1>5, <2>1, DeleteMarkClaims
<1> QED
  BY <1>1, <1>2, <1>3, <1>4, <1>5 DEF Updates

\* Steps that lose no live entry and leave the numbers and operations as they are.
LEMMA MemClaimedKept ==
    ASSUME MemClaimed, SplitKeeps, mem'.ver = mem.ver, UNCHANGED <<op, sure, gone>>
    PROVE  MemClaimed'
<1>1. Claims(Reached, Known, mem.ver, sure, gone) /\ \A x \in Reached : x \in Known
  BY EntriesNow DEF MemClaimed, Holds
<1>2. Claims(Reached', Known', mem'.ver, sure', gone')
  <2>1. \A v \in sure : \E e \in Reached' : e[2] = v
    BY <1>1 DEF Claims, SplitKeeps
  <2> QED
    BY <1>1, <2>1 DEF Claims, SplitKeeps
<1>3. \A c \in Clients : Pending(c)' => OpClaimed(c)'
  BY DEF MemClaimed, Pending, OpClaimed, SplitKeeps, Adds
<1> QED
  BY <1>2, <1>3 DEF MemClaimed

LEMMA DeletesPendingNext ==
    ASSUME Base, DeletesPending, [Next]_vars
    PROVE  DeletesPending'
<1>0. op \in [Clients -> Operations] /\ Idle.kind = "idle"
  BY DEF Base, Types, OpsOK, Idle
<1>1. CASE UNCHANGED op
  BY <1>1 DEF DeletesPending
<1>2. CASE Starts \/ Crash
  <2>1. \A c \in Clients : op'[c] = Idle
    BY <1>2, StartsFrame DEF Crash
  <2> QED
    BY <1>0, <2>1 DEF DeletesPending
<1>3. ASSUME NEW c \in Clients, Updates(c) PROVE DeletesPending'
  <2>1. (op'[c].kind = "delete" => ~op'[c].renumbered) /\ \A d \in Clients : d # c => op'[d] = op[d]
    <3>1. CASE AddBatch(c)
      BY <1>0, <3>1 DEF AddBatch
    <3>2. CASE AddLog(c)
      BY <1>0, <3>2, AddLogEffect DEF LoggedAs
    <3>3. CASE AddAppend(c) \/ DeleteMark(c)
      BY <1>0, <3>3 DEF AddAppend, DeleteMark
    <3>4. CASE DeleteLog(c)
      BY <1>0, <3>4 DEF DeleteLog
    <3> QED
      BY <1>3, <3>1, <3>2, <3>3, <3>4 DEF Updates
  <2> QED
    BY <2>1 DEF DeletesPending
<1>4. CASE RefineFiles
  <2>1. \A c \in Clients : op'[c].kind # "delete"
    <3> TAKE c \in Clients
    <3>1. op[c].kind # "delete" /\ op[c] \in Operations
      BY <1>0, <1>4 DEF RefineFiles
    <3>2. op'[c] = IF op[c] = Idle THEN Idle ELSE [op[c] EXCEPT !.renumbered = TRUE]
      BY <1>4 DEF RefineFiles
    <3> QED
      BY <1>0, <3>1, <3>2 DEF Operations
  <2> QED
    BY <2>1 DEF DeletesPending
<1>5. CASE Reload \/ SaverStep \/ \E h \in HeadIds : SplitJob(h) \/ RefinePosting(h)
  <2>1. RefineFiles \/ UNCHANGED op
    BY <1>5, ReloadSteps, SaverStepKeeps DEF SplitJob, RefinePosting
  <2> QED
    BY <1>1, <1>4, <2>1
<1> QED
  BY <1>2, <1>3, <1>5, NextCases DEF SaverStep

\* What starts the index in memory.
LEMMA StartClaims ==
    ASSUME Base, SavesInv, ClaimsInv, ReplayInv, trusted', BuildIndex \/ LoadIndex \/ RecoverEnd
    PROVE  MemClaimed'
<1>0. /\ \A c \in Clients : op'[c] = Idle
      /\ StatesInv /\ RunOK
  BY StartsFrame DEF Starts, Base, NamesInv, Types
<1>1. \A c \in Clients : ~Pending(c)'
  BY <1>0 DEF Pending
<1> SUFFICES Claims(Reached', Known', mem'.ver, sure', gone')
  BY <1>1 DEF MemClaimed
<1>2. CASE BuildIndex
  <2> DEFINE N == Cardinality(setting.built)
  <2>1. /\ \A x : x \in Known' => \E v \in setting.built : x = <<v, v>>
        /\ \A v \in sure' : <<v, v>> \in Reached'
        /\ mem'.ver = [i \in 1..N |-> "live"]
    BY <1>2, BuiltEntries
  <2>2. setting.built = 0..(N - 1) /\ N \in Nat
    BY <1>0, SettingFacts DEF RunOK
  <2>3. gone' = {}
    BY <1>0, <1>2 DEF BuildIndex, StatesInv
  <2> HIDE DEF N
  <2>4. Len(mem'.ver) = N
    BY <2>1, <2>2
  <2>5. \A v \in setting.built : Live(mem'.ver, v)
    BY <2>1, <2>2, <2>4 DEF Live
  <2>6. \A x \in Known' : x[1] = x[2] /\ x[1] \in setting.built
    <3> TAKE x \in Known'
    <3>1. PICK v \in setting.built : x = <<v, v>>
      BY <2>1
    <3> QED
      BY <3>1
  <2>7. \A v \in sure' : \E e \in Reached' : e[2] = v
    <3> TAKE v \in sure'
    <3>1. <<v, v>> \in Reached' /\ <<v, v>>[2] = v
      BY <2>1
    <3> QED
      BY <3>1
  <2> QED
    BY <2>3, <2>5, <2>6, <2>7 DEF Claims
<1>3. CASE LoadIndex
  <2>1. promise["index"].sound /\ "index" \in Dirs
    BY <1>3 DEF LoadIndex, Dirs
  <2>2. Claims(SavedIn("index"), SavedIn("index"), disk["index"].ver, promise["index"].sure, promise["index"].gone)
    BY <2>1 DEF ClaimsInv, ClaimsSaved
  <2>3. mem' = LoadedFrom("index") /\ UNCHANGED <<setting, blocks, jobs>> /\ jobs = {}
        /\ sure' = promise["index"].sure /\ gone' = promise["index"].gone
    BY <1>0, <1>3, <2>1 DEF LoadIndex, durable, StatesInv
  <2>4. mem'.ver = disk["index"].ver
    BY <2>1, <2>3 DEF LoadedFrom, OrElse, DirBlocks, SavesInv, BlocksInv
  <2>5. (\A x : x \in Known' <=> x \in SavedIn("index")) /\ (\A x : x \in Reached' <=> x \in SavedIn("index"))
    BY <2>1, <2>3, LoadEntries
  <2> QED
    BY <2>2, <2>3, <2>4, <2>5 DEF Claims
<1>4. CASE RecoverEnd
  <2>1. /\ state = "replay" /\ scan = <<>> /\ UNCHANGED <<setting, mem, blocks, jobs, sure, gone, trusted>>
    BY <1>4 DEF RecoverEnd, durable, history
  <2>2. SureForetold /\ GoneForetold
    BY <2>1 DEF ReplayInv
  <2>3. ScanRecs = {} /\ DOMAIN scan = {}
    BY <2>1 DEF ScanRecs
  <2>4. Known' = Known /\ Reached' = Reached
    BY <2>1, KnownKept DEF SameEntries, SameHeads
  <2>5. \A e \in Known : e \in Foretold
    BY DEF Foretold
  <2>6. \A e, f \in Known : e[2] \in sure /\ f[2] \in sure => (e[1] = f[1] <=> e[2] = f[2])
    BY <2>2, <2>5 DEF SureForetold
  <2>7. \A v \in gone : \A e \in Known : e[2] = v => Dead(mem.ver, e[1])
    BY <2>2, <2>3 DEF GoneForetold
  <2>8. (\A v \in sure : \E e \in Reached : e[2] = v) /\ \A e \in Known : e[2] \in sure => Live(mem.ver, e[1])
    BY <2>2, <2>3 DEF SureForetold
  <2> QED
    BY <2>1, <2>4, <2>6, <2>7, <2>8 DEF Claims
<1> QED
  BY <1>2, <1>3, <1>4

LEMMA ClaimsInMemoryNext ==
    ASSUME Base, SavesInv, ClaimsInv, ReplayInv, [Next]_vars
    PROVE  ClaimsInMemory'
<1> SUFFICES ASSUME trusted', ~InRefine', state' \in {"building", "running"} PROVE MemClaimed'
  BY DEF ClaimsInMemory
<1>0. setting' = setting /\ SaverOK /\ OpsOK /\ StatesInv /\ DeletesPending
  BY RunFrame DEF Base, Types, NamesInv, ClaimsInv
<1>1. ~RecoverIndex /\ ~ReplayAdd /\ ~ReplayDelete /\ ~Crash
  BY DEF RecoverIndex, ReplayAdd, ReplayDelete, Crash
<1>2. CASE BuildIndex \/ LoadIndex \/ RecoverEnd
  BY <1>2, StartClaims
<1>3. CASE Reload
  <2>1. /\ InRefine /\ saver.kind = "refine" /\ disk' = disk /\ mem'.ver = disk["index"].ver /\ op' = op /\ trusted
        /\ (saver.quiet => sure' = sure /\ gone' = gone \ Misnamed) /\ (~saver.quiet => sure' = {} /\ gone' = {})
    <3>1. sure' = (IF saver.quiet THEN sure ELSE {}) /\ gone' = (IF saver.quiet THEN gone \ Misnamed ELSE {})
      BY <1>3 DEF Reload, Misnamed
    <3>2. InRefine /\ mem'.ver = disk["index"].ver
      BY <1>3, ReloadType DEF SavesInv
    <3>3. saver.kind = "refine" /\ disk' = disk /\ op' = op /\ trusted
      BY <1>3, ReloadSteps
    <3> QED
      BY <3>1, <3>2, <3>3
  <2>2. CASE saver.quiet
    <3>1. jobs = {} /\ \A c \in Clients : op[c] = Idle
      BY <2>1, <2>2 DEF SavesInv, SaveQuiet, Saving, Settled
    <3>2. (\A x : x \in Known' <=> x \in Coming) /\ (\A x : x \in Reached' <=> x \in Coming)
      BY <1>3, <2>2, <3>1, ReloadEntries DEF SavesInv
    <3>3. Claims(Coming, Coming, disk["index"].ver, sure, gone \ Misnamed)
      BY <2>1, <2>2 DEF ClaimsInv, ClaimsComing
    <3>4. Claims(Reached', Known', mem'.ver, sure', gone')
      BY <2>1, <2>2, <3>2, <3>3 DEF Claims
    <3>5. \A c \in Clients : ~Pending(c)'
      BY <2>1, <3>1 DEF Pending
    <3> QED
      BY <3>4, <3>5 DEF MemClaimed
  <2>3. CASE ~saver.quiet
    <3>1. Claims(Reached', Known', mem'.ver, sure', gone')
      BY <2>1, <2>3 DEF Claims
    <3>2. \A c \in Clients : op[c] # Idle => op[c].renumbered
      BY <2>1 DEF SavesInv, FilesInv
    <3>3. \A c \in Clients : ~Pending(c)'
      BY <2>1, <3>2 DEF Pending
    <3> QED
      BY <3>1, <3>3 DEF MemClaimed
  <2> QED
    BY <2>2, <2>3
<1>4. CASE ~BuildIndex /\ ~LoadIndex /\ ~RecoverEnd /\ ~Reload
  <2>1. trusted /\ state \in {"building", "running"} /\ ~InRefine
    <3>1. UNCHANGED trusted
      BY <1>1, <1>4, RunFrame
    <3>2. state \in {"building", "running"}
      BY <1>1, <1>4, RunFrame DEF BuildEnd
    <3> QED
      BY <1>1, <1>4, <3>1, <3>2, InRefineFrame
  <2>2. MemClaimed /\ MemBlocks
    BY <2>1 DEF ClaimsInv, ClaimsInMemory, SavesInv, BlocksInv
  <2>3. CASE BuildEnd
    <3>1. Known' = Known /\ Reached' = Reached /\ mem'.ver = mem.ver
      BY <2>3, BuildEndEntries
    <3>2. UNCHANGED <<op, sure, gone>>
      BY <2>3 DEF BuildEnd, history
    <3> QED
      BY <2>2, <3>1, <3>2, MemClaimedKept DEF SplitKeeps
  <2>4. ASSUME NEW c \in Clients, Updates(c) PROVE MemClaimed'
    BY <1>0, <2>1, <2>2, <2>4, UpdateClaims
  <2>5. ASSUME NEW h \in HeadIds, SplitJob(h) PROVE MemClaimed'
    <3>1. AllTrans
      BY <2>1 DEF AllTrans, SavesInv, HeadsNamed, AllNamed
    <3>2. SplitKeeps
      BY <2>2, <2>5, <3>1, SplitEntries
    <3>3. mem'.ver = mem.ver
      BY <2>5, SplitShapes DEF SplitShape
    <3>4. UNCHANGED <<op, sure, gone>>
      BY <2>5 DEF SplitJob, history
    <3> QED
      BY <2>2, <3>2, <3>3, <3>4, MemClaimedKept
  <2>6. \A h \in HeadIds : ~RefinePosting(h)
    BY <2>1, RewriteSteps DEF InRefine
  <2>7. CASE SaverStep
    <3>1. ~RefineFiles
      BY RefineSteps DEF InRefine
    <3>2. Known' = Known /\ Reached' = Reached /\ SameNumbers /\ UNCHANGED <<op, sure, gone>>
      BY <2>7, <3>1, SaverStepKeeps
    <3> QED
      BY <2>2, <3>2, MemClaimedKept DEF SplitKeeps, SameNumbers
  <2> QED
    BY <1>1, <1>4, <2>3, <2>4, <2>5, <2>6, <2>7, NextCases DEF Starts, SaverStep
<1> QED
  BY <1>2, <1>3, <1>4

\* The claims of a compaction: no live vector shares its new number.
LEMMA RefinedClaims ==
    ASSUME MemOK, RefinedAs, Claims(Reached, Known, mem.ver, sure, gone)
    PROVE  Claims(Coming', Coming', FileOfVer, sure, gone \ Misnamed)
<1> DEFINE k == Cardinality(LiveIds)
           n(i) == NewId(VectorOrder, i)
<1>1. /\ Numbered(VectorOrder, LiveIds) /\ k \in Nat /\ DOMAIN VectorOrder = 1..k
      /\ \A i : Live(mem.ver, i) => i \in LiveIds
  BY OrderNumbers DEF Numbered, LiveIds, Live
<1>2. Len(FileOfVer) = k /\ \A j \in 0..(k - 1) : Live(FileOfVer, j)
  BY <1>1 DEF FileOfVer, Live
<1>3. /\ \A i : Live(mem.ver, i) => Live(FileOfVer, n(i))
      /\ \A i, j : Live(mem.ver, i) /\ Live(mem.ver, j) => (n(i) = n(j) <=> i = j)
  BY <1>1, <1>2 DEF Numbered
<1>4. \A y \in Reached : y \in Known
  BY EntriesNow DEF Holds
<1> HIDE DEF k, n
<1>5. /\ \A x \in Coming' : \E y \in Reached : x[1] = n(y[1]) /\ x[2] = y[2] /\ (Live(mem.ver, y[1]) \/ y[2] \in Misnamed)
      /\ \A y \in Reached : Live(mem.ver, y[1]) => \E x \in Coming' : x[1] = n(y[1]) /\ x[2] = y[2]
  <2>1. ASSUME NEW x \in Coming'
        PROVE  \E y \in Reached : x[1] = n(y[1]) /\ x[2] = y[2] /\ (Live(mem.ver, y[1]) \/ y[2] \in Misnamed)
    <3>1. PICK y \in Reached : x = <<NewId(VectorOrder, y[1]), y[2]>> /\ (Live(mem.ver, y[1]) \/ y[2] \in Misnamed)
      BY DEF RefinedAs
    <3> QED
      BY <3>1 DEF n
  <2>2. ASSUME NEW y \in Reached, Live(mem.ver, y[1]) PROVE \E x \in Coming' : x[1] = n(y[1]) /\ x[2] = y[2]
    <3>1. <<NewId(VectorOrder, y[1]), y[2]>> \in Coming'
      BY <2>2 DEF RefinedAs
    <3> QED
      BY <3>1 DEF n
  <2> QED
    BY <2>1, <2>2
<1>6. \A v \in sure : \E x \in Coming' : x[2] = v
  <2> TAKE v \in sure
  <2>1. PICK y \in Reached : y[2] = v
    BY DEF Claims
  <2>2. Live(mem.ver, y[1])
    BY <1>4, <2>1 DEF Claims
  <2> QED
    BY <1>5, <2>1, <2>2
<1>7. \A x \in Coming' : x[2] \in sure => \E y \in Known : x[1] = n(y[1]) /\ x[2] = y[2] /\ Live(mem.ver, y[1])
  BY <1>4, <1>5 DEF Claims
<1>8. \A x \in Coming' : x[2] \in sure => Live(FileOfVer, x[1])
  BY <1>3, <1>7
<1>9. \A x, z \in Coming' : x[2] \in sure /\ z[2] \in sure => (x[1] = z[1] <=> x[2] = z[2])
  <2> SUFFICES ASSUME NEW x \in Coming', NEW z \in Coming', x[2] \in sure, z[2] \in sure PROVE x[1] = z[1] <=> x[2] = z[2]
    OBVIOUS
  <2>1. PICK y \in Known : x[1] = n(y[1]) /\ x[2] = y[2] /\ Live(mem.ver, y[1])
    BY <1>7
  <2>2. PICK w \in Known : z[1] = n(w[1]) /\ z[2] = w[2] /\ Live(mem.ver, w[1])
    BY <1>7
  <2>3. y[1] = w[1] <=> y[2] = w[2]
    BY <2>1, <2>2 DEF Claims
  <2> QED
    BY <1>3, <2>1, <2>2, <2>3
<1>10. \A x \in Coming' : ~(x[2] \in gone \ Misnamed)
  <2> SUFFICES ASSUME NEW x \in Coming', x[2] \in gone \ Misnamed PROVE FALSE
    OBVIOUS
  <2>1. PICK y \in Reached : x[2] = y[2] /\ Live(mem.ver, y[1])
    BY <1>5
  <2> QED
    BY <1>4, <2>1 DEF Claims, Dead, Live
<1> QED
  BY <1>6, <1>8, <1>9, <1>10 DEF Claims

LEMMA ClaimsComingNext ==
    ASSUME Base, SavesInv, ClaimsInv, [Next]_vars
    PROVE  ClaimsComing'
<1> SUFFICES ASSUME trusted', InRefine', saver'.quiet PROVE Claims(Coming', Coming', disk'["index"].ver, sure', gone' \ Misnamed')
  BY DEF ClaimsComing
<1>0. setting' = setting /\ SaverOK /\ MemOK
  BY RunFrame DEF Base, Types
<1>1. CASE RefineFiles
  <2>1. /\ saver.kind = "save" /\ UNCHANGED <<mem, sure, gone, trusted>> /\ SameNumbers
    BY <1>1, RefineSteps DEF SameNumbers
  <2>2. trusted /\ ~InRefine /\ state = "running"
    BY <2>1 DEF InRefine, Base, NamesInv, StatesInv, NoSave
  <2>3. Claims(Reached, Known, mem.ver, sure, gone)
    BY <2>2 DEF ClaimsInv, ClaimsInMemory, MemClaimed
  <2>4. RefinedAs /\ Misnamed' = Misnamed
    BY <1>1, RefineEntries
  <2>5. disk'["index"].ver = FileOfVer
    <3>1. RefineWritten'
      BY RefineWrittenNext DEF SavesInv
    <3> QED
      BY <2>1, <3>1, NumberingKept DEF RefineWritten
  <2> QED
    BY <1>0, <2>1, <2>3, <2>4, <2>5, RefinedClaims
<1>2. CASE ~RefineFiles
  <2>1. InRefine /\ saver.kind = "refine" /\ saver'.kind = "refine"
    BY <1>2, InRefineFrame DEF InRefine
  <2>2. saver.quiet /\ jobs = {}
    BY <2>1, RefineGoesOn DEF SavesInv
  <2>3. SaveMapping \/ SavePool \/ UNCHANGED vars \/ \E h \in HeadIds : RefinePosting(h)
    BY <2>1, RefineGoesOn, NoRefineAfter DEF SavesInv
  <2>4. UNCHANGED <<sure, gone, trusted>>
    BY <2>3 DEF SaveMapping, SavePool, vars, RefinePosting, history
  <2>5. Claims(Coming, Coming, disk["index"].ver, sure, gone \ Misnamed) /\ MemBlocks /\ todo \subseteq mem.heads
    BY <2>1, <2>2, <2>4 DEF ClaimsInv, ClaimsComing, SavesInv, BlocksInv, RefineWritten
  <2>6. Coming' = Coming /\ Misnamed' = Misnamed /\ disk'["index"].ver = disk["index"].ver
    <3>1. CASE \E h \in HeadIds : RefinePosting(h)
      BY <2>5, <3>1, RewriteEntries, RewriteSteps
    <3>2. CASE SaveMapping \/ SavePool \/ UNCHANGED vars
      <4>1. SameNumbers /\ SameEntries /\ UNCHANGED todo
        BY <1>2, <3>2, SaverStepKeeps DEF SaverStep
      <4>2. /\ disk'["index"].head = disk["index"].head /\ disk'["index"].trans = disk["index"].trans
            /\ disk'["index"].ver = disk["index"].ver
        <5>1. saver.dir = "index"
          BY <2>1, SaverDirs DEF Base, Types
        <5> QED
          BY <3>2, <5>1, WriteSteps DEF Wrote, Files, vars
      <4> QED
        BY <1>0, <4>1, <4>2, ComingKept DEF SameNewHeads, SameEntries
    <3> QED
      BY <2>3, <3>1, <3>2
  <2> QED
    BY <2>4, <2>5, <2>6
<1> QED
  BY <1>1, <1>2

LEMMA ClaimsSavedNext ==
    ASSUME Base, SavesInv, ClaimsInv, [Next]_vars
    PROVE  ClaimsSaved'
<1> SUFFICES ASSUME NEW d \in Dirs, promise'[d].sound
             PROVE  Claims(SavedIn(d)', SavedIn(d)', disk'[d].ver, promise'[d].sure, promise'[d].gone)
  BY DEF ClaimsSaved
<1>1. CASE SaveEnd => d # saver.dir
  <2>1. Untouched(d) /\ \A x : x \in SavedIn(d)' <=> x \in SavedIn(d)
    BY <1>1, SavedSame
  <2>2. Claims(SavedIn(d), SavedIn(d), disk[d].ver, promise[d].sure, promise[d].gone)
    BY <2>1 DEF ClaimsInv, ClaimsSaved, Untouched
  <2> QED
    BY <2>1, <2>2 DEF Claims, Untouched
<1>2. CASE SaveEnd /\ d = saver.dir
  <2>1. Ends /\ Whole /\ (\A x : x \in SavedIn(d)' <=> x \in Known) /\ \A x : x \in Known <=> x \in Reached
    BY <1>2, SavedWhole
  <2>2. /\ Saving /\ Left = {} /\ trusted /\ disk'[d].ver = mem.ver /\ promise'[d].sure = sure /\ promise'[d].gone = gone
    BY <1>2, <2>1 DEF Ends, Whole
  <2>3. ~InRefine /\ state = "running"
    BY <2>2 DEF InRefine, Base, NamesInv, StatesInv, NoSave, Saving
  <2>4. Claims(Reached, Known, mem.ver, sure, gone)
    BY <2>2, <2>3 DEF ClaimsInv, ClaimsInMemory, MemClaimed
  <2> QED
    BY <2>1, <2>2, <2>4 DEF Claims
<1> QED
  BY <1>1, <1>2

-----------------------------------------------------------------------------

(***************************************************************************)
(* The log and the checkpoint                                              *)
(***************************************************************************)

\* A checkpoint that stays, and one that ends.
CheckpointStays ==
    /\ Buffer.sound /\ disk'["buffer"] = disk["buffer"] /\ BufferIds' = BufferIds
    /\ Buffer'.sure = Buffer.sure /\ Buffer'.gone = Buffer.gone /\ (Buffer'.logged => Buffer.logged)
    /\ SavedIn("buffer")' = SavedIn("buffer")

CheckpointEnds ==
    /\ state = "running" /\ ~InRefine /\ trusted /\ scan = <<>> /\ DOMAIN log = {} /\ \A c \in Clients : op[c] = Idle
    /\ UNCHANGED <<setting, state, mem, blocks, disk, log, size, scan, jobs, op, sure, gone, trusted>>
    /\ ~InRefine' /\ MemClaimed
    /\ SavedIn("buffer")' = Known /\ Known = Reached /\ Known' = Known /\ Reached' = Reached /\ BufferIds' = Len(mem.ver)
    /\ Buffer'.sure = sure /\ Buffer'.gone = gone

LEMMA BufferFrame ==
    ASSUME Base, SavesInv, ClaimsInv, [Next]_vars, Buffer'.sound
    PROVE  CheckpointStays \/ CheckpointEnds
<1>0. "buffer" \in Dirs
  BY DEF Dirs
<1>1. CASE SaveEnd => "buffer" # saver.dir
  <2>1. Untouched("buffer") /\ \A x : x \in SavedIn("buffer")' <=> x \in SavedIn("buffer")
    BY <1>0, <1>1, SavedSame DEF Buffer
  <2>2. SavedIn("buffer")' = SavedIn("buffer")
    BY <2>1
  <2>3. BufferIds' = BufferIds
    BY <2>1 DEF Untouched, BufferIds
  <2> QED
    BY <2>1, <2>2, <2>3 DEF CheckpointStays, Untouched, Buffer
<1>2. CASE SaveEnd /\ "buffer" = saver.dir
  <2>1. /\ Ends /\ Whole /\ (\A x : x \in SavedIn("buffer")' <=> x \in Known) /\ \A x : x \in Known <=> x \in Reached
    BY <1>0, <1>2, SavedWhole DEF Buffer
  <2>2. SavedIn("buffer")' = Known /\ Known = Reached
    BY <2>1
  <2>3. /\ Saving /\ Left = {} /\ trusted /\ disk'["buffer"].ver = mem.ver /\ Buffer'.sure = sure /\ Buffer'.gone = gone
        /\ UNCHANGED <<setting, state, mem, blocks, disk, log, size, scan, jobs, op, sure, gone, trusted>>
        /\ DOMAIN log = {} /\ \A c \in Clients : op[c] = Idle
    BY <1>2, <2>1 DEF Ends, Whole, Buffer
  <2>4. ~InRefine /\ state = "running" /\ scan = <<>>
    BY <2>3 DEF InRefine, Base, NamesInv, StatesInv, NoSave, Saving
  <2>5. MemClaimed
    BY <2>3, <2>4 DEF ClaimsInv, ClaimsInMemory
  <2>6. ~InRefine'
    BY <1>2 DEF SaveEnd, InRefine, NoSave
  <2>7. Known' = Known /\ Reached' = Reached
    BY <2>3, KnownKept DEF SameEntries, SameHeads
  <2>8. BufferIds' = Len(mem.ver)
    BY <2>3 DEF BufferIds
  <2> QED
    BY <2>2, <2>3, <2>4, <2>5, <2>6, <2>7, <2>8 DEF CheckpointEnds
<1> QED
  BY <1>1, <1>2

\* The steps that change the log, or what is replayed of it.
LEMMA LogFrame ==
    ASSUME Base, [Next]_vars
    PROVE  \/ UNCHANGED <<log, size, scan>>
           \/ \E c \in Clients : AddLog(c) \/ DeleteLog(c)
           \/ ReplayAdd \/ ReplayDelete \/ RecoverIndex \/ ClearLog \/ Crash
<1>1. CASE \E c \in Clients : Updates(c)
  BY <1>1 DEF Updates, AddBatch, AddAppend, DeleteMark, durable
<1>2. CASE \E h \in HeadIds : SplitJob(h) \/ RefinePosting(h)
  BY <1>2 DEF SplitJob, RefinePosting
<1>3. CASE BuildIndex \/ BuildEnd \/ LoadIndex \/ RecoverEnd \/ SaveEnd \/ SaveIndex \/ Checkpoint \/ RefineFiles \/ Reload
  BY <1>3 DEF BuildIndex, BuildEnd, LoadIndex, RecoverEnd, SaveEnd, SaveIndex, Checkpoint, RefineFiles, Reload, durable
<1>4. CASE OpenFiles \/ SaveMetadata \/ SaveHeadIndex \/ SaveHeadFolder \/ SaveTranslateMap \/ SaveVersionMap
           \/ SaveMapping \/ SavePool \/ UNCHANGED vars
  BY <1>4 DEF OpenFiles, SaveMetadata, SaveHeadIndex, SaveHeadFolder, SaveTranslateMap, SaveVersionMap, SaveMapping, SavePool, vars
<1> QED
  BY <1>1, <1>2, <1>3, <1>4, NextCases DEF Starts

\* What a replayed record leaves to be replayed.
LEMMA TailRecs ==
    ASSUME Base, scan # <<>>, scan' = Tail(scan)
    PROVE  /\ Len(scan) \in Nat /\ Len(scan) >= 1 /\ Head(scan) = scan[1] /\ Head(scan).rec \in ScanRecs
           /\ DOMAIN scan = 1..Len(scan) /\ DOMAIN scan' = 1..(Len(scan) - 1)
           /\ \A i \in DOMAIN scan' : i + 1 \in DOMAIN scan /\ scan'[i] = scan[i + 1]
           /\ \A i \in DOMAIN scan : i # 1 => i - 1 \in DOMAIN scan' /\ scan'[i - 1] = scan[i]
           /\ \A r : r \in ScanRecs <=> r = Head(scan).rec \/ r \in ScanRecs'
           /\ Head(scan).rec \in Records /\ Head(scan).key \in Nat
<1>1. /\ Head(scan).key \in Nat /\ Head(scan).rec \in Records /\ Head(scan) = scan[1] /\ 1 \in DOMAIN scan
      /\ Len(scan) \in Nat /\ DOMAIN scan = 1..Len(scan) /\ DOMAIN scan' = 1..(Len(scan) - 1)
      /\ \A i \in DOMAIN scan' : i + 1 \in DOMAIN scan /\ scan'[i] = scan[i + 1]
  BY NextRecord DEF Base
<1>2. Len(scan) >= 1
  BY <1>1
<1>3. ASSUME NEW i \in DOMAIN scan, i # 1 PROVE i - 1 \in DOMAIN scan' /\ scan'[i - 1] = scan[i]
  <2>1. i \in Int /\ i - 1 \in 1..(Len(scan) - 1)
    BY <1>1, <1>3
  <2>2. scan'[i - 1] = scan[(i - 1) + 1] /\ (i - 1) + 1 = i
    BY <1>1, <2>1
  <2> QED
    BY <1>1, <2>1, <2>2
<1>4. \A i \in DOMAIN scan : i # 1 => i - 1 \in DOMAIN scan' /\ scan'[i - 1] = scan[i]
  BY <1>3
<1>5. \A r : r \in ScanRecs <=> r = Head(scan).rec \/ r \in ScanRecs'
  <2> TAKE r
  <2>1. ASSUME r \in ScanRecs, r # Head(scan).rec PROVE r \in ScanRecs'
    <3>1. PICK i \in DOMAIN scan : r = scan[i].rec
      BY <2>1 DEF ScanRecs
    <3>2. i - 1 \in DOMAIN scan' /\ scan'[i - 1] = scan[i]
      BY <1>1, <1>4, <2>1, <3>1
    <3> QED
      BY <3>1, <3>2 DEF ScanRecs
  <2>2. r \in ScanRecs' => r \in ScanRecs
    BY <1>1 DEF ScanRecs
  <2>3. Head(scan).rec \in ScanRecs
    BY <1>1 DEF ScanRecs
  <2> QED
    BY <2>1, <2>2, <2>3
<1> QED
  BY <1>1, <1>2, <1>4, <1>5

\* What a record that is logged adds.
LEMMA PutRecord ==
    ASSUME LogOK, NEW r, PutAssignment(r)
    PROVE  /\ \A x : x \in LogRecs' => x \in LogRecs \/ (setting.wal /\ x = r)
           /\ ~setting.wal => UNCHANGED <<log, size>>
           /\ setting.wal => /\ DOMAIN log' = DOMAIN log \cup {size} /\ size' = size + 1 /\ log'[size] = r
                             /\ \A k \in DOMAIN log : k # size => log'[k] = log[k]
<1>1. setting.wal => log' = [i \in DOMAIN log \cup {size} |-> IF i = size THEN r ELSE log[i]] /\ size' = size + 1
  BY DEF PutAssignment
<1>2. ~setting.wal => UNCHANGED <<log, size>>
  BY DEF PutAssignment
<1>3. setting.wal => /\ DOMAIN log' = DOMAIN log \cup {size} /\ size' = size + 1 /\ log'[size] = r
                     /\ \A k \in DOMAIN log : k # size => log'[k] = log[k]
  BY <1>1
<1>4. \A x : x \in LogRecs' => x \in LogRecs \/ (setting.wal /\ x = r)
  BY <1>2, <1>3 DEF LogRecs
<1> QED
  BY <1>2, <1>3, <1>4

\* Only updates bring new records.
LEMMA RecsFrame ==
    ASSUME Base, [Next]_vars, \A c \in Clients : ~AddLog(c) /\ ~DeleteLog(c)
    PROVE  \A r : r \in Recs' => r \in Recs
<1>0. RunOK /\ LogOK
  BY DEF Base, Types
<1>1. CASE UNCHANGED <<log, size, scan>>
  BY <1>1 DEF Recs, LogRecs, ScanRecs
<1>2. CASE ReplayAdd
  <2>1. scan # <<>> /\ scan' = Tail(scan)
        /\ log' = [i \in DOMAIN log \cup {Head(scan).key + 1} |-> IF i = Head(scan).key + 1 THEN Head(scan).rec ELSE log[i]]
    BY <1>2 DEF ReplayAdd
  <2>2. \A r : r \in LogRecs' => r \in LogRecs \/ r = Head(scan).rec
    BY <2>1 DEF LogRecs
  <2> QED
    BY <1>0, <2>1, <2>2, TailRecs DEF Recs
<1>3. CASE ReplayDelete
  <2>1. scan # <<>> /\ scan' = Tail(scan) /\ log' = log
    BY <1>3 DEF ReplayDelete, durable
  <2> QED
    BY <2>1, TailRecs DEF Recs, LogRecs
<1>4. CASE RecoverIndex
  <2>1. log' = log /\ (scan' = ScanOf(log) \/ scan' = <<>>)
    BY <1>4 DEF RecoverIndex, ScanOf, durable
  <2>2. \A i \in DOMAIN ScanOf(log) : ScanOf(log)[i].rec \in LogRecs
    BY <1>0, ScanReads DEF LogRecs
  <2>3. \A r : r \in ScanRecs' => r \in LogRecs
    BY <2>1, <2>2 DEF ScanRecs
  <2> QED
    BY <2>1, <2>3 DEF Recs, LogRecs
<1>5. CASE ClearLog
  <2>1. scan' = scan
    BY <1>5 DEF ClearLog
  <2>2. \A k \in DOMAIN log' : k \in DOMAIN log /\ log'[k] = log[k]
    BY <1>5 DEF ClearLog, ClearPreviousRecord
  <2> QED
    BY <2>1, <2>2 DEF Recs, LogRecs, ScanRecs
<1>6. CASE Crash
  <2>1. log' = log /\ scan' = <<>>
    BY <1>6 DEF Crash, durable
  <2> QED
    BY <2>1 DEF Recs, LogRecs, ScanRecs
<1> QED
  BY <1>1, <1>2, <1>3, <1>4, <1>5, <1>6, LogFrame

\* An addition is logged under an id the checkpoint does not know.
LEMMA AddRecordOK ==
    ASSUME Base, SavesInv, SinceCheckpoint, Buffer.sound, NEW c \in Clients, Adds(c)
    PROVE  RecordOK([kind |-> "add", id |-> op[c].id, vec |-> op[c].vec])
<1>1. Fresh(op[c].vec) /\ "buffer" \in Dirs
  BY FreshNames DEF Dirs
<1>2. state # "down"
  BY DEF Adds, Idle, Base, NamesInv, StatesInv
<1>3. op[c].id >= BufferIds
  BY <1>2 DEF SinceCheckpoint
<1> QED
  BY <1>1, <1>3 DEF RecordOK, AddOf, Fresh, Buffer

\* A deletion is logged under the id of its vector's entry.
LEMMA DeleteRecordOK ==
    ASSUME SinceCheckpoint, Buffer.sound, NEW e \in Known, e[2] \in sure, state # "down", ~InRefine
    PROVE  RecordOK([kind |-> "delete", id |-> e[1], vec |-> e[2]])
<1>1. Agree(e)
  BY DEF SinceCheckpoint
<1> QED
  BY <1>1 DEF RecordOK, AddOf, Agree

LEMMA RecordsInvNext ==
    ASSUME Base, SavesInv, ClaimsInv, LogInv, [Next]_vars
    PROVE  RecordsInv'
<1> SUFFICES ASSUME Buffer'.sound, NEW r, r \in Recs' PROVE RecordOK(r)'
  BY DEF RecordsInv
<1>0. LogOK
  BY DEF Base, Types
<1>1. CASE CheckpointEnds
  BY <1>1 DEF CheckpointEnds, Recs, LogRecs, ScanRecs
<1>2. CASE CheckpointStays
  <2>1. Buffer.sound /\ (RecordOK(r) => RecordOK(r)')
    BY <1>2 DEF CheckpointStays, RecordOK
  <2>2. \A x \in Recs : RecordOK(x)
    BY <2>1 DEF LogInv, RecordsInv
  <2>3. CASE r \in Recs
    BY <2>1, <2>2, <2>3
  <2>4. ASSUME NEW c \in Clients, AddLog(c) PROVE RecordOK(r)'
    <3>1. LoggedAs(c) /\ Adds(c)
      BY <2>4, AddLogEffect DEF LoggedAs, Adds
    <3>2. r \in Recs \/ r = [kind |-> "add", id |-> op[c].id, vec |-> op[c].vec]
      BY <1>0, <3>1, PutRecord DEF LoggedAs, Recs, ScanRecs
    <3>3. RecordOK([kind |-> "add", id |-> op[c].id, vec |-> op[c].vec])
      BY <2>1, <3>1, AddRecordOK DEF LogInv
    <3> QED
      BY <2>1, <2>3, <3>2, <3>3
  <2>5. ASSUME NEW c \in Clients, DeleteLog(c) PROVE RecordOK(r)'
    <3>1. PICK e \in Answers(mem) : DeletedAs(c, e)
      BY <2>5, DeleteLogEffect
    <3>2. r \in Recs \/ r = [kind |-> "delete", id |-> e[1], vec |-> e[2]]
      BY <1>0, <3>1, PutRecord DEF DeletedAs, Recs, ScanRecs
    <3>3. e \in Known /\ e[2] \in sure /\ state # "down" /\ ~InRefine
      BY <3>1 DEF DeletedAs, InRefine
    <3>4. RecordOK([kind |-> "delete", id |-> e[1], vec |-> e[2]])
      BY <2>1, <3>3, DeleteRecordOK DEF LogInv
    <3> QED
      BY <2>1, <2>3, <3>2, <3>4
  <2> QED
    BY <2>3, <2>4, <2>5, RecsFrame
<1> QED
  BY <1>1, <1>2, BufferFrame

\* What a replayed addition does, and a replayed deletion.
ReplayFrame(r, K) ==
    /\ state = "replay" /\ state' = "replay" /\ r \in Records /\ K \in Nat /\ scan # <<>> /\ Head(scan).rec = r /\ Head(scan).key = K
    /\ scan' = Tail(scan) /\ r \in ScanRecs /\ UNCHANGED <<setting, sure, gone, disk, op, trusted>>
    /\ Buffer'.sound = Buffer.sound /\ (\A c \in Clients : op[c] = Idle) /\ r.id \in Nat
    /\ mem.ver \in Versions /\ mem'.ver \in Versions /\ Len(mem.ver) \in Nat /\ Len(mem'.ver) \in Nat

ReplayedAddAs(r, K) ==
    /\ ReplayFrame(r, K) /\ AddOf(r)
    /\ log' = [i \in DOMAIN log \cup {K + 1} |-> IF i = K + 1 THEN r ELSE log[i]]
    /\ size' = K + 2
    /\ \A x : x \in Known' => x \in Known \/ x = <<r.id, r.vec>>
    /\ \A x : x \in Reached \/ x = <<r.id, r.vec>> => x \in Reached'
    /\ Grows(mem'.ver, mem.ver) /\ r.id < Len(mem'.ver)
    /\ promise' = promise

ReplayedDeleteAs(r, K) ==
    /\ ReplayFrame(r, K) /\ ~AddOf(r)
    /\ log' = log /\ size' = K + 1
    /\ Known' = Known /\ Reached' = Reached
    /\ mem'.ver = mem.ver \/ Marks(mem'.ver, mem.ver, r.id)
    /\ r.id < Len(mem.ver) => Marks(mem'.ver, mem.ver, r.id)
    /\ ~Buffer'.logged

LEMMA ReplayAddEffect ==
    ASSUME Base, Base', MemBlocks, ReplayAdd
    PROVE  ReplayedAddAs(Head(scan).rec, Head(scan).key)
<1> DEFINE r == Head(scan).rec
           K == Head(scan).key
<1>0. /\ state = "replay" /\ scan # <<>> /\ r.kind = "add" /\ scan' = Tail(scan)
      /\ UNCHANGED <<setting, state, disk, op, saver, sure, gone, trusted, promise>>
      /\ log' = [i \in DOMAIN log \cup {K + 1} |-> IF i = K + 1 THEN r ELSE log[i]] /\ size' = K + 2
  BY DEF ReplayAdd, history
<1>1. r \in Records /\ K \in Nat /\ r \in ScanRecs /\ r.id \in Nat
  <2>1. r \in Records /\ K \in Nat /\ r \in ScanRecs
    BY <1>0, TailRecs
  <2> QED
    BY <2>1, LifecycleBounds DEF Records, Ids
<1>2. /\ \A x : x \in Known' => x \in Known \/ x = <<r.id, r.vec>>
      /\ \A x : x \in Reached \/ x = <<r.id, r.vec>> => x \in Reached'
  BY ReplayEntries
<1>3. \A c \in Clients : op[c] = Idle
  BY <1>0 DEF Base, NamesInv, StatesInv
<1>4. /\ mem.ver \in Versions /\ mem'.ver \in Versions /\ Len(mem.ver) \in Nat /\ Len(mem'.ver) \in Nat
  BY DEF Base, Types, MemOK, Memories, Versions
<1>5. Grows(mem'.ver, mem.ver) /\ r.id < Len(mem'.ver)
  <2>1. PICK h \in HeadIds, b \in Blocks, V \in Versions : ReplayAs(h, b, V)
    BY ReplayEffect
  <2>2. mem'.ver = V
    <3>1. PutAs(mem', [mem EXCEPT !.ver = V], h, b) /\ mem \in Memories
      BY <2>1 DEF ReplayAs, Base, Types, MemOK
    <3> QED
      BY <3>1 DEF PutAs, Memories
  <2>3. /\ r.id < Len(mem.ver) => V = mem.ver
        /\ ~(r.id < Len(mem.ver)) => /\ Len(V) = r.id + 1
                                     /\ \A i \in 1..(r.id + 1) : V[i] = IF i <= Len(mem.ver) THEN mem.ver[i] ELSE "live"
    BY <2>1 DEF ReplayAs
  <2> QED
    BY <1>1, <1>4, <2>2, <2>3 DEF Grows
<1> HIDE DEF r, K
<1> QED
  BY <1>0, <1>1, <1>2, <1>3, <1>4, <1>5 DEF ReplayedAddAs, ReplayFrame, AddOf, Buffer, r, K

LEMMA ReplayDeleteEffect ==
    ASSUME Base, Base', ReplayDelete
    PROVE  ReplayedDeleteAs(Head(scan).rec, Head(scan).key)
<1> DEFINE r == Head(scan).rec
           K == Head(scan).key
<1>0. /\ state = "replay" /\ scan # <<>> /\ r.kind = "delete" /\ scan' = Tail(scan)
      /\ UNCHANGED <<setting, state, blocks, jobs, disk, log, op, saver, sure, gone, trusted>> /\ size' = K + 1
      /\ mem' = [mem EXCEPT !.ver = IF r.id < Len(@) THEN [@ EXCEPT ![r.id + 1] = "deleted"] ELSE @]
      /\ promise' = [promise EXCEPT !["buffer"].logged = FALSE]
  BY DEF ReplayDelete, durable
<1>1. r \in Records /\ K \in Nat /\ r \in ScanRecs /\ r.id \in Nat
  <2>1. r \in Records /\ K \in Nat /\ r \in ScanRecs
    BY <1>0, TailRecs
  <2> QED
    BY <2>1, LifecycleBounds DEF Records, Ids
<1>2. Buffer'.sound = Buffer.sound /\ ~Buffer'.logged
  <2>1. promise \in [Dirs -> Promises] /\ "buffer" \in Dirs
    BY DEF Base, Types, HistoryOK, Dirs
  <2> QED
    BY <1>0, <2>1 DEF Buffer, Promises
<1>3. \A c \in Clients : op[c] = Idle
  BY <1>0 DEF Base, NamesInv, StatesInv
<1>4. mem \in Memories /\ mem.ver \in Versions /\ mem'.ver \in Versions /\ Len(mem.ver) \in Nat /\ Len(mem'.ver) \in Nat
  BY DEF Base, Types, MemOK, Memories, Versions
<1>5. /\ mem'.heads = mem.heads /\ mem'.vec = mem.vec /\ mem'.trans = mem.trans /\ mem'.map = mem.map
      /\ mem'.ver = IF r.id < Len(mem.ver) THEN [mem.ver EXCEPT ![r.id + 1] = "deleted"] ELSE mem.ver
  BY <1>0, <1>4 DEF Memories
<1>6. Known' = Known /\ Reached' = Reached
  BY <1>0, <1>5, KnownKept DEF SameEntries, SameHeads
<1>7. r.id < Len(mem.ver) => Marks(mem'.ver, mem.ver, r.id)
  BY <1>1, <1>4, <1>5 DEF Marks, Versions
<1> HIDE DEF r, K
<1> QED
  BY <1>0, <1>1, <1>2, <1>3, <1>4, <1>5, <1>6, <1>7 DEF ReplayedDeleteAs, ReplayFrame, AddOf, r, K

-----------------------------------------------------------------------------

(***************************************************************************)
(* Since the checkpoint: ids and entries                                   *)
(***************************************************************************)

OpsKept ==
    \A c \in Clients : \/ op'[c] = op[c] \/ op'[c] = Idle
                       \/ op[c] # Idle /\ op'[c].id = op[c].id /\ (Adds(c)' => Adds(c))
                          /\ (InRefine' \/ op'[c].renumbered = op[c].renumbered)
EntriesAgree ==
    ~InRefine' => /\ ~InRefine /\ Len(mem'.ver) >= Len(mem.ver)
                  /\ \A e \in Known' : e[2] \in sure' => (e \in Known /\ e[2] \in sure) \/ Agree(e)

LEMMA SinceKept ==
    ASSUME Base, Base', SavesInv, SinceCheckpoint, CheckpointStays, state # "down", OpsKept, EntriesAgree
    PROVE  SinceCheckpoint'
<1>0. /\ BufferIds' = BufferIds /\ Buffer.sound /\ (\A e : Agree(e) => Agree(e)')
  BY DEF CheckpointStays, Agree
<1>1. \A c \in Clients : Adds(c) => op[c].id >= BufferIds
  BY <1>0 DEF SinceCheckpoint
<1>2. \A c, d \in Clients : c # d /\ op[c] # Idle /\ op[d] # Idle => op[c].id # op[d].id
  BY <1>0 DEF SinceCheckpoint
<1>3. ~Idle.renumbered /\ Idle.kind = "idle"
  BY DEF Idle
<1>4. \A c \in Clients : Adds(c)' => op'[c].id >= BufferIds
  BY <1>1, <1>3 DEF OpsKept, Adds
<1>5. \A c \in Clients : op'[c] # Idle => op[c] # Idle /\ op'[c].id = op[c].id
  BY DEF OpsKept
<1>6. \A c, d \in Clients : c # d /\ op'[c] # Idle /\ op'[d] # Idle => op'[c].id # op'[d].id
  BY <1>2, <1>5
<1>7. ASSUME ~InRefine' PROVE Len(mem'.ver) >= BufferIds /\ (\A e \in Known' : e[2] \in sure' => Agree(e)')
                              /\ \A c \in Clients : ~op'[c].renumbered
  <2>1. /\ Len(mem.ver) >= BufferIds /\ Len(mem'.ver) >= Len(mem.ver) /\ (\A e \in Known : e[2] \in sure => Agree(e))
        /\ \A c \in Clients : ~op[c].renumbered
    BY <1>0, <1>7 DEF SinceCheckpoint, EntriesAgree
  <2>2. BufferIds \in Nat /\ Len(mem.ver) \in Nat /\ Len(mem'.ver) \in Nat
    <3>1. Len(mem.ver) \in Nat /\ Len(mem'.ver) \in Nat
      BY DEF Base, Types, MemOK, Memories, Versions
    <3>2. disk["buffer"].ver \in Versions
      BY <1>0 DEF SavesInv, BlocksInv, DirBlocks, Buffer, Base, Types, DiskOK, Directories, Dirs, File
    <3> QED
      BY <3>1, <3>2 DEF BufferIds, Versions
  <2>3. Len(mem'.ver) >= BufferIds
    BY <2>1, <2>2
  <2>4. \A e \in Known' : e[2] \in sure' => Agree(e)'
    BY <1>0, <1>7, <2>1 DEF EntriesAgree
  <2>5. \A c \in Clients : ~op'[c].renumbered
    BY <1>3, <1>7, <2>1 DEF OpsKept
  <2> QED
    BY <2>3, <2>4, <2>5
<1> QED
  BY <1>0, <1>4, <1>6, <1>7 DEF SinceCheckpoint

\* An id that the checkpoint does not know agrees with it.
LEMMA NewAgrees ==
    ASSUME Base, SavesInv, ClaimsSaved, Buffer.sound, NEW e, e[1] >= BufferIds, e[1] \in Nat, \A s \in SavedIn("buffer") : s[2] # e[2]
    PROVE  Agree(e)
<1>1. disk["buffer"].ver \in Versions
  BY DEF SavesInv, BlocksInv, DirBlocks, Buffer, Base, Types, DiskOK, Directories, Dirs, File
<1>2. Len(disk["buffer"].ver) \in Nat
  BY <1>1 DEF Versions
<1>3. \A s \in SavedIn("buffer") : s[2] \in Buffer.sure => Live(disk["buffer"].ver, s[1])
  BY DEF ClaimsSaved, Claims, Buffer, Dirs
<1>4. \A s \in SavedIn("buffer") : s[2] \in Buffer.sure => s[1] # e[1]
  BY <1>2, <1>3 DEF Live, BufferIds
<1> QED
  BY <1>4 DEF Agree

\* A checkpoint that ends says what is in memory.
LEMMA SinceEnds ==
    ASSUME CheckpointEnds, Base
    PROVE  SinceCheckpoint'
<1>0. Len(mem.ver) \in Nat /\ ~Idle.renumbered /\ Idle.kind = "idle"
  BY DEF Base, Types, MemOK, Memories, Versions, Idle
<1>1. /\ \A c \in Clients : op'[c] = Idle
      /\ mem' = mem /\ sure' = sure
  BY DEF CheckpointEnds
<1>3. \A c \in Clients : ~Adds(c)' /\ ~op'[c].renumbered
  BY <1>0, <1>1 DEF Adds
<1>2. ASSUME NEW e \in Known', e[2] \in sure' PROVE Agree(e)'
  <2>1. e \in Known /\ e[2] \in sure /\ SavedIn("buffer")' = Known /\ Buffer'.sure = sure
    BY <1>1, <1>2 DEF CheckpointEnds
  <2>2. \A x, y \in Known : x[2] \in sure /\ y[2] \in sure => (x[1] = y[1] <=> x[2] = y[2])
    BY DEF CheckpointEnds, MemClaimed, Claims
  <2> QED
    BY <2>1, <2>2 DEF Agree
<1> QED
  BY <1>0, <1>1, <1>3, <1>2 DEF SinceCheckpoint, CheckpointEnds

\* A recovery from a sound checkpoint.
RecoveredAs ==
    /\ state = "down" /\ state' = "replay" /\ saver' = NoSave
    /\ UNCHANGED <<setting, log, size, disk>> /\ \A c \in Clients : op[c] = Idle /\ op'[c] = Idle
    /\ scan' = IF setting.wal THEN ScanOf(log) ELSE <<>>
    /\ mem'.ver = disk["buffer"].ver /\ mem'.ver \in Versions /\ Known' = SavedIn("buffer") /\ Reached' = SavedIn("buffer")
    /\ Buffer'.sound = Buffer.sound /\ trusted' /\ Buffer'.logged = (Buffer.logged /\ LogInOrder)
    /\ \/ Buffer.logged /\ LogInOrder /\ sure' = sure /\ gone' = gone
       \/ /\ ~(Buffer.logged /\ LogInOrder) /\ gone' = Buffer.gone
          /\ sure' = Buffer.sure \ {r.vec : r \in {x \in LogRecs : ~AddOf(x)}}

LEMMA RecoverEffect ==
    ASSUME Base, SavesInv, Buffer.sound, RecoverIndex
    PROVE  RecoveredAs
<1>0. promise \in [Dirs -> Promises] /\ "buffer" \in Dirs /\ "index" \in Dirs /\ LogOK /\ Types
  BY DEF Base, Types, HistoryOK, Dirs
<1>1. DirBlocks("buffer")
  BY <1>0 DEF SavesInv, BlocksInv, Buffer
<1>2. /\ state = "down" /\ state' = "replay" /\ mem' = LoadedFrom("buffer") /\ disk["index"].trans # None
      /\ UNCHANGED <<setting, log, size, disk, blocks, jobs, op, saver>>
      /\ scan' = (IF setting.wal THEN ScanOf(log) ELSE <<>>)
      /\ trusted' = Buffer.sound
      /\ promise' = [promise EXCEPT !["index"] = Void, !["buffer"].logged = @ /\ LogInOrder]
  BY DEF RecoverIndex, ScanOf, durable, Buffer
<1>3. (\A c \in Clients : op[c] = Idle /\ op'[c] = Idle) /\ saver' = NoSave /\ jobs = {}
  BY <1>2 DEF Base, NamesInv, StatesInv
<1>4. mem'.ver = disk["buffer"].ver /\ mem'.ver \in Versions
  <2>1. LoadedFrom("buffer") \in Memories /\ LoadedFrom("buffer").ver = disk["buffer"].ver
    BY <1>0, <1>1, <1>2, LoadedType DEF DirBlocks
  <2> QED
    BY <1>2, <2>1 DEF Memories
<1>5. (\A x : x \in Known' <=> x \in SavedIn("buffer")) /\ \A x : x \in Reached' <=> x \in SavedIn("buffer")
  BY <1>0, <1>2, <1>3, LoadEntries
<1>6. Known' = SavedIn("buffer") /\ Reached' = SavedIn("buffer")
  BY <1>5
<1>7. promise["buffer"] \in Promises /\ promise'["buffer"] = [promise["buffer"] EXCEPT !.logged = @ /\ LogInOrder]
  BY <1>0, <1>2
<1>8. Buffer'.sound = Buffer.sound /\ Buffer'.logged = (Buffer.logged /\ LogInOrder)
  BY <1>7 DEF Promises, Buffer
<1>9. {r.vec : r \in {x \in LogRecs : ~AddOf(x)}} = {log[i].vec : i \in {k \in DOMAIN log : log[k].kind = "delete"}}
  <2>1. \A k \in DOMAIN log : log[k] \in Records /\ (AddOf(log[k]) <=> log[k].kind # "delete")
    BY <1>0 DEF LogOK, Records, AddOf
  <2> QED
    BY <2>1 DEF LogRecs
<1>10. \/ Buffer.logged /\ LogInOrder /\ sure' = sure /\ gone' = gone
       \/ /\ ~(Buffer.logged /\ LogInOrder) /\ gone' = Buffer.gone
          /\ sure' = Buffer.sure \ {r.vec : r \in {x \in LogRecs : ~AddOf(x)}}
  BY <1>9 DEF RecoverIndex, Buffer
<1> QED
  BY <1>2, <1>3, <1>4, <1>6, <1>8, <1>10 DEF RecoveredAs

\* What the checkpoint holds of the vectors a recovery promises, it promised.
LEMMA RecoverSure ==
    ASSUME RecordsInv, CompleteInv, Buffer.sound, RecoveredAs
    PROVE  \A e \in SavedIn("buffer") : e[2] \in sure' => e[2] \in Buffer.sure
<1> SUFFICES ASSUME NEW e \in SavedIn("buffer"), e[2] \in sure' PROVE e[2] \in Buffer.sure
  OBVIOUS
<1>1. CASE Buffer.logged /\ sure' = sure
  <2>1. SureLogged
    BY <1>1 DEF RecoveredAs, CompleteInv, Complete
  <2>2. \A r \in LogRecs : AddOf(r) => r.vec # e[2]
    BY DEF RecordsInv, Recs, RecordOK
  <2> QED
    BY <1>1, <2>1, <2>2 DEF SureLogged
<1>2. CASE sure' = Buffer.sure \ {r.vec : r \in {x \in LogRecs : ~AddOf(x)}}
  BY <1>2
<1> QED
  BY <1>1, <1>2 DEF RecoveredAs

LEMMA SinceRecovered ==
    ASSUME Base, SavesInv, ClaimsSaved, RecordsInv, CompleteInv, CheckpointStays, RecoverIndex
    PROVE  SinceCheckpoint'
<1>0. Buffer.sound /\ "buffer" \in Dirs
  BY DEF CheckpointStays, Dirs
<1>1. RecoveredAs
  BY <1>0, RecoverEffect
<1>2. \A e \in SavedIn("buffer") : e[2] \in sure' => e[2] \in Buffer.sure
  BY <1>0, <1>1, RecoverSure
<1>3. \A x, y \in SavedIn("buffer") : x[2] \in Buffer.sure /\ y[2] \in Buffer.sure => (x[1] = y[1] <=> x[2] = y[2])
  BY <1>0 DEF ClaimsSaved, Claims, Buffer
<1>4. ASSUME NEW e \in Known', e[2] \in sure' PROVE Agree(e)'
  <2>1. e \in SavedIn("buffer")
    BY <1>1, <1>4 DEF RecoveredAs
  <2>2. Agree(e)
    BY <1>2, <1>3, <1>4, <2>1 DEF Agree
  <2> QED
    BY <2>2 DEF Agree, CheckpointStays
<1>5. \A c \in Clients : op'[c] = Idle /\ ~Adds(c)' /\ ~op'[c].renumbered
  <2>1. ~Idle.renumbered /\ Idle.kind = "idle"
    BY DEF Idle
  <2>2. \A c \in Clients : op'[c] = Idle
    BY <1>1 DEF RecoveredAs
  <2> QED
    BY <2>1, <2>2 DEF Adds
<1>6. Len(mem'.ver) \in Nat /\ BufferIds' = Len(mem'.ver)
  BY <1>1 DEF RecoveredAs, CheckpointStays, BufferIds, Versions
<1> QED
  BY <1>4, <1>5, <1>6 DEF SinceCheckpoint

\* The parts of SinceCheckpoint outside a compaction, at a sound checkpoint.
LEMMA SinceRuns ==
    ASSUME Base, SavesInv, ClaimsInv, SinceCheckpoint, Buffer.sound, state = "running", ~InRefine
    PROVE  /\ MemClaimed /\ trusted
           /\ \A c \in Clients : Adds(c) => op[c].id >= BufferIds
           /\ \A c, d \in Clients : c # d /\ op[c] # Idle /\ op[d] # Idle => op[c].id # op[d].id
           /\ Len(mem.ver) >= BufferIds /\ BufferIds \in Nat /\ Len(mem.ver) \in Nat
           /\ \A e \in Known : e[2] \in sure => Agree(e)
           /\ \A c \in Clients : op[c] # Idle => Pending(c) /\ op[c].id \in Nat /\ op[c].id < Len(mem.ver)
<1>0. "buffer" \in Dirs
  BY DEF Dirs
<1>1. trusted
  BY <1>0 DEF SavesInv, BlocksInv, Buffer
<1>2. MemClaimed
  BY <1>1 DEF ClaimsInv, ClaimsInMemory
<1>3. /\ \A c \in Clients : Adds(c) => op[c].id >= BufferIds
      /\ \A c, d \in Clients : c # d /\ op[c] # Idle /\ op[d] # Idle => op[c].id # op[d].id
      /\ Len(mem.ver) >= BufferIds
      /\ \A e \in Known : e[2] \in sure => Agree(e)
      /\ \A c \in Clients : ~op[c].renumbered
  BY DEF SinceCheckpoint
<1>4. disk["buffer"].ver \in Versions /\ mem.ver \in Versions
  BY DEF SavesInv, BlocksInv, DirBlocks, Buffer, Base, Types, DiskOK, Directories, Dirs, File, MemOK, Memories
<1>5. BufferIds \in Nat /\ Len(mem.ver) \in Nat
  BY <1>4 DEF BufferIds, Versions
<1>6. ASSUME NEW c \in Clients, op[c] # Idle PROVE Pending(c) /\ op[c].id \in Nat /\ op[c].id < Len(mem.ver)
  <2>1. Pending(c)
    BY <1>3, <1>6 DEF Pending
  <2>2. OpClaimed(c)
    BY <1>2, <2>1 DEF MemClaimed
  <2>3. op[c].kind \in {"log", "append", "delete"} /\ op[c].id \in Nat
    BY <1>6, LifecycleBounds DEF Base, Types, OpsOK, Operations, Ids
  <2>4. CASE Adds(c)
    BY <1>5, <2>2, <2>3, <2>4, <2>1 DEF OpClaimed, Live
  <2>5. CASE op[c].kind = "delete"
    BY <2>1, <2>2, <2>3, <2>5 DEF OpClaimed
  <2> QED
    BY <2>3, <2>4, <2>5 DEF Adds
<1> QED
  BY <1>1, <1>2, <1>3, <1>5, <1>6

LEMMA SinceAddBatch ==
    ASSUME Base, Base', SavesInv, ClaimsInv, SinceCheckpoint, CheckpointStays, NEW c \in Clients, AddBatch(c)
    PROVE  SinceCheckpoint'
<1>1. BatchAs(c)
  BY AddBatchEffect
<1>2. ~InRefine /\ state = "running" /\ Buffer.sound /\ BufferIds' = BufferIds /\ op \in [Clients -> Operations]
  BY <1>1 DEF BatchAs, InRefine, AddBatch, CheckpointStays, Base, Types, OpsOK
<1>3. /\ \A d \in Clients : Adds(d) => op[d].id >= BufferIds
      /\ \A d, e \in Clients : d # e /\ op[d] # Idle /\ op[e] # Idle => op[d].id # op[e].id
      /\ Len(mem.ver) >= BufferIds /\ BufferIds \in Nat /\ Len(mem.ver) \in Nat
      /\ \A e \in Known : e[2] \in sure => Agree(e)
      /\ \A d \in Clients : op[d] # Idle => Pending(d) /\ op[d].id \in Nat /\ op[d].id < Len(mem.ver)
  BY <1>2, SinceRuns
<1>4. /\ op'[c].id = Len(mem.ver) /\ ~op'[c].renumbered /\ \A d \in Clients : d # c => op'[d] = op[d]
      /\ Len(mem'.ver) = Len(mem.ver) + 1 /\ Known' = Known /\ sure' = sure
  BY <1>1, <1>2 DEF BatchAs
<1>5. \A e \in Known' : e[2] \in sure' => Agree(e)'
  BY <1>3, <1>4 DEF Agree, CheckpointStays
<1>6. \A d \in Clients : Adds(d)' => op'[d].id >= BufferIds
  BY <1>3, <1>4 DEF Adds
<1>7. \A d, e \in Clients : d # e /\ op'[d] # Idle /\ op'[e] # Idle => op'[d].id # op'[e].id
  BY <1>3, <1>4
<1>8. \A d \in Clients : ~op'[d].renumbered
  <2>1. ~Idle.renumbered
    BY DEF Idle
  <2> QED
    BY <1>3, <1>4, <2>1 DEF Pending
<1>9. Len(mem'.ver) >= BufferIds
  BY <1>3, <1>4
<1> QED
  BY <1>2, <1>5, <1>6, <1>7, <1>8, <1>9 DEF SinceCheckpoint

LEMMA SinceDeleteLog ==
    ASSUME Base, Base', SavesInv, ClaimsInv, SinceCheckpoint, CheckpointStays, NEW c \in Clients, DeleteLog(c)
    PROVE  SinceCheckpoint'
<1>1. PICK x \in Answers(mem) : DeletedAs(c, x)
  BY DeleteLogEffect
<1>2. ~InRefine /\ state = "running" /\ Buffer.sound /\ BufferIds' = BufferIds /\ op \in [Clients -> Operations]
  BY <1>1 DEF DeletedAs, InRefine, CheckpointStays, Base, Types, OpsOK
<1>3. /\ MemClaimed
      /\ \A d \in Clients : Adds(d) => op[d].id >= BufferIds
      /\ \A d, e \in Clients : d # e /\ op[d] # Idle /\ op[e] # Idle => op[d].id # op[e].id
      /\ Len(mem.ver) >= BufferIds
      /\ \A e \in Known : e[2] \in sure => Agree(e)
      /\ \A d \in Clients : op[d] # Idle => Pending(d)
  BY <1>2, SinceRuns
<1>4. /\ op'[c].kind = "delete" /\ op'[c].id = x[1] /\ ~op'[c].renumbered /\ \A d \in Clients : d # c => op'[d] = op[d]
      /\ mem' = mem /\ Known' = Known /\ sure' \subseteq sure
  BY <1>1, <1>2 DEF DeletedAs
<1>5. \A e \in Known' : e[2] \in sure' => Agree(e)'
  BY <1>3, <1>4 DEF Agree, CheckpointStays
<1>6. \A d \in Clients : Adds(d)' => op'[d].id >= BufferIds
  BY <1>3, <1>4 DEF Adds
<1>7. \A d \in Clients : op[d] # Idle => op[d].id # x[1]
  BY <1>1, <1>3, OthersIds DEF DeletedAs
<1>8. \A d, e \in Clients : d # e /\ op'[d] # Idle /\ op'[e] # Idle => op'[d].id # op'[e].id
  BY <1>3, <1>4, <1>7
<1>9. \A d \in Clients : ~op'[d].renumbered
  <2>1. ~Idle.renumbered
    BY DEF Idle
  <2> QED
    BY <1>3, <1>4, <2>1 DEF Pending
<1> QED
  BY <1>2, <1>3, <1>4, <1>5, <1>6, <1>8, <1>9 DEF SinceCheckpoint

LEMMA SinceUpdates ==
    ASSUME Base, Base', SavesInv, ClaimsInv, SinceCheckpoint, CheckpointStays, NEW c \in Clients, Updates(c)
    PROVE  SinceCheckpoint'
<1>0. /\ (InRefine' <=> InRefine) /\ op \in [Clients -> Operations] /\ state # "down" /\ Buffer.sound
  <2>1. SaverOK /\ op \in [Clients -> Operations]
    BY DEF Base, Types, OpsOK
  <2>2. state = "running"
    BY ClientsRun DEF Base, Updates, AddBatch, AddLog, AddAppend, DeleteLog, DeleteMark
  <2> QED
    BY <2>1, <2>2, UpdateFrame DEF Updates, CheckpointStays
<1>1. CASE AddLog(c)
  <2>1. LoggedAs(c)
    BY <1>1, AddLogEffect
  <2>2. OpsKept
    <3>1. op[c] # Idle /\ Adds(c)
      BY <2>1 DEF LoggedAs, Idle, Adds
    <3> QED
      BY <2>1, <3>1 DEF LoggedAs, OpsKept
  <2>3. EntriesAgree
    <3>1. Len(mem.ver) \in Nat
      BY DEF Base, Types, MemOK, Memories, Versions
    <3> QED
      BY <1>0, <2>1, <3>1 DEF LoggedAs, EntriesAgree
  <2> QED
    BY <1>0, <2>2, <2>3, SinceKept
<1>2. CASE AddAppend(c)
  <2>0. trusted /\ MemBlocks /\ Fresh(op[c].vec) /\ Adds(c)
    <3>1. Adds(c)
      BY <1>2 DEF AddAppend, Adds
    <3>2. "buffer" \in Dirs
      BY DEF Dirs
    <3> QED
      BY <1>0, <3>1, <3>2, FreshNames DEF SavesInv, BlocksInv, Buffer
  <2>1. AppendedAs(c)
    BY <1>2, <2>0, AddAppendEffect
  <2>2. OpsKept
    BY <1>0, <2>1 DEF AppendedAs, OpsKept
  <2>3. Agree(<<op[c].id, op[c].vec>>)
    <3>1. op[c].id >= BufferIds /\ op[c].id \in Nat
      BY <1>0, <2>0, LifecycleBounds DEF SinceCheckpoint, Base, Types, OpsOK, Ids, Adds, Idle
    <3>2. \A s \in SavedIn("buffer") : s[2] # op[c].vec
      BY <1>0, <2>0 DEF Fresh, Dirs, Buffer
    <3>3. ClaimsSaved
      BY DEF ClaimsInv
    <3> DEFINE y == <<op[c].id, op[c].vec>>
    <3>4. y[1] = op[c].id /\ y[2] = op[c].vec
      OBVIOUS
    <3> HIDE DEF y
    <3>5. Agree(y)
      BY <1>0, <3>1, <3>2, <3>3, <3>4, NewAgrees
    <3> QED
      BY <3>5 DEF y
  <2>4. EntriesAgree
    <3>1. Len(mem.ver) \in Nat /\ mem'.ver = mem.ver
      BY <2>1 DEF AppendedAs, Base, Types, MemOK, Memories, Versions
    <3>2. ASSUME NEW e \in Known', e[2] \in sure' PROVE (e \in Known /\ e[2] \in sure) \/ Agree(e)
      <4>1. e \in Known \/ e = <<op[c].id, op[c].vec>>
        BY <2>1, <3>2 DEF AppendedAs
      <4>2. e \in Known => e[2] \in sure
        BY <2>0, <2>1, <3>2 DEF AppendedAs, Fresh
      <4> QED
        BY <2>3, <4>1, <4>2
    <3> QED
      BY <1>0, <3>1, <3>2 DEF EntriesAgree
  <2> QED
    BY <1>0, <2>2, <2>4, SinceKept
<1>3. CASE DeleteMark(c)
  <2>1. MarkedAs(c)
    BY <1>3, DeleteMarkEffect
  <2>2. OpsKept
    BY <1>0, <2>1 DEF MarkedAs, OpsKept
  <2>3. EntriesAgree
    <3>1. Len(mem.ver) \in Nat /\ Len(mem'.ver) = Len(mem.ver)
      BY <2>1 DEF MarkedAs, Marks, Versions
    <3> QED
      BY <1>0, <2>1, <3>1 DEF MarkedAs, EntriesAgree
  <2> QED
    BY <1>0, <2>2, <2>3, SinceKept
<1> QED
  BY <1>1, <1>2, <1>3, SinceAddBatch, SinceDeleteLog DEF Updates

\* Every step of a save but the load of a compaction, and every split, keeps
\* the ids and what agrees.
LEMMA SinceSaves ==
    ASSUME Base, Base', SavesInv, SinceCheckpoint, CheckpointStays, state # "down", [Next]_vars, ~Reload, ~Crash,
           SaverStep \/ \E h \in HeadIds : SplitJob(h) \/ RefinePosting(h)
    PROVE  SinceCheckpoint'
<1>0. Len(mem.ver) \in Nat /\ trusted /\ op \in [Clients -> Operations]
  <2>1. "buffer" \in Dirs /\ mem.ver \in Versions
    BY DEF Dirs, Base, Types, MemOK, Memories
  <2> QED
    BY <2>1 DEF CheckpointStays, Buffer, SavesInv, BlocksInv, Versions, Base, Types, OpsOK
<1>1. InRefine => InRefine'
  BY InRefineFrame
<1>2. CASE SaverStep
  <2>1. /\ SameNumbers /\ UNCHANGED sure /\ Known' = Known /\ (RefineFiles \/ UNCHANGED op)
    BY <1>2, SaverStepKeeps
  <2>2. mem'.ver = mem.ver
    BY <2>1 DEF SameNumbers
  <2>3. RefineFiles => InRefine'
    <3>1. RefineFiles => saver'.kind = "refine" /\ Left' = {"rewrite", "map", "pool", "reload"}
      BY RefineSteps
    <3> QED
      BY <3>1 DEF InRefine
  <2>4. OpsKept
    <3>1. CASE RefineFiles
      <4>1. \A c \in Clients : op'[c] = IF op[c] = Idle THEN Idle ELSE [op[c] EXCEPT !.renumbered = TRUE]
        BY <3>1 DEF RefineFiles
      <4>2. \A c \in Clients : op'[c] = Idle \/ (op[c] # Idle /\ op'[c].id = op[c].id /\ op'[c].kind = op[c].kind)
        BY <1>0, <4>1 DEF Operations
      <4> QED
        BY <2>3, <3>1, <4>2 DEF OpsKept, Adds
    <3>2. CASE UNCHANGED op
      BY <3>2 DEF OpsKept
    <3> QED
      BY <2>1, <3>1, <3>2
  <2>5. EntriesAgree
    BY <1>0, <1>1, <2>1, <2>2 DEF EntriesAgree
  <2> QED
    BY <2>4, <2>5, SinceKept
<1>3. ASSUME NEW h \in HeadIds, SplitJob(h) PROVE SinceCheckpoint'
  <2>1. MemBlocks /\ AllTrans
    BY <1>0 DEF SavesInv, BlocksInv, HeadsNamed, AllNamed, AllTrans
  <2>2. SplitKeeps
    BY <1>3, <2>1, SplitEntries
  <2>3. mem'.ver = mem.ver
    BY <1>3, SplitShapes DEF SplitShape
  <2>4. OpsKept
    BY <1>3 DEF OpsKept, SplitJob
  <2>5. sure' = sure
    BY <1>3 DEF SplitJob, history
  <2>6. EntriesAgree
    BY <1>0, <1>1, <2>2, <2>3, <2>5 DEF EntriesAgree, SplitKeeps
  <2> QED
    BY <2>4, <2>6, SinceKept
<1>4. ASSUME NEW h \in HeadIds, RefinePosting(h) PROVE SinceCheckpoint'
  <2>1. InRefine'
    BY <1>4, RewriteSteps DEF InRefine
  <2>2. op' = op
    BY <1>4, RewriteSteps
  <2> QED
    BY <2>1, <2>2, SinceKept DEF OpsKept, EntriesAgree
<1> QED
  BY <1>2, <1>3, <1>4

LEMMA SinceReplayAdd ==
    ASSUME Base, Base', SavesInv, ClaimsInv, RecordsInv, SinceCheckpoint, CheckpointStays, ReplayAdd
    PROVE  SinceCheckpoint'
<1>0. "buffer" \in Dirs /\ Buffer.sound /\ saver = NoSave /\ sure' = sure /\ state = "replay"
  BY DEF Dirs, CheckpointStays, ReplayAdd, history, Base, NamesInv, StatesInv
<1>1. MemBlocks
  BY <1>0 DEF SavesInv, BlocksInv, Buffer
<1>2. PICK r : r = Head(scan).rec
  OBVIOUS
<1>3. ReplayedAddAs(r, Head(scan).key)
  BY <1>1, <1>2, ReplayAddEffect
<1>4. RecordOK(r) /\ AddOf(r) /\ r.id \in Nat
  BY <1>0, <1>3 DEF RecordsInv, Recs, ReplayedAddAs, ReplayFrame
<1>5. Agree(<<r.id, r.vec>>)
  <2> DEFINE y == <<r.id, r.vec>>
  <2>1. y[1] = r.id /\ y[2] = r.vec
    OBVIOUS
  <2> HIDE DEF y
  <2>2. y[1] >= BufferIds /\ y[1] \in Nat /\ \A s \in SavedIn("buffer") : s[2] # y[2]
    BY <1>4, <2>1 DEF RecordOK
  <2>3. Agree(y)
    BY <1>0, <2>2, NewAgrees DEF ClaimsInv
  <2> QED
    BY <2>3 DEF y
<1>6. EntriesAgree
  <2>1. ~InRefine
    BY <1>0 DEF InRefine, NoSave
  <2>2. Len(mem'.ver) >= Len(mem.ver)
    BY <1>3 DEF ReplayedAddAs, ReplayFrame, Grows
  <2>3. \A e \in Known' : e \in Known \/ e = <<r.id, r.vec>>
    BY <1>3 DEF ReplayedAddAs
  <2> QED
    BY <1>0, <1>5, <2>1, <2>2, <2>3 DEF EntriesAgree
<1>7. OpsKept
  BY <1>3 DEF OpsKept, ReplayedAddAs, ReplayFrame
<1> QED
  BY <1>0, <1>6, <1>7, SinceKept

LEMMA SinceReplayDelete ==
    ASSUME Base, Base', SavesInv, SinceCheckpoint, CheckpointStays, ReplayDelete
    PROVE  SinceCheckpoint'
<1>0. Buffer.sound /\ saver = NoSave /\ state = "replay"
  BY DEF CheckpointStays, ReplayDelete, Base, NamesInv, StatesInv
<1>1. PICK r : r = Head(scan).rec
  OBVIOUS
<1>2. ReplayedDeleteAs(r, Head(scan).key)
  BY <1>1, ReplayDeleteEffect
<1>3. ~InRefine
  BY <1>0 DEF InRefine, NoSave
<1>4. Len(mem'.ver) >= Len(mem.ver)
  <2>1. Len(mem'.ver) = Len(mem.ver) /\ Len(mem.ver) \in Nat
    BY <1>2 DEF ReplayedDeleteAs, ReplayFrame, Marks
  <2> QED
    BY <2>1
<1>5. EntriesAgree
  BY <1>2, <1>3, <1>4 DEF EntriesAgree, ReplayedDeleteAs, ReplayFrame
<1>6. OpsKept
  BY <1>2 DEF OpsKept, ReplayedDeleteAs, ReplayFrame
<1> QED
  BY <1>0, <1>5, <1>6, SinceKept

LEMMA SinceCheckpointNext ==
    ASSUME Base, Base', SavesInv, ClaimsInv, LogInv, [Next]_vars
    PROVE  SinceCheckpoint'
<1> SUFFICES ASSUME Buffer'.sound, state' # "down" PROVE SinceCheckpoint'
  BY DEF SinceCheckpoint
<1>0. /\ SinceCheckpoint /\ RecordsInv /\ CompleteInv /\ ClaimsSaved
  BY DEF LogInv, ClaimsInv
<1>1. CASE CheckpointEnds
  BY <1>1, SinceEnds
<1>2. CASE CheckpointStays
  <2>0. "buffer" \in Dirs /\ Buffer.sound /\ state \notin {"empty", "building"}
    BY <1>2 DEF CheckpointStays, SavesInv, BlocksInv, Buffer, Dirs
  <2>1. CASE RecoverIndex
    BY <1>0, <1>2, <2>1, SinceRecovered
  <2>2. ~LoadIndex
    <3>1. promise \in [Dirs -> Promises]
      BY DEF Base, Types, HistoryOK
    <3> QED
      BY <2>0, <3>1 DEF LoadIndex, Void, Buffer
  <2>3. ~Crash
    BY DEF Crash
  <2>4. ~Reload
    <3>1. SaveBreaks'
      BY SaveBreaksNext DEF SavesInv
    <3>2. Reload => saver'.kind = "refine" /\ "reload" \notin Left'
      BY ReloadSteps
    <3> QED
      BY <3>1, <3>2 DEF SaveBreaks, Broken, Buffer
  <2>5. state # "down" \/ RecoverIndex
    <3>1. BuildIndex \/ BuildEnd \/ RecoverEnd => state # "down"
      BY DEF BuildIndex, BuildEnd, RecoverEnd
    <3> QED
      BY <2>2, <2>3, <3>1, RunFrame
  <2>6. CASE ReplayAdd
    BY <1>0, <1>2, <2>6, SinceReplayAdd
  <2>7. CASE ReplayDelete
    BY <1>0, <1>2, <2>7, SinceReplayDelete
  <2>8. CASE RecoverEnd
    <3>1. Known' = Known
      BY <2>8, KnownKept DEF SameEntries, SameHeads, RecoverEnd, durable
    <3>2. UNCHANGED <<mem, op, sure>> /\ state # "down" /\ Len(mem.ver) \in Nat
      BY <2>8 DEF RecoverEnd, history, Base, Types, MemOK, Memories, Versions
    <3>3. ~InRefine
      BY <2>8, StartsFrame DEF Starts, InRefine, NoSave
    <3>4. OpsKept /\ EntriesAgree
      BY <3>1, <3>2, <3>3 DEF OpsKept, EntriesAgree
    <3> QED
      BY <1>0, <1>2, <3>2, <3>4, SinceKept
  <2>9. CASE \E c \in Clients : Updates(c)
    BY <1>0, <1>2, <2>9, SinceUpdates
  <2>10. CASE SaverStep \/ \E h \in HeadIds : SplitJob(h) \/ RefinePosting(h)
    <3>1. ~RecoverIndex \/ RecoverIndex
      OBVIOUS
    <3>2. CASE ~RecoverIndex
      BY <1>0, <1>2, <2>3, <2>4, <2>5, <2>10, <3>2, SinceSaves
    <3> QED
      BY <2>1, <3>2
  <2>11. ~BuildIndex /\ ~BuildEnd
    BY <2>0 DEF BuildIndex, BuildEnd
  <2> QED
    BY <2>1, <2>2, <2>3, <2>4, <2>6, <2>7, <2>8, <2>9, <2>10, <2>11, NextCases DEF Starts, SaverStep
<1> QED
  BY <1>1, <1>2, BufferFrame

-----------------------------------------------------------------------------

(***************************************************************************)
(* A complete log                                                          *)
(***************************************************************************)

\* The log, what is acknowledged, the operations and the entries as they were.
LogKept == UNCHANGED <<log, scan, size, sure, gone>>
OpsSame ==
    \A c \in Clients : op'[c].kind \in {"log", "append", "delete"} =>
        op'[c].kind = op[c].kind /\ op'[c].id = op[c].id /\ op'[c].vec = op[c].vec
EntriesKept ==
    ~InRefine' => /\ ~InRefine /\ Len(mem'.ver) >= Len(mem.ver)
                  /\ \A e \in Known' : e[2] \in sure' => e \in Known /\ e[2] \in sure

\* Where each deletion was logged, while records are only added.
LEMMA DeletedAtKept ==
    ASSUME CheckpointStays, NEW k \in DOMAIN log, NEW v, NEW i, DeletedAt(k, v, i),
           \A j \in DOMAIN log : j \in DOMAIN log' /\ log'[j] = log[j],
           \A j \in DOMAIN log' : j \in DOMAIN log \/ ~(AddOf(log'[j]) /\ log'[j].vec = v)
    PROVE  DeletedAt(k, v, i)'
  BY DEF DeletedAt, CheckpointStays

LEMMA OpLoggedKept ==
    ASSUME CheckpointStays, log' = log, NEW c \in Clients, OpLogged(c), op \in [Clients -> Operations], op' \in [Clients -> Operations],
           op'[c].kind \in {"log", "append", "delete"} => op'[c].kind = op[c].kind /\ op'[c].id = op[c].id /\ op'[c].vec = op[c].vec
    PROVE  OpLogged(c)'
<1>1. LogRecs' = LogRecs
  BY DEF LogRecs
<1>2. \A k \in DOMAIN log : \A v, i : DeletedAt(k, v, i) => DeletedAt(k, v, i)'
  BY DEF DeletedAt, CheckpointStays
<1>3. CASE op'[c].kind = "log"
  BY <1>1, <1>3 DEF OpLogged
<1>4. CASE op'[c].kind = "append"
  BY <1>1, <1>4 DEF OpLogged
<1>5. CASE op'[c].kind = "delete"
  BY <1>2, <1>5 DEF OpLogged
<1> QED
  BY <1>3, <1>4, <1>5 DEF OpLogged

LEMMA CompleteKept ==
    ASSUME Base, Base', CompleteInv, CheckpointStays, state # "replay", state' = "running" => state = "running",
           LogKept, OpsSame, EntriesKept
    PROVE  CompleteInv'
<1> SUFFICES ASSUME Complete' PROVE CompleteInv'
  BY DEF CompleteInv
<1>0. /\ LogRecs' = LogRecs /\ Recs' = Recs /\ sure' = sure /\ gone' = gone /\ log' = log /\ size' = size
      /\ Buffer'.sure = Buffer.sure /\ Buffer'.gone = Buffer.gone
  BY DEF LogKept, LogRecs, ScanRecs, Recs, CheckpointStays
<1>1. Complete
  BY DEF Complete, CheckpointStays
<1>2. Pairs /\ SureLogged /\ GoneLogged
  BY <1>1 DEF CompleteInv
<1>3. Pairs' /\ SureLogged'
  BY <1>0, <1>2 DEF Pairs, SureLogged
<1>4. GoneLogged'
  <2>1. \A k \in DOMAIN log : \A v, i : DeletedAt(k, v, i) => DeletedAt(k, v, i)'
    BY <1>0 DEF DeletedAt, CheckpointStays
  <2> QED
    BY <1>0, <1>2, <2>1 DEF GoneLogged
<1>5. ASSUME state' = "running"
      PROVE  (\A k \in DOMAIN log' : k < size') /\ (~InRefine' => KnownLogged') /\ \A c \in Clients : OpLogged(c)'
  <2>1. (\A k \in DOMAIN log : k < size) /\ (~InRefine => KnownLogged) /\ \A c \in Clients : OpLogged(c)
    BY <1>1, <1>5 DEF CompleteInv
  <2>2. ASSUME ~InRefine' PROVE KnownLogged'
    <3>1. KnownLogged /\ Len(mem'.ver) >= Len(mem.ver) /\ \A e \in Known' : e[2] \in sure' => e \in Known /\ e[2] \in sure
      BY <2>1, <2>2 DEF EntriesKept
    <3>2. Len(mem'.ver) \in Nat /\ Len(mem.ver) \in Nat /\ \A r \in LogRecs : r.id \in Nat
      <4>1. \A r \in LogRecs : r \in Records
        BY DEF LogRecs, Base, Types, LogOK
      <4> QED
        BY <4>1, LifecycleBounds DEF Records, Ids, Base, Types, MemOK, Memories, Versions
    <3>3. \A r \in LogRecs' : r.id < Len(mem'.ver)
      BY <1>0, <3>1, <3>2 DEF KnownLogged
    <3> QED
      BY <1>0, <3>1, <3>3 DEF KnownLogged
  <2>3. ASSUME NEW c \in Clients PROVE OpLogged(c)'
    BY <1>0, <2>1, OpLoggedKept DEF OpsSame, Base, Types, OpsOK
  <2> QED
    BY <1>0, <2>1, <2>2, <2>3
<1> QED
  BY <1>3, <1>4, <1>5 DEF CompleteInv

LEMMA CompleteEnds ==
    ASSUME Base, CheckpointEnds
    PROVE  CompleteInv'
<1>1. LogRecs' = {} /\ Recs' = {} /\ DOMAIN log' = {} /\ sure' = sure /\ gone' = gone /\ Buffer'.sure = sure /\ Buffer'.gone = gone
  BY DEF CheckpointEnds, LogRecs, ScanRecs, Recs
<1>2. \A c \in Clients : op'[c].kind = "idle"
  <2>1. Idle.kind = "idle"
    BY DEF Idle
  <2> QED
    BY <2>1 DEF CheckpointEnds
<1>3. Pairs' /\ SureLogged' /\ GoneLogged' /\ KnownLogged'
  BY <1>1 DEF Pairs, SureLogged, GoneLogged, KnownLogged
<1> QED
  BY <1>1, <1>2, <1>3 DEF CompleteInv, OpLogged

\* What a complete log says while the index runs.
LEMMA CompleteRuns ==
    ASSUME Base, SavesInv, ClaimsInv, LogInv, Complete, state = "running"
    PROVE  /\ Pairs /\ SureLogged /\ GoneLogged /\ (\A k \in DOMAIN log : k < size) /\ (~InRefine => KnownLogged)
           /\ (\A c \in Clients : OpLogged(c)) /\ setting.wal /\ size \notin DOMAIN log /\ ScanRecs = {} /\ Buffer.sound
           /\ op \in [Clients -> Operations] /\ LogOK /\ Len(mem.ver) \in Nat /\ SaverOK /\ trusted
<1>1. /\ Pairs /\ SureLogged /\ GoneLogged /\ (\A k \in DOMAIN log : k < size) /\ (~InRefine => KnownLogged)
      /\ \A c \in Clients : OpLogged(c)
  BY DEF LogInv, CompleteInv
<1>2. LogOK /\ SaverOK /\ op \in [Clients -> Operations] /\ mem.ver \in Versions
  BY DEF Base, Types, OpsOK, MemOK, Memories
<1>3. setting.wal /\ Buffer.sound /\ trusted
  BY DEF Complete, Buffer, SavesInv, HeadsNamed, BufferNamed, BlocksInv, Dirs
<1>4. size \notin DOMAIN log
  BY <1>1, <1>2 DEF LogOK
<1>5. ScanRecs = {}
  BY DEF ScanRecs, Base, NamesInv, StatesInv
<1>6. Len(mem.ver) \in Nat
  BY <1>2 DEF Versions
<1> QED
  BY <1>1, <1>2, <1>3, <1>4, <1>5, <1>6

LEMMA CompleteAddBatch ==
    ASSUME Base, SavesInv, ClaimsInv, LogInv, CheckpointStays, Complete', NEW c \in Clients, AddBatch(c)
    PROVE  CompleteInv'
<1>0. BatchAs(c) /\ state = "running" /\ Complete
  BY AddBatchEffect DEF AddBatch, Complete, CheckpointStays
<1>1. ~InRefine /\ LogRecs' = LogRecs /\ Recs' = Recs /\ log' = log /\ size' = size /\ sure' = sure /\ gone' = gone /\ Known' = Known
      /\ Buffer'.sure = Buffer.sure /\ Buffer'.gone = Buffer.gone /\ state' = state
  BY <1>0 DEF BatchAs, InRefine, LogRecs, ScanRecs, Recs, CheckpointStays
<1>2. /\ Pairs /\ SureLogged /\ GoneLogged /\ (\A k \in DOMAIN log : k < size) /\ KnownLogged
      /\ (\A d \in Clients : OpLogged(d)) /\ op \in [Clients -> Operations] /\ LogOK
  BY <1>0, <1>1, CompleteRuns
<1>3. Pairs' /\ SureLogged'
  BY <1>1, <1>2 DEF Pairs, SureLogged
<1>4. \A k \in DOMAIN log : \A v, i : DeletedAt(k, v, i) => DeletedAt(k, v, i)'
  BY <1>1 DEF DeletedAt, CheckpointStays
<1>5. GoneLogged'
  BY <1>1, <1>2, <1>4 DEF GoneLogged
<1>6. /\ Len(mem.ver) \in Nat /\ Len(mem'.ver) = Len(mem.ver) + 1
      /\ \A r \in LogRecs : r.id \in Nat /\ r.id < Len(mem.ver)
  <2>1. \A r \in LogRecs : r \in Records
    BY <1>2 DEF LogRecs, LogOK
  <2> QED
    BY <1>0, <1>2, <2>1, LifecycleBounds DEF Records, Ids, BatchAs, KnownLogged
<1>7. KnownLogged'
  BY <1>1, <1>2, <1>6 DEF KnownLogged
<1>8. ASSUME NEW d \in Clients PROVE OpLogged(d)'
  <2>1. CASE d = c
    <3>1. op'[c].kind = "log" /\ op'[c].id = Len(mem.ver)
      BY <1>0, <1>2 DEF BatchAs
    <3> QED
      BY <1>1, <1>6, <2>1, <3>1 DEF OpLogged
  <2>2. CASE d # c
    <3>1. op'[d] = op[d] /\ OpLogged(d)
      BY <1>0, <1>2, <2>2 DEF BatchAs
    <3> QED
      BY <1>1, <1>4, <3>1 DEF OpLogged
  <2> QED
    BY <2>1, <2>2
<1> QED
  BY <1>1, <1>2, <1>3, <1>5, <1>7, <1>8 DEF CompleteInv

\* A record that is logged, after all the others.
RecordPut(r) ==
    /\ DOMAIN log' = DOMAIN log \cup {size} /\ size' = size + 1 /\ log'[size] = r
    /\ \A k \in DOMAIN log : k \in DOMAIN log' /\ log'[k] = log[k] /\ k < size
    /\ \A x : x \in LogRecs' <=> x \in LogRecs \/ x = r
    /\ \A x : x \in Recs' <=> x \in LogRecs \/ x = r
    /\ \A k \in DOMAIN log' : k < size'

LEMMA RecordIsPut ==
    ASSUME Base, SavesInv, ClaimsInv, LogInv, Complete, state = "running", NEW r, PutAssignment(r), scan' = scan
    PROVE  RecordPut(r)
<1>1. setting.wal /\ LogOK /\ size \notin DOMAIN log /\ (\A k \in DOMAIN log : k < size) /\ ScanRecs = {}
  BY CompleteRuns
<1>2. /\ DOMAIN log' = DOMAIN log \cup {size} /\ size' = size + 1 /\ log'[size] = r
      /\ \A k \in DOMAIN log : k \in DOMAIN log' /\ log'[k] = log[k] /\ k < size
  BY <1>1, PutRecord
<1>3. \A x : x \in LogRecs' <=> x \in LogRecs \/ x = r
  BY <1>2 DEF LogRecs
<1>4. \A x : x \in Recs' <=> x \in LogRecs'
  BY <1>1 DEF Recs, ScanRecs
<1>5. \A k \in DOMAIN log' : k < size'
  BY <1>1, <1>2 DEF LogOK
<1> QED
  BY <1>2, <1>3, <1>4, <1>5 DEF RecordPut

LEMMA CompleteAddLog ==
    ASSUME Base, SavesInv, ClaimsInv, LogInv, CheckpointStays, Complete', NEW c \in Clients, AddLog(c)
    PROVE  CompleteInv'
<1> DEFINE r == [kind |-> "add", id |-> op[c].id, vec |-> op[c].vec]
<1>0. LoggedAs(c) /\ state = "running" /\ Complete /\ Adds(c) /\ op[c] # Idle
  <2>1. LoggedAs(c)
    BY AddLogEffect
  <2>2. Adds(c) /\ op[c] # Idle /\ Complete
    BY <2>1 DEF LoggedAs, Adds, Idle, Complete, CheckpointStays
  <2> QED
    BY <2>1, <2>2, ClientsRun DEF Base, LoggedAs
<1>1. r.kind = "add" /\ r.id = op[c].id /\ r.vec = op[c].vec /\ AddOf(r)
  BY DEF AddOf
<1>2. PutAssignment(r) /\ scan' = scan
  BY <1>0 DEF LoggedAs
<1> HIDE DEF r
<1>3. RecordPut(r)
  BY <1>0, <1>2, RecordIsPut
<1>4. /\ mem' = mem /\ sure' = sure /\ gone' = gone /\ Known' = Known /\ state' = state
      /\ Buffer'.sure = Buffer.sure /\ Buffer'.gone = Buffer.gone /\ SavedIn("buffer")' = SavedIn("buffer")
      /\ (InRefine' <=> InRefine)
  <2>1. InRefine' <=> InRefine
    BY UpdateFrame DEF Base, Types
  <2> QED
    BY <1>0, <2>1 DEF LoggedAs, CheckpointStays
<1>5. /\ Pairs /\ SureLogged /\ GoneLogged /\ (~InRefine => KnownLogged)
      /\ (\A d \in Clients : OpLogged(d)) /\ op \in [Clients -> Operations] /\ LogOK
  BY <1>0, CompleteRuns
<1>6. Fresh(r.vec)
  BY <1>0, <1>1, FreshNames
<1>7. \A x \in LogRecs : x.vec # r.vec /\ x.id # r.id
  <2>1. \A x \in LogRecs : x.vec # r.vec
    BY <1>0, <1>1 DEF LoggedAs, Base, NamesInv, OpNames, LogRecs
  <2>2. \A x \in LogRecs : x.id # r.id
    BY <1>0, <1>1, <1>5 DEF LoggedAs, OpLogged
  <2> QED
    BY <2>1, <2>2
<1>8. Pairs'
  <2>1. \A x, y \in LogRecs : AddOf(x) => (x.id = y.id <=> x.vec = y.vec)
    BY <1>5 DEF Pairs, Recs
  <2> QED
    BY <1>3, <1>7, <2>1 DEF Pairs, RecordPut
<1>9. SureLogged'
  BY <1>1, <1>3, <1>4, <1>5 DEF SureLogged, RecordPut
<1>10. ASSUME NEW k \in DOMAIN log, NEW v, NEW i, DeletedAt(k, v, i), v # r.vec PROVE DeletedAt(k, v, i)'
  <2>1. \A j \in DOMAIN log' : j \in DOMAIN log \/ ~(AddOf(log'[j]) /\ log'[j].vec = v)
    BY <1>3, <1>10 DEF RecordPut
  <2>2. \A j \in DOMAIN log : j \in DOMAIN log' /\ log'[j] = log[j]
    BY <1>3 DEF RecordPut
  <2> QED
    BY <1>10, <2>1, <2>2, DeletedAtKept
<1>11. GoneLogged'
  <2>1. ASSUME NEW v \in gone, v \notin Buffer.gone PROVE \E k \in DOMAIN log' : DeletedAt(k, v, log[k].id)' /\ log'[k] = log[k]
    <3>1. PICK k \in DOMAIN log : DeletedAt(k, v, log[k].id)
      BY <1>5, <2>1 DEF GoneLogged
    <3>2. v # r.vec
      BY <1>6, <2>1 DEF Fresh
    <3>3. log'[k] = log[k] /\ k \in DOMAIN log'
      BY <1>3 DEF RecordPut
    <3> DEFINE i == log[k].id
    <3>4. DeletedAt(k, v, i)
      BY <3>1
    <3> HIDE DEF i
    <3>5. PICK z : z = i
      OBVIOUS
    <3>6. DeletedAt(k, v, z)'
      BY <1>10, <3>2, <3>4, <3>5
    <3>7. log'[k].id = z
      BY <3>3, <3>5 DEF i
    <3> QED
      BY <3>3, <3>6, <3>7
  <2> QED
    BY <1>4, <2>1 DEF GoneLogged
<1>12. ASSUME ~InRefine PROVE KnownLogged'
  <2>1. KnownLogged /\ MemClaimed /\ Pending(c) /\ op[c].id < Len(mem.ver)
    BY <1>0, <1>5, <1>12, SinceRuns DEF LogInv, Complete
  <2>2. \A e \in Known : e[2] \in sure => e[1] # op[c].id /\ e[2] # r.vec
    BY <1>6, <2>1 DEF MemClaimed, OpClaimed, Fresh
  <2> QED
    BY <1>1, <1>3, <1>4, <2>1, <2>2 DEF KnownLogged, RecordPut
<1>13. ASSUME NEW d \in Clients PROVE OpLogged(d)'
  <2>1. CASE d = c
    <3>1. op'[c].kind = "append" /\ op'[c].id = r.id /\ op'[c].vec = r.vec
      BY <1>0, <1>1 DEF LoggedAs
    <3> QED
      BY <1>1, <1>3, <1>7, <2>1, <3>1 DEF OpLogged, RecordPut
  <2>2. CASE d # c
    <3>1. op'[d] = op[d] /\ OpLogged(d)
      BY <1>0, <1>5, <2>2 DEF LoggedAs
    <3>2. op[d] # Idle => op[d].id # r.id /\ op[d].vec # r.vec
      <4>1. op[d] # Idle => op[d].id # op[c].id
        BY <1>0, <2>2 DEF LogInv, SinceCheckpoint, Complete
      <4>2. op[d] # Idle => op[d].vec # op[c].vec
        BY <1>0, <2>2 DEF Base, NamesInv, OpNames
      <4> QED
        BY <1>1, <4>1, <4>2
    <3>3. op[d].kind \in {"log", "append", "delete"} => op[d] # Idle
      BY DEF Idle
    <3>4. CASE op[d].kind = "log"
      BY <1>3, <3>1, <3>2, <3>3, <3>4 DEF OpLogged, RecordPut
    <3>5. CASE op[d].kind = "append"
      BY <1>3, <3>1, <3>2, <3>3, <3>5 DEF OpLogged, RecordPut
    <3>6. CASE op[d].kind = "delete"
      <4>1. PICK k \in DOMAIN log : DeletedAt(k, op[d].vec, op[d].id)
        BY <3>1, <3>6 DEF OpLogged
      <4>2. PICK v, i : v = op[d].vec /\ i = op[d].id
        OBVIOUS
      <4>3. DeletedAt(k, v, i)' /\ k \in DOMAIN log'
        BY <1>3, <1>10, <3>2, <3>3, <3>6, <4>1, <4>2 DEF RecordPut
      <4> QED
        BY <3>1, <3>6, <4>2, <4>3 DEF OpLogged
    <3> QED
      BY <3>1, <3>4, <3>5, <3>6 DEF OpLogged
  <2> QED
    BY <2>1, <2>2
<1>14. \A k \in DOMAIN log' : k < size'
  BY <1>3 DEF RecordPut
<1> QED
  BY <1>4, <1>8, <1>9, <1>11, <1>12, <1>13, <1>14 DEF CompleteInv

LEMMA CompleteAddAppend ==
    ASSUME Base, SavesInv, ClaimsInv, LogInv, CheckpointStays, Complete', NEW c \in Clients, AddAppend(c)
    PROVE  CompleteInv'
<1>0. state = "running" /\ Complete /\ Adds(c) /\ op[c].kind = "append"
  <2>1. Adds(c) /\ op[c].kind = "append" /\ Complete
    BY DEF AddAppend, Adds, Complete, CheckpointStays
  <2> QED
    BY <2>1, ClientsRun DEF Base
<1>1. /\ Pairs /\ SureLogged /\ GoneLogged /\ (\A k \in DOMAIN log : k < size) /\ (~InRefine => KnownLogged)
      /\ (\A d \in Clients : OpLogged(d)) /\ op \in [Clients -> Operations] /\ trusted
  BY <1>0, CompleteRuns
<1>2. AppendedAs(c) /\ Fresh(op[c].vec)
  <2>1. MemBlocks
    BY <1>1 DEF SavesInv, BlocksInv
  <2> QED
    BY <1>0, <2>1, AddAppendEffect, FreshNames
<1>3. /\ mem'.ver = mem.ver /\ gone' = gone /\ state' = state /\ log' = log /\ size' = size /\ LogRecs' = LogRecs /\ Recs' = Recs
      /\ Buffer'.sure = Buffer.sure /\ Buffer'.gone = Buffer.gone
      /\ (InRefine' <=> InRefine) /\ \A v \in sure' : v \in sure \/ v = op[c].vec
  <2>1. InRefine' <=> InRefine
    BY UpdateFrame DEF Base, Types
  <2> QED
    BY <1>2, <2>1 DEF AppendedAs, CheckpointStays, LogRecs, ScanRecs, Recs
<1>4. /\ \E r \in LogRecs : AddOf(r) /\ r.vec = op[c].vec
      /\ \A r \in LogRecs : /\ r.id = op[c].id <=> r.vec = op[c].vec
                            /\ r.vec = op[c].vec => AddOf(r)
  BY <1>0, <1>1 DEF OpLogged
<1>5. Pairs' /\ SureLogged'
  BY <1>1, <1>3, <1>4 DEF Pairs, SureLogged
<1>6. \A k \in DOMAIN log : \A v, i : DeletedAt(k, v, i) => DeletedAt(k, v, i)'
  BY <1>3 DEF DeletedAt, CheckpointStays
<1>7. GoneLogged'
  BY <1>1, <1>3, <1>6 DEF GoneLogged
<1>8. ASSUME ~InRefine PROVE KnownLogged'
  <2>1. ASSUME NEW e \in Known', e[2] \in sure', NEW r \in LogRecs, AddOf(r) PROVE r.id = e[1] <=> r.vec = e[2]
    <3>1. CASE e \in Known
      BY <1>1, <1>2, <1>3, <1>8, <2>1, <3>1 DEF KnownLogged, Fresh
    <3>2. CASE e = <<op[c].id, op[c].vec>>
      BY <1>4, <3>2
    <3> QED
      BY <1>2, <3>1, <3>2 DEF AppendedAs
  <2> QED
    BY <1>1, <1>3, <1>8, <2>1 DEF KnownLogged
<1>9. ASSUME NEW d \in Clients PROVE OpLogged(d)'
  <2>1. CASE d = c
    <3>1. op'[c] = Idle
      BY <1>1, <1>2 DEF AppendedAs
    <3>2. Idle.kind = "idle"
      BY DEF Idle
    <3> QED
      BY <2>1, <3>1, <3>2 DEF OpLogged
  <2>2. CASE d # c
    <3>1. op'[d] = op[d] /\ OpLogged(d)
      BY <1>1, <1>2, <2>2 DEF AppendedAs
    <3> QED
      BY <1>3, <1>6, <3>1 DEF OpLogged
  <2> QED
    BY <2>1, <2>2
<1> QED
  BY <1>1, <1>3, <1>5, <1>7, <1>8, <1>9 DEF CompleteInv

LEMMA CompleteDeleteLog ==
    ASSUME Base, SavesInv, ClaimsInv, LogInv, CheckpointStays, Complete', NEW c \in Clients, DeleteLog(c)
    PROVE  CompleteInv'
<1>0. PICK x \in Answers(mem) : DeletedAs(c, x)
  BY DeleteLogEffect
<1> DEFINE r == [kind |-> "delete", id |-> x[1], vec |-> x[2]]
<1>1. r.kind = "delete" /\ r.id = x[1] /\ r.vec = x[2] /\ ~AddOf(r)
  BY DEF AddOf
<1>2. /\ PutAssignment(r) /\ scan' = scan /\ state = "running" /\ ~InRefine /\ Complete
      /\ x \in Known /\ x[2] \in sure /\ x[1] < Len(mem.ver)
  BY <1>0 DEF DeletedAs, InRefine, Complete, CheckpointStays
<1> HIDE DEF r
<1>3. RecordPut(r)
  BY <1>2, RecordIsPut
<1>4. /\ Pairs /\ SureLogged /\ GoneLogged /\ KnownLogged
      /\ (\A d \in Clients : OpLogged(d)) /\ op \in [Clients -> Operations]
  BY <1>2, CompleteRuns
<1>5. /\ MemClaimed /\ Agree(x) /\ \A d \in Clients : op[d] # Idle => Pending(d)
  BY <1>2, SinceRuns DEF LogInv, Complete
<1>6. /\ mem' = mem /\ sure' = sure \ {x[2]} /\ gone' = gone /\ Known' = Known /\ state' = state
      /\ Buffer'.sure = Buffer.sure /\ Buffer'.gone = Buffer.gone /\ SavedIn("buffer")' = SavedIn("buffer")
  BY <1>0 DEF DeletedAs, CheckpointStays
<1>7. Pairs'
  <2>1. \A y, z \in LogRecs : AddOf(y) => (y.id = z.id <=> y.vec = z.vec)
    BY <1>4 DEF Pairs, Recs
  <2>2. \A y \in LogRecs : AddOf(y) => (y.id = r.id <=> y.vec = r.vec)
    BY <1>1, <1>2, <1>4 DEF KnownLogged
  <2> QED
    BY <1>1, <1>3, <2>1, <2>2 DEF Pairs, RecordPut
<1>8. SureLogged'
  BY <1>1, <1>3, <1>4, <1>6 DEF SureLogged, RecordPut
<1>9. ASSUME NEW k \in DOMAIN log, NEW v, NEW i, DeletedAt(k, v, i) PROVE DeletedAt(k, v, i)'
  <2>1. \A j \in DOMAIN log' : j \in DOMAIN log \/ ~(AddOf(log'[j]) /\ log'[j].vec = v)
    BY <1>1, <1>3 DEF RecordPut
  <2>2. \A j \in DOMAIN log : j \in DOMAIN log' /\ log'[j] = log[j]
    BY <1>3 DEF RecordPut
  <2> QED
    BY <1>9, <2>1, <2>2, DeletedAtKept
<1>10. GoneLogged'
  <2>1. ASSUME NEW v \in gone, v \notin Buffer.gone PROVE \E k \in DOMAIN log' : DeletedAt(k, v, log[k].id)' /\ log'[k] = log[k]
    <3>1. PICK k \in DOMAIN log : DeletedAt(k, v, log[k].id)
      BY <1>4, <2>1 DEF GoneLogged
    <3>2. log'[k] = log[k] /\ k \in DOMAIN log'
      BY <1>3 DEF RecordPut
    <3>3. PICK z : z = log[k].id
      OBVIOUS
    <3>4. DeletedAt(k, v, z)'
      BY <1>9, <3>1, <3>3
    <3> QED
      BY <3>2, <3>3, <3>4
  <2> QED
    BY <1>6, <2>1 DEF GoneLogged
<1>11. KnownLogged'
  BY <1>1, <1>2, <1>3, <1>4, <1>6 DEF KnownLogged, RecordPut
<1>12. PICK n : n = size
  OBVIOUS
<1>13. n \in DOMAIN log' /\ DeletedAt(n, x[2], x[1])'
  <2>1. \A s \in SavedIn("buffer") : s[2] = x[2] => s[1] = x[1] /\ x[2] \in Buffer.sure
    <3>1. \A s \in SavedIn("buffer") : s[2] = x[2] => s[1] = x[1]
      BY <1>5 DEF Agree
    <3>2. x[2] \in Buffer.sure \/ \E y \in LogRecs : AddOf(y) /\ y.vec = x[2]
      BY <1>2, <1>4 DEF SureLogged
    <3>3. \A y \in LogRecs : AddOf(y) => \A s \in SavedIn("buffer") : s[2] # y.vec
      BY <1>2 DEF LogInv, RecordsInv, Complete, Recs, RecordOK
    <3> QED
      BY <3>1, <3>2, <3>3
  <2>2. \A j \in DOMAIN log' : AddOf(log'[j]) => j < n
    BY <1>1, <1>3, <1>12 DEF RecordPut
  <2>3. n \in DOMAIN log' /\ log'[n] = r
    BY <1>3, <1>12 DEF RecordPut
  <2> QED
    BY <1>1, <1>6, <2>1, <2>2, <2>3 DEF DeletedAt, AddOf
<1>14. ASSUME NEW d \in Clients PROVE OpLogged(d)'
  <2>1. CASE d = c
    <3>1. op'[c].kind = "delete" /\ op'[c].id = x[1] /\ op'[c].vec = x[2]
      BY <1>0, <1>4 DEF DeletedAs
    <3> QED
      BY <1>13, <2>1, <3>1 DEF OpLogged
  <2>2. CASE d # c
    <3>1. op'[d] = op[d] /\ OpLogged(d)
      BY <1>0, <1>4, <2>2 DEF DeletedAs
    <3>2. op[d] # Idle => op[d].id # r.id
      BY <1>1, <1>2, <1>5, OthersIds
    <3>3. op[d].kind \in {"log", "append", "delete"} => op[d] # Idle
      BY DEF Idle
    <3>4. CASE op[d].kind = "log"
      BY <1>3, <3>1, <3>2, <3>3, <3>4 DEF OpLogged, RecordPut
    <3>5. CASE op[d].kind = "append"
      <4>1. Fresh(op[d].vec)
        BY <3>5, FreshNames DEF Adds
      <4>2. r.vec # op[d].vec
        BY <1>1, <1>2, <4>1 DEF Fresh
      <4> QED
        BY <1>3, <3>1, <3>2, <3>3, <3>5, <4>2 DEF OpLogged, RecordPut
    <3>6. CASE op[d].kind = "delete"
      <4>1. PICK k \in DOMAIN log : DeletedAt(k, op[d].vec, op[d].id)
        BY <3>1, <3>6 DEF OpLogged
      <4>2. PICK v, i : v = op[d].vec /\ i = op[d].id
        OBVIOUS
      <4>3. DeletedAt(k, v, i)' /\ k \in DOMAIN log'
        BY <1>3, <1>9, <4>1, <4>2 DEF RecordPut
      <4> QED
        BY <3>1, <3>6, <4>2, <4>3 DEF OpLogged
    <3> QED
      BY <3>1, <3>4, <3>5, <3>6 DEF OpLogged
  <2> QED
    BY <2>1, <2>2
<1>15. \A k \in DOMAIN log' : k < size'
  BY <1>3 DEF RecordPut
<1> QED
  BY <1>7, <1>8, <1>10, <1>11, <1>14, <1>15 DEF CompleteInv

LEMMA CompleteDeleteMark ==
    ASSUME Base, SavesInv, ClaimsInv, LogInv, CheckpointStays, Complete', NEW c \in Clients, DeleteMark(c)
    PROVE  CompleteInv'
<1>0. MarkedAs(c) /\ state = "running" /\ Complete /\ op[c].kind = "delete"
  <2>1. MarkedAs(c) /\ Complete
    BY DeleteMarkEffect DEF Complete, CheckpointStays
  <2> QED
    BY <2>1, ClientsRun DEF Base, MarkedAs
<1>1. /\ Pairs /\ SureLogged /\ GoneLogged /\ (\A k \in DOMAIN log : k < size) /\ (~InRefine => KnownLogged)
      /\ (\A d \in Clients : OpLogged(d)) /\ op \in [Clients -> Operations]
  BY <1>0, CompleteRuns
<1>2. /\ Len(mem'.ver) = Len(mem.ver) /\ sure' = sure /\ state' = state /\ log' = log /\ size' = size /\ LogRecs' = LogRecs
      /\ Recs' = Recs /\ Known' = Known /\ gone' = gone \cup {op[c].vec}
      /\ Buffer'.sure = Buffer.sure /\ Buffer'.gone = Buffer.gone /\ (InRefine' <=> InRefine)
  <2>1. InRefine' <=> InRefine
    BY UpdateFrame DEF Base, Types
  <2> QED
    BY <1>0, <2>1 DEF MarkedAs, Marks, CheckpointStays, LogRecs, ScanRecs, Recs
<1>3. Pairs' /\ SureLogged'
  BY <1>1, <1>2 DEF Pairs, SureLogged
<1>4. \A k \in DOMAIN log : \A v, i : DeletedAt(k, v, i) => DeletedAt(k, v, i)'
  BY <1>2 DEF DeletedAt, CheckpointStays
<1>5. \E k \in DOMAIN log : DeletedAt(k, op[c].vec, log[k].id)
  BY <1>0, <1>1 DEF OpLogged, DeletedAt
<1>6. GoneLogged'
  BY <1>1, <1>2, <1>4, <1>5 DEF GoneLogged
<1>7. ~InRefine => KnownLogged'
  BY <1>1, <1>2 DEF KnownLogged
<1>8. ASSUME NEW d \in Clients PROVE OpLogged(d)'
  <2>1. CASE d = c
    <3>1. op'[c] = Idle
      BY <1>0, <1>1 DEF MarkedAs
    <3>2. Idle.kind = "idle"
      BY DEF Idle
    <3> QED
      BY <2>1, <3>1, <3>2 DEF OpLogged
  <2>2. CASE d # c
    <3>1. op'[d] = op[d] /\ OpLogged(d)
      BY <1>0, <1>1, <2>2 DEF MarkedAs
    <3> QED
      BY <1>2, <1>4, <3>1 DEF OpLogged
  <2> QED
    BY <2>1, <2>2
<1> QED
  BY <1>1, <1>2, <1>3, <1>6, <1>7, <1>8 DEF CompleteInv

\* The log is only cleared once the checkpoint is relied on no more.
LEMMA ClearLogBroken ==
    ASSUME Base, SavesInv, ClearLog \/ Reload
    PROVE  ~Buffer.sound
<1>0. SaverOK /\ SaveBreaks
  BY DEF Base, Types, SavesInv
<1>1. CASE ClearLog
  <2>1. AtStep("clear")
    BY <1>1 DEF ClearLog
  <2>2. saver.kind \in {"save", "checkpoint", "refine"} /\ "pool" \notin Left
    BY <1>0, <2>1, AtClear
  <2> QED
    BY <1>0, <2>2 DEF SaveBreaks, Broken, Buffer
<1>2. CASE Reload
  <2>1. saver.kind = "refine" /\ "pool" \notin Left
    BY <1>2, ReloadSteps
  <2> QED
    BY <1>0, <2>1 DEF SaveBreaks, Broken, Buffer
<1> QED
  BY <1>1, <1>2

LEMMA CompleteSaves ==
    ASSUME Base, Base', SavesInv, CompleteInv, CheckpointStays, [Next]_vars, ~Reload, ~Crash, state # "replay",
           SaverStep \/ \E h \in HeadIds : SplitJob(h) \/ RefinePosting(h)
    PROVE  CompleteInv'
<1>0. Len(mem.ver) \in Nat /\ trusted /\ op \in [Clients -> Operations]
  <2>1. "buffer" \in Dirs /\ mem.ver \in Versions
    BY DEF Dirs, Base, Types, MemOK, Memories
  <2> QED
    BY <2>1 DEF CheckpointStays, Buffer, SavesInv, BlocksInv, Versions, Base, Types, OpsOK
<1>1. InRefine => InRefine'
  BY InRefineFrame
<1>2. CASE SaverStep
  <2>1. /\ SameNumbers /\ UNCHANGED <<state, sure, gone>> /\ Known' = Known /\ (RefineFiles \/ UNCHANGED op)
    BY <1>2, SaverStepKeeps
  <2>2. ~ClearLog
    BY ClearLogBroken DEF CheckpointStays
  <2>3. UNCHANGED <<log, size, scan>>
    <3>1. CASE SaveIndex \/ Checkpoint \/ OpenFiles \/ SaveMetadata \/ SaveHeadIndex \/ SaveHeadFolder
      BY <3>1 DEF SaveIndex, Checkpoint, OpenFiles, SaveMetadata, SaveHeadIndex, SaveHeadFolder, durable
    <3>2. CASE SaveTranslateMap \/ SaveVersionMap \/ SaveMapping \/ SavePool \/ SaveEnd \/ RefineFiles \/ UNCHANGED vars
      BY <3>2 DEF SaveTranslateMap, SaveVersionMap, SaveMapping, SavePool, SaveEnd, RefineFiles, vars, durable
    <3> QED
      BY <1>2, <2>2, <3>1, <3>2 DEF SaverStep
  <2>4. mem'.ver = mem.ver
    BY <2>1 DEF SameNumbers
  <2>5. OpsSame
    <3>1. CASE RefineFiles
      <4>1. \A c \in Clients : op'[c] = IF op[c] = Idle THEN Idle ELSE [op[c] EXCEPT !.renumbered = TRUE]
        BY <3>1 DEF RefineFiles
      <4>2. Idle.kind = "idle"
        BY DEF Idle
      <4>3. \A c \in Clients : op'[c] = Idle \/ (op'[c].id = op[c].id /\ op'[c].kind = op[c].kind /\ op'[c].vec = op[c].vec)
        BY <1>0, <4>1 DEF Operations
      <4> QED
        BY <4>2, <4>3 DEF OpsSame
    <3>2. CASE UNCHANGED op
      BY <3>2 DEF OpsSame
    <3> QED
      BY <2>1, <3>1, <3>2
  <2>6. EntriesKept
    BY <1>0, <1>1, <2>1, <2>4 DEF EntriesKept
  <2> QED
    BY <2>1, <2>3, <2>5, <2>6, CompleteKept DEF LogKept
<1>3. ASSUME NEW h \in HeadIds, SplitJob(h) PROVE CompleteInv'
  <2>1. MemBlocks /\ AllTrans
    BY <1>0 DEF SavesInv, BlocksInv, HeadsNamed, AllNamed, AllTrans
  <2>2. SplitKeeps
    BY <1>3, <2>1, SplitEntries
  <2>3. mem'.ver = mem.ver
    BY <1>3, SplitShapes DEF SplitShape
  <2>4. LogKept /\ OpsSame /\ state' = state
    BY <1>3 DEF OpsSame, LogKept, SplitJob, history
  <2>5. EntriesKept
    BY <1>0, <1>1, <2>2, <2>3, <2>4 DEF EntriesKept, SplitKeeps, LogKept
  <2> QED
    BY <2>4, <2>5, CompleteKept
<1>4. ASSUME NEW h \in HeadIds, RefinePosting(h) PROVE CompleteInv'
  <2>1. InRefine'
    BY <1>4, RewriteSteps DEF InRefine
  <2>2. LogKept /\ OpsSame /\ state' = state
    BY <1>4 DEF OpsSame, LogKept, RefinePosting, history
  <2> QED
    BY <2>1, <2>2, CompleteKept DEF EntriesKept
<1> QED
  BY <1>2, <1>3, <1>4

LEMMA CompleteCrash ==
    ASSUME Base, Base', CompleteInv, CheckpointStays, Crash
    PROVE  CompleteInv'
<1> SUFFICES ASSUME Complete' PROVE CompleteInv'
  BY DEF CompleteInv
<1>1. state # "replay"
  <2>1. promise \in [Dirs -> Promises] /\ "buffer" \in Dirs
    BY DEF Base, Types, HistoryOK, Dirs
  <2> QED
    BY <2>1 DEF Crash, Complete, Buffer, Promises
<1>2. state = "running" /\ state' = "down" /\ log' = log /\ sure' = sure /\ gone' = gone /\ scan' = <<>>
  BY <1>1 DEF Crash, durable
<1>3. LogRecs' = LogRecs /\ Buffer'.sure = Buffer.sure /\ Buffer'.gone = Buffer.gone /\ \A r : r \in Recs' => r \in Recs
  BY <1>2 DEF LogRecs, ScanRecs, Recs, CheckpointStays
<1>4. Pairs /\ SureLogged /\ GoneLogged
  BY <1>1 DEF CompleteInv, Complete, CheckpointStays
<1>5. \A k \in DOMAIN log : \A v, i : DeletedAt(k, v, i) => DeletedAt(k, v, i)'
  BY <1>2 DEF DeletedAt, CheckpointStays
<1>6. Pairs' /\ SureLogged' /\ GoneLogged'
  BY <1>2, <1>3, <1>4, <1>5 DEF Pairs, SureLogged, GoneLogged
<1> QED
  BY <1>2, <1>6 DEF CompleteInv

LEMMA CompleteRecoverEnd ==
    ASSUME Base, SavesInv, ReplayedInv, CheckpointStays, RecoverEnd
    PROVE  CompleteInv'
<1> SUFFICES ASSUME Complete' PROVE CompleteInv'
  BY DEF CompleteInv
<1>1. /\ state = "replay" /\ scan = <<>> /\ state' = "running" /\ UNCHANGED <<log, size, scan, op, sure, gone, mem, promise>>
      /\ Known' = Known
  <2>1. Known' = Known
    BY KnownKept DEF SameEntries, SameHeads, RecoverEnd, durable
  <2> QED
    BY <2>1 DEF RecoverEnd, durable, history
<1>2. Complete /\ ScanRecs = {} /\ LogRecs' = LogRecs /\ Recs' = Recs /\ Recs = LogRecs /\ Buffer' = Buffer
  BY <1>1 DEF Complete, Buffer, ScanRecs, LogRecs, Recs
<1>3. /\ Pairs /\ KeysAhead /\ SureReplayed
      /\ \A v \in gone : v \in Buffer.gone
      /\ \A e \in Known : e[2] \in sure => \A r \in LogRecs : AddOf(r) => (r.id = e[1] <=> r.vec = e[2])
  BY <1>1, <1>2 DEF ReplayedInv
<1>4. \A k \in DOMAIN log : k < size /\ AddOf(log[k]) /\ log[k].id < Len(mem.ver)
  BY <1>1, <1>3 DEF KeysAhead
<1>5. \A r \in LogRecs : AddOf(r) /\ r.id < Len(mem.ver)
  BY <1>4 DEF LogRecs
<1>6. SureLogged'
  BY <1>1, <1>2, <1>3, <1>5 DEF SureReplayed, SureLogged, LogRecs
<1>7. Pairs' /\ GoneLogged' /\ KnownLogged'
  BY <1>1, <1>2, <1>3, <1>5 DEF Pairs, GoneLogged, KnownLogged
<1>8. \A c \in Clients : op'[c].kind = "idle"
  BY <1>1 DEF Base, NamesInv, StatesInv, Idle
<1> QED
  BY <1>1, <1>4, <1>6, <1>7, <1>8 DEF CompleteInv, OpLogged

LEMMA CompleteInvNext ==
    ASSUME Base, Base', SavesInv, ClaimsInv, LogInv, [Next]_vars
    PROVE  CompleteInv'
<1> SUFFICES ASSUME Complete', state' # "replay" PROVE CompleteInv'
  BY DEF CompleteInv
<1>0. /\ CompleteInv /\ ReplayedInv /\ Buffer'.sound
  BY DEF LogInv, Complete
<1>1. CASE CheckpointEnds
  BY <1>1, CompleteEnds
<1>2. CASE CheckpointStays
  <2>0. "buffer" \in Dirs /\ Buffer.sound /\ state \notin {"empty", "building"}
    BY <1>2 DEF CheckpointStays, SavesInv, BlocksInv, Buffer, Dirs
  <2>1. ~RecoverIndex /\ ~ReplayAdd /\ ~ReplayDelete
    BY DEF RecoverIndex, ReplayAdd, ReplayDelete
  <2>2. ~LoadIndex
    <3>1. promise \in [Dirs -> Promises]
      BY DEF Base, Types, HistoryOK
    <3> QED
      BY <1>0, <2>0, <3>1 DEF LoadIndex, Void, Buffer
  <2>3. ~BuildIndex /\ ~BuildEnd
    BY <2>0 DEF BuildIndex, BuildEnd
  <2>4. ~Reload
    BY <2>0, ClearLogBroken
  <2>5. CASE Crash
    BY <1>0, <1>2, <2>5, CompleteCrash
  <2>6. CASE RecoverEnd
    BY <1>0, <1>2, <2>6, CompleteRecoverEnd
  <2>7. CASE \E c \in Clients : Updates(c)
    BY <1>2, <2>7, CompleteAddBatch, CompleteAddLog, CompleteAddAppend, CompleteDeleteLog, CompleteDeleteMark DEF Updates
  <2>8. ASSUME SaverStep \/ \E h \in HeadIds : SplitJob(h) \/ RefinePosting(h), ~Crash, ~RecoverEnd PROVE CompleteInv'
    <3>1. state # "replay"
      BY <2>1, <2>2, <2>3, <2>8, RunFrame
    <3> QED
      BY <1>0, <1>2, <2>4, <2>8, <3>1, CompleteSaves
  <2> QED
    BY <2>1, <2>2, <2>3, <2>4, <2>5, <2>6, <2>7, <2>8, NextCases DEF Starts, SaverStep
<1> QED
  BY <1>0, <1>1, <1>2, BufferFrame

-----------------------------------------------------------------------------

(***************************************************************************)
(* A recovery                                                              *)
(***************************************************************************)

\* The steps of a recovery.
LEMMA RecoverySteps ==
    ASSUME Base, [Next]_vars, state' = "replay"
    PROVE  \/ RecoverIndex
           \/ state = "replay" /\ (ReplayAdd \/ ReplayDelete \/ UNCHANGED vars \/ \E h \in HeadIds : SplitJob(h))
<1>0. SaverOK
  BY DEF Base, Types
<1>1. RecoverIndex \/ (state = "replay" /\ ~RecoverEnd /\ ~Crash /\ ~LoadIndex /\ ~BuildIndex /\ ~BuildEnd)
  <2>1. ~LoadIndex /\ ~BuildIndex /\ ~BuildEnd /\ ~RecoverEnd /\ ~Crash
    BY DEF LoadIndex, BuildIndex, BuildEnd, RecoverEnd, Crash
  <2> QED
    BY <2>1, RunFrame
<1>2. ASSUME state = "replay" PROVE saver.kind = "none" /\ \A c \in Clients : op[c] = Idle
  BY <1>2 DEF Base, NamesInv, StatesInv, NoSave
<1>3. ASSUME state = "replay", NEW c \in Clients PROVE ~Updates(c)
  <2>1. Idle.kind = "idle"
    BY DEF Idle
  <2>2. op[c].kind = "idle"
    BY <1>2, <1>3, <2>1
  <2> QED
    BY <1>3, <2>2 DEF Updates, AddBatch, AddLog, AddAppend, DeleteLog, DeleteMark
<1>4. ASSUME state = "replay"
      PROVE  /\ ~SaveEnd /\ ~SaveIndex /\ ~Checkpoint /\ ~OpenFiles /\ ~SaveMetadata /\ ~SaveHeadIndex /\ ~SaveHeadFolder
             /\ ~SaveTranslateMap /\ ~SaveVersionMap /\ ~SaveMapping /\ ~SavePool /\ ~ClearLog /\ ~RefineFiles /\ ~Reload
             /\ \A h \in HeadIds : ~RefinePosting(h)
  <2>1. \A s : ~AtStep(s)
    BY <1>2, <1>4 DEF AtStep
  <2>2. ~SaveEnd /\ ~SaveIndex /\ ~Checkpoint
    BY <1>2, <1>4 DEF SaveEnd, SaveIndex, Checkpoint
  <2> QED
    BY <2>1, <2>2 DEF OpenFiles, SaveMetadata, SaveHeadIndex, SaveHeadFolder, SaveTranslateMap, SaveVersionMap, SaveMapping,
       SavePool, ClearLog, RefineFiles, Reload, RefinePosting
<1> QED
  BY <1>1, <1>3, <1>4, NextCases DEF Starts

\* What the log and a sound checkpoint say of the vectors that are promised
\* to come back is what a recovery from them starts with.
LEMMA RecoverScan ==
    ASSUME Base, RecoveredAs
    PROVE  /\ \A r : r \in ScanRecs' => r \in LogRecs
           /\ setting.wal => \A r : r \in LogRecs => r \in ScanRecs'
           /\ setting.wal => \A k \in DOMAIN log : \E i \in DOMAIN scan' : scan'[i].key = k
           /\ \A i \in DOMAIN scan' : i \in Nat /\ scan'[i].key \in DOMAIN log /\ scan'[i].rec = log[scan'[i].key]
           /\ LogInOrder => \A i, j \in DOMAIN scan' : i < j => scan'[i].key < scan'[j].key
<1>0. RunOK /\ LogOK
  BY DEF Base, Types
<1>1. /\ ScanOf(log) \in Seq([key : Nat, rec : Records])
      /\ \A i \in DOMAIN ScanOf(log) : ScanOf(log)[i].key \in DOMAIN log /\ ScanOf(log)[i].rec = log[ScanOf(log)[i].key]
      /\ \A k \in DOMAIN log : \E i \in DOMAIN ScanOf(log) : ScanOf(log)[i].key = k
      /\ LogInOrder => \A i, j \in DOMAIN ScanOf(log) : i < j => ScanOf(log)[i].key < ScanOf(log)[j].key
  BY <1>0, ScanReads
<1>2. \A i \in DOMAIN ScanOf(log) : i \in Nat
  BY <1>1
<1>3. CASE setting.wal
  <2>1. scan' = ScanOf(log)
    BY <1>3 DEF RecoveredAs
  <2>2. /\ \A i \in DOMAIN scan' : i \in Nat /\ scan'[i].key \in DOMAIN log /\ scan'[i].rec = log[scan'[i].key]
        /\ \A k \in DOMAIN log : \E i \in DOMAIN scan' : scan'[i].key = k
        /\ LogInOrder => \A i, j \in DOMAIN scan' : i < j => scan'[i].key < scan'[j].key
    BY <1>1, <1>2, <2>1
  <2>3. \A r : r \in ScanRecs' <=> r \in LogRecs
    BY <2>2 DEF ScanRecs, LogRecs
  <2> QED
    BY <2>2, <2>3
<1>4. CASE ~setting.wal
  <2>1. scan' = <<>>
    BY <1>4 DEF RecoveredAs
  <2>2. DOMAIN scan' = {}
    BY <2>1
  <2>3. ScanRecs' = {}
    BY <2>2 DEF ScanRecs
  <2> QED
    BY <1>4, <2>2, <2>3
<1> QED
  BY <1>3, <1>4

\* The three cases of a vector that a recovery promises.
RecoveryClaims ==
    LET S == SavedIn("buffer") IN
    /\ \A v \in Buffer.sure : \E e \in S : e[2] = v
    /\ \A e \in S : e[2] \in Buffer.sure => Live(mem'.ver, e[1]) /\ e[1] < BufferIds
    /\ \A e, f \in S : e[2] \in Buffer.sure /\ f[2] \in Buffer.sure => (e[1] = f[1] <=> e[2] = f[2])
    /\ \A e \in S : e[2] \in Buffer.gone => Dead(mem'.ver, e[1]) /\ e[1] < BufferIds
    /\ \A e \in S : e[2] \in sure' => e[2] \in Buffer.sure
    /\ \A r \in LogRecs : RecordOK(r) /\ r.id \in Nat
    /\ Len(mem'.ver) = BufferIds /\ BufferIds \in Nat
    /\ \/ /\ setting.wal /\ LogInOrder /\ sure' = sure /\ gone' = gone /\ Pairs /\ SureLogged /\ GoneLogged
       \/ /\ gone' = Buffer.gone /\ (\A v \in sure' : v \in Buffer.sure)
          /\ \A r \in LogRecs : ~AddOf(r) => r.vec \notin sure'

LEMMA RecoveryClaimed ==
    ASSUME Base, SavesInv, ClaimsSaved, RecordsInv, CompleteInv, Buffer.sound, RecoveredAs
    PROVE  RecoveryClaims
<1>0. "buffer" \in Dirs /\ disk["buffer"].ver = mem'.ver /\ mem'.ver \in Versions
  BY DEF Dirs, RecoveredAs
<1>1. Len(mem'.ver) = BufferIds /\ BufferIds \in Nat
  BY <1>0 DEF BufferIds, Versions
<1>2. Claims(SavedIn("buffer"), SavedIn("buffer"), mem'.ver, Buffer.sure, Buffer.gone)
  BY <1>0 DEF ClaimsSaved, Buffer
<1>3. \A i : Live(mem'.ver, i) \/ Dead(mem'.ver, i) => i < BufferIds
  BY <1>1 DEF Live, Dead
<1>4. \A e \in SavedIn("buffer") : e[2] \in sure' => e[2] \in Buffer.sure
  BY RecoverSure
<1>5. \A r \in LogRecs : RecordOK(r) /\ r.id \in Nat
  <2>1. \A r \in LogRecs : r \in Records
    BY DEF LogRecs, Base, Types, LogOK
  <2> QED
    BY <2>1, LifecycleBounds DEF RecordsInv, Recs, Records, Ids
<1>6. \/ /\ setting.wal /\ LogInOrder /\ sure' = sure /\ gone' = gone /\ Pairs /\ SureLogged /\ GoneLogged
      \/ /\ gone' = Buffer.gone /\ (\A v \in sure' : v \in Buffer.sure)
         /\ \A r \in LogRecs : ~AddOf(r) => r.vec \notin sure'
  <2>1. CASE Buffer.logged /\ LogInOrder /\ sure' = sure /\ gone' = gone
    <3>1. setting.wal
      BY <2>1 DEF SavesInv, HeadsNamed, BufferNamed, Buffer
    <3>2. Pairs /\ SureLogged /\ GoneLogged
      BY <2>1 DEF CompleteInv, Complete, RecoveredAs
    <3> QED
      BY <2>1, <3>1, <3>2
  <2>2. CASE gone' = Buffer.gone /\ sure' = Buffer.sure \ {r.vec : r \in {x \in LogRecs : ~AddOf(x)}}
    BY <2>2
  <2> QED
    BY <2>1, <2>2 DEF RecoveredAs
<1> QED
  BY <1>1, <1>2, <1>3, <1>4, <1>5, <1>6 DEF RecoveryClaims, Claims

LEMMA SureRecovered ==
    ASSUME Base, RecoveredAs, RecoveryClaims
    PROVE  SureForetold'
<1> DEFINE S == SavedIn("buffer")
<1>0. /\ Known' = S /\ Reached' = S
      /\ \A r : r \in ScanRecs' => r \in LogRecs
      /\ setting.wal => \A r : r \in LogRecs => r \in ScanRecs'
  BY RecoverScan DEF RecoveredAs
<1>1. /\ \A v \in Buffer.sure : \E e \in S : e[2] = v
      /\ \A e \in S : e[2] \in sure' => Live(mem'.ver, e[1]) /\ e[1] < BufferIds /\ e[2] \in Buffer.sure
      /\ \A e, f \in S : e[2] \in sure' /\ f[2] \in sure' => (e[1] = f[1] <=> e[2] = f[2])
      /\ \A r \in LogRecs : RecordOK(r) /\ r.id \in Nat
      /\ Len(mem'.ver) = BufferIds /\ BufferIds \in Nat
  BY DEF RecoveryClaims
<1>2. \/ setting.wal /\ sure' = sure /\ Pairs /\ SureLogged
      \/ (\A v \in sure' : v \in Buffer.sure) /\ \A r \in LogRecs : ~AddOf(r) => r.vec \notin sure'
  BY DEF RecoveryClaims
<1>3. \A r \in LogRecs : AddOf(r) => ~(r.id < BufferIds) /\ r.vec \notin Buffer.sure /\ \A s \in S : s[2] # r.vec
  BY <1>1 DEF RecordOK
<1>4. \A r \in LogRecs : ~AddOf(r) => \A s \in S : s[2] \in Buffer.sure /\ s[1] = r.id => s[2] = r.vec
  BY <1>1 DEF RecordOK
<1>5. \A e : e \in Foretold' <=> e \in S \/ \E r \in ScanRecs' : AddOf(r) /\ e = <<r.id, r.vec>>
  BY <1>0 DEF Foretold
<1> HIDE DEF S
<1>6. ASSUME NEW v \in sure' PROVE (\E e \in Reached' : e[2] = v) \/ \E r \in ScanRecs' : AddOf(r) /\ r.vec = v
  <2>1. CASE v \in Buffer.sure
    BY <1>0, <1>1, <2>1
  <2>2. CASE setting.wal /\ sure' = sure /\ SureLogged
    <3>1. v \in Buffer.sure \/ \E r \in LogRecs : AddOf(r) /\ r.vec = v
      BY <1>6, <2>2 DEF SureLogged
    <3> QED
      BY <1>0, <2>1, <2>2, <3>1
  <2> QED
    BY <1>2, <1>6, <2>1, <2>2
<1>7. \A r \in ScanRecs' : AddOf(r) /\ r.vec \in sure' /\ r.id < Len(mem'.ver) => Live(mem'.ver, r.id)
  BY <1>0, <1>1, <1>3
<1>8. ASSUME NEW q \in ScanRecs', NEW r \in ScanRecs', AddOf(q), AddOf(r), q.vec \in sure', r.vec \in sure'
      PROVE  q.id = r.id <=> q.vec = r.vec
  <2>1. setting.wal /\ Pairs
    BY <1>0, <1>2, <1>3, <1>8
  <2> QED
    BY <1>0, <1>8, <2>1 DEF Pairs, Recs
<1>9. ASSUME NEW e \in Foretold', NEW f \in Foretold', e[2] \in sure', f[2] \in sure' PROVE e[1] = f[1] <=> e[2] = f[2]
  <2>1. CASE e \in S /\ f \in S
    BY <1>1, <1>9, <2>1
  <2>2. ASSUME e \in S, NEW r \in ScanRecs', AddOf(r), f = <<r.id, r.vec>> PROVE e[1] = f[1] <=> e[2] = f[2]
    BY <1>0, <1>1, <1>3, <1>9, <2>2
  <2>3. ASSUME f \in S, NEW r \in ScanRecs', AddOf(r), e = <<r.id, r.vec>> PROVE e[1] = f[1] <=> e[2] = f[2]
    BY <1>0, <1>1, <1>3, <1>9, <2>3
  <2>4. ASSUME NEW q \in ScanRecs', NEW r \in ScanRecs', AddOf(q), AddOf(r), e = <<q.id, q.vec>>, f = <<r.id, r.vec>>
        PROVE  e[1] = f[1] <=> e[2] = f[2]
    BY <1>8, <1>9, <2>4
  <2> QED
    BY <1>5, <1>9, <2>1, <2>2, <2>3, <2>4
<1>10. ASSUME NEW r \in ScanRecs', ~AddOf(r)
       PROVE  r.vec \notin sure' /\ \A e \in Foretold' : e[2] \in sure' => e[1] # r.id
  <2>1. r.vec \notin sure'
    BY <1>0, <1>2, <1>10 DEF SureLogged
  <2>2. \A e \in S : e[2] \in sure' => e[1] # r.id
    BY <1>0, <1>1, <1>4, <1>10, <2>1
  <2>3. ASSUME NEW q \in ScanRecs', AddOf(q), q.vec \in sure' PROVE q.id # r.id
    <3>1. setting.wal /\ Pairs
      BY <1>0, <1>2, <1>3, <2>3
    <3> QED
      BY <1>0, <1>10, <2>1, <2>3, <3>1 DEF Pairs, Recs
  <2> QED
    BY <1>5, <2>1, <2>2, <2>3
<1>11. \A e \in Known' : e[2] \in sure' => Live(mem'.ver, e[1])
  BY <1>0, <1>1
<1> QED
  BY <1>6, <1>7, <1>9, <1>10, <1>11 DEF SureForetold

LEMMA GoneRecovered ==
    ASSUME Base, RecoveredAs, RecoveryClaims
    PROVE  GoneForetold'
<1> DEFINE S == SavedIn("buffer")
<1>0. /\ Known' = S
      /\ \A r : r \in ScanRecs' => r \in LogRecs
      /\ \A i \in DOMAIN scan' : i \in Nat /\ scan'[i].key \in DOMAIN log /\ scan'[i].rec = log[scan'[i].key]
  BY RecoverScan DEF RecoveredAs
<1>1. /\ \A e \in S : e[2] \in Buffer.gone => Dead(mem'.ver, e[1]) /\ e[1] < BufferIds
      /\ \A e \in S : e[2] \in Buffer.sure => e[1] < BufferIds
      /\ \A r \in LogRecs : AddOf(r) => r.vec \notin Buffer.gone
      /\ Len(mem'.ver) = BufferIds /\ BufferIds \in Nat
  BY DEF RecoveryClaims, RecordOK
<1>2. gone' = Buffer.gone \/ (setting.wal /\ LogInOrder /\ gone' = gone /\ Pairs /\ GoneLogged)
  BY DEF RecoveryClaims
<1>3. \A e : e \in Foretold' <=> e \in S \/ \E r \in ScanRecs' : AddOf(r) /\ e = <<r.id, r.vec>>
  BY <1>0 DEF Foretold
<1> HIDE DEF S
<1>4. ASSUME NEW v \in gone', v \notin Buffer.gone
      PROVE  (\E i \in DOMAIN scan' : DeletedLater(i, v)') /\ \A s \in S : s[2] = v => v \in Buffer.sure
  <2>1. setting.wal /\ LogInOrder /\ Pairs /\ v \in gone /\ GoneLogged
    BY <1>2, <1>4
  <2>2. PICK k \in DOMAIN log : DeletedAt(k, v, log[k].id)
    BY <1>4, <2>1 DEF GoneLogged
  <2>3. PICK i \in DOMAIN scan' : scan'[i].key = k
    BY <2>1, RecoverScan
  <2>4. /\ scan'[i].rec = log[k] /\ log[k].kind = "delete" /\ log[k].vec = v
        /\ \A j \in DOMAIN log : AddOf(log[j]) /\ log[j].vec = v => j < k
        /\ \A s \in S : s[2] = v => s[1] = log[k].id /\ v \in Buffer.sure
    BY <1>0, <2>2, <2>3 DEF DeletedAt, S
  <2>5. ~AddOf(log[k]) /\ log[k] \in LogRecs /\ k \in Nat
    BY <2>4 DEF AddOf, LogRecs, Base, Types, LogOK
  <2>6. ASSUME NEW j \in DOMAIN scan', AddOf(scan'[j].rec), scan'[j].rec.vec = v PROVE j < i
    <3>1. PICK m \in DOMAIN log : m = scan'[j].key
      BY <1>0, <2>6
    <3>2. m \in Nat /\ m < k
      BY <1>0, <2>4, <2>6, <3>1 DEF Base, Types, LogOK
    <3>3. i \in Nat /\ j \in Nat
      BY <1>0, <2>3, <2>6
    <3>4. ~(i < j) /\ i # j
      BY <2>1, <2>3, <2>5, <3>1, <3>2, RecoverScan
    <3> QED
      BY <3>3, <3>4
  <2>7. ASSUME NEW e \in Foretold', e[2] = v PROVE e[1] = log[k].id
    <3>1. CASE e \in S
      BY <2>4, <2>7, <3>1
    <3>2. ASSUME NEW r \in ScanRecs', AddOf(r), e = <<r.id, r.vec>> PROVE e[1] = log[k].id
      BY <1>0, <2>1, <2>4, <2>5, <2>7, <3>2 DEF Pairs, Recs
    <3> QED
      BY <1>3, <2>7, <3>1, <3>2
  <2>8. DeletedLater(i, v)'
    BY <2>3, <2>4, <2>5, <2>6, <2>7 DEF DeletedLater, AddOf
  <2> QED
    BY <2>3, <2>4, <2>8
<1>5. \A e \in Known' : e[2] \in gone' => e[1] < Len(mem'.ver)
  BY <1>0, <1>1, <1>4
<1>6. ASSUME NEW v \in gone'
      PROVE  \/ \E i \in DOMAIN scan' : DeletedLater(i, v)'
             \/ /\ \A r \in ScanRecs' : AddOf(r) => r.vec # v
                /\ \A e \in Known' : e[2] = v => Dead(mem'.ver, e[1])
  <2>1. CASE v \in Buffer.gone
    BY <1>0, <1>1, <2>1
  <2> QED
    BY <1>4, <1>6, <2>1
<1> QED
  BY <1>5, <1>6 DEF GoneForetold

LEMMA ScanTypes ==
    ASSUME LogOK
    PROVE  /\ \A i \in DOMAIN scan : i \in Nat /\ scan[i].key \in Nat /\ scan[i].rec \in Records
           /\ \A r \in ScanRecs : r.id \in Nat
<1> DEFINE R == [key : Nat, rec : Records]
<1>1. scan \in Seq(R)
  BY DEF LogOK
<1> HIDE DEF R
<1>2. \A i \in DOMAIN scan : scan[i] \in R /\ i \in Nat
  BY <1>1
<1>3. \A x \in R : x.key \in Nat /\ x.rec \in Records
  BY DEF R
<1>4. \A r \in Records : r.id \in Nat
  BY LifecycleBounds DEF Records, Ids
<1> QED
  BY <1>2, <1>3, <1>4 DEF ScanRecs

LEMMA ForetoldAdd ==
    ASSUME Base, Base', MemBlocks, ReplayAdd, SureForetold, GoneForetold
    PROVE  SureForetold' /\ GoneForetold'
<1>0. PICK r, K : r = Head(scan).rec /\ K = Head(scan).key
  OBVIOUS
<1>1. ReplayedAddAs(r, K)
  BY <1>0, ReplayAddEffect
<1>2. /\ r \in ScanRecs /\ AddOf(r) /\ r.id \in Nat /\ r.id < Len(mem'.ver) /\ sure' = sure /\ gone' = gone
      /\ \A x : x \in Known' => x \in Known \/ x = <<r.id, r.vec>>
      /\ \A x : x \in Reached \/ x = <<r.id, r.vec>> => x \in Reached'
      /\ mem.ver \in Versions /\ mem'.ver \in Versions /\ Grows(mem'.ver, mem.ver)
      /\ Len(mem.ver) \in Nat /\ Len(mem'.ver) \in Nat /\ Len(mem.ver) <= Len(mem'.ver)
      /\ scan # <<>> /\ scan' = Tail(scan)
  BY <1>1 DEF ReplayedAddAs, ReplayFrame, Grows
<1>3. \A x : x \in ScanRecs <=> x = r \/ x \in ScanRecs'
  BY <1>0, <1>2, TailRecs
<1>4. /\ \A i \in DOMAIN scan' : i + 1 \in DOMAIN scan /\ scan'[i] = scan[i + 1] /\ i \in Int
      /\ \A i \in DOMAIN scan : i # 1 => i - 1 \in DOMAIN scan' /\ scan'[i - 1] = scan[i]
      /\ \A i \in DOMAIN scan : i \in Int
      /\ scan[1].rec = r
  <2>1. /\ Len(scan) \in Nat /\ DOMAIN scan = 1..Len(scan) /\ DOMAIN scan' = 1..(Len(scan) - 1)
        /\ \A i \in DOMAIN scan' : i + 1 \in DOMAIN scan /\ scan'[i] = scan[i + 1]
        /\ \A i \in DOMAIN scan : i # 1 => i - 1 \in DOMAIN scan' /\ scan'[i - 1] = scan[i]
        /\ scan[1] = Head(scan)
    BY <1>2, TailRecs
  <2> QED
    BY <1>0, <2>1
<1>5. /\ \A i : (Live(mem.ver, i) => Live(mem'.ver, i)) /\ (Dead(mem.ver, i) => Dead(mem'.ver, i))
      /\ \A i \in Nat : i < Len(mem'.ver) /\ ~(i < Len(mem.ver)) => Live(mem'.ver, i)
  BY <1>2, GrownIds
<1>6. \A e \in Foretold' : e \in Foretold
  BY <1>2, <1>3 DEF Foretold
<1>7. \A q \in ScanRecs : q.id \in Nat
  BY ScanTypes DEF Base, Types
<1>8. SureForetold'
  <2>1. \A v \in sure' : (\E e \in Reached' : e[2] = v) \/ \E q \in ScanRecs' : AddOf(q) /\ q.vec = v
    <3>1. <<r.id, r.vec>> \in Reached' /\ <<r.id, r.vec>>[2] = r.vec
      BY <1>2
    <3>2. \E e \in Reached' : e[2] = r.vec
      BY <3>1
    <3> QED
      BY <1>2, <1>3, <3>2 DEF SureForetold
  <2>2. ASSUME NEW e \in Known', e[2] \in sure' PROVE Live(mem'.ver, e[1])
    <3>1. CASE e \in Known
      BY <1>2, <1>5, <2>2, <3>1 DEF SureForetold
    <3>2. CASE e = <<r.id, r.vec>>
      BY <1>2, <1>5, <2>2, <3>2 DEF SureForetold
    <3> QED
      BY <1>2, <2>2, <3>1, <3>2
  <2>3. \A q \in ScanRecs' : AddOf(q) /\ q.vec \in sure' /\ q.id < Len(mem'.ver) => Live(mem'.ver, q.id)
    BY <1>2, <1>3, <1>5, <1>7 DEF SureForetold
  <2>4. \A e, f \in Foretold' : e[2] \in sure' /\ f[2] \in sure' => (e[1] = f[1] <=> e[2] = f[2])
    BY <1>2, <1>6 DEF SureForetold
  <2>5. \A q \in ScanRecs' : ~AddOf(q) => q.vec \notin sure' /\ \A e \in Foretold' : e[2] \in sure' => e[1] # q.id
    BY <1>2, <1>3, <1>6 DEF SureForetold
  <2> QED
    BY <2>1, <2>2, <2>3, <2>4, <2>5 DEF SureForetold
<1>9. GoneForetold'
  <2>1. ASSUME NEW e \in Known', e[2] \in gone' PROVE e[1] < Len(mem'.ver)
    <3>1. CASE e \in Known
      <4>1. e[1] < Len(mem.ver) /\ e[1] \in Nat
        <5>1. e \in Ids \X Vectors
          BY <3>1, EntryTypes DEF Base, Types, WorkOK
        <5>2. e[1] \in Nat
          BY <5>1, LifecycleBounds DEF Ids
        <5> QED
          BY <1>2, <2>1, <3>1, <5>2 DEF GoneForetold
      <4> QED
        BY <1>2, <4>1
    <3>2. CASE e = <<r.id, r.vec>>
      BY <1>2, <3>2
    <3> QED
      BY <1>2, <2>1, <3>1, <3>2
  <2>2. ASSUME NEW v \in gone', NEW i \in DOMAIN scan, DeletedLater(i, v) PROVE \E j \in DOMAIN scan' : DeletedLater(j, v)'
    <3>1. i # 1
      BY <1>2, <1>4, <2>2 DEF DeletedLater
    <3>2. PICK j \in DOMAIN scan' : j = i - 1 /\ scan'[j] = scan[i]
      BY <1>4, <3>1
    <3>3. \A m \in DOMAIN scan' : AddOf(scan'[m].rec) /\ scan'[m].rec.vec = v => m < j
      <4>1. \A m \in DOMAIN scan' : AddOf(scan'[m].rec) /\ scan'[m].rec.vec = v => m + 1 < i
        BY <1>4, <2>2 DEF DeletedLater
      <4> QED
        BY <1>4, <3>2, <4>1
    <3>4. DeletedLater(j, v)'
      BY <1>6, <2>2, <3>2, <3>3 DEF DeletedLater, AddOf
    <3> QED
      BY <3>4
  <2>3. ASSUME NEW v \in gone', \A q \in ScanRecs : AddOf(q) => q.vec # v, \A e \in Known : e[2] = v => Dead(mem.ver, e[1])
        PROVE  (\A q \in ScanRecs' : AddOf(q) => q.vec # v) /\ \A e \in Known' : e[2] = v => Dead(mem'.ver, e[1])
    BY <1>2, <1>3, <1>5, <2>3
  <2> QED
    BY <1>2, <2>1, <2>2, <2>3 DEF GoneForetold
<1> QED
  BY <1>8, <1>9

LEMMA ForetoldDelete ==
    ASSUME Base, Base', ReplayDelete, SureForetold, GoneForetold
    PROVE  SureForetold' /\ GoneForetold'
<1>0. PICK r, K : r = Head(scan).rec /\ K = Head(scan).key
  OBVIOUS
<1>1. ReplayedDeleteAs(r, K)
  BY <1>0, ReplayDeleteEffect
<1>2. /\ r \in ScanRecs /\ ~AddOf(r) /\ r.id \in Nat /\ sure' = sure /\ gone' = gone
      /\ Known' = Known /\ Reached' = Reached
      /\ mem.ver \in Versions /\ Len(mem.ver) \in Nat
      /\ (mem'.ver = mem.ver \/ Marks(mem'.ver, mem.ver, r.id)) /\ (r.id < Len(mem.ver) => Marks(mem'.ver, mem.ver, r.id))
      /\ scan # <<>> /\ scan' = Tail(scan)
  BY <1>1 DEF ReplayedDeleteAs, ReplayFrame
<1>3. \A x : x \in ScanRecs <=> x = r \/ x \in ScanRecs'
  BY <1>0, <1>2, TailRecs
<1>4. /\ \A i \in DOMAIN scan' : i + 1 \in DOMAIN scan /\ scan'[i] = scan[i + 1] /\ i \in Int /\ i >= 1
      /\ \A i \in DOMAIN scan : i # 1 => i - 1 \in DOMAIN scan' /\ scan'[i - 1] = scan[i]
      /\ \A i \in DOMAIN scan : i \in Int
      /\ scan[1].rec = r
  <2>1. /\ Len(scan) \in Nat /\ DOMAIN scan = 1..Len(scan) /\ DOMAIN scan' = 1..(Len(scan) - 1)
        /\ \A i \in DOMAIN scan' : i + 1 \in DOMAIN scan /\ scan'[i] = scan[i + 1]
        /\ \A i \in DOMAIN scan : i # 1 => i - 1 \in DOMAIN scan' /\ scan'[i - 1] = scan[i]
        /\ scan[1] = Head(scan)
    BY <1>2, TailRecs
  <2> QED
    BY <1>0, <2>1
<1>5. /\ \A i : i # r.id /\ Live(mem.ver, i) => Live(mem'.ver, i)
      /\ \A i : Dead(mem.ver, i) => Dead(mem'.ver, i)
      /\ r.id < Len(mem.ver) => Dead(mem'.ver, r.id)
      /\ Len(mem'.ver) = Len(mem.ver)
  <2>1. CASE Marks(mem'.ver, mem.ver, r.id)
    BY <1>2, <2>1, MarkedIds DEF Marks
  <2>2. CASE mem'.ver = mem.ver /\ ~(r.id < Len(mem.ver))
    BY <2>2
  <2> QED
    BY <1>2, <2>1, <2>2
<1>6. \A e \in Foretold' : e \in Foretold
  BY <1>2, <1>3 DEF Foretold
<1>7. SureForetold'
  <2>1. \A v \in sure' : (\E e \in Reached' : e[2] = v) \/ \E q \in ScanRecs' : AddOf(q) /\ q.vec = v
    BY <1>2, <1>3 DEF SureForetold
  <2>2. \A e \in Foretold : e[2] \in sure => e[1] # r.id
    BY <1>2 DEF SureForetold
  <2>3. \A e \in Known' : e[2] \in sure' => Live(mem'.ver, e[1])
    BY <1>2, <1>5, <2>2 DEF SureForetold, Foretold
  <2>4. ASSUME NEW q \in ScanRecs', AddOf(q), q.vec \in sure', q.id < Len(mem'.ver) PROVE Live(mem'.ver, q.id)
    <3>1. <<q.id, q.vec>> \in Foretold /\ Live(mem.ver, q.id)
      BY <1>2, <1>3, <1>5, <2>4 DEF SureForetold, Foretold
    <3>2. q.id # r.id
      BY <1>2, <2>2, <2>4, <3>1
    <3> QED
      BY <1>5, <3>1, <3>2
  <2>5. \A e, f \in Foretold' : e[2] \in sure' /\ f[2] \in sure' => (e[1] = f[1] <=> e[2] = f[2])
    BY <1>2, <1>6 DEF SureForetold
  <2>6. \A q \in ScanRecs' : ~AddOf(q) => q.vec \notin sure' /\ \A e \in Foretold' : e[2] \in sure' => e[1] # q.id
    BY <1>2, <1>3, <1>6 DEF SureForetold
  <2> QED
    BY <2>1, <2>3, <2>4, <2>5, <2>6 DEF SureForetold
<1>8. GoneForetold'
  <2>1. \A e \in Known' : e[2] \in gone' => e[1] < Len(mem'.ver)
    BY <1>2, <1>5 DEF GoneForetold
  <2>2. ASSUME NEW v \in gone', NEW i \in DOMAIN scan, i # 1, DeletedLater(i, v) PROVE \E j \in DOMAIN scan' : DeletedLater(j, v)'
    <3>1. PICK j \in DOMAIN scan' : j = i - 1 /\ scan'[j] = scan[i]
      BY <1>4, <2>2
    <3>2. \A m \in DOMAIN scan' : AddOf(scan'[m].rec) /\ scan'[m].rec.vec = v => m < j
      <4>1. \A m \in DOMAIN scan' : AddOf(scan'[m].rec) /\ scan'[m].rec.vec = v => m + 1 < i
        BY <1>4, <2>2 DEF DeletedLater
      <4> QED
        BY <1>4, <3>1, <4>1
    <3>3. DeletedLater(j, v)'
      BY <1>6, <2>2, <3>1, <3>2 DEF DeletedLater, AddOf
    <3> QED
      BY <3>3
  <2>3. ASSUME NEW v \in gone', 1 \in DOMAIN scan, DeletedLater(1, v)
        PROVE  (\A q \in ScanRecs' : AddOf(q) => q.vec # v) /\ \A e \in Known' : e[2] = v => Dead(mem'.ver, e[1])
    <3>1. /\ \A j \in DOMAIN scan : AddOf(scan[j].rec) /\ scan[j].rec.vec = v => j < 1
          /\ \A e \in Foretold : e[2] = v => e[1] = r.id
      BY <1>4, <2>3 DEF DeletedLater
    <3>2. \A q \in ScanRecs' : AddOf(q) => q.vec # v
      <4>1. \A j \in DOMAIN scan' : AddOf(scan'[j].rec) => scan'[j].rec.vec # v
        <5>1. ASSUME NEW j \in DOMAIN scan', AddOf(scan'[j].rec), scan'[j].rec.vec = v PROVE FALSE
          <6>1. j + 1 < 1
            BY <1>4, <3>1, <5>1
          <6> QED
            BY <1>4, <5>1, <6>1
        <5> QED
          BY <5>1
      <4> QED
        BY <4>1 DEF ScanRecs
    <3>3. \A e \in Known' : e[2] = v => Dead(mem'.ver, e[1])
      <4>1. \A e \in Known : e[2] = v => e[1] < Len(mem.ver) /\ e[1] = r.id
        BY <1>2, <2>3, <3>1 DEF GoneForetold, Foretold
      <4> QED
        BY <1>2, <1>5, <4>1
    <3> QED
      BY <3>2, <3>3
  <2>4. ASSUME NEW v \in gone', \A q \in ScanRecs : AddOf(q) => q.vec # v, \A e \in Known : e[2] = v => Dead(mem.ver, e[1])
        PROVE  (\A q \in ScanRecs' : AddOf(q) => q.vec # v) /\ \A e \in Known' : e[2] = v => Dead(mem'.ver, e[1])
    BY <1>2, <1>3, <1>5, <2>4
  <2> QED
    BY <1>2, <2>1, <2>2, <2>3, <2>4 DEF GoneForetold
<1> QED
  BY <1>7, <1>8

LEMMA ForetoldSplit ==
    ASSUME SplitKeeps, mem'.ver = mem.ver, UNCHANGED <<scan, sure, gone>>, SureForetold, GoneForetold
    PROVE  SureForetold' /\ GoneForetold'
<1>1. ScanRecs' = ScanRecs
  BY DEF ScanRecs
<1>2. \A x \in Known' : x \in Known
  BY DEF SplitKeeps
<1>3. \A x \in Reached : x \in Known
  BY EntriesNow DEF Holds
<1>4. \A e \in Foretold' : e \in Foretold
  BY <1>1, <1>2 DEF Foretold
<1>5. SureForetold'
  <2>1. \A v \in sure' : (\E e \in Reached' : e[2] = v) \/ \E q \in ScanRecs' : AddOf(q) /\ q.vec = v
    <3>1. \A e \in Reached : e[2] \in sure => e \in Reached'
      BY <1>3 DEF SureForetold, SplitKeeps
    <3> QED
      BY <1>1, <3>1 DEF SureForetold
  <2> QED
    BY <1>1, <1>2, <1>4, <2>1 DEF SureForetold
<1>6. \A i, v : DeletedLater(i, v) => DeletedLater(i, v)'
  BY <1>4 DEF DeletedLater
<1>7. GoneForetold'
  BY <1>1, <1>2, <1>6 DEF GoneForetold
<1> QED
  BY <1>5, <1>7

LEMMA ReplayInvNext ==
    ASSUME Base, Base', SavesInv, ClaimsInv, LogInv, [Next]_vars
    PROVE  ReplayInv'
<1> SUFFICES ASSUME state' = "replay" PROVE ReplayInv'
  BY DEF ReplayInv
<1>0. promise \in [Dirs -> Promises] /\ "buffer" \in Dirs
  BY DEF Base, Types, HistoryOK, Dirs
<1>1. CASE RecoverIndex
  <2>1. trusted' = Buffer.sound /\ Buffer'.sound = Buffer.sound
    <3>1. promise["buffer"] \in Promises /\ promise'["buffer"] = [promise["buffer"] EXCEPT !.logged = @ /\ LogInOrder]
          /\ trusted' = Buffer.sound
      BY <1>0, <1>1 DEF RecoverIndex, Dirs, Buffer
    <3> QED
      BY <3>1 DEF Promises, Buffer
  <2>2. ASSUME Buffer.sound PROVE SureForetold' /\ GoneForetold'
    <3>1. RecoveredAs
      BY <1>1, <2>2, RecoverEffect
    <3>2. RecoveryClaims
      BY <2>2, <3>1, RecoveryClaimed DEF ClaimsInv, LogInv
    <3> QED
      BY <3>1, <3>2, SureRecovered, GoneRecovered
  <2> QED
    BY <2>1, <2>2 DEF ReplayInv
<1>2. ASSUME state = "replay", ReplayAdd \/ ReplayDelete \/ UNCHANGED vars \/ \E h \in HeadIds : SplitJob(h) PROVE ReplayInv'
  <2>0. trusted => Buffer.sound
    BY <1>2 DEF LogInv, ReplayInv
  <2>1. Buffer'.sound = Buffer.sound /\ trusted' = trusted
    <3>1. CASE ReplayAdd \/ UNCHANGED vars \/ \E h \in HeadIds : SplitJob(h)
      BY <3>1 DEF ReplayAdd, SplitJob, vars, history, Buffer
    <3>2. CASE ReplayDelete
      <4>1. promise["buffer"] \in Promises /\ promise'["buffer"] = [promise["buffer"] EXCEPT !.logged = FALSE] /\ trusted' = trusted
        BY <1>0, <3>2 DEF ReplayDelete
      <4> QED
        BY <4>1 DEF Promises, Buffer
    <3> QED
      BY <1>2, <3>1, <3>2
  <2>2. ASSUME Buffer.sound PROVE SureForetold' /\ GoneForetold'
    <3>1. SureForetold /\ GoneForetold
      BY <1>2, <2>2 DEF LogInv, ReplayInv
    <3>2. trusted /\ MemBlocks /\ AllTrans
      BY <1>0, <2>2 DEF SavesInv, BlocksInv, HeadsNamed, AllNamed, AllTrans, Buffer
    <3>3. CASE ReplayAdd
      BY <3>1, <3>2, <3>3, ForetoldAdd
    <3>4. CASE ReplayDelete
      BY <3>1, <3>4, ForetoldDelete
    <3>5. ASSUME NEW h \in HeadIds, SplitJob(h) PROVE SureForetold' /\ GoneForetold'
      <4>1. SplitKeeps
        BY <3>2, <3>5, SplitEntries
      <4>2. mem'.ver = mem.ver /\ UNCHANGED <<scan, sure, gone>>
        BY <3>5, SplitShapes DEF SplitShape, SplitJob, history
      <4> QED
        BY <3>1, <4>1, <4>2, ForetoldSplit
    <3>6. CASE UNCHANGED vars
      <4>1. SplitKeeps /\ mem' = mem /\ UNCHANGED <<scan, sure, gone>>
        <5>1. UNCHANGED <<mem, jobs, blocks, setting, scan, sure, gone>>
          BY <3>6 DEF vars
        <5>2. Known' = Known /\ Reached' = Reached
          BY <5>1, KnownKept DEF SameEntries, SameHeads
        <5> QED
          BY <5>1, <5>2 DEF SplitKeeps
      <4> QED
        BY <3>1, <4>1, ForetoldSplit
    <3> QED
      BY <1>2, <3>3, <3>4, <3>5, <3>6
  <2> QED
    BY <2>0, <2>1, <2>2 DEF ReplayInv
<1> QED
  BY <1>1, <1>2, RecoverySteps

LEMMA ReplayedRecover ==
    ASSUME Base, SavesInv, ClaimsInv, LogInv, RecoverIndex, Complete'
    PROVE  ReplayedInv'
<1>0. RecoveredAs /\ Buffer.sound
  <2>1. promise["buffer"] \in Promises /\ promise'["buffer"] = [promise["buffer"] EXCEPT !.logged = @ /\ LogInOrder]
    BY DEF RecoverIndex, Dirs, Base, Types, HistoryOK
  <2>2. Buffer.sound
    BY <2>1 DEF Complete, Buffer, Promises
  <2> QED
    BY <2>2, RecoverEffect
<1>1. RecoveryClaims
  BY <1>0, RecoveryClaimed DEF ClaimsInv, LogInv
<1>2. Buffer.logged /\ LogInOrder /\ sure' = sure /\ gone' = gone /\ state = "down" /\ log' = log /\ size' = size
  BY <1>0 DEF RecoveredAs, Complete
<1>3. Pairs /\ SureLogged /\ GoneLogged /\ size' = 0 /\ setting.wal
  BY <1>0, <1>2 DEF LogInv, CompleteInv, Complete, DownEmpty, SavesInv, HeadsNamed, BufferNamed, Buffer
<1>4. /\ \A r : r \in ScanRecs' <=> r \in LogRecs
      /\ \A k \in DOMAIN log : \E i \in DOMAIN scan' : scan'[i].key = k
      /\ \A i \in DOMAIN scan' : scan'[i].key \in DOMAIN log /\ scan'[i].rec = log[scan'[i].key]
      /\ \A i, j \in DOMAIN scan' : i < j => scan'[i].key < scan'[j].key
      /\ \A k \in DOMAIN log : k \in Nat
  BY <1>0, <1>2, <1>3, RecoverScan DEF Base, Types, LogOK
<1>5. \A r : r \in Recs' => r \in LogRecs
  BY <1>2, <1>4 DEF Recs, LogRecs
<1>6. Buffer'.sure = Buffer.sure /\ Buffer'.gone = Buffer.gone
  <2>1. promise["buffer"] \in Promises /\ promise'["buffer"] = [promise["buffer"] EXCEPT !.logged = @ /\ LogInOrder]
    BY DEF RecoverIndex, Dirs, Base, Types, HistoryOK
  <2> QED
    BY <2>1 DEF Buffer, Promises
<1>7. Pairs'
  BY <1>3, <1>5 DEF Pairs, Recs
<1>8. KeysAhead'
  BY <1>2, <1>3, <1>4 DEF KeysAhead
<1>9. SureReplayed'
  BY <1>2, <1>3, <1>4, <1>6 DEF SureReplayed, SureLogged
<1>10. \A v \in gone' : v \in Buffer'.gone \/ \E r \in ScanRecs' : ~AddOf(r) /\ r.vec = v
  <2>1. \A k \in DOMAIN log : \A v, i : DeletedAt(k, v, i) => log[k] \in LogRecs /\ ~AddOf(log[k]) /\ log[k].vec = v
    BY DEF DeletedAt, LogRecs, AddOf
  <2> QED
    BY <1>2, <1>3, <1>4, <1>6, <2>1 DEF GoneLogged
<1>11. ASSUME NEW e \in Known', e[2] \in sure', NEW r \in Recs', AddOf(r) PROVE r.id = e[1] <=> r.vec = e[2]
  <2>1. e \in SavedIn("buffer")
    BY <1>0, <1>11 DEF RecoveredAs
  <2>2. e[2] \in Buffer.sure /\ e[1] < BufferIds
    BY <1>1, <1>11, <2>1 DEF RecoveryClaims
  <2>3. r.id >= BufferIds /\ r.vec # e[2] /\ r.id \in Nat /\ BufferIds \in Nat
    BY <1>1, <1>5, <1>11, <2>1 DEF RecoveryClaims, RecordOK
  <2> QED
    BY <2>2, <2>3
<1> QED
  BY <1>7, <1>8, <1>9, <1>10, <1>11 DEF ReplayedInv

LEMMA ReplayedAdd ==
    ASSUME Base, Base', MemBlocks, ReplayedInv, Complete', ReplayAdd
    PROVE  ReplayedInv'
<1>0. PICK r, K : r = Head(scan).rec /\ K = Head(scan).key
  OBVIOUS
<1>1. ReplayedAddAs(r, K)
  BY <1>0, ReplayAddEffect
<1>2. /\ r \in ScanRecs /\ AddOf(r) /\ r.id \in Nat /\ r.id < Len(mem'.ver) /\ sure' = sure /\ gone' = gone /\ K \in Nat
      /\ \A x : x \in Known' => x \in Known \/ x = <<r.id, r.vec>>
      /\ Len(mem.ver) \in Nat /\ Len(mem'.ver) \in Nat /\ Len(mem.ver) <= Len(mem'.ver)
      /\ scan # <<>> /\ scan' = Tail(scan) /\ Buffer' = Buffer /\ state = "replay" /\ size' = K + 2
  BY <1>1 DEF ReplayedAddAs, ReplayFrame, Grows, Buffer
<1>3. /\ DOMAIN log' = DOMAIN log \cup {K + 1} /\ log'[K + 1] = r
      /\ \A k \in DOMAIN log : k \in Nat /\ k \in DOMAIN log' /\ (k # K + 1 => log'[k] = log[k])
      /\ size \in Nat /\ \A k \in DOMAIN log : log[k].id \in Nat
  <2>1. log' = [i \in DOMAIN log \cup {K + 1} |-> IF i = K + 1 THEN r ELSE log[i]]
    BY <1>1 DEF ReplayedAddAs
  <2>2. \A k \in DOMAIN log : k \in Nat /\ log[k] \in Records
    BY DEF Base, Types, LogOK
  <2> QED
    BY <2>1, <2>2, LifecycleBounds DEF Base, Types, LogOK, Records, Ids
<1>4. \A x : x \in ScanRecs <=> x = r \/ x \in ScanRecs'
  BY <1>0, <1>2, TailRecs
<1>5. /\ \A i \in DOMAIN scan' : i + 1 \in DOMAIN scan /\ scan'[i] = scan[i + 1] /\ i \in Nat /\ i >= 1
      /\ \A i \in DOMAIN scan : i # 1 => i - 1 \in DOMAIN scan' /\ scan'[i - 1] = scan[i] /\ 1 < i
      /\ scan[1].rec = r /\ scan[1].key = K /\ 1 \in DOMAIN scan
  <2>1. /\ Len(scan) \in Nat /\ DOMAIN scan = 1..Len(scan) /\ DOMAIN scan' = 1..(Len(scan) - 1) /\ Len(scan) >= 1
        /\ \A i \in DOMAIN scan' : i + 1 \in DOMAIN scan /\ scan'[i] = scan[i + 1]
        /\ \A i \in DOMAIN scan : i # 1 => i - 1 \in DOMAIN scan' /\ scan'[i - 1] = scan[i]
        /\ scan[1] = Head(scan)
    BY <1>2, TailRecs
  <2> QED
    BY <1>0, <2>1
<1>6. \A i \in DOMAIN scan : scan[i].key \in Nat
  BY ScanTypes DEF Base, Types
<1>7. /\ Pairs /\ SureReplayed
      /\ \A v \in gone : v \in Buffer.gone \/ \E q \in ScanRecs : ~AddOf(q) /\ q.vec = v
      /\ \A e \in Known : e[2] \in sure => \A q \in Recs : AddOf(q) => (q.id = e[1] <=> q.vec = e[2])
      /\ \A i, j \in DOMAIN scan : i < j => scan[i].key < scan[j].key
      /\ \A i \in DOMAIN scan : scan[i].key >= size - 1
      /\ \A k \in DOMAIN log : k < size \/ \E i \in DOMAIN scan : scan[i].key = k /\ log[k] = scan[i].rec
      /\ \A k \in DOMAIN log : k < size => AddOf(log[k]) /\ log[k].id < Len(mem.ver)
  BY <1>2 DEF ReplayedInv, Complete, KeysAhead
<1>8. size <= K + 1 /\ \A i \in DOMAIN scan : i # 1 => K < scan[i].key
  BY <1>2, <1>3, <1>5, <1>7
<1>9. \A x : x \in Recs' => x \in Recs
  BY <1>2, <1>3, <1>4 DEF Recs, LogRecs
<1>10. Pairs'
  BY <1>7, <1>9 DEF Pairs
<1>11. KeysAhead'
  <2>1. \A i, j \in DOMAIN scan' : i < j => scan'[i].key < scan'[j].key
    <3>1. ASSUME NEW i \in DOMAIN scan', NEW j \in DOMAIN scan', i < j PROVE scan'[i].key < scan'[j].key
      <4>1. i + 1 < j + 1 /\ i + 1 \in DOMAIN scan /\ j + 1 \in DOMAIN scan
        BY <1>5, <3>1
      <4> QED
        BY <1>5, <1>7, <4>1
    <3> QED
      BY <3>1
  <2>2. \A i \in DOMAIN scan' : scan'[i].key >= size' - 1
    <3>1. ASSUME NEW i \in DOMAIN scan' PROVE scan'[i].key >= size' - 1
      <4>1. i + 1 \in DOMAIN scan /\ i + 1 # 1 /\ scan'[i] = scan[i + 1]
        BY <1>5, <3>1
      <4>2. K < scan'[i].key /\ scan'[i].key \in Nat
        BY <1>6, <1>8, <4>1
      <4> QED
        BY <1>2, <4>2
    <3> QED
      BY <3>1
  <2>3. ASSUME NEW k \in DOMAIN log', ~(k < size') PROVE \E i \in DOMAIN scan' : scan'[i].key = k /\ log'[k] = scan'[i].rec
    <3>1. k \in DOMAIN log /\ k # K + 1 /\ k \in Nat /\ ~(k < size) /\ k # K
      BY <1>2, <1>3, <1>8, <2>3
    <3>2. PICK i \in DOMAIN scan : scan[i].key = k /\ log[k] = scan[i].rec
      BY <1>7, <3>1
    <3>3. i # 1
      BY <1>5, <3>1, <3>2
    <3>4. i - 1 \in DOMAIN scan' /\ scan'[i - 1] = scan[i] /\ log'[k] = log[k]
      BY <1>3, <1>5, <3>1, <3>3
    <3> QED
      BY <3>2, <3>4
  <2>4. ASSUME NEW k \in DOMAIN log', k < size' PROVE AddOf(log'[k]) /\ log'[k].id < Len(mem'.ver)
    <3>1. CASE k = K + 1
      BY <1>2, <1>3, <3>1
    <3>2. CASE k # K + 1 /\ k < size
      <4>1. k \in DOMAIN log /\ log'[k] = log[k] /\ log[k].id \in Nat /\ AddOf(log[k]) /\ log[k].id < Len(mem.ver)
        BY <1>3, <1>7, <2>4, <3>2
      <4> QED
        BY <1>2, <4>1
    <3>3. CASE k # K + 1 /\ ~(k < size)
      <4>1. k \in DOMAIN log /\ log'[k] = log[k] /\ k \in Nat
        BY <1>3, <2>4, <3>3
      <4>2. PICK i \in DOMAIN scan : scan[i].key = k /\ log[k] = scan[i].rec
        BY <1>7, <3>3, <4>1
      <4>3. i = 1
        BY <1>2, <1>8, <2>4, <3>3, <4>1, <4>2
      <4> QED
        BY <1>2, <1>5, <4>1, <4>2, <4>3
    <3> QED
      BY <3>1, <3>2, <3>3
  <2> QED
    BY <2>1, <2>2, <2>3, <2>4 DEF KeysAhead
<1>12. SureReplayed'
  <2>1. ASSUME NEW v \in sure, v \notin Buffer.sure
        PROVE  \/ \E k \in DOMAIN log' : k < size' /\ AddOf(log'[k]) /\ log'[k].vec = v
               \/ \E q \in ScanRecs' : AddOf(q) /\ q.vec = v
    <3>1. CASE \E k \in DOMAIN log : k < size /\ AddOf(log[k]) /\ log[k].vec = v
      <4>1. PICK k \in DOMAIN log : k < size /\ AddOf(log[k]) /\ log[k].vec = v
        BY <3>1
      <4>2. k \in DOMAIN log' /\ log'[k] = log[k] /\ k < size'
        BY <1>2, <1>3, <1>8, <4>1
      <4> QED
        BY <4>1, <4>2
    <3>2. CASE \E q \in ScanRecs : AddOf(q) /\ q.vec = v
      <4>1. K + 1 \in DOMAIN log' /\ K + 1 < size' /\ log'[K + 1] = r
        BY <1>2, <1>3
      <4> QED
        BY <1>2, <1>4, <3>2, <4>1
    <3> QED
      BY <1>7, <2>1, <3>1, <3>2 DEF SureReplayed
  <2> QED
    BY <1>2, <2>1 DEF SureReplayed
<1>13. \A v \in gone' : v \in Buffer'.gone \/ \E q \in ScanRecs' : ~AddOf(q) /\ q.vec = v
  BY <1>2, <1>4, <1>7
<1>14. ASSUME NEW e \in Known', e[2] \in sure', NEW q \in Recs', AddOf(q) PROVE q.id = e[1] <=> q.vec = e[2]
  <2>1. CASE e \in Known
    BY <1>2, <1>7, <1>9, <1>14, <2>1
  <2>2. CASE e = <<r.id, r.vec>>
    <3>1. r \in Recs /\ q \in Recs
      BY <1>2, <1>9, <1>14 DEF Recs
    <3> QED
      BY <1>7, <1>14, <2>2, <3>1 DEF Pairs
  <2> QED
    BY <1>2, <1>14, <2>1, <2>2
<1> QED
  BY <1>10, <1>11, <1>12, <1>13, <1>14 DEF ReplayedInv

LEMMA ReplayedInvNext ==
    ASSUME Base, Base', SavesInv, ClaimsInv, LogInv, [Next]_vars
    PROVE  ReplayedInv'
<1> SUFFICES ASSUME Complete', state' = "replay" PROVE ReplayedInv'
  BY DEF ReplayedInv
<1>1. CASE RecoverIndex
  BY <1>1, ReplayedRecover
<1>2. ASSUME state = "replay", ReplayAdd \/ ReplayDelete \/ UNCHANGED vars \/ \E h \in HeadIds : SplitJob(h) PROVE ReplayedInv'
  <2>1. CASE ReplayDelete
    <3>1. ~Buffer'.logged
      BY <2>1, ReplayDeleteEffect DEF ReplayedDeleteAs
    <3> QED
      BY <3>1 DEF Complete
  <2>2. ASSUME ~ReplayDelete PROVE Complete /\ Buffer' = Buffer /\ trusted /\ MemBlocks /\ AllTrans
    <3>1. promise' = promise
      BY <1>2, <2>2 DEF ReplayAdd, SplitJob, vars, history
    <3>2. Complete /\ Buffer' = Buffer /\ "buffer" \in Dirs
      BY <3>1 DEF Complete, Buffer, Dirs
    <3> QED
      BY <3>2 DEF SavesInv, BlocksInv, HeadsNamed, AllNamed, AllTrans, Complete, Buffer
  <2>3. CASE ReplayAdd
    <3>1. ~ReplayDelete
      BY <2>3 DEF ReplayAdd, ReplayDelete
    <3> QED
      BY <2>2, <2>3, <3>1, ReplayedAdd DEF LogInv
  <2>4. ASSUME ~ReplayDelete, UNCHANGED <<log, size, scan, sure, gone>>, mem'.ver = mem.ver, \A x \in Known' : x \in Known
        PROVE  ReplayedInv'
    <3>1. /\ Pairs /\ KeysAhead /\ SureReplayed
          /\ \A v \in gone : v \in Buffer.gone \/ \E r \in ScanRecs : ~AddOf(r) /\ r.vec = v
          /\ \A e \in Known : e[2] \in sure => \A r \in Recs : AddOf(r) => (r.id = e[1] <=> r.vec = e[2])
      BY <1>2, <2>2, <2>4 DEF LogInv, ReplayedInv
    <3>2. Recs' = Recs /\ ScanRecs' = ScanRecs /\ LogRecs' = LogRecs /\ Buffer' = Buffer
      BY <2>2, <2>4 DEF Recs, ScanRecs, LogRecs
    <3>3. Pairs' /\ KeysAhead' /\ SureReplayed'
      BY <2>4, <3>1, <3>2 DEF Pairs, KeysAhead, SureReplayed
    <3> QED
      BY <2>4, <3>1, <3>2, <3>3 DEF ReplayedInv
  <2>5. ASSUME ~ReplayDelete, NEW h \in HeadIds, SplitJob(h) PROVE ReplayedInv'
    <3>1. SplitKeeps
      BY <2>2, <2>5, SplitEntries
    <3>2. mem'.ver = mem.ver /\ UNCHANGED <<log, size, scan, sure, gone>>
      BY <2>5, SplitShapes DEF SplitShape, SplitJob, history
    <3> QED
      BY <2>4, <2>5, <3>1, <3>2 DEF SplitKeeps
  <2>6. ASSUME ~ReplayDelete, UNCHANGED vars PROVE ReplayedInv'
    <3>1. UNCHANGED <<mem, jobs, blocks, setting, log, size, scan, sure, gone>>
      BY <2>6 DEF vars
    <3>2. Known' = Known
      BY <3>1, KnownKept DEF SameEntries, SameHeads
    <3> QED
      BY <2>4, <2>6, <3>1, <3>2
  <2> QED
    BY <1>2, <2>1, <2>3, <2>5, <2>6
<1> QED
  BY <1>1, <1>2, RecoverySteps

LEMMA DownEmptyNext ==
    ASSUME Base, DownEmpty, [Next]_vars
    PROVE  DownEmpty'
<1> SUFFICES ASSUME state' = "down" PROVE size' = 0
  BY DEF DownEmpty
<1>1. CASE Crash
  BY <1>1 DEF Crash
<1>2. CASE ~Crash
  <2>1. ~LoadIndex /\ ~RecoverIndex /\ ~BuildIndex /\ ~BuildEnd /\ ~RecoverEnd
    BY DEF LoadIndex, RecoverIndex, BuildIndex, BuildEnd, RecoverEnd
  <2>2. state = "down" /\ size = 0
    BY <1>2, <2>1, RunFrame DEF DownEmpty
  <2>3. /\ saver.kind = "none" /\ \A c \in Clients : op[c] = Idle
    BY <2>2 DEF Base, NamesInv, StatesInv, NoSave
  <2>4. ~ReplayAdd /\ ~ReplayDelete /\ ~ClearLog
    BY <2>2, <2>3 DEF ReplayAdd, ReplayDelete, ClearLog, AtStep
  <2>5. \A c \in Clients : ~AddLog(c) /\ ~DeleteLog(c)
    <3>1. Idle.kind = "idle"
      BY DEF Idle
    <3>2. \A c \in Clients : op[c].kind = "idle"
      BY <2>3, <3>1
    <3> QED
      BY <2>2, <3>2 DEF AddLog, DeleteLog
  <2> QED
    BY <1>2, <2>1, <2>2, <2>4, <2>5, LogFrame
<1> QED
  BY <1>1, <1>2

-----------------------------------------------------------------------------

(***************************************************************************)
(* The invariant, and what a search finds.                                 *)
(***************************************************************************)

LEMMA InitClaims == Init => ClaimsInv /\ LogInv
<1> SUFFICES ASSUME Init PROVE ClaimsInv /\ LogInv
  OBVIOUS
<1>1. saver.kind = "none" /\ state = "empty" /\ op = [c \in Clients |-> Idle]
  BY DEF Init, NoSave
<1>2. \A d \in Dirs : ~promise[d].sound
  BY DEF Init, Void
<1>3. "buffer" \in Dirs
  BY DEF Dirs
<1>4. ~Buffer.sound /\ ~Complete
  BY <1>2, <1>3 DEF Buffer, Complete
<1>5. Idle.kind = "idle"
  BY DEF Idle
<1>6. DeletesPending
  BY <1>1, <1>5 DEF DeletesPending
<1>7. ClaimsInv
  BY <1>1, <1>2, <1>6 DEF ClaimsInv, ClaimsInMemory, ClaimsComing, ClaimsSaved, InRefine
<1>8. LogInv
  BY <1>1, <1>4 DEF LogInv, RecordsInv, SinceCheckpoint, CompleteInv, ReplayInv, ReplayedInv, DownEmpty
<1> QED
  BY <1>7, <1>8

LEMMA ClaimsNext ==
    ASSUME Base, Base', SavesInv, ClaimsInv, LogInv, [Next]_vars
    PROVE  ClaimsInv' /\ LogInv'
<1>1. RecordsInv /\ SinceCheckpoint /\ CompleteInv /\ ReplayInv /\ ReplayedInv /\ DownEmpty /\ DeletesPending
  BY DEF LogInv, ClaimsInv
<1>2. ClaimsInMemory'
  BY <1>1, ClaimsInMemoryNext
<1>3. DeletesPending'
  BY <1>1, DeletesPendingNext
<1>4. ClaimsComing' /\ ClaimsSaved'
  BY ClaimsComingNext, ClaimsSavedNext
<1>5. RecordsInv'
  BY RecordsInvNext
<1>6. SinceCheckpoint' /\ CompleteInv'
  BY SinceCheckpointNext, CompleteInvNext
<1>7. ReplayInv' /\ ReplayedInv'
  BY ReplayInvNext, ReplayedInvNext
<1>8. DownEmpty'
  BY <1>1, DownEmptyNext
<1> QED
  BY <1>2, <1>3, <1>4, <1>5, <1>6, <1>7, <1>8 DEF ClaimsInv, LogInv

LEMMA ClaimsInvariant == Spec => [](Base /\ SavesInv /\ ClaimsInv /\ LogInv)
<1>1. Init => ClaimsInv /\ LogInv
  BY InitClaims
<1>2. Base /\ Base' /\ SavesInv /\ (ClaimsInv /\ LogInv) /\ [Next]_vars => (ClaimsInv /\ LogInv)'
  BY ClaimsNext
<1> QED
  BY <1>1, <1>2, SavesInvariant, PTL DEF Spec

\* A search finds a live entry of a head of the head index.
LEMMA ReachedAnswers ==
    ASSUME Base, NEW e \in Reached, Live(mem.ver, e[1])
    PROVE  e \in Answers(mem)
<1>1. e[1] # NoId
  BY DEF Live, NoId
<1>2. CASE \E g \in mem.heads : e \in At(mem, blocks, g)
  <2>1. e \in UNION {Posting(mem, h) : h \in mem.heads}
    BY <1>2 DEF At, Posting
  <2> QED
    BY <1>1, <2>1 DEF Answers
<1>3. CASE \E g \in mem.heads : Stands(mem, g) /\ e = HeadEntry(mem, g)
  <2>1. e \in {<<mem.trans[h + 1], mem.vec[h + 1]>> : h \in {g \in mem.heads : g < Len(mem.trans)}}
    BY <1>3 DEF Stands, HeadEntry
  <2> QED
    BY <1>1, <2>1 DEF Answers
<1> QED
  BY <1>2, <1>3, EntriesNow DEF Holds

LEMMA VisibleClaims ==
    ASSUME Base, SavesInv, ClaimsInv, Visible, sure # {} \/ gone # {}
    PROVE  MemClaimed
  BY DEF SavesInv, Untrusted, Visible, Refining, InRefine, ClaimsInv, ClaimsInMemory

\* No vector whose addition was acknowledged, or that was built, is lost: it
\* stays in a posting, or a head, under a live id of its own through additions,
\* splits, compactions, saves, loads, crashes and the log's replay
\* (AddIndexSPFresh, DeleteIndex, RefineIndex, Checkpoint and LoadIndex of SPANN::Index
\* and ExtraDynamicSearcher).
THEOREM NothingLostAlways == Spec => []NothingLost
<1>1. Base /\ SavesInv /\ ClaimsInv /\ LogInv => NothingLost
  <2> SUFFICES ASSUME Base, SavesInv, ClaimsInv, Visible, NEW v \in sure PROVE v \in Found
    BY DEF NothingLost
  <2>1. MemClaimed
    BY VisibleClaims
  <2>2. PICK e \in Reached : e[2] = v
    BY <2>1 DEF MemClaimed, Claims
  <2>3. e \in Known
    BY <2>2, EntriesNow DEF Holds
  <2>4. Live(mem.ver, e[1])
    BY <2>1, <2>2, <2>3 DEF MemClaimed, Claims
  <2>5. e \in Answers(mem)
    BY <2>2, <2>4, ReachedAnswers
  <2> QED
    BY <2>2, <2>5 DEF Found
<1> QED
  BY <1>1, ClaimsInvariant, PTL

\* No deleted vector comes back: what postings, files and records still hold of
\* it has a deleted id in the version map they are read with, also where the
\* deletion is only in the log, or a compaction ran since (VersionLabel::Delete,
\* ExtraDynamicSearcher::DeleteIndex, LoadIndex and RefineIndex).
THEOREM NothingBackAlways == Spec => []NothingBack
<1>1. Base /\ SavesInv /\ ClaimsInv /\ LogInv => NothingBack
  <2> SUFFICES ASSUME Base, SavesInv, ClaimsInv, Visible, NEW e \in Answers(mem), e[2] \in gone PROVE FALSE
    BY DEF NothingBack, Found
  <2>1. MemClaimed
    BY VisibleClaims
  <2>2. e \in Reached
    BY AnswersKnown DEF Visible
  <2>3. e \in Known
    BY <2>2, EntriesNow DEF Holds
  <2>4. Dead(mem.ver, e[1])
    BY <2>1, <2>3 DEF MemClaimed, Claims
  <2>5. Live(mem.ver, e[1])
    BY DEF Answers
  <2> QED
    BY <2>4, <2>5 DEF Dead, Live
<1> QED
  BY <1>1, ClaimsInvariant, PTL
=============================================================================
