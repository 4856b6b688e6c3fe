----------------------------- MODULE Metadata ------------------------------
(***************************************************************************)
(* Metadata of the vectors: bytes of variable length behind each other and  *)
(* the offsets where each begins. MemMetadataSet keeps what was loaded in   *)
(* one array and what was added in another, and its offsets in a vector of  *)
(* blocks that is read without a lock; FileMetadataSet reads from its file. *)
(***************************************************************************)
EXTENDS Integers, Sequences, FiniteSetsExt, SequencesExt

CONSTANTS MetaItems,      \* metadata of one vector: sequences of bytes
          MaxItems,       \* bound: vectors
          BlockSizes,     \* arguments p_blockSize
          Capacity,       \* argument p_capacity
          FileSaves,      \* how a FileMetadataSet is saved: "files", "streams"
          AddDuringSave   \* whether a FileMetadataSet is added to while it saves

VARIABLE metadata         \* a set and the files it was saved to, or NoMetadata

NoMetadata == [kind |-> "none"]

NotSaved == [count |-> -1, offsets |-> <<>>, bytes |-> <<>>, items |-> <<>>]

(***************************************************************************)
(* LockFreeVector: blocks of 2 ^ ex places.                                 *)
(***************************************************************************)
CeilLog2(n) == Min({e \in 0 .. 30 : n <= 2 ^ e})

Reserved(blockSize, maxSize) ==
  [size |-> 0, maxSize |-> maxSize, ex |-> CeilLog2(blockSize), blocks |-> <<>>]

\* operator[](offset), offset from 0.
Element(v, offset) == v.blocks[(offset \div (2 ^ v.ex)) + 1][(offset % (2 ^ v.ex)) + 1]

\* The value at the next place, in a new block when the last is full. A place
\* that was never written is 0.
Written(v, value) ==
  LET block == (v.size \div (2 ^ v.ex)) + 1
      blocks == IF block <= Len(v.blocks) THEN v.blocks
                ELSE Append(v.blocks, [i \in 1 .. 2 ^ v.ex |-> 0])
  IN  [v EXCEPT !.blocks = [blocks EXCEPT ![block][(v.size % (2 ^ v.ex)) + 1] = value],
                !.size = @ + 1]

\* push_back: refused when the vector is full.
PushBack(v, value) ==
  IF v.size > v.maxSize - 1 THEN [done |-> FALSE, vector |-> v]
  ELSE [done |-> TRUE, vector |-> Written(v, value)]

\* assign. It refuses what does not fit, unless it is longer than maxSize: the
\* difference is unsigned.
Assign(v, values) ==
  IF Len(values) <= v.maxSize /\ v.size > v.maxSize - Len(values) THEN v
  ELSE FoldLeft(Written, v, values)

Contents(v) == [i \in 1 .. v.size |-> Element(v, i - 1)]

(***************************************************************************)
(* The sets. `items` is what has been given to the set, in order.           *)
(***************************************************************************)
MemSet(blockSize, capacity) ==
  [kind |-> "mem", items |-> <<>>, offsets |-> PushBack(Reserved(blockSize, capacity), 0).vector,
   count |-> 0, holder |-> <<>>, newdata |-> <<>>, failed |-> FALSE, saving |-> "no",
   disk |-> NotSaved]

\* The mutant Init that leaves the offsets as they are in the file.
Init_Mem_Absolute(disk, blockSize, start, n) ==
  LET from == Min({start, disk.count})
      count == IF n < 0 \/ n > disk.count - from THEN disk.count - from ELSE n
      first == disk.offsets[from + 1]
      offsets == [i \in 1 .. count + 1 |-> disk.offsets[from + i]]
      v == Assign(Reserved(blockSize, Capacity), offsets)
  IN  [kind |-> "mem", items |-> SubSeq(disk.items, from + 1, from + count),
       offsets |-> v, count |-> count,
       holder |-> SubSeq(disk.bytes, first + 1, Len(disk.bytes)),
       newdata |-> <<>>, failed |-> FALSE, saving |-> "no", disk |-> disk]

\* MemMetadataSet::Init: the part of the files from start; the offsets are moved
\* back by the first of them.
Init_Mem(disk, blockSize, start, n) ==
  LET from == Min({start, disk.count})
      count == IF n < 0 \/ n > disk.count - from THEN disk.count - from ELSE n
      first == disk.offsets[from + 1]
      offsets == [i \in 1 .. count + 1 |-> disk.offsets[from + i] - first]
      v == Assign(Reserved(blockSize, Capacity), offsets)
  IN  [kind |-> "mem", items |-> SubSeq(disk.items, from + 1, from + count),
       offsets |-> v, count |-> count,
       holder |-> SubSeq(disk.bytes, first + 1, first + Element(v, count)),
       newdata |-> <<>>, failed |-> FALSE, saving |-> "no", disk |-> disk]

\* FileMetadataSet: the offsets are a std::vector; the bytes stay in the file.
FileSet(disk) ==
  [kind |-> "file", items |-> disk.items,
   offsets |-> Assign(Reserved(MaxItems + 1, MaxItems + 1), disk.offsets),
   count |-> disk.count, holder |-> disk.bytes, newdata |-> <<>>, failed |-> FALSE,
   saving |-> "no", disk |-> disk]

Count(s) == s.offsets.size - 1

\* n bytes from an offset, or those there are.
BytesFrom(bytes, offset, n) == SubSeq(bytes, offset + 1, Min({offset + n, Len(bytes)}))

\* Bytes from the file are read through m_fp, whose stream fails once it has been
\* read to its end: seekg does not clear that.
GetMetadata(s, i) ==
  LET startoff == Element(s.offsets, i)
      bytes == Element(s.offsets, i + 1) - startoff
      base == Element(s.offsets, s.count)
  IN  IF i < s.count
      THEN IF s.failed THEN <<>> ELSE BytesFrom(s.holder, startoff, bytes)
      ELSE BytesFrom(s.newdata, startoff - base, bytes)

\* The set after Add. The offset that does not fit into the vector is not added,
\* and the data is taken back.
Added(s, data) ==
  LET pushed == PushBack(s.offsets, Element(s.offsets, s.offsets.size - 1) + Len(data))
  IN  IF pushed.done
      THEN [s EXCEPT !.offsets = pushed.vector, !.newdata = @ \o data,
                     !.items = Append(@, data)]
      ELSE s

Add(data) ==
  /\ metadata.kind \in {"mem", "file"}
  /\ Len(metadata.items) < MaxItems
  /\ metadata.kind = "file" => metadata.saving = "no" \/ AddDuringSave
  /\ metadata' = Added(metadata, data)

\* AddBatch: all the metadata of another set, behind the set's own.
AddBatch(batch) ==
  /\ metadata.kind = "mem"
  /\ Len(metadata.items) + Len(batch) <= MaxItems
  /\ metadata' = FoldLeft(Added, metadata, batch)

\* RefineMetadata(indices), into a new set in memory ...
RefineMem(indices, blockSize) ==
  /\ metadata.kind \in {"mem", "file"} /\ metadata.saving = "no"
  /\ metadata' = FoldLeft(LAMBDA s, i : Added(s, GetMetadata(metadata, i)),
                          [MemSet(blockSize, Capacity) EXCEPT !.disk = metadata.disk], indices)

\* ... or into files: the lengths are taken in a first pass, the bytes in a second.
RefineFiles(indices) ==
  /\ metadata.kind \in {"mem", "file"} /\ metadata.saving = "no"
  /\ LET metas == [k \in DOMAIN indices |-> GetMetadata(metadata, indices[k])]
         offset[k \in 0 .. Len(indices)] ==
           IF k = 0 THEN 0 ELSE offset[k - 1] + Len(metas[k])
     IN  metadata' = [metadata EXCEPT
           !.disk = [count |-> Len(indices),
                     offsets |-> [k \in 1 .. Len(indices) + 1 |-> offset[k - 1]],
                     bytes |-> FlattenSeq(metas),
                     items |-> [k \in DOMAIN indices |-> metadata.items[indices[k] + 1]]]]

\* MemMetadataSet::SaveMetadata takes no lock for the count and the offsets ...
SaveOffsets ==
  /\ metadata.kind = "mem"
  /\ metadata.saving = "no"
  /\ metadata' = [metadata EXCEPT
       !.saving = "bytes",
       !.disk = [count |-> Count(metadata), offsets |-> Contents(metadata.offsets),
                 bytes |-> <<>>, items |-> metadata.items]]

\* ... and writes the bytes of as many.
SaveBytes ==
  /\ metadata.kind = "mem"
  /\ metadata.saving = "bytes"
  /\ LET base == Element(metadata.offsets, metadata.count)
         end == Element(metadata.offsets, metadata.disk.count)
     IN  metadata' = [metadata EXCEPT
           !.saving = "no",
           !.disk.bytes = SubSeq(metadata.holder, 1, base)
                            \o SubSeq(metadata.newdata, 1, end - base)]

\* FileMetadataSet::SaveMetadata into streams, under the lock: the file from its
\* beginning to its end and the new data.
SaveStreams ==
  /\ metadata.kind = "file"
  /\ metadata.saving = "no"
  /\ \E way \in FileSaves :
       metadata' = [metadata EXCEPT
         !.saving = IF way = "files" THEN "swap" ELSE "no",
         !.failed = TRUE,
         !.disk = [count |-> Count(metadata), offsets |-> Contents(metadata.offsets),
                   bytes |-> (IF metadata.failed THEN <<>> ELSE metadata.holder)
                               \o metadata.newdata,
                   items |-> metadata.items]]

\* The second half of saving to files, with the lock taken again: the new files
\* take the place of the old ones.
SwapFiles ==
  /\ metadata.kind = "file"
  /\ metadata.saving = "swap"
  /\ metadata' = [metadata EXCEPT !.saving = "no", !.failed = FALSE,
                                  !.holder = metadata.disk.bytes,
                                  !.count = Count(metadata), !.newdata = <<>>]

\* The saved files are opened by another set.
LoadMem(blockSize, start, n) ==
  /\ metadata.kind \in {"mem", "file"}
  /\ metadata.saving = "no" /\ metadata.disk # NotSaved
  /\ metadata' = Init_Mem(metadata.disk, blockSize, start, n)

LoadFileSet ==
  /\ metadata.kind \in {"mem", "file"}
  /\ metadata.saving = "no" /\ metadata.disk # NotSaved
  /\ metadata' = FileSet(metadata.disk)

(***************************************************************************)
(* GetMetadataOffsets: the offsets of the lines of a text.                  *)
(***************************************************************************)
Delimiter == 10

\* The text is read up to p_offsetLength offsets.
GetMetadataOffsets(text, offsetLength) ==
  LET delimiters == {i \in DOMAIN text : text[i] = Delimiter}
      nth(k) == CHOOSE i \in delimiters : Cardinality({j \in delimiters : j <= i}) = k
      scanned == [k \in 1 .. Min({offsetLength, Cardinality(delimiters) + 1}) |->
                    IF k = 1 THEN 0 ELSE nth(k - 1)]
  IN  IF text[Len(text)] # Delimiter /\ Len(scanned) < offsetLength
      THEN Append(scanned, Len(text)) ELSE scanned

(***************************************************************************)
(* The specification.                                                       *)
(***************************************************************************)
MetadataInit ==
  \E blockSize \in BlockSizes : metadata = MemSet(blockSize, Capacity)

MetadataNext ==
  \/ \E data \in MetaItems : Add(data)
  \/ \E batch \in MetaItems \X MetaItems : AddBatch(batch)
  \/ \E kept \in SUBSET (0 .. MaxItems - 1), blockSize \in BlockSizes :
       /\ metadata.kind \in {"mem", "file"} /\ kept \subseteq 0 .. Count(metadata) - 1
       /\ LET indices == SelectSeq([i \in 1 .. MaxItems |-> i - 1], LAMBDA i : i \in kept)
          IN  RefineMem(indices, blockSize) \/ RefineFiles(indices)
  \/ SaveOffsets \/ SaveBytes \/ SaveStreams \/ SwapFiles
  \/ \E blockSize \in BlockSizes, start \in 0 .. 2, n \in {-1, 1} :
       LoadMem(blockSize, start, n)
  \/ LoadFileSet

(***************************************************************************)
(* Properties.                                                              *)
(***************************************************************************)
\* The lines of the items, each with a delimiter behind it but perhaps the last.
TextOf(items, closed) ==
  FlattenSeq([i \in DOMAIN items |->
    IF i < Len(items) \/ closed THEN Append(items[i], Delimiter) ELSE items[i]])

\* Each vector has the metadata that was given for it, in the arrays and in the
\* file, across blocks of offsets, when a set is full, and after any sequence of
\* additions, saves, refinements and loads of a part; what is saved while vectors are added is
\* complete for the count saved; and the offsets of a text are those of its lines
\* (MetadataSet.cpp, LockFree.h).
MetadataKept ==
  metadata.kind \in {"mem", "file"} =>
    /\ Count(metadata) = Len(metadata.items)
    /\ metadata.saving = "no" =>
         \A i \in DOMAIN metadata.items : GetMetadata(metadata, i - 1) = metadata.items[i]
    /\ metadata.saving # "bytes" /\ metadata.disk # NotSaved =>
         LET disk == metadata.disk
         IN  /\ disk.count = Len(disk.items)
             /\ \A i \in DOMAIN disk.items :
                  SubSeq(disk.bytes, disk.offsets[i] + 1, disk.offsets[i + 1]) = disk.items[i]
    /\ \A closed \in BOOLEAN :
         LET items == metadata.items
             text == TextOf(items, closed)
             offsets == GetMetadataOffsets(text, Len(items) + 1)
         IN  text # <<>> =>
               \A i \in DOMAIN items :
                 i + 1 <= Len(offsets) =>
                   SubSeq(text, offsets[i] + 1, offsets[i] + Len(items[i])) = items[i]
=============================================================================
