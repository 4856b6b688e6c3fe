---------------------------- MODULE FileIOProofs ----------------------------
(***************************************************************************)
(* Proofs about SPANN::FileIO for any keys, writers, blocks and page size: *)
(* the types, that no block has two owners or none, that the blocks of the *)
(* last checkpoint are neither reused nor overwritten before the next one, *)
(* and that FileIO implements KVStore.                                     *)
(*                                                                         *)
(* The types rest on the shape of the rows and of the operations: a row    *)
(* has as many block ids as its size needs, whatever fails, so that Merge  *)
(* reads a block id the row has.  The inductive invariant adds to OneOwner *)
(* the lock discipline of the callers, that the lists of a row are free of *)
(* repetitions, that every list is within the file, and how the saved      *)
(* mapping and the saved free list relate between and during checkpoints.  *)
(***************************************************************************)
EXTENDS FileIO, SequenceTheorems, TLAPS

\* One operation per key; an idle writer has none.
LockInv ==
    /\ \A t \in Threads : pc[t] = "idle" => op[t] = NoOp
    /\ \A t \in Threads : pc[t] # "idle" => Key(t) \in Keys
    /\ \A t, u \in Threads : t # u /\ Key(t) = Key(u) => Key(t) = None

\* The kept prefix is a prefix of the old row; only operations that replace
\* a row release its blocks.
OpInv == \A t \in Threads : pc[t] # "idle" =>
    /\ op[t].keep <= Len(OldBlocks(t))
    /\ pc[t] = "release" => op[t].kind \in {"put", "copy", "delete"}
    /\ op[t].kind = "delete" => pc[t] \in {"release", "swap"}

\* How far an operation has come: what it writes and keeps, and how many of
\* its blocks it has.
Shape(t) ==
    /\ op[t].kind # "none"
    /\ op[t].kind \in {"new", "put"} => op[t].value \in PutValues
    /\ op[t].kind \in {"new", "put", "delete"} => op[t].keep = 0
    /\ op[t].kind = "new" => OldBlocks(t) = <<>>
    /\ op[t].kind = "append" => op[t].keep = Len(OldBlocks(t))
    /\ op[t].kind = "delete" => op[t].got = <<>>
    /\ pc[t] \in {"row", "expand"} => op[t].got = <<>>
    /\ pc[t] = "pop" => Len(op[t].got) < Need(t)
    /\ pc[t] \in {"write", "release", "swap"} /\ op[t].kind # "delete" => Len(op[t].got) = Need(t)

ShapeInv == \A t \in Threads : pc[t] # "idle" => Shape(t)

\* A key without a value has no blocks, now and in the saved mapping ...
RowInv == \A k \in Keys :
    /\ row[k].size < 0 => row[k].blocks = <<>>
    /\ saved.rows[k].size < 0 => saved.rows[k].blocks = <<>>

\* ... and every other row as many block ids as its size needs.
WellInv == \A k \in Keys :
    /\ row[k].size >= 0 => Len(row[k].blocks) = NumBlocks(row[k].size)
    /\ saved.rows[k].size >= 0 => Len(saved.rows[k].blocks) = NumBlocks(saved.rows[k].size)

Typed == TypeOK /\ LockInv /\ OpInv /\ ShapeInv /\ RowInv /\ WellInv

\* No row and no allocation in flight names a block twice.
InjInv ==
    /\ \A k \in Keys : Distinct(row[k].blocks)
    /\ \A t \in Threads : Distinct(op[t].got)

\* Every list is within the file.
AllocInv ==
    /\ ((free \cup reserve) \ {NoBlock}) \cup lost \subseteq allocated
    /\ \A k \in Keys : Range(row[k].blocks) \cap Blocks \subseteq allocated
    /\ \A t \in Threads : Held(t) \subseteq allocated

\* The saved files describe a consistent store, except between the writing
\* of the mapping and of the pool, when the mapping is the current one and
\* no operation runs.
SavedInv ==
    /\ \A k \in Keys : Distinct(saved.rows[k].blocks)
    /\ \A k, l \in Keys : k # l =>
          Range(saved.rows[k].blocks) \cap Range(saved.rows[l].blocks) \cap Blocks = {}
    /\ SavedBlocks \subseteq allocated
    /\ saved.allocated \subseteq allocated
    /\ cp = "idle" =>
          /\ SavedBlocks \cap saved.free = {}
          /\ SavedBlocks \cup (saved.free \ {NoBlock}) \subseteq saved.allocated
    /\ cp = "pool" =>
          /\ \A t \in Threads : Idle(t)
          /\ \A k \in Keys : saved.rows[k].blocks = row[k].blocks

Inv == Typed /\ InjInv /\ AllocInv /\ OneOwner /\ SavedInv /\ CheckpointIntact

USE PageSizeAssumption, LimitAssumption, BlocksAssumption,
    ValuesAssumption, NoneAssumption, NoBlockAssumption

-----------------------------------------------------------------------------
(* Sequences *)

\* Appending adds one element to the range, and keeps a list without
\* repetitions so if the element is new.
LEMMA AppendRange ==
  ASSUME NEW S, NEW s \in Seq(S), NEW e \in S
  PROVE  /\ Range(Append(s, e)) = Range(s) \cup {e}
         /\ Distinct(s) /\ (e \in Range(s) => e = NoBlock) => Distinct(Append(s, e))
<1> DEFINE q == Append(s, e)
<1>1. /\ q \in Seq(S) /\ Len(q) = Len(s) + 1 /\ q[Len(s) + 1] = e
      /\ \A i \in 1..Len(s) : q[i] = s[i]
  BY AppendProperties
<1>2. DOMAIN q = 1..(Len(s) + 1) /\ DOMAIN s = 1..Len(s) /\ Len(s) \in Nat
  BY <1>1, LenProperties
<1> HIDE DEF q
<1>3. Range(q) = Range(s) \cup {e}  BY <1>1, <1>2 DEF Range
<1>4. Distinct(s) /\ (e \in Range(s) => e = NoBlock) => Distinct(q)
  BY <1>1, <1>2 DEF Range, Distinct
<1> QED  BY <1>3, <1>4 DEF q

\* The two halves of a list.
LEMMA SplitRange ==
  ASSUME NEW S, NEW s \in Seq(S), NEW n \in Nat, n <= Len(s)
  PROVE  /\ SubSeq(s, 1, n) \in Seq(S)
         /\ Range(SubSeq(s, 1, n)) \subseteq Range(s)
         /\ Range(SubSeq(s, n + 1, Len(s))) \subseteq Range(s)
         /\ Distinct(s) => Distinct(SubSeq(s, 1, n))
         /\ Distinct(s) =>
              Range(SubSeq(s, 1, n)) \cap Range(SubSeq(s, n + 1, Len(s))) \subseteq {NoBlock}
<1> DEFINE p == SubSeq(s, 1, n)
           r == SubSeq(s, n + 1, Len(s))
<1>0. Len(s) \in Nat /\ DOMAIN s = 1..Len(s) /\ \A i \in 1..Len(s) : s[i] \in S
  BY LenProperties, ElementOfSeq
<1>1. /\ p \in Seq(S) /\ Len(p) = n /\ \A i \in 1..n : p[i] = s[i]
  <2>1. \A i \in 1..n : s[i] \in S  BY <1>0
  <2>2. /\ p \in Seq(S) /\ Len(p) = (IF 1 <= n THEN n - 1 + 1 ELSE 0)
        /\ \A i \in 1..(n - 1 + 1) : p[i] = s[1 + i - 1]
    BY <2>1, SubSeqProperties
  <2> HIDE DEF p
  <2> QED  BY <2>2
<1>2. /\ r \in Seq(S) /\ Len(r) = Len(s) - n
      /\ \A i \in 1..(Len(s) - n) : r[i] = s[n + i]
  <2>1. \A i \in (n + 1)..Len(s) : s[i] \in S  BY <1>0
  <2>2. /\ r \in Seq(S)
        /\ Len(r) = (IF n + 1 <= Len(s) THEN Len(s) - (n + 1) + 1 ELSE 0)
        /\ \A i \in 1..(Len(s) - (n + 1) + 1) : r[i] = s[n + 1 + i - 1]
    BY <2>1, <1>0, SubSeqProperties
  <2> HIDE DEF r
  <2>2a. Len(r) = (IF n + 1 <= Len(s) THEN Len(s) - (n + 1) + 1 ELSE 0)  BY ONLY <2>2
  <2>2b. Len(s) \in Nat  BY ONLY <1>0
  <2>3. Len(r) = Len(s) - n
    <3>1. CASE n + 1 <= Len(s)
      <4>1. Len(r) = Len(s) - (n + 1) + 1  BY ONLY <2>2a, <3>1
      <4> QED  BY ONLY <4>1, <2>2b, n \in Nat
    <3>2. CASE ~(n + 1 <= Len(s))
      <4>1. Len(r) = 0  BY ONLY <2>2a, <3>2
      <4>2. Len(s) = n  BY ONLY <2>2b, <3>2, n \in Nat, n <= Len(s)
      <4> QED  BY ONLY <4>1, <4>2, n \in Nat
    <3> QED  BY ONLY <3>1, <3>2
  <2>4. ASSUME NEW i \in 1..(Len(s) - n) PROVE r[i] = s[n + i]
    <3>1. i \in 1..(Len(s) - (n + 1) + 1) /\ n + 1 + i - 1 = n + i  BY <1>0
    <3> QED  BY <2>2, <3>1
  <2> QED  BY <2>2, <2>3, <2>4
<1>3. DOMAIN p = 1..n /\ DOMAIN r = 1..(Len(s) - n)
  BY <1>1, <1>2, LenProperties
<1> HIDE DEF p, r
<1>4. Range(p) \subseteq Range(s)  BY <1>0, <1>1, <1>3 DEF Range
<1>5. \A e \in Range(r) : \E j \in DOMAIN s : j > n /\ s[j] = e
  <2> SUFFICES ASSUME NEW i \in 1..(Len(s) - n) PROVE \E j \in DOMAIN s : j > n /\ s[j] = r[i]
    BY <1>3 DEF Range
  <2>1. n + i \in DOMAIN s /\ n + i > n /\ s[n + i] = r[i]  BY <1>0, <1>2
  <2> QED  BY <2>1
<1>5a. Range(r) \subseteq Range(s)  BY <1>5 DEF Range
<1>6. Distinct(s) => Distinct(p)  BY <1>0, <1>1, <1>3 DEF Distinct
<1>7. Distinct(s) => Range(p) \cap Range(r) \subseteq {NoBlock}
  <2> SUFFICES ASSUME Distinct(s), NEW e \in Range(p), e \in Range(r) PROVE e = NoBlock
    OBVIOUS
  <2>1. PICK i \in 1..n : s[i] = e  BY <1>1, <1>3 DEF Range
  <2>2. PICK j \in DOMAIN s : j > n /\ s[j] = e  BY <1>5
  <2>3. i \in DOMAIN s /\ i # j  BY <1>0, <2>1, <2>2
  <2> QED  BY <2>1, <2>2, <2>3 DEF Distinct
<1> QED  BY <1>1, <1>4, <1>5a, <1>6, <1>7 DEF p, r

\* Two lists with nothing in common, one after the other.
LEMMA ConcatRange ==
  ASSUME NEW S, NEW s \in Seq(S), NEW q \in Seq(S)
  PROVE  /\ s \o q \in Seq(S)
         /\ Range(s \o q) = Range(s) \cup Range(q)
         /\ Distinct(s) /\ Distinct(q) /\ Range(s) \cap Range(q) \subseteq {NoBlock}
              => Distinct(s \o q)
<1> DEFINE c == s \o q
<1>1. /\ c \in Seq(S) /\ Len(c) = Len(s) + Len(q)
      /\ \A i \in 1..(Len(s) + Len(q)) : c[i] = IF i <= Len(s) THEN s[i] ELSE q[i - Len(s)]
  BY ConcatProperties
<1>2. /\ DOMAIN c = 1..(Len(s) + Len(q)) /\ DOMAIN s = 1..Len(s) /\ DOMAIN q = 1..Len(q)
      /\ Len(s) \in Nat /\ Len(q) \in Nat
  BY <1>1, LenProperties
<1> HIDE DEF c
<1>3. Range(c) \subseteq Range(s) \cup Range(q)
  <2> SUFFICES ASSUME NEW i \in 1..(Len(s) + Len(q)) PROVE c[i] \in Range(s) \cup Range(q)
    BY <1>2 DEF Range
  <2>1. CASE i <= Len(s)  BY <2>1, <1>1, <1>2 DEF Range
  <2>2. CASE i > Len(s)
    <3>1. i - Len(s) \in DOMAIN q /\ c[i] = q[i - Len(s)]  BY <2>2, <1>1, <1>2
    <3> QED  BY <3>1 DEF Range
  <2> QED  BY <2>1, <2>2, <1>2
<1>4. Range(s) \subseteq Range(c)  BY <1>1, <1>2 DEF Range
<1>5. Range(q) \subseteq Range(c)
  <2> SUFFICES ASSUME NEW i \in 1..Len(q) PROVE q[i] \in Range(c)
    BY <1>2 DEF Range
  <2>1. Len(s) + i \in DOMAIN c /\ c[Len(s) + i] = q[i]
    BY ONLY <1>1, <1>2, i \in 1..Len(q)
  <2> QED  BY <2>1 DEF Range
<1>6. Distinct(s) /\ Distinct(q) /\ Range(s) \cap Range(q) \subseteq {NoBlock} => Distinct(c)
  <2> SUFFICES ASSUME Distinct(s), Distinct(q), Range(s) \cap Range(q) \subseteq {NoBlock},
                      NEW i \in DOMAIN c, NEW j \in DOMAIN c, c[i] = c[j], c[i] # NoBlock
               PROVE  i = j
    BY DEF Distinct
  <2>1. CASE i <= Len(s) /\ j <= Len(s)  BY <2>1, <1>1, <1>2 DEF Distinct
  <2>2. CASE i > Len(s) /\ j > Len(s)
    <3>1. i - Len(s) \in DOMAIN q /\ j - Len(s) \in DOMAIN q
      BY ONLY <2>2, <1>2, i \in DOMAIN c, j \in DOMAIN c
    <3>2. q[i - Len(s)] = q[j - Len(s)]
      BY ONLY <2>2, <1>1, <1>2, i \in DOMAIN c, j \in DOMAIN c, c[i] = c[j]
    <3>3. i - Len(s) = j - Len(s)
      <4>1. c[i] = q[i - Len(s)]  BY <2>2, <1>1, <1>2
      <4> QED  BY <3>1, <3>2, <4>1 DEF Distinct
    <3> QED  BY <3>3, <1>2
  <2>3. CASE i <= Len(s) /\ j > Len(s)
    <3>1. c[i] \in Range(s)  BY <2>3, <1>1, <1>2 DEF Range
    <3>2. c[j] \in Range(q)
      <4>1. j - Len(s) \in DOMAIN q /\ c[j] = q[j - Len(s)]  BY <2>3, <1>1, <1>2
      <4> QED  BY <4>1 DEF Range
    <3> QED  BY <3>1, <3>2
  <2>4. CASE i > Len(s) /\ j <= Len(s)
    <3>1. c[j] \in Range(s)  BY <2>4, <1>1, <1>2 DEF Range
    <3>2. c[i] \in Range(q)
      <4>1. i - Len(s) \in DOMAIN q /\ c[i] = q[i - Len(s)]  BY <2>4, <1>1, <1>2
      <4> QED  BY <4>1 DEF Range
    <3> QED  BY <3>1, <3>2
  <2> QED  BY <2>1, <2>2, <2>3, <2>4, <1>2
<1> QED  BY <1>1, <1>3, <1>4, <1>5, <1>6 DEF c

\* The empty list.
LEMMA EmptyRange == Range(<<>>) = {} /\ Distinct(<<>>)
  BY DEF Range, Distinct

-----------------------------------------------------------------------------
(* Pages *)

\* Dividing by the page size.
LEMMA DivFacts ==
  ASSUME NEW n \in Nat
  PROVE  /\ n \div PageSize \in Nat
         /\ n % PageSize \in 0..(PageSize - 1)
         /\ n = PageSize * (n \div PageSize) + (n % PageSize)
  OBVIOUS

\* A multiple of the page size below n bounds the quotient from below.
LEMMA DivBound ==
  ASSUME NEW c \in Nat, NEW n \in Nat, PageSize * c <= n
  PROVE  c <= n \div PageSize
<1> DEFINE d == n \div PageSize
           r == n % PageSize
<1>1. d \in Nat /\ r \in 0..(PageSize - 1) /\ n = PageSize * d + r  BY DivFacts
<1> HIDE DEF d, r
<1>2. PageSize * c < PageSize * d + PageSize  BY <1>1
<1>3. PageSize * d + PageSize = PageSize * (d + 1)  BY <1>1
<1>4. SUFFICES ASSUME c >= d + 1 PROVE FALSE  BY <1>1 DEF d
<1>5. PageSize * (d + 1) <= PageSize * c
  <2>1. PICK e \in Nat : c = (d + 1) + e  BY <1>1, <1>4
  <2>2. PageSize * c = PageSize * (d + 1) + PageSize * e  BY <2>1, <1>1
  <2>3. PageSize * e >= 0  BY <2>1
  <2> QED  BY <2>2, <2>3, <1>1
<1> QED  BY <1>1, <1>2, <1>3, <1>5

\* The full blocks of a value are among its blocks, and so is a partial one.
LEMMA PrefixFits ==
  ASSUME NEW n \in Nat
  PROVE  /\ n \div PageSize <= NumBlocks(n)
         /\ n % PageSize # 0 => (n \div PageSize) + 1 <= NumBlocks(n)
<1> DEFINE d == n \div PageSize
           r == n % PageSize
<1>1. d \in Nat /\ r \in 0..(PageSize - 1) /\ n = PageSize * d + r  BY DivFacts
<1> HIDE DEF d, r
<1>2. n + PageSize - 1 \in Nat  OBVIOUS
<1>3. PageSize * d <= n + PageSize - 1  BY <1>1
<1>4. d <= NumBlocks(n)  BY <1>1, <1>2, <1>3, DivBound DEF NumBlocks
<1>5. ASSUME r # 0 PROVE d + 1 <= NumBlocks(n)
  <2>1. PageSize * (d + 1) = PageSize * d + PageSize /\ d + 1 \in Nat  BY <1>1
  <2>2. PageSize * (d + 1) <= n + PageSize - 1  BY <1>1, <1>5, <2>1
  <2> QED  BY <1>2, <2>1, <2>2, DivBound DEF NumBlocks
<1> QED  BY <1>4, <1>5 DEF d, r

\* Below the page size, the quotient is zero.
LEMMA SmallDiv ==
  ASSUME NEW n \in Nat, n < PageSize
  PROVE  n \div PageSize = 0 /\ n % PageSize = n
  OBVIOUS

\* What Merge reads of a partial last block is data.
LEMMA ReadLastBlock ==
  ASSUME TypeOK, NEW k \in Keys, ~Absent(k), row[k].size % PageSize # 0,
         Len(row[k].blocks) = NumBlocks(row[k].size),
         row[k].blocks[(row[k].size \div PageSize) + 1] # NoBlock
  PROVE  ReadBlocks(<<row[k].blocks[(row[k].size \div PageSize) + 1]>>, row[k].size % PageSize)
           \in Seq(Units)
<1> DEFINE n == row[k].size
           m == n % PageSize
           b == row[k].blocks[(n \div PageSize) + 1]
<1>1. n \in Nat  BY DEF TypeOK, Rows, Absent
<1>2. m \in 0..(PageSize - 1) /\ (n \div PageSize) + 1 \in 1..Len(row[k].blocks)
  <2>1. n \div PageSize \in Nat /\ m \in 0..(PageSize - 1)  BY <1>1, DivFacts
  <2>2. m # 0 /\ Len(row[k].blocks) = NumBlocks(n)  OBVIOUS
  <2> HIDE DEF n
  <2>3. (n \div PageSize) + 1 <= NumBlocks(n)  BY <1>1, <2>2, PrefixFits
  <2>4. Len(row[k].blocks) \in Nat  BY LenProperties DEF TypeOK, Rows
  <2> HIDE DEF m
  <2> QED  BY <2>1, <2>2, <2>3, <2>4
<1>3. b \in Blocks  BY <1>2, ElementOfSeq DEF TypeOK, Rows, Ids
<1> HIDE DEF b, m
<1>4. ASSUME NEW j \in 1..m
      PROVE  disk[<<b>>[((j - 1) \div PageSize) + 1]][((j - 1) % PageSize) + 1] \in Units
  <2>1. (j - 1) \div PageSize = 0 /\ (j - 1) % PageSize = j - 1
    <3>1. m \in 0..(PageSize - 1) /\ PageSize \in Nat  BY <1>2, PageSizeAssumption
    <3>2. j - 1 \in Nat /\ j - 1 < PageSize  BY ONLY <3>1, j \in 1..m
    <3> QED  BY ONLY <3>2, SmallDiv
  <2>2. <<b>>[0 + 1] = b /\ (j - 1) + 1 \in 1..PageSize
    <3>1. <<b>>[0 + 1] = b  OBVIOUS
    <3>2. m \in 0..(PageSize - 1) /\ PageSize \in Nat  BY <1>2, PageSizeAssumption
    <3>3. (j - 1) + 1 \in 1..PageSize  BY ONLY <3>2, j \in 1..m
    <3> QED  BY ONLY <3>1, <3>3
  <2>3. disk[b] \in [1..PageSize -> Units]  BY <1>3 DEF TypeOK
  <2> QED  BY <2>1, <2>2, <2>3
<1>5. m \in Nat  BY <1>2
<1>6. ReadBlocks(<<b>>, m) \in Seq(Units)  BY <1>4, <1>5, IsASeq DEF ReadBlocks
<1> QED  BY <1>6 DEF b, m

\* What WriteBlocks leaves on the disk is data.
LEMMA WriteType ==
  ASSUME TypeOK, NEW v \in Seq(Units), NEW bs \in Seq(Ids), NEW W \in SUBSET Range(bs)
  PROVE  WriteBlocks(bs, v, W) \in [Blocks -> [1..PageSize -> Units]]
<1> SUFFICES ASSUME NEW i \in DOMAIN bs PROVE Page(v, i) \in [1..PageSize -> Units]
  <2>1. ASSUME NEW b \in W PROVE (CHOOSE i \in DOMAIN bs : bs[i] = b) \in DOMAIN bs
    BY DEF Range
  <2>2. disk \in [Blocks -> [1..PageSize -> Units]]  BY DEF TypeOK
  <2> QED  BY ONLY <2>1, <2>2, \A i \in DOMAIN bs : Page(v, i) \in [1..PageSize -> Units]
           DEF WriteBlocks
<1> SUFFICES ASSUME NEW j \in 1..PageSize, (i - 1) * PageSize + j <= Len(v)
             PROVE  v[(i - 1) * PageSize + j] \in Units
  BY DEF Page, Units
<1>1. i \in Nat /\ i >= 1  BY LenProperties
<1>2. (i - 1) * PageSize >= 0 /\ (i - 1) * PageSize \in Int  BY <1>1, SMTT(30)
<1>3. (i - 1) * PageSize + j \in 1..Len(v)
  <2>1. Len(v) \in Nat  BY LenProperties
  <2> QED  BY <1>2, <2>1
<1> QED  BY <1>3, ElementOfSeq

\* Multiplication by the page size is monotonic.
LEMMA MulMono ==
  ASSUME NEW a \in Nat, NEW b \in Nat, a <= b
  PROVE  PageSize * a <= PageSize * b
<1>1. PICK e \in Nat : b = a + e  OBVIOUS
<1>2. PageSize * b = PageSize * a + PageSize * e /\ PageSize * e >= 0
      /\ PageSize * a \in Nat /\ PageSize * e \in Nat
  BY <1>1
<1> QED  BY <1>2

\* Quotient and remainder are the only numbers of their kind.
LEMMA DivUnique ==
  ASSUME NEW q \in Nat, NEW r \in 0..(PageSize - 1), NEW n \in Nat, n = PageSize * q + r
  PROVE  n \div PageSize = q /\ n % PageSize = r
<1> DEFINE d == n \div PageSize
           m == n % PageSize
<1>1. d \in Nat /\ m \in 0..(PageSize - 1) /\ n = PageSize * d + m  BY DivFacts
<1> HIDE DEF d, m
<1>2. d = q
  <2>1. CASE d < q
    <3>1. PageSize * (d + 1) <= PageSize * q  BY <1>1, <2>1, MulMono
    <3>2. PageSize * (d + 1) = PageSize * d + PageSize  BY <1>1
    <3> QED  BY <1>1, <3>1, <3>2
  <2>2. CASE q < d
    <3>1. PageSize * (q + 1) <= PageSize * d  BY <1>1, <2>2, MulMono
    <3>2. PageSize * (q + 1) = PageSize * q + PageSize  BY <1>1
    <3> QED  BY <1>1, <3>1, <3>2
  <2> QED  BY <1>1, <2>1, <2>2
<1>3. m = r  BY <1>1, <1>2
<1> QED  BY <1>2, <1>3 DEF d, m

\* Full pages before n units count as so many blocks.
LEMMA DivShift ==
  ASSUME NEW c \in Nat, NEW n \in Nat
  PROVE  /\ (c * PageSize + n) \div PageSize = c + (n \div PageSize)
         /\ (c * PageSize + n) % PageSize = n % PageSize
<1> DEFINE d == n \div PageSize
           m == n % PageSize
<1>1. d \in Nat /\ m \in 0..(PageSize - 1) /\ n = PageSize * d + m  BY DivFacts
<1> HIDE DEF d, m
<1>2. c * PageSize + n = PageSize * (c + d) + m  BY <1>1
<1>3. c * PageSize + n \in Nat /\ c + d \in Nat  BY <1>1
<1> QED  BY <1>1, <1>2, <1>3, DivUnique DEF d, m

LEMMA UnitsType ==
  ASSUME NEW c \in Nat, NEW n \in Nat
  PROVE  /\ c * PageSize \in Nat /\ c * PageSize + n \in Nat
         /\ c * PageSize + 0 = c * PageSize
<1>1. PageSize \in Nat  BY PageSizeAssumption
<1>2. c * PageSize \in Nat  BY ONLY <1>1, c \in Nat
<1> QED  BY <1>2

LEMMA NumBlocksAdd ==
  ASSUME NEW c \in Nat, NEW n \in Nat
  PROVE  /\ NumBlocks(c * PageSize + n) = c + NumBlocks(n)
         /\ NumBlocks(n) \in Nat
<1>1. n + PageSize - 1 \in Nat  OBVIOUS
<1>2. c * PageSize \in Nat  BY UnitsType
<1>3. c * PageSize + n + PageSize - 1 = c * PageSize + (n + PageSize - 1)  BY <1>2
<1>4. (c * PageSize + (n + PageSize - 1)) \div PageSize = c + ((n + PageSize - 1) \div PageSize)
  BY <1>1, DivShift
<1>5. (n + PageSize - 1) \div PageSize \in Nat  BY <1>1, DivFacts
<1> QED  BY <1>3, <1>4, <1>5 DEF NumBlocks

LEMMA NoBlocks == NumBlocks(0) = 0
<1>1. PageSize - 1 \in Nat /\ PageSize - 1 < PageSize /\ 0 + PageSize - 1 = PageSize - 1  BY PageSizeAssumption
<1>2. (PageSize - 1) \div PageSize = 0  BY ONLY <1>1, SmallDiv
<1> QED  BY <1>1, <1>2 DEF NumBlocks

\* The j-th unit of n is in one of the n units' blocks.
LEMMA UnitInBlock ==
  ASSUME NEW n \in Nat, NEW j \in 1..n
  PROVE  /\ j - 1 \in Nat
         /\ ((j - 1) \div PageSize) + 1 \in 1..NumBlocks(n)
         /\ ((j - 1) % PageSize) + 1 \in 1..PageSize
         /\ ((j - 1) \div PageSize) * PageSize + ((j - 1) % PageSize) = j - 1
<1> DEFINE d == (j - 1) \div PageSize
           m == (j - 1) % PageSize
<1>0. j - 1 \in Nat  OBVIOUS
<1>1. d \in Nat /\ m \in 0..(PageSize - 1) /\ j - 1 = PageSize * d + m  BY <1>0, DivFacts
<1> HIDE DEF d, m
<1>2. PageSize * (d + 1) = PageSize * d + PageSize  BY <1>1
<1>3. PageSize * (d + 1) <= n + PageSize - 1  BY <1>1, <1>2
<1>4. n + PageSize - 1 \in Nat /\ d + 1 \in Nat  BY <1>1
<1>5. d + 1 <= NumBlocks(n)  BY <1>3, <1>4, DivBound DEF NumBlocks
<1>6. NumBlocks(n) \in Nat  BY NumBlocksAdd
<1>7. d * PageSize + m = j - 1  BY <1>1
<1> QED  BY <1>0, <1>1, <1>5, <1>6, <1>7 DEF d, m

-----------------------------------------------------------------------------
(* Types *)

\* An operation that starts is a well-formed operation.
LEMMA OpType ==
  ASSUME NEW kind \in Kinds, NEW k \in Keys, NEW v \in Seq(Units), NEW n \in Nat
  PROVE  Op(kind, k, v, n) \in Ops
  BY DEF Op, Ops

\* The values of Put and Merge are data.
LEMMA ValueType == (PutValues \cup MergeValues) \subseteq Seq(Units)
  BY SeqMonotonic DEF Units

\* The row that replaces the old one is a row.
LEMMA NewRowType ==
  ASSUME TypeOK, NEW t \in Threads, Key(t) \in Keys, op[t].keep <= Len(OldBlocks(t))
  PROVE  /\ NewRow(t) \in Rows
         /\ KeptBlocks(t) \in Seq(Ids)
<1>1. op[t] \in Ops /\ OldBlocks(t) \in Seq(Ids)
  BY DEF TypeOK, Rows, OldBlocks
<1>2. op[t].keep \in Nat /\ op[t].got \in Seq(Ids) /\ op[t].value \in Seq(Units)
  BY <1>1 DEF Ops
<1>3. KeptBlocks(t) \in Seq(Ids)  BY <1>1, <1>2, SplitRange DEF KeptBlocks
<1>4. KeptBlocks(t) \o op[t].got \in Seq(Ids)  BY <1>2, <1>3, ConcatRange
<1>5. op[t].keep * PageSize + Len(op[t].value) \in Int  BY <1>2, LenProperties
<1>6. NoRow \in Rows  BY EmptySeq DEF NoRow, Rows
<1> QED  BY <1>3, <1>4, <1>5, <1>6 DEF NewRow, Rows

\* The row of a failed write has the size of the value and ids of -1.
LEMMA TornRowType ==
  ASSUME NEW n \in Nat
  PROVE  /\ TornRow(n) \in Rows
         /\ TornRow(n).size = n /\ Len(TornRow(n).blocks) = NumBlocks(n)
         /\ Range(TornRow(n).blocks) \subseteq {NoBlock}
         /\ n > 0 => NoBlock \in Range(TornRow(n).blocks)
<1> DEFINE bs == [i \in 1..NumBlocks(n) |-> NoBlock]
<1>1. NumBlocks(n) \in Nat  BY NumBlocksAdd
<1>2. bs \in Seq(Ids)
  <2>1. \A i \in 1..NumBlocks(n) : NoBlock \in Ids  BY DEF Ids
  <2> QED  BY <1>1, <2>1, IsASeq
<1>3. Len(bs) = NumBlocks(n) /\ DOMAIN bs = 1..NumBlocks(n)
  <2>1. DOMAIN bs = 1..NumBlocks(n)  OBVIOUS
  <2>2. Len(bs) \in Nat /\ DOMAIN bs = 1..Len(bs)  BY <1>2, LenProperties
  <2> HIDE DEF bs
  <2> QED  BY <1>1, <2>1, <2>2
<1>4. TornRow(n) = [size |-> n, blocks |-> bs]  BY DEF TornRow
<1>5. \A i \in 1..NumBlocks(n) : bs[i] = NoBlock  OBVIOUS
<1> HIDE DEF bs
<1>6. ASSUME n > 0 PROVE 1 \in DOMAIN bs
  <2>1. 1 \in 1..n  BY <1>6
  <2>2. ((1 - 1) \div PageSize) + 1 \in 1..NumBlocks(n)  BY <2>1, UnitInBlock
  <2> QED  BY <1>1, <1>3, <2>2
<1> QED  BY <1>2, <1>3, <1>4, <1>5, <1>6 DEF Rows, Range

\* What the four calls have in common: an operation on a key nobody works on
\* starts, and nothing else changes.
LEMMA CallEffect ==
  ASSUME TypeOK, WellInv, NEW t \in Threads, Call(t)
  PROVE  \E k \in Keys, o \in Ops, p \in PCs \ {"idle", "swap"} :
            /\ MayStart(t, k) /\ Start(t, o, p)
            /\ o.key = k /\ o.got = <<>> /\ o.keep <= Len(row[k].blocks)
            /\ p = "release" <=> o.kind = "delete"
            /\ UNCHANGED <<poolVars, storeVars, buffer, saved, cp>>
<1>0. PICK k \in Keys :
         \/ \E v \in PutValues : PutNew(t, k, v) \/ PutOver(t, k, v)
         \/ \E v \in MergeValues : Merge(t, k, v)
         \/ Delete(t, k)
  BY DEF Call
<1> DEFINE n == Len(row[k].blocks)
<1>a. row[k].blocks \in Seq(Ids) /\ row[k].size \in Int  BY DEF TypeOK, Rows
<1>b. n \in Nat  BY <1>a, LenProperties
<1> HIDE DEF n
<1>1. CASE \E v \in PutValues : PutNew(t, k, v)
  <2> PICK v \in PutValues : PutNew(t, k, v)  BY <1>1
  <2> DEFINE p == IF row[k] = NoRow /\ buffer > BufferLimit THEN "row" ELSE "expand"
  <2>1. Op("new", k, v, 0) \in Ops  BY OpType, ValueType DEF Kinds
  <2>2. p \in PCs \ {"idle", "swap"} /\ p # "release"  BY DEF PCs
  <2> QED  BY <2>1, <2>2, <1>b DEF PutNew, Op, n
<1>2. CASE \E v \in PutValues : PutOver(t, k, v)
  <2> PICK v \in PutValues : PutOver(t, k, v)  BY <1>2
  <2>1. Op("put", k, v, 0) \in Ops  BY OpType, ValueType DEF Kinds
  <2> QED  BY <2>1, <1>b DEF PutOver, Op, PCs, n
<1>3. CASE \E v \in MergeValues : Merge(t, k, v)
  <2> PICK v \in MergeValues : Merge(t, k, v)  BY <1>3
  <2> DEFINE size == row[k].size
             oldblocks == size \div PageSize
             last == ReadBlocks(<<row[k].blocks[oldblocks + 1]>>, size % PageSize)
  <2>1. size \in Nat /\ n = NumBlocks(size)  BY <1>a DEF Merge, Absent, WellInv, n
  <2>2. oldblocks \in Nat /\ oldblocks <= n
    <3> HIDE DEF size
    <3> QED  BY <2>1, DivFacts, PrefixFits
  <2>3. v \in Seq(Units)  BY ValueType
  <2>4. CASE size % PageSize # 0
    <3>1. last \in Seq(Units)
      <4>1. ~Absent(k) /\ row[k].blocks[oldblocks + 1] # NoBlock  BY <2>4 DEF Merge
      <4>2. Len(row[k].blocks) = NumBlocks(row[k].size)  BY <2>1 DEF n
      <4> QED  BY <2>4, <4>1, <4>2, ReadLastBlock
    <3> HIDE DEF last, oldblocks
    <3>2. Op("copy", k, last \o v, oldblocks) \in Ops
      <4>1. last \o v \in Seq(Units)  BY <3>1, <2>3, ConcatProperties
      <4> QED  BY <4>1, <2>2, OpType DEF Kinds
    <3>3. Start(t, Op("copy", k, last \o v, oldblocks), "row")
      BY <2>4 DEF Merge, last, oldblocks
    <3> QED  BY <2>2, <3>2, <3>3 DEF Merge, Op, PCs, n
  <2>5. CASE size % PageSize = 0
    <3> HIDE DEF oldblocks
    <3>2. Op("append", k, v, oldblocks) \in Ops  BY <2>2, <2>3, OpType DEF Kinds
    <3>3. Start(t, Op("append", k, v, oldblocks), "expand")
      BY <2>5 DEF Merge, oldblocks
    <3> QED  BY <2>2, <3>2, <3>3 DEF Merge, Op, PCs, n
  <2> QED  BY <2>4, <2>5
<1>4. CASE Delete(t, k)
  <2>1. Op("delete", k, <<>>, 0) \in Ops  BY OpType, EmptySeq DEF Kinds
  <2> QED  BY <1>4, <2>1, <1>b DEF Delete, Op, PCs, n
<1> QED  BY <1>0, <1>1, <1>2, <1>3, <1>4

\* The block ids an operation releases are ids of the old row.
LEMMA BlockSets ==
  ASSUME TypeOK, NEW t \in Threads
  PROVE  /\ op[t] \in Ops /\ op[t].got \in Seq(Ids) /\ Held(t) \subseteq Blocks
         /\ Key(t) \in Keys /\ op[t].keep <= Len(OldBlocks(t)) =>
               /\ OldBlocks(t) \in Seq(Ids)
               /\ Dropped(t) \subseteq Range(OldBlocks(t)) /\ Dropped(t) \subseteq Ids
<1>1. op[t] \in Ops  BY DEF TypeOK
<1>2. op[t].got \in Seq(Ids) /\ op[t].keep \in Nat  BY <1>1 DEF Ops
<1>3. Held(t) \subseteq Blocks  BY DEF Held
<1>4. ASSUME Key(t) \in Keys, op[t].keep <= Len(OldBlocks(t))
      PROVE  /\ OldBlocks(t) \in Seq(Ids)
             /\ Dropped(t) \subseteq Range(OldBlocks(t)) /\ Dropped(t) \subseteq Ids
  <2>1. OldBlocks(t) \in Seq(Ids)  BY <1>4 DEF TypeOK, Rows, OldBlocks
  <2>2. Dropped(t) \subseteq Range(OldBlocks(t))
    BY <2>1, <1>2, <1>4, SplitRange DEF Dropped
  <2>3. Range(OldBlocks(t)) \subseteq Ids  BY <2>1 DEF Range
  <2> QED  BY <2>1, <2>2, <2>3
<1> QED  BY <1>1, <1>2, <1>3, <1>4

\* Every step keeps the types.
LEMMA TypeStep ==
  ASSUME TypeOK, LockInv, OpInv, WellInv, [Next]_vars
  PROVE  TypeOK'
<1> USE DEF poolVars, storeVars
<1>n. NoOp \in Ops  BY EmptySeq DEF NoOp, Ops, Kinds
<1>k. \A t \in Threads : pc[t] # "idle" => Key(t) \in Keys /\ op[t].keep <= Len(OldBlocks(t))
  BY DEF LockInv, OpInv
<1>b. \A t \in Threads : buffer' = buffer \/ GiveRowBack(t) => buffer' \in Nat
  BY DEF TypeOK, GiveRowBack
<1>1. ASSUME NEW t \in Threads, Call(t) PROVE TypeOK'
  <2> PICK k \in Keys, o \in Ops, p \in PCs \ {"idle", "swap"} :
         Start(t, o, p) /\ UNCHANGED <<poolVars, storeVars, buffer, saved, cp>>
    BY <1>1, CallEffect
  <2> QED  BY DEF TypeOK, Start
<1>2. ASSUME NEW t \in Threads, PopRow(t) PROVE TypeOK'
  BY <1>2 DEF TypeOK, PopRow, Goto, PCs
<1>3. ASSUME NEW t \in Threads, ExpandFile(t) PROVE TypeOK'
  BY <1>3 DEF TypeOK, ExpandFile, Goto, NextPop, PCs, Ids
<1>4. ASSUME NEW t \in Threads, NoExpansion(t) PROVE TypeOK'
  BY <1>4 DEF TypeOK, NoExpansion, Goto, NextPop, PCs
<1>5. ASSUME NEW t \in Threads, PopBlock(t) PROVE TypeOK'
  <2> PICK b \in free : /\ free' = free \ {b}
                        /\ op' = [op EXCEPT ![t].got = Append(@, b)]
    BY <1>5 DEF PopBlock
  <2>1. Append(op[t].got, b) \in Seq(Ids)  BY BlockSets, AppendProperties DEF TypeOK, Ids
  <2>2. op' \in [Threads -> Ops]  BY <2>1, BlockSets DEF TypeOK, Ops
  <2> QED  BY <1>5, <2>2 DEF TypeOK, PopBlock, NextPop, PCs
<1>6. ASSUME NEW t \in Threads, GetBlocksFails(t) PROVE TypeOK'
  <2>1. lost' \subseteq Blocks  BY <1>6 DEF TypeOK, GetBlocksFails, Held
  <2> QED  BY <1>6, <1>n, <1>b, <2>1 DEF TypeOK, GetBlocksFails, Done, PCs
<1>7. ASSUME NEW t \in Threads, Write(t) PROVE TypeOK'
  <2>1. disk' \in [Blocks -> [1..PageSize -> Units]]
    <3>1. op[t].value \in Seq(Units)  BY BlockSets DEF Ops
    <3> QED  BY <1>7, <3>1, BlockSets, WriteType DEF Write, Held
  <2> QED  BY <1>7, <2>1 DEF TypeOK, Write, Goto, PCs
<1>8. ASSUME NEW t \in Threads, WriteFails(t) PROVE TypeOK'
  <2>1. disk' \in [Blocks -> [1..PageSize -> Units]]
    <3>1. op[t].value \in Seq(Units)  BY BlockSets DEF Ops
    <3>2. PICK W \in SUBSET Held(t) : disk' = WriteBlocks(op[t].got, op[t].value, W)
      BY <1>8 DEF WriteFails
    <3> QED  BY <3>1, <3>2, BlockSets, WriteType DEF Held
  <2>2. row' \in [Keys -> Rows]
    <3>1. Len(op[t].value) \in Nat  BY BlockSets, LenProperties DEF Ops
    <3>2. TornRow(Len(op[t].value)) \in Rows  BY <3>1, TornRowType
    <3>3. row' = [row EXCEPT ![Key(t)] = TornRow(Len(op[t].value))] \/ row' = row
      BY <1>8 DEF WriteFails
    <3> QED  BY <3>2, <3>3 DEF TypeOK
  <2>3. free' \subseteq Ids /\ reserve' \subseteq Ids
    <3>1. Range(op[t].got) \subseteq Ids  BY BlockSets DEF Range
    <3> QED  BY <1>8, <3>1 DEF WriteFails, ReleaseBlocks, TypeOK
  <2> QED  BY <1>8, <1>n, <1>b, <2>1, <2>2, <2>3 DEF TypeOK, WriteFails, ReleaseBlocks, Done, PCs
<1>9. ASSUME NEW t \in Threads, Release(t) PROVE TypeOK'
  <2>1. Dropped(t) \subseteq Ids  BY <1>9, <1>k, BlockSets DEF Release
  <2> QED  BY <1>9, <2>1 DEF TypeOK, Release, ReleaseBlocks, Goto, PCs
<1>10. ASSUME NEW t \in Threads, Swap(t) PROVE TypeOK'
  <2>1. NewRow(t) \in Rows  BY <1>10, <1>k, NewRowType DEF Swap
  <2> QED  BY <1>10, <1>n, <1>b, <2>1 DEF TypeOK, Swap, Done, PCs
<1>11. ASSUME SaveMapping \/ SaveMappingFails \/ SavePool PROVE TypeOK'
  <2>1. \A k \in Keys : SavedRow(k) \in Rows
    BY EmptySeq DEF TypeOK, SavedRow, EmptyRow, Rows
  <2>2. CASE SaveMapping
    <3>1. saved' \in [done : BOOLEAN, rows : [Keys -> Rows],
                      free : SUBSET Ids, allocated : SUBSET Blocks]
      BY <2>1, <2>2 DEF TypeOK, SaveMapping
    <3> QED  BY <2>2, <3>1 DEF TypeOK, SaveMapping
  <2>3. CASE SaveMappingFails  BY <2>3 DEF TypeOK, SaveMappingFails
  <2>4. CASE SavePool
    <3>1. saved' \in [done : BOOLEAN, rows : [Keys -> Rows],
                      free : SUBSET Ids, allocated : SUBSET Blocks]
      BY <2>4 DEF TypeOK, SavePool
    <3> QED  BY <2>4, <3>1 DEF TypeOK, SavePool
  <2> QED  BY <1>11, <2>2, <2>3, <2>4
<1>12. ASSUME CrashAndRecover PROVE TypeOK'
  BY <1>12, <1>n DEF TypeOK, CrashAndRecover, Load, LoadBlockPool, PCs
<1>13. CASE UNCHANGED vars  BY <1>13 DEF TypeOK, vars
<1> QED
  BY <1>1, <1>2, <1>3, <1>4, <1>5, <1>6, <1>7, <1>8, <1>9, <1>10, <1>11, <1>12, <1>13
  DEF Next, ThreadStep

-----------------------------------------------------------------------------
(* Locks, prefixes and repetitions *)

\* The locks of the callers: a key is worked on by one operation, which keeps
\* a prefix of the row that nobody else changes.
LEMMA LockStep ==
  ASSUME TypeOK, LockInv, OpInv, WellInv, [Next]_vars
  PROVE  LockInv' /\ OpInv'
<1> USE DEF poolVars, storeVars
<1>n. NoOp.key = None  BY DEF NoOp
<1>o. \A t \in Threads : op[t] \in Ops  BY DEF TypeOK
<1> DEFINE Mine(t) ==   \* nothing but t's own step and its own key's row changes
             /\ \A u \in Threads \ {t} : pc'[u] = pc[u] /\ op'[u] = op[u]
             /\ \A k \in Keys : k # Key(t) => row'[k].blocks = row[k].blocks
<1>m. \A t \in Threads : Mine(t) => \A u \in Threads \ {t} :
          pc[u] # "idle" => Key(u)' = Key(u) /\ OldBlocks(u)' = OldBlocks(u)
  BY DEF LockInv, Key, OldBlocks
<1>1. ASSUME NEW t \in Threads, Call(t) PROVE LockInv' /\ OpInv'
  <2> PICK k \in Keys, o \in Ops, p \in PCs \ {"idle", "swap"} :
         /\ MayStart(t, k) /\ Start(t, o, p)
         /\ o.key = k /\ o.got = <<>> /\ o.keep <= Len(row[k].blocks)
         /\ p = "release" <=> o.kind = "delete"
         /\ UNCHANGED <<poolVars, storeVars, buffer, saved, cp>>
    BY <1>1, CallEffect
  <2>1. /\ op'[t] = o /\ pc'[t] = p
        /\ \A u \in Threads \ {t} : op'[u] = op[u] /\ pc'[u] = pc[u]
    BY DEF Start, TypeOK
  <2>2. LockInv'  BY <2>1 DEF LockInv, MayStart, Key
  <2>3. OpInv'  BY <2>1 DEF OpInv, OldBlocks, Key
  <2> QED  BY <2>2, <2>3
<1>2. ASSUME NEW t \in Threads, pc[t] # "idle", Done(t), Mine(t) PROVE LockInv' /\ OpInv'
  <2>1. /\ op'[t] = NoOp /\ pc'[t] = "idle"
        /\ \A u \in Threads \ {t} : op'[u] = op[u] /\ pc'[u] = pc[u]
    BY <1>2 DEF Done, TypeOK
  <2>2. LockInv'  BY <2>1, <1>n DEF LockInv, Key
  <2>3. OpInv'  BY <2>1, <1>m, <1>2 DEF OpInv
  <2> QED  BY <2>2, <2>3
<1>3. ASSUME NEW t \in Threads, NEW p \in PCs \ {"idle"}, pc[t] # "idle",
             pc' = [pc EXCEPT ![t] = p], row' = row,
             \A u \in Threads : op'[u].key = op[u].key /\ op'[u].kind = op[u].kind
                                  /\ op'[u].keep = op[u].keep,
             \A u \in Threads \ {t} : op'[u] = op[u],
             p = "release" => Swaps(t), p # "swap" => op[t].kind # "delete"
      PROVE  LockInv' /\ OpInv'
  <2>1. pc'[t] = p /\ \A u \in Threads \ {t} : pc'[u] = pc[u]  BY <1>3 DEF TypeOK
  <2>2. LockInv'  BY <2>1, <1>3 DEF LockInv, Key
  <2>3. OpInv'  BY <2>1, <1>3 DEF OpInv, OldBlocks, Key, Swaps
  <2> QED  BY <2>2, <2>3
<1>4. ASSUME NEW t \in Threads, PopRow(t) \/ ExpandFile(t) \/ NoExpansion(t) \/ Release(t) \/ Write(t)
      PROVE  LockInv' /\ OpInv'
  <2>1. \E p \in PCs \ {"idle"} : /\ pc' = [pc EXCEPT ![t] = p] /\ row' = row /\ op' = op
                                  /\ pc[t] # "idle"
                                  /\ p = "release" => Swaps(t)
                                  /\ p # "swap" => op[t].kind # "delete"
    BY <1>4 DEF PopRow, ExpandFile, NoExpansion, Release, Write, Goto, NextPop, PCs, OpInv, Swaps
  <2> QED  BY <2>1, <1>3
<1>5. ASSUME NEW t \in Threads, PopBlock(t) PROVE LockInv' /\ OpInv'
  <2> DEFINE p == NextPop(t, Len(op[t].got) + 1)
  <2>1. p \in PCs \ {"idle"} /\ p # "release"  BY DEF NextPop, PCs
  <2>2. /\ pc' = [pc EXCEPT ![t] = p] /\ row' = row /\ pc[t] # "idle"
        /\ op[t].kind # "delete"
    BY <1>5 DEF PopBlock, OpInv
  <2>3. /\ \A u \in Threads : op'[u].key = op[u].key /\ op'[u].kind = op[u].kind
                                  /\ op'[u].keep = op[u].keep
        /\ \A u \in Threads \ {t} : op'[u] = op[u]
    BY <1>5, <1>o DEF PopBlock, TypeOK, Ops
  <2> HIDE DEF p
  <2> QED  BY <2>1, <2>2, <2>3, <1>3
<1>6. ASSUME NEW t \in Threads, GetBlocksFails(t) \/ WriteFails(t) \/ Swap(t)
      PROVE  LockInv' /\ OpInv'
  <2>1. pc[t] # "idle" /\ Done(t)  BY <1>6 DEF GetBlocksFails, WriteFails, Swap
  <2>2. \A u \in Threads \ {t} : pc'[u] = pc[u] /\ op'[u] = op[u]
    BY <2>1 DEF Done, TypeOK
  <2>3. \A k \in Keys : k # Key(t) => row'[k].blocks = row[k].blocks
    BY <1>6 DEF GetBlocksFails, WriteFails, Swap, TypeOK
  <2> QED  BY <2>1, <2>2, <2>3, <1>2
<1>7. ASSUME SaveMapping \/ SaveMappingFails \/ SavePool \/ UNCHANGED vars PROVE LockInv' /\ OpInv'
  <2>1. pc' = pc /\ op' = op /\ row' = row
    BY <1>7 DEF SaveMapping, SaveMappingFails, SavePool, vars
  <2> QED  BY <2>1 DEF LockInv, OpInv, Key, OldBlocks
<1>8. ASSUME CrashAndRecover PROVE LockInv' /\ OpInv'
  BY <1>8, <1>n DEF CrashAndRecover, LockInv, OpInv, Key
<1> QED
  BY <1>1, <1>4, <1>5, <1>6, <1>7, <1>8 DEF Next, ThreadStep

-----------------------------------------------------------------------------
(* Shapes *)

\* A step of t is no step of the others: not of their operations, nor of the
\* rows they work on.
LEMMA OthersSame ==
  ASSUME TypeOK, LockInv, NEW t \in Threads, ThreadStep(t) \/ Call(t)
  PROVE  /\ saved' = saved
         /\ \A k \in Keys : k # Key(t) => row'[k] = row[k]
         /\ \A u \in Threads \ {t} :
              /\ pc'[u] = pc[u] /\ op'[u] = op[u] /\ Key(u)' = Key(u)
              /\ pc[u] # "idle" => /\ row'[Key(u)] = row[Key(u)]
                                   /\ OldBlocks(u)' = OldBlocks(u)
                                   /\ KeptBlocks(u)' = KeptBlocks(u)
                                   /\ NewRow(u)' = NewRow(u)
                                   /\ Need(u)' = Need(u)
<1>1. /\ saved' = saved
      /\ \A k \in Keys : k # Key(t) => row'[k] = row[k]
      /\ \A u \in Threads \ {t} : pc'[u] = pc[u] /\ op'[u] = op[u]
  <2>1. CASE Call(t)
    BY <2>1 DEF Call, PutNew, PutOver, Merge, Delete, Start, storeVars, TypeOK
  <2>2. CASE PopRow(t) \/ ExpandFile(t) \/ NoExpansion(t) \/ Write(t) \/ Release(t)
    BY <2>2 DEF PopRow, ExpandFile, NoExpansion, Write, Release, Goto, storeVars, TypeOK
  <2>3. CASE PopBlock(t)
    BY <2>3 DEF PopBlock, storeVars, TypeOK
  <2>4. CASE GetBlocksFails(t) \/ WriteFails(t) \/ Swap(t)
    BY <2>4 DEF GetBlocksFails, WriteFails, Swap, Done, storeVars, TypeOK
  <2> QED  BY <2>1, <2>2, <2>3, <2>4 DEF ThreadStep
<1>2. ASSUME NEW u \in Threads \ {t}, pc[u] # "idle" PROVE row'[Key(u)] = row[Key(u)]
  <2>1. Key(u) \in Keys /\ Key(u) # Key(t)  BY <1>2 DEF LockInv
  <2> QED  BY <1>1, <2>1
<1>3. \A u \in Threads \ {t} : Key(u)' = Key(u)  BY <1>1 DEF Key
<1>4. \A u \in Threads \ {t} : pc[u] # "idle" => OldBlocks(u)' = OldBlocks(u)
  BY <1>2, <1>3 DEF OldBlocks
<1>5. \A u \in Threads \ {t} : pc[u] # "idle" =>
        KeptBlocks(u)' = KeptBlocks(u) /\ NewRow(u)' = NewRow(u) /\ Need(u)' = Need(u)
  BY <1>1, <1>4 DEF KeptBlocks, NewRow, Need
<1> QED  BY <1>1, <1>2, <1>3, <1>4, <1>5

\* The number of blocks an operation needs.
LEMMA NeedType ==
  ASSUME TypeOK
  PROVE  \A t \in Threads : /\ Need(t) \in Nat /\ Len(op[t].got) \in Nat
                            /\ op[t].keep \in Nat /\ Len(op[t].value) \in Nat
                            /\ op[t].value \in Seq(Units) /\ op[t].got \in Seq(Ids)
<1> SUFFICES ASSUME NEW t \in Threads
             PROVE  /\ Need(t) \in Nat /\ Len(op[t].got) \in Nat
                    /\ op[t].keep \in Nat /\ Len(op[t].value) \in Nat
                    /\ op[t].value \in Seq(Units) /\ op[t].got \in Seq(Ids)
  OBVIOUS
<1>1. op[t].value \in Seq(Units) /\ op[t].got \in Seq(Ids) /\ op[t].keep \in Nat
  BY DEF TypeOK, Ops
<1>2. Len(op[t].value) \in Nat /\ Len(op[t].got) \in Nat  BY <1>1, LenProperties
<1>3. NumBlocks(Len(op[t].value)) \in Nat  BY <1>2, NumBlocksAdd
<1> QED  BY <1>1, <1>2, <1>3 DEF Need

\* What a call starts.
LEMMA CallShape ==
  ASSUME TypeOK, LockInv, RowInv, WellInv, NEW t \in Threads, Call(t)
  PROVE  /\ UNCHANGED <<row, disk, saved>> /\ pc[t] = "idle" /\ pc'[t] # "idle"
         /\ Key(t)' \in Keys
         /\ op'[t].kind # "none" /\ op'[t].got = <<>>
         /\ op'[t].kind \in {"new", "put"} => op'[t].value \in PutValues
         /\ op'[t].kind \in {"new", "put", "delete"} => op'[t].keep = 0
         /\ op'[t].kind = "new" => OldBlocks(t)' = <<>>
         /\ op'[t].kind = "append" => op'[t].keep = Len(OldBlocks(t)')
         /\ op'[t].kind = "delete" => pc'[t] = "release"
         /\ op'[t].kind # "delete" => pc'[t] \in {"row", "expand"}
<1>0. PICK k \in Keys :
         \/ \E v \in PutValues : PutNew(t, k, v) \/ PutOver(t, k, v)
         \/ \E v \in MergeValues : Merge(t, k, v)
         \/ Delete(t, k)
  BY DEF Call
<1>a. row[k].blocks \in Seq(Ids) /\ row[k].size \in Int  BY DEF TypeOK, Rows
<1>s. ASSUME NEW o, NEW p, Start(t, o, p)
      PROVE  op'[t] = o /\ pc'[t] = p
  BY <1>s DEF Start, TypeOK
<1>b. UNCHANGED <<row, disk, saved>> /\ pc[t] = "idle"
  BY <1>0 DEF PutNew, PutOver, Merge, Delete, storeVars, MayStart, Idle
<1>1. CASE \E v \in PutValues : PutNew(t, k, v)
  <2> PICK v \in PutValues : PutNew(t, k, v)  BY <1>1
  <2> DEFINE p == IF row[k] = NoRow /\ buffer > BufferLimit THEN "row" ELSE "expand"
  <2>1. op'[t] = Op("new", k, v, 0) /\ pc'[t] = p  BY <1>s DEF PutNew
  <2>2. row[k].blocks = <<>>  BY DEF PutNew, Absent, RowInv
  <2> QED  BY <1>b, <2>1, <2>2 DEF Op, OldBlocks, Key
<1>2. CASE \E v \in PutValues : PutOver(t, k, v)
  <2> PICK v \in PutValues : PutOver(t, k, v)  BY <1>2
  <2>1. op'[t] = Op("put", k, v, 0) /\ pc'[t] = "row"  BY <1>s DEF PutOver
  <2> QED  BY <1>b, <2>1 DEF Op, OldBlocks, Key
<1>3. CASE \E v \in MergeValues : Merge(t, k, v)
  <2> PICK v \in MergeValues : Merge(t, k, v)  BY <1>3
  <2> DEFINE size == row[k].size
             oldblocks == size \div PageSize
             last == ReadBlocks(<<row[k].blocks[oldblocks + 1]>>, size % PageSize)
  <2>1. size \in Nat /\ Len(row[k].blocks) = NumBlocks(size)  BY <1>a DEF Merge, Absent, WellInv
  <2>2. CASE size % PageSize # 0
    <3>1. Start(t, Op("copy", k, last \o v, oldblocks), "row")  BY <2>2 DEF Merge
    <3> HIDE DEF last, oldblocks
    <3>2. op'[t] = Op("copy", k, last \o v, oldblocks) /\ pc'[t] = "row"  BY <3>1, <1>s
    <3> QED  BY <1>b, <3>2 DEF Op, OldBlocks, Key
  <2>3. CASE size % PageSize = 0
    <3>1. Start(t, Op("append", k, v, oldblocks), "expand")  BY <2>3 DEF Merge
    <3>2. op'[t] = Op("append", k, v, oldblocks) /\ pc'[t] = "expand"  BY <3>1, <1>s
    <3>3. oldblocks = NumBlocks(size)
      <4> HIDE DEF size
      <4>1. oldblocks \in Nat /\ size = PageSize * oldblocks + (size % PageSize)  BY <2>1, DivFacts
      <4>2. size = oldblocks * PageSize + 0
        <5> HIDE DEF oldblocks
        <5> QED  BY <4>1, <2>3
      <4>3. NumBlocks(oldblocks * PageSize + 0) = oldblocks + NumBlocks(0)  BY <4>1, NumBlocksAdd
      <4>4. NumBlocks(0) = 0  BY NoBlocks
      <4> HIDE DEF oldblocks
      <4> QED  BY <4>1, <4>2, <4>3, <4>4
    <3> HIDE DEF oldblocks
    <3> QED  BY <1>b, <2>1, <3>2, <3>3 DEF Op, OldBlocks, Key
  <2> QED  BY <2>2, <2>3
<1>4. CASE Delete(t, k)
  <2>1. op'[t] = Op("delete", k, <<>>, 0) /\ pc'[t] = "release"  BY <1>4, <1>s DEF Delete
  <2> QED  BY <1>b, <2>1 DEF Op, OldBlocks, Key
<1> QED  BY <1>0, <1>1, <1>2, <1>3, <1>4

\* Every step keeps the shapes: an operation that reaches its write has all
\* the blocks it needs, one that fails before has given up.
LEMMA ShapeStep ==
  ASSUME Typed, [Next]_vars
  PROVE  ShapeInv'
<1> USE DEF Typed, poolVars, storeVars
<1>n. \A t \in Threads : /\ Need(t) \in Nat /\ Len(op[t].got) \in Nat
                         /\ op[t].got \in Seq(Ids)
  BY NeedType
<1>o. \A t \in Threads : op[t] \in Ops  BY DEF TypeOK
<1>1. ASSUME NEW t \in Threads, ThreadStep(t) \/ Call(t), pc'[t] # "idle" => Shape(t)' PROVE ShapeInv'
  <2>1. \A u \in Threads \ {t} : pc'[u] # "idle" => Shape(u)'
    BY <1>1, OthersSame DEF ShapeInv, Shape
  <2> QED  BY <1>1, <2>1 DEF ShapeInv
<1>2. ASSUME NEW t \in Threads, Call(t) PROVE Shape(t)'
  BY <1>2, CallShape DEF Shape
<1>3. ASSUME NEW t \in Threads, pc[t] # "idle", op' = op, row' = row,
             pc'[t] \in {"expand", "pop", "write", "release", "swap"},
             pc'[t] = "expand" => op[t].got = <<>>,
             pc'[t] = "pop" => Len(op[t].got) < Need(t),
             pc'[t] \in {"write", "release", "swap"} /\ op[t].kind # "delete"
               => Len(op[t].got) = Need(t)
      PROVE  Shape(t)'
  <2>1. OldBlocks(t)' = OldBlocks(t) /\ Need(t)' = Need(t)
    BY <1>3 DEF OldBlocks, Key, Need
  <2> QED  BY <1>3, <2>1 DEF ShapeInv, Shape
<1>4. ASSUME NEW t \in Threads, PopRow(t) PROVE Shape(t)'
  BY <1>4, <1>3 DEF PopRow, Goto, TypeOK, ShapeInv, Shape
<1>5. ASSUME NEW t \in Threads, ExpandFile(t) \/ NoExpansion(t) PROVE Shape(t)'
  <2>1. /\ pc[t] = "expand" /\ op' = op /\ row' = row /\ pc'[t] = NextPop(t, 0)
    BY <1>5 DEF ExpandFile, NoExpansion, Goto, TypeOK
  <2>2. op[t].got = <<>> /\ Len(op[t].got) = 0  BY <2>1, EmptySeq DEF ShapeInv, Shape
  <2> QED  BY <2>1, <2>2, <1>n, <1>3 DEF NextPop
<1>6. ASSUME NEW t \in Threads, PopBlock(t) PROVE Shape(t)'
  <2>0. PICK b \in free : op' = [op EXCEPT ![t].got = Append(@, b)]  BY <1>6 DEF PopBlock
  <2>1. /\ pc[t] = "pop" /\ row' = row /\ pc'[t] = NextPop(t, Len(op[t].got) + 1)
        /\ op'[t].got = Append(op[t].got, b) /\ op'[t].kind = op[t].kind
        /\ op'[t].value = op[t].value /\ op'[t].keep = op[t].keep /\ op'[t].key = op[t].key
    BY <1>6, <1>o, <2>0 DEF PopBlock, TypeOK, Ops
  <2>2. Len(op'[t].got) = Len(op[t].got) + 1
    <3>1. b \in Ids  BY DEF TypeOK
    <3> QED  BY <2>1, <3>1, <1>n, AppendProperties
  <2>3. OldBlocks(t)' = OldBlocks(t) /\ Need(t)' = Need(t)
    BY <2>1 DEF OldBlocks, Key, Need
  <2>4. op[t].kind # "delete"  BY <2>1 DEF OpInv
  <2>5. Len(op[t].got) < Need(t)  BY <2>1 DEF ShapeInv, Shape
  <2> QED  BY <2>1, <2>2, <2>3, <2>4, <2>5, <1>n DEF ShapeInv, Shape, NextPop
<1>7. ASSUME NEW t \in Threads, Write(t) PROVE Shape(t)'
  <2>1. /\ pc[t] = "write" /\ op' = op /\ row' = row /\ pc'[t] \in {"release", "swap"}
    BY <1>7 DEF Write, Goto, TypeOK
  <2> QED  BY <2>1, <1>3 DEF ShapeInv, Shape
<1>8. ASSUME NEW t \in Threads, Release(t) PROVE Shape(t)'
  <2>1. /\ pc[t] = "release" /\ op' = op /\ row' = row /\ pc'[t] = "swap"
    BY <1>8 DEF Release, Goto, TypeOK
  <2> QED  BY <2>1, <1>3 DEF ShapeInv, Shape
<1>9. ASSUME NEW t \in Threads, GetBlocksFails(t) \/ WriteFails(t) \/ Swap(t) PROVE pc'[t] = "idle"
  BY <1>9 DEF GetBlocksFails, WriteFails, Swap, Done, TypeOK
<1>10. ASSUME SaveMapping \/ SaveMappingFails \/ SavePool \/ UNCHANGED vars PROVE ShapeInv'
  <2>1. pc' = pc /\ op' = op /\ row' = row
    BY <1>10 DEF SaveMapping, SaveMappingFails, SavePool, vars
  <2> QED  BY <2>1 DEF ShapeInv, Shape, Key, OldBlocks, Need
<1>11. ASSUME CrashAndRecover PROVE ShapeInv'
  BY <1>11 DEF CrashAndRecover, ShapeInv
<1> QED
  BY <1>1, <1>2, <1>4, <1>5, <1>6, <1>7, <1>8, <1>9, <1>10, <1>11 DEF Next, ThreadStep

\* The row that replaces the old one has a size and the blocks for it.
LEMMA NewRowSize ==
  ASSUME TypeOK, NEW t \in Threads, Key(t) \in Keys, op[t].keep <= Len(OldBlocks(t)),
         op[t].kind # "delete", Len(op[t].got) = Need(t)
  PROVE  /\ NewRow(t).size = op[t].keep * PageSize + Len(op[t].value) /\ NewRow(t).size \in Nat
         /\ NewRow(t).blocks = KeptBlocks(t) \o op[t].got
         /\ Len(NewRow(t).blocks) = NumBlocks(NewRow(t).size)
         /\ Len(KeptBlocks(t)) = op[t].keep
         /\ \A i \in 1..op[t].keep : KeptBlocks(t)[i] = OldBlocks(t)[i] /\ OldBlocks(t)[i] \in Ids
<1> DEFINE n == Len(op[t].value)
           c == op[t].keep
<1>1. /\ n \in Nat /\ c \in Nat /\ op[t].got \in Seq(Ids)  BY NeedType
<1>2. NewRow(t) = [size |-> c * PageSize + n, blocks |-> KeptBlocks(t) \o op[t].got]
  BY DEF NewRow
<1>3. OldBlocks(t) \in Seq(Ids) /\ KeptBlocks(t) \in Seq(Ids)
  BY BlockSets, NewRowType
<1>4. Len(OldBlocks(t)) \in Nat /\ \A i \in 1..Len(OldBlocks(t)) : OldBlocks(t)[i] \in Ids
  BY <1>3, LenProperties, ElementOfSeq
<1>5. \A i \in 1..c : OldBlocks(t)[i] \in Ids  BY <1>1, <1>4
<1>6. Len(KeptBlocks(t)) = c /\ \A i \in 1..c : KeptBlocks(t)[i] = OldBlocks(t)[i]
  <2>1. /\ Len(KeptBlocks(t)) = (IF 1 <= c THEN c - 1 + 1 ELSE 0)
        /\ \A i \in 1..(c - 1 + 1) : KeptBlocks(t)[i] = OldBlocks(t)[1 + i - 1]
    BY <1>1, <1>5, SubSeqProperties DEF KeptBlocks
  <2> HIDE DEF c
  <2> QED  BY <1>1, <2>1
<1> DEFINE a == KeptBlocks(t)
           g == op[t].got
<1>7. Len(a \o g) = c + Need(t)
  <2>1. a \in Seq(Ids) /\ g \in Seq(Ids)  BY <1>1, <1>3
  <2>2. Len(a) = c /\ Len(g) = Need(t)  BY <1>6
  <2> HIDE DEF a, g
  <2>3. Len(a \o g) = Len(a) + Len(g)  BY ONLY <2>1, ConcatProperties
  <2> QED  BY ONLY <2>2, <2>3
<1>8. NumBlocks(c * PageSize + n) = c + Need(t)  BY <1>1, NumBlocksAdd DEF Need
<1>9. c * PageSize + n \in Nat
  <2> HIDE DEF c, n
  <2> QED  BY <1>1, UnitsType
<1>10. NewRow(t) = [size |-> c * PageSize + n, blocks |-> a \o g]  BY <1>2
<1>11. /\ NewRow(t).size = c * PageSize + n /\ NewRow(t).blocks = a \o g
  <2> HIDE DEF a, g, c, n
  <2> QED  BY ONLY <1>10
<1>12. NewRow(t).size \in Nat /\ Len(NewRow(t).blocks) = NumBlocks(NewRow(t).size)
  <2> HIDE DEF a, g, c, n
  <2> QED  BY ONLY <1>7, <1>8, <1>9, <1>11
<1> QED  BY <1>5, <1>6, <1>11, <1>12

\* Keys without a value have no blocks and every other row has as many block
\* ids as its size needs, whatever fails.
LEMMA RowStep ==
  ASSUME Typed, [Next]_vars
  PROVE  RowInv' /\ WellInv'
<1> USE DEF Typed, poolVars, storeVars
<1>1. ASSUME row' = row, saved' = saved PROVE RowInv' /\ WellInv'
  BY <1>1 DEF RowInv, WellInv
<1>2. ASSUME NEW t \in Threads, PopRow(t) \/ ExpandFile(t) \/ NoExpansion(t) \/ PopBlock(t)
                \/ GetBlocksFails(t) \/ Write(t) \/ Release(t) \/ Call(t)
      PROVE  row' = row /\ saved' = saved
  BY <1>2 DEF PopRow, ExpandFile, NoExpansion, PopBlock, GetBlocksFails, Write, Release,
     Call, PutNew, PutOver, Merge, Delete
<1>3. ASSUME NEW t \in Threads, WriteFails(t) PROVE RowInv' /\ WellInv'
  <2> DEFINE r == TornRow(Len(op[t].value))
  <2>1. saved' = saved /\ (row' = row \/ row' = [row EXCEPT ![Key(t)] = r])
    BY <1>3 DEF WriteFails
  <2>2. r.size \in Nat /\ Len(r.blocks) = NumBlocks(r.size)  BY NeedType, TornRowType
  <2> HIDE DEF r
  <2>3. \A k \in Keys : row'[k] = row[k] \/ row'[k] = r  BY <2>1 DEF TypeOK
  <2>4. RowInv'  BY <2>1, <2>2, <2>3 DEF RowInv
  <2>5. WellInv'  BY <2>1, <2>2, <2>3 DEF WellInv
  <2> QED  BY <2>4, <2>5
<1>4. ASSUME NEW t \in Threads, Swap(t) PROVE RowInv' /\ WellInv'
  <2>1. pc[t] = "swap" /\ saved' = saved /\ row' = [row EXCEPT ![Key(t)] = NewRow(t)]
    BY <1>4 DEF Swap
  <2>2. Key(t) \in Keys /\ op[t].keep <= Len(OldBlocks(t))  BY <2>1 DEF LockInv, OpInv
  <2>3. CASE op[t].kind = "delete"
    <3>1. NewRow(t) = NoRow  BY <2>3 DEF NewRow
    <3> QED  BY <2>1, <3>1 DEF RowInv, WellInv, NoRow, TypeOK
  <2>4. CASE op[t].kind # "delete"
    <3>1. Len(op[t].got) = Need(t)  BY <2>1, <2>4 DEF ShapeInv, Shape
    <3>2. NewRow(t).size \in Nat /\ Len(NewRow(t).blocks) = NumBlocks(NewRow(t).size)
      BY <2>2, <2>4, <3>1, NewRowSize
    <3>3. \A k \in Keys : row'[k] = row[k] \/ row'[k] = NewRow(t)  BY <2>1 DEF TypeOK
    <3>4. RowInv'  BY <2>1, <3>2, <3>3 DEF RowInv
    <3>5. WellInv'  BY <2>1, <3>2, <3>3 DEF WellInv
    <3> QED  BY <3>4, <3>5
  <2> QED  BY <2>3, <2>4
<1>5. ASSUME SaveMapping PROVE RowInv' /\ WellInv'
  <2>1. row' = row /\ \A k \in Keys : saved'.rows[k] = SavedRow(k)
    BY <1>5 DEF SaveMapping, TypeOK
  <2>2. \A k \in Keys : SavedRow(k) = row[k] \/ SavedRow(k) = [size |-> -1, blocks |-> <<>>]
    BY DEF SavedRow, EmptyRow
  <2>3. RowInv'  BY <2>1, <2>2 DEF RowInv
  <2>4. WellInv'  BY <2>1, <2>2 DEF WellInv
  <2> QED  BY <2>3, <2>4
<1>6. ASSUME SaveMappingFails \/ SavePool PROVE RowInv' /\ WellInv'
  <2>1. row' = row /\ saved'.rows = saved.rows
    BY <1>6 DEF SaveMappingFails, SavePool, TypeOK
  <2> QED  BY <2>1 DEF RowInv, WellInv
<1>7. ASSUME CrashAndRecover PROVE RowInv' /\ WellInv'
  BY <1>7 DEF CrashAndRecover, Load, RowInv, WellInv
<1>8. CASE UNCHANGED vars  BY <1>1, <1>8 DEF vars
<1>9. CASE \E t \in Threads : ThreadStep(t) \/ Call(t)
  BY <1>1, <1>2, <1>3, <1>4, <1>9 DEF ThreadStep
<1> QED  BY <1>5, <1>6, <1>7, <1>8, <1>9 DEF Next


\* Every step keeps the types and the shapes they rest on.
LEMMA TypedStep == Typed /\ [Next]_vars => Typed'
<1> SUFFICES ASSUME Typed, [Next]_vars PROVE Typed'  OBVIOUS
<1>1. TypeOK' /\ LockInv' /\ OpInv'  BY TypeStep, LockStep DEF Typed
<1>2. ShapeInv' /\ RowInv' /\ WellInv'  BY ShapeStep, RowStep
<1> QED  BY <1>1, <1>2 DEF Typed

LEMMA InitTyped == Init => Typed
<1> SUFFICES ASSUME Init PROVE Typed  OBVIOUS
<1>1. TypeOK
  <2>1. row \in [Keys -> Rows]  BY EmptySeq DEF Init, NoRow, Rows
  <2>2. op \in [Threads -> Ops]  BY EmptySeq DEF Init, NoOp, Ops, Kinds
  <2>3. saved \in [done : BOOLEAN, rows : [Keys -> Rows],
                   free : SUBSET Ids, allocated : SUBSET Blocks]
    BY <2>1 DEF Init
  <2> QED  BY <2>1, <2>2, <2>3 DEF Init, TypeOK, PCs, Units, Ids
<1>2. LockInv /\ OpInv /\ ShapeInv  BY DEF Init, LockInv, OpInv, ShapeInv, Key, NoOp
<1>3. \A k \in Keys : row[k] = NoRow /\ saved.rows[k] = NoRow  BY DEF Init
<1>4. RowInv /\ WellInv  BY <1>3 DEF RowInv, WellInv, NoRow
<1> QED  BY <1>1, <1>2, <1>4 DEF Typed

\* Every reachable state is well typed, whatever fails.  The values that
\* Merge hands on are data: no block id beyond those of the row is read,
\* since a row has as many ids as its size needs even after a failed write.
THEOREM TypeCorrect == Spec => []TypeOK
<1>1. Typed => TypeOK  BY DEF Typed
<1> QED  BY <1>1, InitTyped, TypedStep, PTL DEF Spec

-----------------------------------------------------------------------------
(* What an operation keeps and releases *)

\* The row that replaces the old one names the blocks kept and the new ones,
\* each once, and none of the released ones.
LEMMA NewRowBlocks ==
  ASSUME TypeOK, InjInv, NEW t \in Threads, Key(t) \in Keys, op[t].keep <= Len(OldBlocks(t)),
         Range(KeptBlocks(t)) \cap Held(t) = {}
  PROVE  /\ Distinct(NewRow(t).blocks)
         /\ Range(NewRow(t).blocks) \subseteq Range(KeptBlocks(t)) \cup Range(op[t].got)
<1>1. op[t].keep \in Nat /\ op[t].got \in Seq(Ids) /\ OldBlocks(t) \in Seq(Ids)
  BY BlockSets DEF Ops
<1>2. Distinct(OldBlocks(t)) /\ Distinct(op[t].got)  BY DEF InjInv, OldBlocks
<1>3. KeptBlocks(t) \in Seq(Ids) /\ Distinct(KeptBlocks(t))
  BY <1>1, <1>2, SplitRange DEF KeptBlocks
<1>4. Range(KeptBlocks(t)) \cap Range(op[t].got) \subseteq {NoBlock}
  <2>1. Range(op[t].got) \subseteq Ids  BY <1>1 DEF Range
  <2> QED  BY <2>1 DEF Held, Ids
<1>5. /\ Range(KeptBlocks(t) \o op[t].got) = Range(KeptBlocks(t)) \cup Range(op[t].got)
      /\ Distinct(KeptBlocks(t) \o op[t].got)
  BY <1>1, <1>2, <1>3, <1>4, ConcatRange
<1> QED  BY <1>5, EmptyRange DEF NewRow, NoRow

\* The kept blocks are blocks of the old row, and not among the released ones.
LEMMA KeptNotDropped ==
  ASSUME TypeOK, InjInv, NEW t \in Threads, Key(t) \in Keys, op[t].keep <= Len(OldBlocks(t))
  PROVE  /\ Range(KeptBlocks(t)) \subseteq Range(OldBlocks(t))
         /\ Range(KeptBlocks(t)) \cap Dropped(t) \subseteq {NoBlock}
<1>1. op[t].keep \in Nat /\ OldBlocks(t) \in Seq(Ids)  BY BlockSets DEF Ops
<1>2. Distinct(OldBlocks(t))  BY DEF InjInv, OldBlocks
<1> QED  BY <1>1, <1>2, SplitRange DEF KeptBlocks, Dropped

-----------------------------------------------------------------------------
(* Ownership *)

\* A step of t that changes neither which blocks k's row names nor what the
\* others release of it, and is not at the
\* change of that row before or after, does not change what k owns.
LEMMA OwnedSame ==
  ASSUME NEW t \in Threads, NEW k \in Keys,
         Range(row'[k].blocks) \cap Blocks = Range(row[k].blocks) \cap Blocks,
         Swapping(k) # {} => row'[k].blocks = row[k].blocks,
         \A u \in Threads \ {t} : pc'[u] = pc[u] /\ op'[u] = op[u],
         t \notin Swapping(k), t \notin Swapping(k)'
  PROVE  Owned(k)' = Owned(k)
<1>1. Swapping(k)' = Swapping(k)  BY DEF Swapping, Key
<1>2. \A u \in Swapping(k) : Dropped(u)' = Dropped(u)
  BY DEF Swapping, Dropped, OldBlocks, Key
<1> QED  BY <1>1, <1>2 DEF Owned

\* What a key owns is named by its row; all of it while nobody replaces it.
LEMMA OwnedInRow ==
  ASSUME NEW k \in Keys
  PROVE  /\ Owned(k) \subseteq Range(row[k].blocks) \cap Blocks
         /\ Swapping(k) = {} => Owned(k) = Range(row[k].blocks) \cap Blocks
  BY DEF Owned

\* With one operation per key, only that operation can be replacing its row.
LEMMA OneSwapping ==
  ASSUME LockInv, NEW t \in Threads, pc[t] # "idle"
  PROVE  \A k \in Keys : \A u \in Swapping(k) : (u = t) <=> (k = Key(t))
<1>1. Key(t) \in Keys  BY DEF LockInv
<1> QED  BY <1>1 DEF Swapping, LockInv, Key

\* The part of the invariant about who owns which block.
OwnerInv == InjInv /\ AllocInv /\ OneOwner

\* Steps that move no block: calls, and the steps of GetBlocks and
\* WriteBlocks that only go on.
LEMMA QuietStep ==
  ASSUME Typed, OwnerInv, NEW t \in Threads,
         \A u \in Threads \ {t} : pc'[u] = pc[u] /\ op'[u] = op[u],
         op'[t].got = op[t].got,
         \A k \in Keys : t \notin Swapping(k) /\ t \notin Swapping(k)',
         UNCHANGED <<poolVars, row>>
  PROVE  OwnerInv'
<1>1. \A k \in Keys : Owned(k)' = Owned(k)  BY OwnedSame
<1>2. \A u \in Threads : Held(u)' = Held(u)  BY DEF Held
<1>3. InjInv'  BY DEF InjInv, OwnerInv
<1>4. AllocInv'  BY <1>2 DEF AllocInv, OwnerInv, poolVars
<1>5. OneOwner'  BY <1>1, <1>2 DEF OneOwner, OwnerInv, poolVars
<1> QED  BY <1>3, <1>4, <1>5 DEF OwnerInv

\* A call that fails changes a row at most from no blocks to ids of -1.
LEMMA FailedRow ==
  ASSUME Typed, InjInv, NEW t \in Threads, GetBlocksFails(t) \/ WriteFails(t)
  PROVE  \A k \in Keys : /\ row'[k].blocks # row[k].blocks =>
                              /\ k = Key(t) /\ Range(row'[k].blocks) \cap Blocks = {}
                              /\ Range(row[k].blocks) = {}
                         /\ Distinct(row'[k].blocks)
<1> SUFFICES ASSUME NEW k \in Keys
             PROVE  /\ row'[k].blocks # row[k].blocks =>
                         /\ k = Key(t) /\ Range(row'[k].blocks) \cap Blocks = {}
                         /\ Range(row[k].blocks) = {}
                    /\ Distinct(row'[k].blocks)
  OBVIOUS
<1> DEFINE r == TornRow(Len(op[t].value))
<1>1. Range(r.blocks) \cap Blocks = {} /\ Distinct(r.blocks)
  <2>1. Range(r.blocks) \subseteq {NoBlock}  BY NeedType, TornRowType DEF Typed
  <2> HIDE DEF r
  <2> QED  BY <2>1 DEF Range, Distinct
<1> HIDE DEF r
<1>2. row'[k] = row[k] \/ (k = Key(t) /\ row[k] = EmptyRow /\ row'[k] = r)
  BY DEF GetBlocksFails, WriteFails, storeVars, Typed, TypeOK, r
<1>3. CASE row'[k] = row[k]  BY <1>3 DEF InjInv
<1>4. CASE k = Key(t) /\ row[k] = EmptyRow /\ row'[k] = r
  BY <1>1, <1>4, EmptyRange DEF EmptyRow
<1> QED  BY <1>2, <1>3, <1>4

\* Every step of an operation keeps ownership exclusive.
LEMMA OwnerStepThread ==
  ASSUME Typed, OwnerInv, NEW t \in Threads, ThreadStep(t) \/ Call(t)
  PROVE  OwnerInv'
<1> USE DEF Typed, poolVars, storeVars
<1>o. \A u \in Threads : op[u] \in Ops /\ op[u].got \in Seq(Ids)  BY BlockSets
<1>k. pc[t] # "idle" => Key(t) \in Keys /\ op[t].keep <= Len(OldBlocks(t))
  BY DEF LockInv, OpInv
<1>1. ASSUME Call(t) PROVE OwnerInv'
  <2> PICK k \in Keys, o \in Ops, p \in PCs \ {"idle", "swap"} :
         /\ MayStart(t, k) /\ Start(t, o, p) /\ o.got = <<>>
         /\ UNCHANGED <<poolVars, storeVars, buffer, saved, cp>>
    BY <1>1, CallEffect
  <2>1. /\ op'[t] = o /\ pc'[t] = p
        /\ \A u \in Threads \ {t} : op'[u] = op[u] /\ pc'[u] = pc[u]
    BY DEF Start, TypeOK
  <2>2. op[t].got = <<>>  BY DEF MayStart, Idle, LockInv, NoOp
  <2>3. \A l \in Keys : t \notin Swapping(l) /\ t \notin Swapping(l)'
    BY <2>1 DEF Swapping, MayStart, Idle
  <2> QED  BY <2>1, <2>2, <2>3, QuietStep
<1>2. ASSUME PopRow(t) \/ NoExpansion(t) \/ Write(t) PROVE OwnerInv'
  <2>1. /\ op' = op /\ row' = row /\ UNCHANGED poolVars /\ pc[t] # "swap"
        /\ \A u \in Threads \ {t} : pc'[u] = pc[u]
        /\ pc'[t] = "swap" => ~Swaps(t) /\ op[t].kind # "delete"
    <3>1. CASE PopRow(t)  BY <3>1 DEF PopRow, Goto, TypeOK
    <3>2. CASE NoExpansion(t)  BY <3>2 DEF NoExpansion, Goto, NextPop, TypeOK
    <3>3. CASE Write(t)
      BY <3>3 DEF Write, Goto, TypeOK, OpInv
    <3> QED  BY <1>2, <3>1, <3>2, <3>3
  <2>2. \A l \in Keys : t \notin Swapping(l) /\ t \notin Swapping(l)'
    BY <2>1 DEF Swapping, Swaps
  <2> QED  BY <2>1, <2>2, QuietStep
<1>3. ASSUME ExpandFile(t) PROVE OwnerInv'
  <2> PICK B \in SUBSET (Blocks \ allocated) :
         allocated' = allocated \cup B /\ free' = free \cup B
    BY <1>3 DEF ExpandFile
  <2>1. op' = op /\ row' = row /\ UNCHANGED <<reserve, lost>> /\ pc[t] # "swap" /\ pc'[t] # "swap"
        /\ \A u \in Threads \ {t} : pc'[u] = pc[u]
    BY <1>3 DEF ExpandFile, Goto, NextPop, TypeOK
  <2>2. \A k \in Keys : t \notin Swapping(k) /\ t \notin Swapping(k)'  BY <2>1 DEF Swapping
  <2>3. \A k \in Keys : Owned(k)' = Owned(k) /\ Owned(k) \subseteq allocated
    BY <2>1, <2>2, OwnedSame, OwnedInRow DEF OwnerInv, AllocInv
  <2>4. \A u \in Threads : Held(u)' = Held(u) /\ Held(u) \subseteq allocated
    BY <2>1 DEF Held, OwnerInv, AllocInv
  <2>5. InjInv'  BY <2>1 DEF InjInv, OwnerInv
  <2>6. AllocInv'  BY <2>1, <2>4 DEF AllocInv, OwnerInv
  <2>7. B \cap (free \cup reserve \cup lost) = {}  BY DEF AllocInv, OwnerInv
  <2>8. OneOwner'  BY <2>1, <2>3, <2>4, <2>7 DEF OneOwner, OwnerInv
  <2> QED  BY <2>5, <2>6, <2>8 DEF OwnerInv
<1>4. ASSUME PopBlock(t) PROVE OwnerInv'
  <2> PICK b \in free : free' = free \ {b} /\ op' = [op EXCEPT ![t].got = Append(@, b)]
    BY <1>4 DEF PopBlock
  <2>1. /\ row' = row /\ UNCHANGED <<reserve, lost, allocated>> /\ pc[t] # "swap" /\ pc'[t] # "swap"
        /\ \A u \in Threads \ {t} : pc'[u] = pc[u] /\ op'[u] = op[u]
        /\ op'[t].got = Append(op[t].got, b)
    BY <1>4, <1>o DEF PopBlock, NextPop, TypeOK, Ops
  <2>2. \A k \in Keys : t \notin Swapping(k) /\ t \notin Swapping(k)'  BY <2>1 DEF Swapping
  <2>3. \A k \in Keys : Owned(k)' = Owned(k)  BY <2>1, <2>2, OwnedSame
  <2>4. b \in Ids /\ (b \in Range(op[t].got) => b = NoBlock)
    BY DEF OneOwner, OwnerInv, TypeOK, Held, Ids
  <2>5. /\ Range(op'[t].got) = Range(op[t].got) \cup {b} /\ Distinct(op'[t].got)
        /\ \A u \in Threads \ {t} : Held(u)' = Held(u)
    BY <1>o, <2>1, <2>4, AppendRange DEF Held, InjInv, OwnerInv
  <2>5a. Held(t)' = Held(t) \cup ({b} \cap Blocks)  BY <2>5 DEF Held
  <2>6. InjInv'  BY <2>1, <2>5 DEF InjInv, OwnerInv
  <2>7. AllocInv'
    <3>1. {b} \cap Blocks \subseteq allocated  BY DEF AllocInv, OwnerInv
    <3> QED  BY <2>1, <2>5, <2>5a, <3>1 DEF AllocInv, OwnerInv
  <2>8. OneOwner'  BY <2>1, <2>3, <2>5, <2>5a DEF OneOwner, OwnerInv
  <2> QED  BY <2>6, <2>7, <2>8 DEF OwnerInv
<1>5. ASSUME GetBlocksFails(t) \/ WriteFails(t) PROVE OwnerInv'
  <2>1. /\ pc[t] \notin {"swap", "idle"} /\ pc'[t] = "idle" /\ op'[t] = NoOp
        /\ \A u \in Threads \ {t} : pc'[u] = pc[u] /\ op'[u] = op[u]
    BY <1>5 DEF GetBlocksFails, WriteFails, Done, TypeOK
  <2>2. /\ allocated' = allocated
        /\ free \subseteq free' /\ reserve \subseteq reserve' /\ lost \subseteq lost'
        /\ free' \cup reserve' \subseteq free \cup reserve \cup Held(t) \cup {NoBlock}
        /\ lost' \subseteq lost \cup Held(t)
        /\ (free' \cap reserve') \subseteq (free \cap reserve)
        /\ lost' = lost \/ (free' = free /\ reserve' = reserve)
    <3>1. CASE GetBlocksFails(t)  BY <3>1 DEF GetBlocksFails
    <3>2. CASE WriteFails(t)
      <4>1. Range(op[t].got) \subseteq Held(t) \cup {NoBlock}
        BY <1>o DEF Held, Range, Ids
      <4> QED  BY <3>2, <4>1 DEF WriteFails, ReleaseBlocks
    <3> QED  BY <1>5, <3>1, <3>2
  <2>3. \A k \in Keys : t \notin Swapping(k) /\ t \notin Swapping(k)'  BY <2>1 DEF Swapping
  <2>4. \A k \in Keys : /\ row'[k].blocks # row[k].blocks =>
                              k = Key(t) /\ Range(row'[k].blocks) \cap Blocks = {}
                                         /\ Range(row[k].blocks) = {}
                         /\ Distinct(row'[k].blocks)
    BY <1>5, FailedRow DEF OwnerInv
  <2>5. \A k \in Keys : Owned(k)' = Owned(k)
    <3> SUFFICES ASSUME NEW k \in Keys PROVE Owned(k)' = Owned(k)  OBVIOUS
    <3>1. Range(row'[k].blocks) \cap Blocks = Range(row[k].blocks) \cap Blocks  BY <2>4
    <3>2. Swapping(k) # {} => row'[k].blocks = row[k].blocks
      BY <2>1, <2>3, <2>4, OneSwapping DEF Swapping
    <3> QED  BY <2>1, <2>3, <3>1, <3>2, OwnedSame
  <2>6. /\ Held(t)' = {} /\ Distinct(op'[t].got)
        /\ \A u \in Threads \ {t} : Held(u)' = Held(u)
    BY <2>1, EmptyRange DEF Held, NoOp
  <2>7. InjInv'  BY <2>1, <2>4, <2>6 DEF InjInv, OwnerInv
  <2>8. AllocInv'
    <3>1. \A k \in Keys : Range(row'[k].blocks) \cap Blocks \subseteq allocated
      BY <2>4 DEF AllocInv, OwnerInv
    <3> QED  BY <2>2, <2>6, <3>1 DEF AllocInv, OwnerInv
  <2>9. OneOwner'
    <3>1. /\ \A k \in Keys : NoBlock \notin Owned(k)
          /\ \A u \in Threads : NoBlock \notin Held(u)
          /\ NoBlock \notin lost
      BY DEF Held, Owned, TypeOK
    <3>2. lost' \cap (free' \cup reserve') = {}
      BY <2>2, <3>1 DEF OneOwner, OwnerInv
    <3>3. free' \cap reserve' = {}  BY <2>2 DEF OneOwner, OwnerInv
    <3>4. \A k \in Keys : Owned(k) \cap (free' \cup reserve' \cup lost') = {}
      BY <2>2, <3>1 DEF OneOwner, OwnerInv
    <3>5. \A u \in Threads : Held(u)' \cap (free' \cup reserve' \cup lost') = {}
      BY <2>2, <2>6, <3>1 DEF OneOwner, OwnerInv
    <3>6. \A u, w \in Threads : u # w => Held(u)' \cap Held(w)' = {}
      BY <2>6 DEF OneOwner, OwnerInv
    <3>7. \A k \in Keys, u \in Threads : Owned(k)' \cap Held(u)' = {}
      BY <2>5, <2>6 DEF OneOwner, OwnerInv
    <3>8. \A k, l \in Keys : k # l => Owned(k)' \cap Owned(l)' = {}
      BY <2>5 DEF OneOwner, OwnerInv
    <3>9. \A k \in Keys : Owned(k)' \cap (free' \cup reserve' \cup lost') = {}  BY <2>5, <3>4
    <3>10. free' \cap lost' = {} /\ reserve' \cap lost' = {}  BY <3>2
    <3> QED  BY <3>3, <3>5, <3>6, <3>7, <3>8, <3>9, <3>10 DEF OneOwner
  <2> QED  BY <2>7, <2>8, <2>9 DEF OwnerInv
<1>6. ASSUME Release(t) PROVE OwnerInv'
  <2>0. PICK q \in Keys : q = Key(t)  BY <1>k, <1>6 DEF Release
  <2>1. /\ pc[t] = "release" /\ pc'[t] = "swap" /\ op' = op /\ row' = row
        /\ \A u \in Threads \ {t} : pc'[u] = pc[u]
        /\ allocated' = allocated /\ lost' = lost
        /\ free \subseteq free' /\ reserve \subseteq reserve'
        /\ free' \cup reserve' \subseteq free \cup reserve \cup Dropped(t)
        /\ (free' \cap reserve') \subseteq (free \cap reserve)
    BY <1>6 DEF Release, ReleaseBlocks, Goto, TypeOK
  <2>2. q \in Keys /\ Dropped(t) \subseteq Range(row[q].blocks)
    BY <1>k, <2>0, <2>1, BlockSets DEF OldBlocks
  <2>3. \A k \in Keys : k # q => Owned(k)' = Owned(k)
    <3>1. \A k \in Keys : k # q => t \notin Swapping(k) /\ t \notin Swapping(k)'
      BY <2>0, <2>1 DEF Swapping, Key
    <3> QED  BY <2>1, <3>1, OwnedSame
  <2>4. Owned(q) = Range(row[q].blocks) \cap Blocks
    <3>1. Swapping(q) = {}
      <4>1. t \notin Swapping(q)  BY <2>1 DEF Swapping
      <4> QED  BY <2>0, <2>1, <2>2, <4>1, OneSwapping
    <3> QED  BY <2>2, <3>1, OwnedInRow
  <2>5. Owned(q)' = Owned(q) \ Dropped(t)
    <3>1. Swapping(q)' = {t}
      <4>1. t \in Swapping(q)'  BY <2>0, <2>1 DEF Swapping, Key, OpInv
      <4>2. \A u \in Threads \ {t} : u \notin Swapping(q)'
        BY <2>0, <2>1, <2>2 DEF Swapping, Key, LockInv
      <4> QED  BY <4>1, <4>2 DEF Swapping
    <3>2. Dropped(t)' = Dropped(t)  BY <2>1 DEF Dropped, OldBlocks, Key
    <3> QED  BY <2>1, <2>4, <3>1, <3>2 DEF Owned
  <2>6. \A u \in Threads : Held(u)' = Held(u)  BY <2>1 DEF Held
  <2>7. InjInv'  BY <2>1 DEF InjInv, OwnerInv
  <2>8. Dropped(t) \subseteq Owned(q) \cup {NoBlock} /\ Dropped(t) \subseteq allocated \cup {NoBlock}
    <3>1. Dropped(t) \subseteq Ids  BY <1>k, <2>0, <2>1, BlockSets
    <3> QED  BY <2>2, <2>4, <3>1 DEF AllocInv, OwnerInv, Ids
  <2>9. AllocInv'  BY <2>1, <2>6, <2>8 DEF AllocInv, OwnerInv
  <2>10. OneOwner'
    <3>1. /\ \A k \in Keys : NoBlock \notin Owned(k) /\ NoBlock \notin Owned(k)'
          /\ \A u \in Threads : NoBlock \notin Held(u)
          /\ NoBlock \notin lost
      BY DEF Owned, Held, TypeOK
    <3>2. \A k \in Keys : k # q => Owned(k)' \cap Dropped(t) = {}
      BY <2>2, <2>3, <2>8, <3>1 DEF OneOwner, OwnerInv
    <3>3. \A u \in Threads : Held(u) \cap Dropped(t) = {}
      BY <2>2, <2>8, <3>1 DEF OneOwner, OwnerInv
    <3>4. lost \cap Dropped(t) = {}  BY <2>2, <2>8, <3>1 DEF OneOwner, OwnerInv
    <3>5. \A k \in Keys : Owned(k)' \cap Dropped(t) = {}  BY <2>5, <3>2
    <3>6. \A k \in Keys : Owned(k)' \subseteq Owned(k)  BY <2>3, <2>5
    <3> QED  BY <2>1, <2>6, <3>3, <3>4, <3>5, <3>6 DEF OneOwner, OwnerInv
  <2> QED  BY <2>7, <2>9, <2>10 DEF OwnerInv
<1>7. ASSUME Swap(t) PROVE OwnerInv'
  <2>0. PICK q \in Keys : q = Key(t)  BY <1>k, <1>7 DEF Swap
  <2>1. /\ pc[t] = "swap" /\ pc'[t] = "idle" /\ op'[t] = NoOp
        /\ \A u \in Threads \ {t} : pc'[u] = pc[u] /\ op'[u] = op[u]
        /\ UNCHANGED poolVars
        /\ \A k \in Keys : k # q => row'[k] = row[k]
        /\ q \in Keys => row'[q] = NewRow(t)
    BY <1>7, <2>0 DEF Swap, Done, TypeOK
  <2>2. q \in Keys /\ op[t].keep <= Len(OldBlocks(t))  BY <1>k, <2>0, <2>1
  <2>3. Range(KeptBlocks(t)) \cap Blocks \subseteq Owned(q)
    <3>1. /\ Range(KeptBlocks(t)) \subseteq Range(row[q].blocks)
          /\ Range(KeptBlocks(t)) \cap Dropped(t) \subseteq {NoBlock}
      BY <2>0, <2>2, KeptNotDropped DEF OwnerInv, OldBlocks
    <3>2. Swapping(q) \subseteq {t}  BY <2>0, <2>1, <2>2, OneSwapping
    <3> QED  BY <3>1, <3>2 DEF Owned
  <2>4. Range(KeptBlocks(t)) \cap Held(t) = {}  BY <2>2, <2>3 DEF OneOwner, OwnerInv, Held
  <2>5. /\ Distinct(row'[q].blocks)
        /\ Range(row'[q].blocks) \cap Blocks \subseteq Owned(q) \cup Held(t)
    BY <2>0, <2>1, <2>2, <2>3, <2>4, NewRowBlocks DEF OwnerInv, Held
  <2>6. Owned(q)' \subseteq Owned(q) \cup Held(t)  BY <2>5 DEF Owned
  <2>7. \A k \in Keys : k # q => Owned(k)' = Owned(k)
    <3>1. \A k \in Keys : k # q => t \notin Swapping(k) /\ t \notin Swapping(k)'
      BY <2>0, <2>1 DEF Swapping, Key
    <3> QED  BY <2>1, <3>1, OwnedSame
  <2>8. /\ Held(t)' = {} /\ Distinct(op'[t].got)
        /\ \A u \in Threads \ {t} : Held(u)' = Held(u)
    BY <2>1, EmptyRange DEF Held, NoOp
  <2>9. Owned(q) \cup Held(t) \subseteq allocated
    BY <2>2, OwnedInRow DEF AllocInv, OwnerInv
  <2>10. InjInv'  BY <2>1, <2>5, <2>8 DEF InjInv, OwnerInv
  <2>11. AllocInv'  BY <2>1, <2>5, <2>8, <2>9 DEF AllocInv, OwnerInv
  <2>12. OneOwner'  BY <2>1, <2>2, <2>6, <2>7, <2>8 DEF OneOwner, OwnerInv
  <2> QED  BY <2>10, <2>11, <2>12 DEF OwnerInv
<1> QED  BY <1>1, <1>2, <1>3, <1>4, <1>5, <1>6, <1>7 DEF ThreadStep

-----------------------------------------------------------------------------
(* Checkpoints *)

\* The blocks that are free or about to be written.
AllHeld == UNION {Held(t) : t \in Threads}

\* What SavedInv and CheckpointIntact need to know of an operation's step.
LEMMA ThreadEffect ==
  ASSUME Typed, NEW t \in Threads, ThreadStep(t) \/ Call(t)
  PROVE  /\ saved' = saved /\ cp' = cp
         /\ allocated \subseteq allocated'
         /\ pc[t] = "idle" => cp = "idle"
         /\ ~DisableCheckpoint =>
              (free' \cap Blocks) \cup AllHeld' \subseteq free \cup AllHeld \cup (Blocks \ allocated)
<1> USE DEF Typed, poolVars, storeVars
<1>o. \A u \in Threads : op[u] \in Ops /\ op[u].got \in Seq(Ids)  BY BlockSets
<1>1. CASE Call(t)
  <2> PICK k \in Keys, o \in Ops, p \in PCs \ {"idle", "swap"} :
         /\ MayStart(t, k) /\ Start(t, o, p) /\ o.got = <<>>
         /\ UNCHANGED <<poolVars, storeVars, buffer, saved, cp>>
    BY <1>1, CallEffect
  <2>1. op'[t] = o /\ \A u \in Threads \ {t} : op'[u] = op[u]  BY DEF Start, TypeOK
  <2>2. \A u \in Threads : Held(u)' \subseteq Held(u)  BY <2>1, EmptyRange DEF Held
  <2>3. AllHeld' \subseteq AllHeld  BY <2>2 DEF AllHeld
  <2>4. UNCHANGED <<free, allocated, saved, cp>> /\ cp = "idle"  BY DEF MayStart
  <2> QED  BY <2>3, <2>4
<1>2. CASE ThreadStep(t)
  <2>1. pc[t] # "idle" /\ saved' = saved /\ cp' = cp /\ allocated \subseteq allocated'
    BY <1>2 DEF ThreadStep, PopRow, ExpandFile, NoExpansion, PopBlock, GetBlocksFails, Write,
       WriteFails, Release, Swap, ReleaseBlocks
  <2>2. CASE ExpandFile(t)
    <3>1. \A u \in Threads : Held(u)' = Held(u)  BY <2>2 DEF ExpandFile, Goto, Held
    <3>2. free' \subseteq free \cup (Blocks \ allocated)  BY <2>2 DEF ExpandFile
    <3>3. AllHeld' = AllHeld  BY <3>1 DEF AllHeld
    <3> QED  BY <2>1, <3>2, <3>3
  <2>3. CASE PopBlock(t)
    <3> PICK b \in free : free' = free \ {b} /\ op' = [op EXCEPT ![t].got = Append(@, b)]
      BY <2>3 DEF PopBlock
    <3>1. b \in Ids /\ op'[t].got = Append(op[t].got, b)
          /\ \A u \in Threads \ {t} : op'[u] = op[u]
      BY <1>o DEF TypeOK, Ops
    <3>2. Held(t)' = Held(t) \cup ({b} \cap Blocks) /\ \A u \in Threads \ {t} : Held(u)' = Held(u)
      BY <1>o, <3>1, AppendRange DEF Held
    <3>3. AllHeld' \subseteq AllHeld \cup {b}  BY <3>2 DEF AllHeld
    <3> QED  BY <2>1, <3>3
  <2>4. ASSUME PopRow(t) \/ NoExpansion(t) \/ Write(t) \/ Release(t) \/ GetBlocksFails(t)
                  \/ WriteFails(t) \/ Swap(t),
               ~DisableCheckpoint
        PROVE  free' = free /\ AllHeld' \subseteq AllHeld
    <3>1. free' = free
      BY <2>4 DEF PopRow, NoExpansion, Write, Release, GetBlocksFails, WriteFails, Swap, ReleaseBlocks
    <3>2. Done(t) \/ op' = op
      BY <2>4 DEF PopRow, NoExpansion, Write, Release, GetBlocksFails, WriteFails, Swap, Goto
    <3>3. \A u \in Threads : op'[u].got = op[u].got \/ op'[u].got = <<>>
      BY <3>2 DEF Done, TypeOK, NoOp
    <3>4. \A u \in Threads : Held(u)' \subseteq Held(u)  BY <3>3, EmptyRange DEF Held
    <3> QED  BY <3>1, <3>4 DEF AllHeld
  <2> QED  BY <1>2, <2>1, <2>2, <2>3, <2>4 DEF ThreadStep
<1> QED  BY <1>1, <1>2

\* What a recovery leaves without an owner.
LEMMA LostAfterCrash ==
  ASSUME TypeOK, LoadBlockPool
  PROVE  lost' = saved.allocated \ (saved.free \cup SavedBlocks)
<1>1. saved.allocated \subseteq Blocks  BY DEF TypeOK
<1> QED  BY <1>1 DEF LoadBlockPool, SavedBlocks

\* A step that touches no row, list of blocks or operation.
LEMMA OwnerFrame ==
  ASSUME OwnerInv, UNCHANGED <<poolVars, row, pc, op>>
  PROVE  OwnerInv' /\ \A t \in Threads : Held(t)' = Held(t)
<1>1. \A t \in Threads : Held(t)' = Held(t) /\ Dropped(t)' = Dropped(t)
  BY DEF Held, Dropped, OldBlocks, Key
<1>2. \A k \in Keys : Owned(k)' = Owned(k)
  <2>1. \A k \in Keys : Swapping(k)' = Swapping(k)  BY DEF Swapping, Key
  <2>2. \A k \in Keys : Swapping(k) \subseteq Threads  BY DEF Swapping
  <2> QED  BY <1>1, <2>1, <2>2 DEF Owned
<1>3. InjInv'  BY DEF OwnerInv, InjInv
<1>4. AllocInv'  BY <1>1 DEF OwnerInv, AllocInv, poolVars
<1>5. OneOwner'  BY <1>1, <1>2 DEF OwnerInv, OneOwner, poolVars
<1> QED  BY <1>1, <1>3, <1>4, <1>5 DEF OwnerInv

\* Every step keeps ownership exclusive, the saved files consistent, and the
\* blocks of the last checkpoint out of reach.
LEMMA CheckpointStep ==
  ASSUME Inv, ~SaveFailures, [Next]_vars
  PROVE  OwnerInv' /\ SavedInv' /\ CheckpointIntact'
<1> USE DEF poolVars, storeVars
<1>t. Typed  BY DEF Inv
<1>i. TypeOK /\ LockInv /\ OpInv /\ OwnerInv /\ SavedInv /\ CheckpointIntact
  BY DEF Inv, Typed, OwnerInv
<1>r. \A k \in Keys : row[k].blocks \in Seq(Ids)  BY <1>i DEF TypeOK, Rows
<1>1. ASSUME NEW t \in Threads, ThreadStep(t) \/ Call(t)
      PROVE  OwnerInv' /\ SavedInv' /\ CheckpointIntact'
  <2>1. OwnerInv'  BY <1>1, <1>t, <1>i, OwnerStepThread
  <2>2. /\ saved' = saved /\ cp' = cp /\ allocated \subseteq allocated'
        /\ pc[t] = "idle" => cp = "idle"
        /\ ~DisableCheckpoint =>
             (free' \cap Blocks) \cup AllHeld'
                \subseteq free \cup AllHeld \cup (Blocks \ allocated)
    BY <1>1, <1>t, ThreadEffect
  <2>3. cp = "idle"  BY <1>i, <2>2 DEF SavedInv, Idle, TypeOK
  <2>4. SavedBlocks' = SavedBlocks  BY <2>2 DEF SavedBlocks
  <2>5. SavedInv'  BY <1>i, <2>2, <2>3, <2>4 DEF SavedInv
  <2>6. ASSUME ~DisableCheckpoint
        PROVE  SavedBlocks \cap (free' \cup saved.free \cup AllHeld') = {}
    <3>1. SavedBlocks \cap (free \cup saved.free \cup AllHeld) = {}
      BY <1>i, <2>3, <2>6 DEF CheckpointIntact, AllHeld
    <3>2. SavedBlocks \cap (Blocks \ allocated) = {} /\ SavedBlocks \subseteq Blocks
      BY <1>i DEF SavedInv, SavedBlocks
    <3> QED  BY <2>2, <2>6, <3>1, <3>2
  <2>7. CheckpointIntact'  BY <2>2, <2>4, <2>6 DEF CheckpointIntact, AllHeld
  <2> QED  BY <2>1, <2>5, <2>7
<1>2. ASSUME SaveMapping PROVE OwnerInv' /\ SavedInv' /\ CheckpointIntact'
  <2>1. /\ cp = "idle" /\ cp' = "pool" /\ UNCHANGED <<poolVars, row, pc, op>>
        /\ \A t \in Threads : Idle(t)
        /\ saved'.rows = [k \in Keys |-> SavedRow(k)]
        /\ saved'.allocated = saved.allocated
    BY <1>2, <1>i DEF SaveMapping, TypeOK
  <2>2. \A k \in Keys : saved'.rows[k].blocks = row[k].blocks
    BY <2>1 DEF SavedRow, NoRow, EmptyRow
  <2>3. \A k \in Keys : Owned(k) = Range(row[k].blocks) \cap Blocks
    BY <2>1, OwnedInRow DEF Swapping, Idle
  <2>4. OwnerInv'  BY <1>i, <2>1, OwnerFrame
  <2>5. SavedBlocks' \subseteq allocated  BY <1>i, <2>2 DEF SavedBlocks, OwnerInv, AllocInv
  <2>6. SavedInv'
    <3>1. \A k \in Keys : Distinct(saved'.rows[k].blocks)  BY <1>i, <2>2 DEF OwnerInv, InjInv
    <3>2. \A k, l \in Keys : k # l =>
             Range(saved'.rows[k].blocks) \cap Range(saved'.rows[l].blocks) \cap Blocks = {}
      BY <1>i, <2>2, <2>3 DEF OwnerInv, OneOwner
    <3>3. \A t \in Threads : Idle(t)'  BY <2>1 DEF Idle
    <3> QED  BY <1>i, <2>1, <2>2, <2>5, <3>1, <3>2, <3>3 DEF SavedInv
  <2>7. CheckpointIntact'  BY <2>1 DEF CheckpointIntact
  <2> QED  BY <2>4, <2>6, <2>7
<1>3. ASSUME SavePool PROVE OwnerInv' /\ SavedInv' /\ CheckpointIntact'
  <2>1. /\ cp = "pool" /\ cp' = "idle" /\ UNCHANGED <<allocated, lost, row, pc, op>>
        /\ free' = free \cup reserve /\ reserve' = {}
        /\ saved'.rows = saved.rows /\ saved'.free = free' /\ saved'.allocated = allocated
    BY <1>3, <1>i DEF SavePool, TypeOK
  <2>2. /\ \A t \in Threads : Idle(t)
        /\ \A k \in Keys : saved.rows[k].blocks = row[k].blocks
    BY <1>i, <2>1 DEF SavedInv
  <2>3. \A t \in Threads : Held(t)' = {} /\ Held(t) = {}
    BY <1>i, <2>1, <2>2, EmptyRange DEF Held, LockInv, Idle, NoOp
  <2>4. \A k \in Keys : Owned(k) = Range(row[k].blocks) \cap Blocks /\ Owned(k)' = Owned(k)
    <3>1. \A k \in Keys : Swapping(k) = {} /\ Swapping(k)' = {}
      BY <2>1, <2>2 DEF Swapping, Idle
    <3> QED  BY <2>1, <3>1 DEF Owned
  <2>5. OwnerInv'
    <3>1. InjInv'  BY <1>i, <2>1 DEF OwnerInv, InjInv
    <3>2. AllocInv'  BY <1>i, <2>1, <2>3 DEF OwnerInv, AllocInv
    <3>3. OneOwner'  BY <1>i, <2>1, <2>3, <2>4 DEF OwnerInv, OneOwner
    <3> QED  BY <3>1, <3>2, <3>3 DEF OwnerInv
  <2>6. SavedBlocks' = UNION {Owned(k) : k \in Keys} /\ SavedBlocks' = SavedBlocks
    BY <2>1, <2>2, <2>4 DEF SavedBlocks
  <2>7. SavedBlocks' \cap free' = {}  BY <1>i, <2>1, <2>6 DEF OwnerInv, OneOwner
  <2>8. SavedBlocks' \cup (free' \ {NoBlock}) \subseteq allocated
    BY <1>i, <2>1, <2>6 DEF OwnerInv, AllocInv, SavedInv
  <2>9. SavedInv'  BY <1>i, <2>1, <2>6, <2>7, <2>8 DEF SavedInv
  <2>10. CheckpointIntact'  BY <2>1, <2>3, <2>7 DEF CheckpointIntact
  <2> QED  BY <2>5, <2>9, <2>10
<1>4. ASSUME CrashAndRecover PROVE OwnerInv' /\ SavedInv' /\ CheckpointIntact'
  <2>1. /\ cp = "idle" /\ UNCHANGED <<saved, cp>> /\ row' = saved.rows
        /\ free' = saved.free /\ allocated' = saved.allocated /\ reserve' = {}
        /\ lost' = saved.allocated \ (saved.free \cup SavedBlocks)
        /\ \A t \in Threads : pc'[t] = "idle" /\ op'[t] = NoOp
    BY <1>4, <1>i, LostAfterCrash DEF CrashAndRecover, Load, LoadBlockPool
  <2>2. \A t \in Threads : Held(t)' = {} /\ Distinct(op'[t].got)
    BY <2>1, EmptyRange DEF Held, NoOp
  <2>3. \A k \in Keys : Owned(k)' = Range(saved.rows[k].blocks) \cap Blocks
    <3>1. \A k \in Keys : Swapping(k)' = {}  BY <2>1 DEF Swapping
    <3> QED  BY <2>1, <3>1 DEF Owned
  <2>4. /\ SavedBlocks' = SavedBlocks
        /\ \A k \in Keys : Range(saved.rows[k].blocks) \cap Blocks \subseteq SavedBlocks
    BY <2>1 DEF SavedBlocks
  <2>5. /\ SavedBlocks \cap saved.free = {}
        /\ SavedBlocks \cup (saved.free \ {NoBlock}) \subseteq saved.allocated
    BY <1>i, <2>1 DEF SavedInv
  <2>6. InjInv'  BY <1>i, <2>1, <2>2 DEF InjInv, SavedInv
  <2>7. AllocInv'  BY <2>1, <2>2, <2>4, <2>5 DEF AllocInv
  <2>8. OneOwner'
    <3>1. \A k, l \in Keys : k # l => Owned(k)' \cap Owned(l)' = {}
      BY <1>i, <2>3 DEF SavedInv
    <3>2. \A k \in Keys : Owned(k)' \cap (free' \cup reserve' \cup lost') = {}
      BY <2>1, <2>3, <2>4, <2>5
    <3>3. free' \cap reserve' = {} /\ free' \cap lost' = {} /\ reserve' \cap lost' = {}
      BY <2>1
    <3> QED  BY <2>2, <3>1, <3>2, <3>3 DEF OneOwner
  <2>9. SavedInv'  BY <1>i, <2>1, <2>4, <2>5 DEF SavedInv
  <2>10. CheckpointIntact'  BY <2>1, <2>2, <2>4, <2>5 DEF CheckpointIntact
  <2> QED  BY <2>6, <2>7, <2>8, <2>9, <2>10 DEF OwnerInv
<1>5. CASE UNCHANGED vars
  <2>1. OwnerInv' /\ \A t \in Threads : Held(t)' = Held(t)  BY <1>5, <1>i, OwnerFrame DEF vars
  <2>2. SavedBlocks' = SavedBlocks  BY <1>5 DEF vars, SavedBlocks
  <2>3. SavedInv'  BY <1>5, <1>i, <2>2 DEF vars, SavedInv, Idle
  <2>4. CheckpointIntact'  BY <1>5, <1>i, <2>1, <2>2 DEF vars, CheckpointIntact
  <2> QED  BY <2>1, <2>3, <2>4
<1> QED  BY <1>1, <1>2, <1>3, <1>4, <1>5 DEF Next, SaveMappingFails

-----------------------------------------------------------------------------
(* The theorems *)

\* The invariant holds initially.
LEMMA InitInv == Init => Inv
<1> SUFFICES ASSUME Init PROVE Inv  OBVIOUS
<1>1. \A k \in Keys : row[k].blocks = <<>> /\ saved.rows[k].blocks = <<>>  BY DEF Init, NoRow
<1>2. \A t \in Threads : op[t].got = <<>>  BY DEF Init, NoOp
<1>3. /\ \A k \in Keys : Owned(k) = {} /\ Range(saved.rows[k].blocks) = {}
      /\ \A t \in Threads : Held(t) = {}
  BY <1>1, <1>2, EmptyRange DEF Owned, Held
<1>4. SavedBlocks = {}  BY <1>3 DEF SavedBlocks
<1>5. Typed  BY InitTyped
<1>7. InjInv /\ AllocInv
  BY <1>1, <1>2, <1>3, EmptyRange DEF Init, InjInv, AllocInv
<1>8. OneOwner  BY <1>3 DEF Init, OneOwner
<1>9. SavedInv  BY <1>1, <1>3, <1>4, EmptyRange DEF Init, SavedInv
<1>10. CheckpointIntact  BY <1>4 DEF CheckpointIntact
<1> QED  BY <1>5, <1>7, <1>8, <1>9, <1>10 DEF Inv

\* Under the assumption that the mapping file can be saved, the invariant is
\* inductive.
LEMMA InvHolds ==
  ASSUME ~SaveFailures
  PROVE  Spec => []Inv
<1>1. Inv /\ [Next]_vars => Inv'
  <2> SUFFICES ASSUME Inv, [Next]_vars PROVE Inv'  OBVIOUS
  <2>1. Typed'  BY TypedStep DEF Inv
  <2>2. OwnerInv' /\ SavedInv' /\ CheckpointIntact'  BY CheckpointStep
  <2> QED  BY <2>1, <2>2 DEF Inv, OwnerInv
<1> QED  BY <1>1, InitInv, PTL DEF Spec

\* No block ever has two owners, whichever writes, expansions and processes
\* fail, as long as the mapping file can be saved.
THEOREM BlocksHaveOneOwner ==
  ASSUME ~SaveFailures
  PROVE  Spec => []OneOwner
<1>1. Inv => OneOwner  BY DEF Inv
<1> QED  BY <1>1, InvHolds, PTL

\* Between checkpoints no block of the last checkpoint is free or handed to
\* a writer, as long as the mapping file can be saved.
THEOREM CheckpointsStayIntact ==
  ASSUME ~SaveFailures
  PROVE  Spec => []CheckpointIntact
<1>1. Inv => CheckpointIntact  BY DEF Inv
<1> QED  BY <1>1, InvHolds, PTL

\* Only the next checkpoint ends the promise of the last one: until then no
\* step changes a block that the saved mapping names.
THEOREM SavedContentsAreKept ==
  ASSUME ~SaveFailures
  PROVE  Spec => SavedContentsKept
<1> DEFINE A == ~DisableCheckpoint /\ saved'.rows = saved.rows
                  => \A b \in SavedBlocks : disk'[b] = disk[b]
<1>1. Inv /\ [Next]_vars => [A]_vars
  <2> SUFFICES ASSUME Inv, Next, ~DisableCheckpoint
               PROVE  \A b \in SavedBlocks : disk'[b] = disk[b]
    OBVIOUS
  <2>t. TypeOK /\ SavedInv /\ CheckpointIntact  BY DEF Inv, Typed
  <2>1. \/ disk' = disk
        \/ \E t \in Threads, W \in SUBSET Blocks :
              /\ W \subseteq Held(t) /\ pc[t] = "write"
              /\ disk' = WriteBlocks(op[t].got, op[t].value, W)
    <3>1. ASSUME NEW t \in Threads, ThreadStep(t)
          PROVE  \/ disk' = disk
                 \/ \E W \in SUBSET Blocks :
                      /\ W \subseteq Held(t) /\ pc[t] = "write"
                      /\ disk' = WriteBlocks(op[t].got, op[t].value, W)
      <4>1. Held(t) \subseteq Blocks  BY <2>t, BlockSets
      <4>2. CASE Write(t)  BY <4>1, <4>2 DEF Write
      <4>3. CASE WriteFails(t)  BY <4>1, <4>3 DEF WriteFails
      <4> QED
        BY <3>1, <4>2, <4>3 DEF ThreadStep, PopRow, ExpandFile, NoExpansion, PopBlock,
           GetBlocksFails, Release, Swap, storeVars
    <3>2. ASSUME NEW t \in Threads, Call(t) PROVE disk' = disk
      BY <3>2 DEF Call, PutNew, PutOver, Merge, Delete, storeVars
    <3> QED
      BY <3>1, <3>2 DEF Next, SaveMapping, SaveMappingFails, SavePool, CrashAndRecover, storeVars
  <2>2. ASSUME NEW t \in Threads, NEW W \in SUBSET Blocks, W \subseteq Held(t), pc[t] = "write",
               disk' = WriteBlocks(op[t].got, op[t].value, W), NEW b \in SavedBlocks
        PROVE  disk'[b] = disk[b]
    <3>1. cp = "idle"  BY <2>2, <2>t DEF SavedInv, Idle, TypeOK
    <3>2. b \notin W  BY <2>2, <2>t, <3>1 DEF CheckpointIntact
    <3>3. b \in Blocks  BY <2>t DEF SavedInv, TypeOK
    <3> QED  BY <2>2, <3>2, <3>3 DEF WriteBlocks
  <2> QED  BY <2>1, <2>2
<1> QED  BY <1>1, InvHolds, PTL DEF Spec, SavedContentsKept

-----------------------------------------------------------------------------
(***************************************************************************)
(* FileIO is a store: every block of the file has an owner, every row      *)
(* names the blocks its size needs, and the specification implements       *)
(* KVStore.                                                                *)
(*                                                                         *)
(* To the invariant of who owns which block this adds what the blocks of a *)
(* running operation hold (DataInv).  An operation takes effect when it    *)
(* reaches its swap: from then on readers of the row's future see the new  *)
(* value.                                                                  *)
(***************************************************************************)

\* what ReadBlocks returns when the disk is d
ReadFrom(d, bs, n) == [j \in 1..n |->
    d[bs[((j - 1) \div PageSize) + 1]][((j - 1) % PageSize) + 1]]

\* the value of a row when the disk is d
ValueIn(d, r) == IF r.size < 0 \/ NoBlock \in Range(r.blocks) THEN None
                 ELSE ReadFrom(d, r.blocks, r.size)

Disks == [Blocks -> [1..PageSize -> Units]]

\* The value that Merge found, with the new data after it, is what the new
\* row will hold: the kept blocks and what is written after them.
Extends(t) ==
    LET r == row[Key(t)] IN
    /\ r.size >= 0 /\ Len(r.blocks) = NumBlocks(r.size) /\ NoBlock \notin Range(r.blocks)
    /\ \E v \in MergeValues :
         ReadFrom(disk, r.blocks, r.size) \o v
           = ReadFrom(disk, KeptBlocks(t), op[t].keep * PageSize) \o op[t].value

\* A Merge that keeps an id of -1 finds no value and leaves none.
Appends(t) == NoBlock \in Range(KeptBlocks(t)) \/ Extends(t)

\* What an operation has written is on its blocks; a Merge that has not taken
\* effect yet still extends the value of its key.
DataInv == \A t \in Threads :
    /\ pc[t] \in {"release", "swap"} /\ op[t].kind # "delete" =>
         /\ NoBlock \notin Range(op[t].got)
         /\ \A i \in 1..Len(op[t].got) : disk[op[t].got[i]] = Page(op[t].value, i)
    /\ pc[t] \notin {"idle", "swap"} /\ op[t].kind \in {"copy", "append"} => Appends(t)


-----------------------------------------------------------------------------
(* Reading *)

\* The reader with the disk as it is.
LEMMA ReadNow == \A bs, n : ReadBlocks(bs, n) = ReadFrom(disk, bs, n)
  BY DEF ReadBlocks, ReadFrom

\* What is read from blocks of the file is data.
LEMMA ReadType ==
  ASSUME NEW d \in Disks, NEW n \in Nat, NEW bs, \A i \in 1..NumBlocks(n) : bs[i] \in Blocks
  PROVE  ReadFrom(d, bs, n) \in Seq(Units) /\ Len(ReadFrom(d, bs, n)) = n
<1> DEFINE e(j) == d[bs[((j - 1) \div PageSize) + 1]][((j - 1) % PageSize) + 1]
<1>1. ASSUME NEW j \in 1..n PROVE e(j) \in Units
  <2>1. /\ ((j - 1) \div PageSize) + 1 \in 1..NumBlocks(n)
        /\ ((j - 1) % PageSize) + 1 \in 1..PageSize
    BY UnitInBlock
  <2>2. d[bs[((j - 1) \div PageSize) + 1]] \in [1..PageSize -> Units]  BY <2>1 DEF Disks
  <2> QED  BY <2>1, <2>2
<1> HIDE DEF e
<1>2. [j \in 1..n |-> e(j)] \in Seq(Units)  BY <1>1, IsASeq
<1>3. ReadFrom(d, bs, n) = [j \in 1..n |-> e(j)]  BY DEF ReadFrom, e
<1>4. DOMAIN ReadFrom(d, bs, n) = 1..n  BY DEF ReadFrom
<1>5. ReadFrom(d, bs, n) \in Seq(Units)  BY <1>2, <1>3
<1>6. Len(ReadFrom(d, bs, n)) \in Nat /\ DOMAIN ReadFrom(d, bs, n) = 1..Len(ReadFrom(d, bs, n))
  BY <1>5, LenProperties
<1> QED  BY <1>4, <1>5, <1>6

\* Only the blocks of the list matter, and only as many as the units need.
LEMMA ReadSame ==
  ASSUME NEW d, NEW e, NEW n \in Nat, NEW bs, NEW cs,
         \A i \in 1..NumBlocks(n) : d[bs[i]] = e[cs[i]]
  PROVE  ReadFrom(d, bs, n) = ReadFrom(e, cs, n)
<1>1. ASSUME NEW j \in 1..n PROVE d[bs[((j - 1) \div PageSize) + 1]] = e[cs[((j - 1) \div PageSize) + 1]]
  BY UnitInBlock
<1> QED  BY <1>1 DEF ReadFrom

SameIn(d, e, bs, n) == \A i \in 1..NumBlocks(n) : d[bs[i]] = e[bs[i]]

LEMMA ReadAgain ==
  ASSUME NEW d, NEW e, NEW n \in Nat, NEW bs, SameIn(d, e, bs, n)
  PROVE  ReadFrom(d, bs, n) = ReadFrom(e, bs, n)
<1>1. ASSUME NEW j \in 1..n PROVE d[bs[((j - 1) \div PageSize) + 1]] = e[bs[((j - 1) \div PageSize) + 1]]
  BY UnitInBlock DEF SameIn
<1> QED  BY <1>1 DEF ReadFrom

\* A list whose first c blocks are full is read in two parts.
Joined(bs, c, as, gs, m) ==
  /\ \A i \in 1..c : bs[i] \in Blocks /\ as[i] = bs[i]
  /\ \A i \in 1..NumBlocks(m) : gs[i] \in Blocks /\ bs[c + i] = gs[i]
ReadsJoined(d, bs, c, as, gs, m) ==
  /\ ReadFrom(d, bs, c * PageSize + m) = ReadFrom(d, as, c * PageSize) \o ReadFrom(d, gs, m)
  /\ ReadFrom(d, as, c * PageSize) \in Seq(Units)
  /\ ReadFrom(d, gs, m) \in Seq(Units)

LEMMA ReadConcat ==
  ASSUME NEW d \in Disks, NEW c \in Nat, NEW m \in Nat, NEW bs, NEW as, NEW gs, Joined(bs, c, as, gs, m)
  PROVE  ReadsJoined(d, bs, c, as, gs, m)
<1> USE DEF Joined
<1> DEFINE p == c * PageSize
           n == p + m
           A == ReadFrom(d, as, p)
           G == ReadFrom(d, gs, m)
           B == ReadFrom(d, bs, n)
<1>0. p \in Nat /\ n \in Nat  OBVIOUS
<1>1. NumBlocks(p) = c /\ NumBlocks(n) = c + NumBlocks(m) /\ NumBlocks(m) \in Nat
  <2>1. NumBlocks(0) = 0  BY NoBlocks
  <2>2. NumBlocks(c * PageSize + 0) = c + NumBlocks(0)  BY NumBlocksAdd
  <2>3. c * PageSize + 0 = p  OBVIOUS
  <2>4. NumBlocks(n) = c + NumBlocks(m) /\ NumBlocks(m) \in Nat  BY NumBlocksAdd
  <2> QED  BY <2>1, <2>2, <2>3, <2>4
<1>2. A \in Seq(Units) /\ Len(A) = p
  <2>1. \A i \in 1..NumBlocks(p) : as[i] \in Blocks  BY <1>1
  <2> QED  BY <2>1, <1>0, ReadType
<1>3. G \in Seq(Units) /\ Len(G) = m  BY ReadType
<1>4. B \in Seq(Units) /\ Len(B) = n
  <2>1. ASSUME NEW i \in 1..NumBlocks(n) PROVE bs[i] \in Blocks
    <3>0. i \in Int /\ i >= 1 /\ NumBlocks(n) \in Nat  BY <1>1
    <3>1. CASE i <= c
      <4>1. i \in 1..c  BY ONLY <3>0, <3>1, c \in Nat
      <4> QED  BY <4>1
    <3>2. CASE i > c
      <4>1. i - c \in 1..NumBlocks(m) /\ c + (i - c) = i  BY <3>2, <1>1
      <4> QED  BY <4>1
    <3> QED  BY <3>1, <3>2, <1>1
  <2> QED  BY <2>1, <1>0, ReadType
<1>a. \A j \in 1..p : A[j] = d[as[((j - 1) \div PageSize) + 1]][((j - 1) % PageSize) + 1]
  BY DEF ReadFrom
<1>b. \A j \in 1..m : G[j] = d[gs[((j - 1) \div PageSize) + 1]][((j - 1) % PageSize) + 1]
  BY DEF ReadFrom
<1>c. \A j \in 1..n : B[j] = d[bs[((j - 1) \div PageSize) + 1]][((j - 1) % PageSize) + 1]
  BY DEF ReadFrom
<1> HIDE DEF A, G, B, n
<1>5. /\ A \o G \in Seq(Units) /\ Len(A \o G) = n
      /\ \A i \in 1..n : (A \o G)[i] = IF i <= p THEN A[i] ELSE G[i - p]
  <2>1. /\ A \o G \in Seq(Units) /\ Len(A \o G) = Len(A) + Len(G)
        /\ \A i \in 1..(Len(A) + Len(G)) : (A \o G)[i] = IF i <= Len(A) THEN A[i] ELSE G[i - Len(A)]
    BY <1>2, <1>3, ConcatProperties
  <2>2. Len(A) + Len(G) = n  BY <1>2, <1>3 DEF n
  <2> QED  BY <2>1, <2>2, <1>2
<1>6. ASSUME NEW j \in 1..n PROVE B[j] = (A \o G)[j]
  <2>1. CASE j <= p
    <3>0. j \in 1..p /\ j \in 1..n  BY <2>1, <1>0
    <3>1. ((j - 1) \div PageSize) + 1 \in 1..NumBlocks(p)  BY <3>0, <1>0, UnitInBlock
    <3>2. as[((j - 1) \div PageSize) + 1] = bs[((j - 1) \div PageSize) + 1]  BY <3>1, <1>1
    <3>3. B[j] = A[j]  BY <3>0, <3>2, <1>a, <1>c
    <3> QED  BY <3>0, <3>3, <1>5
  <2>2. CASE j > p
    <3>0. j - p \in 1..m /\ ~(j <= p)  BY <2>2, <1>0 DEF n
    <3> DEFINE l == j - p
               h == (l - 1) \div PageSize
               r == (l - 1) % PageSize
    <3>1. l - 1 \in Nat /\ h + 1 \in 1..NumBlocks(m)  BY <3>0, UnitInBlock
    <3>2. (c * PageSize + (l - 1)) \div PageSize = c + h /\ (c * PageSize + (l - 1)) % PageSize = r
      BY <3>1, DivShift
    <3>3. c * PageSize + (l - 1) = j - 1  BY <1>0, <3>0
    <3>4. (j - 1) \div PageSize = c + h /\ (j - 1) % PageSize = r  BY <3>2, <3>3
    <3>5. G[l] = d[gs[h + 1]][r + 1]  BY <3>0, <1>b
    <3>6. B[j] = d[bs[(c + h) + 1]][r + 1]  BY <3>4, <1>c
    <3> HIDE DEF h, r
    <3>7. bs[(c + h) + 1] = gs[h + 1]
      <4>1. h \in Int /\ (c + h) + 1 = c + (h + 1)
        <5>1. h + 1 \in Int /\ h \in Int  BY <3>1, DivFacts DEF h
        <5> QED  BY <5>1
      <4> QED  BY <4>1, <3>1
    <3> QED  BY <3>0, <3>5, <3>6, <3>7, <1>5
  <2>3. j \in Nat  BY <1>0
  <2> HIDE DEF p
  <2>4. j <= p \/ j > p  BY ONLY <2>3, <1>0
  <2> QED  BY ONLY <2>1, <2>2, <2>4
<1> HIDE DEF p
<1>7. B = A \o G  BY <1>4, <1>5, <1>6, SeqEqual
<1> QED  BY <1>2, <1>3, <1>7 DEF A, G, B, p, n, ReadsJoined

\* Blocks that hold the pages of a value give it back.
LEMMA ReadWritten ==
  ASSUME NEW d, NEW v \in Seq(Units), NEW gs, \A i \in 1..NumBlocks(Len(v)) : d[gs[i]] = Page(v, i)
  PROVE  ReadFrom(d, gs, Len(v)) = v
<1>0. Len(v) \in Nat /\ v \in [1..Len(v) -> Units]  BY LenProperties
<1>1. ASSUME NEW j \in 1..Len(v)
      PROVE  d[gs[((j - 1) \div PageSize) + 1]][((j - 1) % PageSize) + 1] = v[j]
  <2> DEFINE h == (j - 1) \div PageSize
             r == (j - 1) % PageSize
  <2>1. /\ j - 1 \in Nat /\ h + 1 \in 1..NumBlocks(Len(v)) /\ r + 1 \in 1..PageSize
        /\ h * PageSize + r = j - 1 /\ h \in Nat /\ r \in Nat
    <3>1. /\ j - 1 \in Nat /\ h + 1 \in 1..NumBlocks(Len(v)) /\ r + 1 \in 1..PageSize
          /\ h * PageSize + r = j - 1
      BY <1>0, UnitInBlock
    <3>2. h \in Nat /\ r \in 0..(PageSize - 1)  BY <3>1, DivFacts
    <3> QED  BY <3>1, <3>2
  <2>2. d[gs[h + 1]] = Page(v, h + 1)  BY <2>1
  <2> HIDE DEF h, r
  <2>3. ((h + 1) - 1) * PageSize + (r + 1) = j
    <3>1. (h + 1) - 1 = h  BY <2>1
    <3>2. h * PageSize \in Nat  BY <2>1, UnitsType
    <3> QED  BY <2>1, <3>1, <3>2
  <2>4. Page(v, h + 1)[r + 1] = v[j]  BY <2>1, <2>3, <1>0 DEF Page
  <2> QED  BY <2>2, <2>4 DEF h, r
<1>2. ReadFrom(d, gs, Len(v)) \in [1..Len(v) -> Units]
  BY <1>0, <1>1 DEF ReadFrom
<1> QED  BY <1>0, <1>1, <1>2 DEF ReadFrom

\* Reading nothing.
LEMMA ReadNothing == \A d, bs : ReadFrom(d, bs, 0) = <<>>
<1> SUFFICES ASSUME NEW d, NEW bs PROVE ReadFrom(d, bs, 0) = <<>>  OBVIOUS
<1>1. 1..0 = {}  OBVIOUS
<1> QED  BY <1>1 DEF ReadFrom

\* A row that names no id of -1 names blocks only.
LEMMA RealBlocks ==
  ASSUME NEW bs \in Seq(Ids), NoBlock \notin Range(bs)
  PROVE  /\ Range(bs) \subseteq Blocks
         /\ Len(bs) \in Nat /\ \A i \in 1..Len(bs) : bs[i] \in Range(bs) /\ bs[i] \in Blocks
<1>1. Len(bs) \in Nat /\ DOMAIN bs = 1..Len(bs) /\ \A i \in 1..Len(bs) : bs[i] \in Ids
  BY LenProperties, ElementOfSeq
<1>2. \A i \in 1..Len(bs) : bs[i] \in Range(bs)  BY <1>1 DEF Range
<1>3. \A i \in 1..Len(bs) : bs[i] \in Blocks  BY <1>1, <1>2 DEF Ids
<1>4. Range(bs) \subseteq Blocks  BY <1>1, <1>3 DEF Range
<1> QED  BY <1>1, <1>2, <1>3, <1>4

\* A row's value depends on the row's blocks only.
LEMMA ValueSame ==
  ASSUME NEW d, NEW e, NEW r \in Rows,
         r.size >= 0 => Len(r.blocks) = NumBlocks(r.size),
         \A b \in Range(r.blocks) \cap Blocks : d[b] = e[b]
  PROVE  ValueIn(d, r) = ValueIn(e, r)
<1>1. r.blocks \in Seq(Ids) /\ r.size \in Int  BY DEF Rows
<1>2. ASSUME r.size >= 0, NoBlock \notin Range(r.blocks)
      PROVE  ReadFrom(d, r.blocks, r.size) = ReadFrom(e, r.blocks, r.size)
  <2>1. r.size \in Nat /\ Len(r.blocks) = NumBlocks(r.size)  BY <1>1, <1>2
  <2>2. \A i \in 1..NumBlocks(r.size) : d[r.blocks[i]] = e[r.blocks[i]]
    <3>1. \A i \in 1..Len(r.blocks) : r.blocks[i] \in Range(r.blocks) \cap Blocks
      BY <1>1, <1>2, RealBlocks
    <3> QED  BY <2>1, <3>1
  <2> DEFINE bs == r.blocks
             n == r.size
  <2>3. n \in Nat /\ \A i \in 1..NumBlocks(n) : d[bs[i]] = e[bs[i]]  BY <2>1, <2>2
  <2> HIDE DEF bs, n
  <2>4. ReadFrom(d, bs, n) = ReadFrom(e, bs, n)  BY ONLY <2>3, ReadSame
  <2> QED  BY <2>4 DEF bs, n
<1> QED  BY <1>1, <1>2 DEF ValueIn

-----------------------------------------------------------------------------
(* Every block has an owner *)

\* A list is its two halves.
LEMMA HalvesCover ==
  ASSUME NEW S, NEW s \in Seq(S), NEW n \in Nat, n <= Len(s)
  PROVE  /\ Range(s) \subseteq Range(SubSeq(s, 1, n)) \cup Range(SubSeq(s, n + 1, Len(s)))
         /\ n = Len(s) => Range(s) \subseteq Range(SubSeq(s, 1, n))
<1> DEFINE p == SubSeq(s, 1, n)
           r == SubSeq(s, n + 1, Len(s))
<1>0. Len(s) \in Nat /\ DOMAIN s = 1..Len(s) /\ \A i \in 1..Len(s) : s[i] \in S
  BY LenProperties, ElementOfSeq
<1>1. DOMAIN p = 1..n /\ \A i \in 1..n : p[i] = s[i]
  <2>1. \A i \in 1..n : s[i] \in S  BY <1>0
  <2>2. /\ p \in Seq(S) /\ Len(p) = (IF 1 <= n THEN n - 1 + 1 ELSE 0)
        /\ \A i \in 1..(n - 1 + 1) : p[i] = s[1 + i - 1]
    BY <2>1, SubSeqProperties
  <2>3. DOMAIN p = 1..Len(p)  BY <2>2, LenProperties
  <2> HIDE DEF p
  <2> QED  BY <2>2, <2>3
<1>2. \A i \in 1..(Len(s) - n) : i \in DOMAIN r /\ r[i] = s[n + i]
  <2>1. \A i \in (n + 1)..Len(s) : s[i] \in S  BY <1>0
  <2>2. /\ r \in Seq(S)
        /\ Len(r) = (IF n + 1 <= Len(s) THEN Len(s) - (n + 1) + 1 ELSE 0)
        /\ \A i \in 1..(Len(s) - (n + 1) + 1) : r[i] = s[n + 1 + i - 1]
    BY <2>1, <1>0, SubSeqProperties
  <2>3. DOMAIN r = 1..Len(r)  BY <2>2, LenProperties
  <2> HIDE DEF r
  <2> SUFFICES ASSUME NEW i \in 1..(Len(s) - n) PROVE i \in DOMAIN r /\ r[i] = s[n + i]
    OBVIOUS
  <2>4. n + 1 <= Len(s)  BY <1>0
  <2>5. Len(r) = Len(s) - (n + 1) + 1  BY ONLY <2>2, <2>4
  <2>6. i \in 1..Len(r) /\ i \in 1..(Len(s) - (n + 1) + 1) /\ n + 1 + i - 1 = n + i
    BY ONLY <1>0, <2>5, n \in Nat, i \in 1..(Len(s) - n)
  <2> QED  BY ONLY <2>2, <2>3, <2>6
<1> HIDE DEF p, r
<1>3. ASSUME NEW i \in 1..Len(s)
      PROVE  /\ i <= n => s[i] \in Range(p)
             /\ i > n => s[i] \in Range(r)
  <2>1. i <= n => s[i] \in Range(p)  BY <1>0, <1>1 DEF Range
  <2>2. ASSUME i > n PROVE s[i] \in Range(r)
    <3>1. i - n \in 1..(Len(s) - n) /\ n + (i - n) = i  BY <1>0, <2>2
    <3>2. i - n \in DOMAIN r /\ r[i - n] = s[i]  BY <1>2, <3>1
    <3> QED  BY <3>2 DEF Range
  <2> QED  BY <2>1, <2>2
<1>4. \A e \in Range(s) : \E i \in 1..Len(s) : e = s[i]  BY <1>0 DEF Range
<1>5. Range(s) \subseteq Range(p) \cup Range(r)  BY <1>0, <1>3, <1>4
<1>6. n = Len(s) => Range(s) \subseteq Range(p)  BY <1>0, <1>3, <1>4
<1> QED  BY <1>5, <1>6 DEF p, r

\* The blocks that belong to some key.
AllOwned == UNION {Owned(k) : k \in Keys}

\* The new row takes over what its key and its operation own.
LEMMA NewRowTakesAll ==
  ASSUME Typed, NEW t \in Threads, pc[t] = "swap"
  PROVE  Owned(Key(t)) \cup Held(t) \subseteq Range(NewRow(t).blocks)
<1> USE DEF Typed
<1>0. Key(t) \in Keys /\ op[t].keep <= Len(OldBlocks(t)) /\ Shape(t)
  BY DEF LockInv, OpInv, ShapeInv
<1>1. op[t].keep \in Nat /\ op[t].got \in Seq(Ids) /\ OldBlocks(t) \in Seq(Ids)
      /\ op[t].kind \in Kinds
  BY <1>0, BlockSets DEF Ops
<1>2. Owned(Key(t)) \subseteq Range(OldBlocks(t))  BY <1>0, OwnedInRow DEF OldBlocks
<1>3. op[t].kind \in {"put", "copy", "delete"} => Owned(Key(t)) \cap Dropped(t) = {}
  BY DEF Owned, Swapping
<1>4. Range(OldBlocks(t)) \subseteq Range(KeptBlocks(t)) \cup Dropped(t)
  BY <1>0, <1>1, HalvesCover DEF KeptBlocks, Dropped
<1>5. CASE op[t].kind = "delete"
  <2>1. op[t].keep = 0 /\ op[t].got = <<>>  BY <1>0, <1>5 DEF Shape
  <2>2. Range(KeptBlocks(t)) = {}
    <3>1. KeptBlocks(t) = <<>>  BY <1>1, <2>1 DEF KeptBlocks
    <3> QED  BY <3>1, EmptyRange
  <2>3. Held(t) = {}  BY <2>1, EmptyRange DEF Held
  <2> QED  BY <1>2, <1>3, <1>4, <1>5, <2>2, <2>3
<1>6. CASE op[t].kind # "delete"
  <2>1. Owned(Key(t)) \subseteq Range(KeptBlocks(t))
    <3>1. CASE op[t].kind \in {"put", "copy"}  BY <3>1, <1>2, <1>3, <1>4
    <3>2. CASE op[t].kind = "append"
      <4>1. op[t].keep = Len(OldBlocks(t))  BY <1>0, <3>2 DEF Shape
      <4> QED  BY <1>0, <1>1, <1>2, <4>1, HalvesCover DEF KeptBlocks
    <3>3. CASE op[t].kind = "new"
      <4>1. OldBlocks(t) = <<>>  BY <1>0, <3>3 DEF Shape
      <4> QED  BY <1>2, <4>1, EmptyRange
    <3> QED  BY <1>0, <1>1, <1>6, <3>1, <3>2, <3>3 DEF Shape, Kinds
  <2>2. KeptBlocks(t) \in Seq(Ids)  BY <1>0, NewRowType
  <2>3. Range(KeptBlocks(t) \o op[t].got) = Range(KeptBlocks(t)) \cup Range(op[t].got)
    BY <1>1, <2>2, ConcatRange
  <2>4. NewRow(t).blocks = KeptBlocks(t) \o op[t].got  BY <1>6 DEF NewRow
  <2>5. Held(t) \subseteq Range(op[t].got)  BY DEF Held
  <2> QED  BY <2>1, <2>3, <2>4, <2>5
<1> QED  BY <1>5, <1>6

\* An operation's step forgets no block: what leaves one list or row is in
\* another one.
LEMMA NoneForgottenThread ==
  ASSUME Typed, OwnerInv, NoneForgotten,
         NEW t \in Threads, ThreadStep(t) \/ Call(t)
  PROVE  NoneForgotten'
<1> USE DEF Typed, poolVars, storeVars
<1> DEFINE O == AllOwned
           H == AllHeld
<1>o. \A u \in Threads : op[u] \in Ops /\ op[u].got \in Seq(Ids)  BY BlockSets
<1>0. SUFFICES allocated' \subseteq free' \cup reserve' \cup lost' \cup O' \cup H' \cup {NoBlock}
  <2>1. OwnerInv'  BY OwnerStepThread
  <2>2. O' \cup H' \subseteq allocated'
    <3>1. \A k \in Keys : Owned(k)' \subseteq Range(row'[k].blocks) \cap Blocks  BY DEF Owned
    <3> QED  BY <2>1, <3>1 DEF OwnerInv, AllocInv, AllOwned, AllHeld
  <2>3. ((free' \cup reserve') \ {NoBlock}) \cup lost' \subseteq allocated'
    BY <2>1 DEF OwnerInv, AllocInv
  <2>4. (((free \cup reserve) \ {NoBlock}) \cup lost \cup AllOwned \cup AllHeld)' = allocated'
    <3>1. NoBlock \notin allocated'  BY TypeStep DEF TypeOK, Next
    <3> QED  BY <2>2, <2>3, <3>1
  <2> QED  BY ONLY <2>4 DEF NoneForgotten, AllOwned, AllHeld
<1>a. allocated = ((free \cup reserve) \ {NoBlock}) \cup lost \cup O \cup H
  BY ONLY NoneForgotten DEF NoneForgotten, AllOwned, AllHeld
<1>b. /\ \A u \in Threads \ {t} : pc'[u] = pc[u] /\ op'[u] = op[u] /\ Held(u)' = Held(u)
      /\ \A k \in Keys : k # Key(t) => row'[k] = row[k]
  BY OthersSame DEF Held
<1>c. ASSUME \A k \in Keys : /\ Range(row'[k].blocks) \cap Blocks = Range(row[k].blocks) \cap Blocks
                             /\ Swapping(k) # {} => row'[k].blocks = row[k].blocks,
             pc[t] # "swap", pc'[t] = "swap" => ~Swaps(t) /\ op[t].kind # "delete",
             op'[t].kind = op[t].kind \/ pc'[t] # "swap"
      PROVE  O' = O
  <2>1. \A k \in Keys : t \notin Swapping(k) /\ t \notin Swapping(k)'  BY <1>c DEF Swapping, Swaps
  <2>2. ASSUME NEW k \in Keys PROVE Owned(k)' = Owned(k)
    <3>1. /\ Range(row'[k].blocks) \cap Blocks = Range(row[k].blocks) \cap Blocks
          /\ Swapping(k) # {} => row'[k].blocks = row[k].blocks
          /\ t \notin Swapping(k) /\ t \notin Swapping(k)'
      BY ONLY <1>c, <2>1, k \in Keys
    <3>2. \A u \in Threads \ {t} : pc'[u] = pc[u] /\ op'[u] = op[u]  BY <1>b
    <3> QED  BY ONLY <3>1, <3>2, t \in Threads, k \in Keys, OwnedSame
  <2> QED  BY <2>2 DEF AllOwned
<1>d. ASSUME Held(t) \subseteq Held(t)' PROVE H \subseteq H'  BY <1>b, <1>d DEF AllHeld
<1>1. CASE Call(t)
  <2> PICK k \in Keys, o \in Ops, p \in PCs \ {"idle", "swap"} :
         /\ MayStart(t, k) /\ Start(t, o, p) /\ o.got = <<>>
         /\ UNCHANGED <<poolVars, storeVars, buffer, saved, cp>>
    BY <1>1, CallEffect
  <2>1. op'[t] = o /\ pc'[t] = p /\ pc[t] = "idle"  BY DEF Start, MayStart, Idle, TypeOK
  <2>2. op[t].got = <<>>  BY DEF MayStart, Idle, LockInv, NoOp
  <2>3. O' = O  BY <1>c, <2>1
  <2>4. H \subseteq H'  BY <1>d, <2>1, <2>2 DEF Held
  <2> QED  BY <1>a, <2>3, <2>4
<1>2. CASE PopRow(t) \/ NoExpansion(t) \/ Write(t)
  <2>1. /\ op' = op /\ row' = row /\ UNCHANGED poolVars /\ pc[t] # "swap"
        /\ pc'[t] = "swap" => ~Swaps(t) /\ op[t].kind # "delete"
    <3>1. CASE PopRow(t)  BY <3>1 DEF PopRow, Goto, TypeOK
    <3>2. CASE NoExpansion(t)  BY <3>2 DEF NoExpansion, Goto, NextPop, TypeOK
    <3>3. CASE Write(t)  BY <3>3 DEF Write, Goto, TypeOK, OpInv
    <3> QED  BY <1>2, <3>1, <3>2, <3>3
  <2>2. O' = O /\ H \subseteq H'  BY <1>c, <1>d, <2>1 DEF Held
  <2> QED  BY <1>a, <2>1, <2>2
<1>3. CASE ExpandFile(t)
  <2> PICK B \in SUBSET (Blocks \ allocated) :
         allocated' = allocated \cup B /\ free' = free \cup B
    BY <1>3 DEF ExpandFile
  <2>1. op' = op /\ row' = row /\ UNCHANGED <<reserve, lost>> /\ pc[t] # "swap" /\ pc'[t] # "swap"
    BY <1>3 DEF ExpandFile, Goto, NextPop, TypeOK
  <2>2. O' = O /\ H \subseteq H'  BY <1>c, <1>d, <2>1 DEF Held
  <2> QED  BY <1>a, <2>1, <2>2
<1>4. CASE PopBlock(t)
  <2> PICK b \in free : free' = free \ {b} /\ op' = [op EXCEPT ![t].got = Append(@, b)]
    BY <1>4 DEF PopBlock
  <2>1. /\ row' = row /\ UNCHANGED <<reserve, lost, allocated>> /\ pc[t] # "swap" /\ pc'[t] # "swap"
        /\ op'[t].got = Append(op[t].got, b)
    BY <1>4, <1>o DEF PopBlock, NextPop, TypeOK, Ops
  <2>2. Held(t)' = Held(t) \cup ({b} \cap Blocks) /\ b \in Ids
    <3>1. b \in Ids  BY DEF TypeOK
    <3> QED  BY <1>o, <2>1, <3>1, AppendRange DEF Held
  <2>3. O' = O /\ H \subseteq H' /\ (b \in H' \/ b = NoBlock)
    BY <1>c, <1>d, <2>1, <2>2 DEF AllHeld, Ids
  <2> QED  BY <1>a, <2>1, <2>3
<1>5. CASE GetBlocksFails(t) \/ WriteFails(t)
  <2>1. /\ pc[t] \notin {"swap", "idle"} /\ pc'[t] = "idle" /\ op'[t] = NoOp
    BY <1>5 DEF GetBlocksFails, WriteFails, Done, TypeOK
  <2>2. /\ allocated' = allocated
        /\ free \cup reserve \cup lost \cup Held(t) \subseteq free' \cup reserve' \cup lost'
    <3>1. CASE GetBlocksFails(t)  BY <3>1 DEF GetBlocksFails
    <3>2. CASE WriteFails(t)
      <4>1. Held(t) \subseteq Range(op[t].got) \ {NoBlock}  BY DEF Held
      <4> QED  BY <3>2, <4>1 DEF WriteFails, ReleaseBlocks
    <3> QED  BY <1>5, <3>1, <3>2
  <2>2a. \A k \in Keys : /\ Range(row'[k].blocks) \cap Blocks = Range(row[k].blocks) \cap Blocks
                         /\ Swapping(k) # {} => row'[k].blocks = row[k].blocks
    <3>1. \A k \in Keys : row'[k].blocks # row[k].blocks =>
             /\ k = Key(t) /\ Range(row'[k].blocks) \cap Blocks = {} /\ Range(row[k].blocks) = {}
      BY <1>5, FailedRow DEF OwnerInv
    <3>2. \A k \in Keys : k = Key(t) => Swapping(k) = {}
      BY <2>1, OneSwapping DEF Swapping
    <3> QED  BY <3>1, <3>2
  <2>3. O' = O  BY <1>c, <2>1, <2>2a
  <2>4. H \subseteq H' \cup Held(t)  BY <1>b DEF AllHeld
  <2> QED  BY <1>a, <2>2, <2>3, <2>4
<1>6. CASE Release(t)
  <2>1. /\ pc[t] = "release" /\ pc'[t] = "swap" /\ op' = op /\ row' = row
        /\ allocated' = allocated
        /\ free \cup reserve \cup lost \cup Dropped(t)
             \subseteq free' \cup reserve' \cup lost' \cup {NoBlock}
    BY <1>6 DEF Release, ReleaseBlocks, Goto, TypeOK
  <2>2. Dropped(t)' = Dropped(t)  BY <2>1 DEF Dropped, OldBlocks, Key
  <2>3. ASSUME NEW k \in Keys PROVE Owned(k) \subseteq Owned(k)' \cup Dropped(t)
    <3>1. Swapping(k)' \subseteq Swapping(k) \cup {t}  BY <1>b, <2>1 DEF Swapping, Key
    <3>2. \A u \in Swapping(k) : Dropped(u)' = Dropped(u)
      BY <2>1 DEF Dropped, OldBlocks, Key
    <3> QED  BY <2>1, <2>2, <3>1, <3>2 DEF Owned
  <2>4. O \subseteq O' \cup Dropped(t)  BY <2>3 DEF AllOwned
  <2>5. H \subseteq H'  BY <1>d, <2>1 DEF Held
  <2> QED  BY <1>a, <2>1, <2>4, <2>5
<1>7. CASE Swap(t)
  <2>1. /\ pc[t] = "swap" /\ pc'[t] = "idle" /\ UNCHANGED poolVars
        /\ row' = [row EXCEPT ![Key(t)] = NewRow(t)]
    BY <1>7 DEF Swap, Done, TypeOK
  <2>2. PICK q \in Keys : q = Key(t)  BY <2>1 DEF LockInv
  <2>3. row'[q] = NewRow(t)  BY <2>1, <2>2 DEF TypeOK
  <2>4. Owned(q) \cup Held(t) \subseteq Owned(q)'
    <3>1. Swapping(q)' = {}
      <4>1. \A u \in Threads \ {t} : Key(u) # q  BY <2>2 DEF LockInv
      <4> QED  BY <1>b, <2>1, <4>1 DEF Swapping, Key
    <3>2. Owned(q)' = Range(row'[q].blocks) \cap Blocks  BY <3>1 DEF Owned
    <3>3. Owned(q) \cup Held(t) \subseteq Blocks  BY DEF Owned, Held
    <3> QED  BY <2>1, <2>2, <2>3, <3>2, <3>3, NewRowTakesAll
  <2>5. \A k \in Keys : k # q => Owned(k)' = Owned(k)
    <3>1. \A k \in Keys : k # q => t \notin Swapping(k) /\ t \notin Swapping(k)'
      BY <2>1, <2>2 DEF Swapping, Key
    <3> QED  BY <1>b, <2>2, <3>1, OwnedSame
  <2>6. O \cup Held(t) \subseteq O'  BY <2>4, <2>5 DEF AllOwned
  <2>7. H \subseteq H' \cup Held(t)  BY <1>b DEF AllHeld
  <2> QED  BY <1>a, <2>1, <2>6, <2>7
<1> QED  BY <1>1, <1>2, <1>3, <1>4, <1>5, <1>6, <1>7 DEF ThreadStep

\* No step forgets a block: a checkpoint frees what was reserved, and what
\* neither the saved list nor a saved row names is lost for good.
LEMMA NoneForgottenStep ==
  ASSUME Inv, ~SaveFailures, NoneForgotten, [Next]_vars
  PROVE  NoneForgotten'
<1> USE DEF poolVars, storeVars
<1>i. Typed /\ TypeOK /\ OwnerInv /\ SavedInv  BY DEF Inv, Typed, OwnerInv
<1>a. allocated = ((free \cup reserve) \ {NoBlock}) \cup lost \cup AllOwned \cup AllHeld
  BY ONLY NoneForgotten DEF NoneForgotten, AllOwned, AllHeld
<1>1. ASSUME (allocated = ((free \cup reserve) \ {NoBlock}) \cup lost \cup AllOwned \cup AllHeld)' PROVE NoneForgotten'
  BY ONLY <1>1 DEF NoneForgotten, AllOwned, AllHeld
<1>2. CASE \E t \in Threads : ThreadStep(t) \/ Call(t)
  BY <1>2, <1>i, NoneForgottenThread
<1>3. CASE SaveMapping \/ SavePool \/ UNCHANGED vars
  <2>1. /\ UNCHANGED <<row, pc, op, allocated, lost>>
        /\ free' \cup reserve' = free \cup reserve
    BY <1>3 DEF SaveMapping, SavePool, vars
  <2>2. \A t \in Threads : Held(t)' = Held(t) /\ Dropped(t)' = Dropped(t)
    BY <2>1 DEF Held, Dropped, OldBlocks, Key
  <2>3. \A k \in Keys : Swapping(k)' = Swapping(k) /\ Swapping(k) \subseteq Threads
    BY <2>1 DEF Swapping, Key
  <2>4. \A k \in Keys : Owned(k)' = Owned(k)  BY <2>1, <2>2, <2>3 DEF Owned
  <2>5. AllOwned' = AllOwned /\ AllHeld' = AllHeld  BY <2>2, <2>4 DEF AllOwned, AllHeld
  <2> QED  BY <1>1, <1>a, <2>1, <2>5
<1>4. CASE CrashAndRecover
  <2>1. /\ cp = "idle" /\ row' = saved.rows
        /\ free' = saved.free /\ allocated' = saved.allocated /\ reserve' = {}
        /\ lost' = saved.allocated \ (saved.free \cup SavedBlocks)
        /\ \A t \in Threads : pc'[t] = "idle" /\ op'[t] = NoOp
    BY <1>4, <1>i, LostAfterCrash DEF CrashAndRecover, Load, LoadBlockPool
  <2>2. \A t \in Threads : Held(t)' = {}  BY <2>1, EmptyRange DEF Held, NoOp
  <2>3. \A k \in Keys : Owned(k)' = Range(saved.rows[k].blocks) \cap Blocks
    <3>1. \A k \in Keys : Swapping(k)' = {}  BY <2>1 DEF Swapping
    <3> QED  BY <2>1, <3>1 DEF Owned
  <2>4. AllOwned' = SavedBlocks /\ AllHeld' = {}
    BY <2>2, <2>3 DEF AllOwned, AllHeld, SavedBlocks
  <2>5. SavedBlocks \cup (saved.free \ {NoBlock}) \subseteq saved.allocated
    BY <1>i, <2>1 DEF SavedInv
  <2>6. saved.allocated \subseteq Blocks  BY <1>i DEF TypeOK
  <2> QED  BY <1>1, <2>1, <2>4, <2>5, <2>6
<1> QED  BY <1>2, <1>3, <1>4 DEF Next, SaveMappingFails

\* Nothing is written yet, and nothing is forgotten.
LEMMA InitShapes == Init => DataInv /\ NoneForgotten
<1> SUFFICES ASSUME Init PROVE DataInv /\ NoneForgotten  OBVIOUS
<1>1. DataInv  BY DEF Init, DataInv
<1>2. NoneForgotten
  <2>1. \A k \in Keys : Owned(k) = {}  BY EmptyRange DEF Init, NoRow, Owned
  <2>2. \A t \in Threads : Held(t) = {}  BY EmptyRange DEF Init, NoOp, Held
  <2>3. AllOwned = {} /\ AllHeld = {}  BY <2>1, <2>2 DEF AllOwned, AllHeld
  <2>4. allocated = ((free \cup reserve) \ {NoBlock}) \cup lost \cup AllOwned \cup AllHeld
    BY <2>3 DEF Init
  <2> QED  BY ONLY <2>4 DEF NoneForgotten, AllOwned, AllHeld
<1> QED  BY <1>1, <1>2

\* Whatever writes, expansions and processes fail, every block of the file is
\* in one of the lists, in a row or held by an operation: released space is
\* always found again, and only what GetBlocks gave up is lost.
THEOREM NoBlockIsForgotten ==
  ASSUME ~SaveFailures
  PROVE  Spec => []NoneForgotten
<1>1. Init => NoneForgotten  BY InitShapes
<1>2. Inv /\ NoneForgotten /\ [Next]_vars => NoneForgotten'  BY NoneForgottenStep
<1>3. Spec => []Inv  BY InvHolds
<1> QED  BY <1>1, <1>2, <1>3, PTL DEF Spec

\* A block id of -1 comes from a failed write to a row that was loaded empty.
TornInv == ~(WriteFailures /\ Crashes) =>
    /\ NoBlock \notin free \cup reserve \cup saved.free
    /\ \A t \in Threads : NoBlock \notin Range(op[t].got)
    /\ \A k \in Keys : NoBlock \notin Range(row[k].blocks) \cup Range(saved.rows[k].blocks)
    /\ ~Crashes => \A k \in Keys : row[k] # EmptyRow

LEMMA TornStep ==
  ASSUME Typed, TornInv, [Next]_vars
  PROVE  TornInv'
<1> USE DEF Typed, poolVars, storeVars
<1> SUFFICES ASSUME ~(WriteFailures /\ Crashes) PROVE TornInv'  BY DEF TornInv
<1>i. /\ NoBlock \notin free \cup reserve \cup saved.free
      /\ \A t \in Threads : NoBlock \notin Range(op[t].got)
      /\ \A k \in Keys : NoBlock \notin Range(row[k].blocks) \cup Range(saved.rows[k].blocks)
      /\ ~Crashes => \A k \in Keys : row[k] # EmptyRow
  BY DEF TornInv
<1>n. Range(NoOp.got) = {} /\ Range(EmptyRow.blocks) = {} /\ Range(NoRow.blocks) = {}
  BY EmptyRange DEF NoOp, EmptyRow, NoRow
<1>1. ASSUME row' = row, saved' = saved,
             NoBlock \notin free' \cup reserve',
             \A t \in Threads : NoBlock \notin Range(op'[t].got)
      PROVE  TornInv'
  BY <1>1, <1>i DEF TornInv
<1>2. ASSUME NEW t \in Threads, Call(t) PROVE TornInv'
  <2> PICK k \in Keys, o \in Ops, p \in PCs \ {"idle", "swap"} :
         /\ Start(t, o, p) /\ o.got = <<>>
         /\ UNCHANGED <<poolVars, storeVars, buffer, saved, cp>>
    BY <1>2, CallEffect
  <2>1. op'[t] = o /\ \A u \in Threads \ {t} : op'[u] = op[u]  BY DEF Start, TypeOK
  <2> QED  BY <1>1, <1>i, <2>1, EmptyRange
<1>3. ASSUME NEW t \in Threads, PopRow(t) \/ ExpandFile(t) \/ NoExpansion(t) \/ Write(t)
      PROVE  TornInv'
  <2>1. row' = row /\ saved' = saved /\ op' = op /\ NoBlock \notin free' \cup reserve'
    BY <1>3, <1>i DEF PopRow, ExpandFile, NoExpansion, Write, Goto
  <2> QED  BY <1>1, <1>i, <2>1
<1>4. ASSUME NEW t \in Threads, PopBlock(t) PROVE TornInv'
  <2> PICK b \in free : free' = free \ {b} /\ op' = [op EXCEPT ![t].got = Append(@, b)]
    BY <1>4 DEF PopBlock
  <2>1. Range(Append(op[t].got, b)) = Range(op[t].got) \cup {b}
    <3>1. op[t].got \in Seq(Ids) /\ b \in Ids  BY BlockSets DEF TypeOK
    <3> QED  BY <3>1, AppendRange
  <2>2. \A u \in Threads : Range(op'[u].got) \subseteq Range(op[u].got) \cup {b}
    BY <2>1 DEF TypeOK, Ops
  <2> QED  BY <1>1, <1>4, <1>i, <2>2 DEF PopBlock
<1>5. ASSUME NEW t \in Threads, GetBlocksFails(t) \/ WriteFails(t) PROVE TornInv'
  <2>1. \A u \in Threads : op'[u] = op[u] \/ op'[u] = NoOp
    BY <1>5 DEF GetBlocksFails, WriteFails, Done, TypeOK
  <2>2. saved' = saved /\ NoBlock \notin free' \cup reserve'
    BY <1>5, <1>i DEF GetBlocksFails, WriteFails, ReleaseBlocks
  <2>3. row' = row
    <3>1. CASE GetBlocksFails(t)  BY <3>1 DEF GetBlocksFails
    <3>2. CASE WriteFails(t)
      <4>1. WriteFailures /\ pc[t] = "write" /\ Key(t) \in Keys
        BY <3>2 DEF WriteFails, LockInv
      <4>2. row[Key(t)] # EmptyRow  BY <1>i, <4>1
      <4> QED  BY <3>2, <4>2 DEF WriteFails
    <3> QED  BY <1>5, <3>1, <3>2
  <2> QED  BY <1>1, <1>i, <1>n, <2>1, <2>2, <2>3
<1>6. ASSUME NEW t \in Threads, Release(t) PROVE TornInv'
  <2>1. pc[t] = "release" /\ Key(t) \in Keys /\ op[t].keep <= Len(OldBlocks(t))
    BY <1>6 DEF Release, LockInv, OpInv
  <2>2. NoBlock \notin Dropped(t)  BY <1>i, <2>1, BlockSets DEF OldBlocks
  <2>3. row' = row /\ saved' = saved /\ op' = op /\ NoBlock \notin free' \cup reserve'
    BY <1>6, <1>i, <2>2 DEF Release, ReleaseBlocks, Goto
  <2> QED  BY <1>1, <1>i, <2>3
<1>7. ASSUME NEW t \in Threads, Swap(t) PROVE TornInv'
  <2>1. pc[t] = "swap" /\ Key(t) \in Keys /\ op[t].keep <= Len(OldBlocks(t))
    BY <1>7 DEF Swap, LockInv, OpInv
  <2>2. NoBlock \notin Range(NewRow(t).blocks) /\ NewRow(t) # EmptyRow
    <3>1. CASE op[t].kind = "delete"  BY <3>1, <1>n DEF NewRow, NoRow, EmptyRow
    <3>2. CASE op[t].kind # "delete"
      <4>1. op[t].keep \in Nat /\ op[t].got \in Seq(Ids) /\ OldBlocks(t) \in Seq(Ids)
        BY <2>1, BlockSets DEF Ops
      <4>2. /\ KeptBlocks(t) \in Seq(Ids)
            /\ Range(KeptBlocks(t)) \subseteq Range(OldBlocks(t))
        BY <2>1, <4>1, SplitRange DEF KeptBlocks
      <4>3. Range(KeptBlocks(t) \o op[t].got) = Range(KeptBlocks(t)) \cup Range(op[t].got)
        BY <4>1, <4>2, ConcatRange
      <4>4. NoBlock \notin Range(OldBlocks(t))  BY <1>i, <2>1 DEF OldBlocks
      <4>5. Len(op[t].got) = Need(t)  BY <2>1, <3>2 DEF ShapeInv, Shape
      <4>6. NewRow(t).size \in Nat /\ NewRow(t).blocks = KeptBlocks(t) \o op[t].got
        BY <2>1, <3>2, <4>5, NewRowSize
      <4>7. EmptyRow.size = -1  BY DEF EmptyRow
      <4> QED  BY <1>i, <4>2, <4>3, <4>4, <4>6, <4>7
    <3> QED  BY <3>1, <3>2
  <2>3. \A k \in Keys : row'[k] = row[k] \/ row'[k] = NewRow(t)  BY <1>7 DEF Swap, TypeOK
  <2>4. \A u \in Threads : op'[u] = op[u] \/ op'[u] = NoOp  BY <1>7 DEF Swap, Done, TypeOK
  <2>5. UNCHANGED <<free, reserve, saved>>  BY <1>7 DEF Swap
  <2> QED  BY <1>i, <1>n, <2>2, <2>3, <2>4, <2>5 DEF TornInv
<1>8. ASSUME SaveMapping \/ SaveMappingFails \/ SavePool PROVE TornInv'
  <2>1. \A k \in Keys : NoBlock \notin Range(SavedRow(k).blocks)  BY <1>i, <1>n DEF SavedRow
  <2>2. row' = row /\ op' = op /\ \A k \in Keys :
           saved'.rows[k] = saved.rows[k] \/ saved'.rows[k] = SavedRow(k)
    <3>1. CASE SaveMapping  BY <3>1 DEF SaveMapping, TypeOK
    <3>2. CASE SaveMappingFails  BY <3>2 DEF SaveMappingFails
    <3>3. CASE SavePool
      <4>1. saved'.rows = saved.rows  BY <3>3 DEF SavePool, TypeOK
      <4> QED  BY <3>3, <4>1 DEF SavePool
    <3> QED  BY <1>8, <3>1, <3>2, <3>3
  <2>3. NoBlock \notin free' \cup reserve' \cup saved'.free
    BY <1>8, <1>i DEF SaveMapping, SaveMappingFails, SavePool, TypeOK
  <2> QED  BY <1>i, <2>1, <2>2, <2>3 DEF TornInv
<1>9. ASSUME CrashAndRecover PROVE TornInv'
  <2>1. /\ Crashes /\ saved' = saved /\ row' = saved.rows /\ free' = saved.free /\ reserve' = {}
        /\ \A t \in Threads : op'[t] = NoOp
    BY <1>9 DEF CrashAndRecover, Load, LoadBlockPool
  <2> QED  BY <1>i, <1>n, <2>1 DEF TornInv
<1>10. CASE UNCHANGED vars  BY <1>10, <1>i DEF TornInv, vars
<1> QED  BY <1>2, <1>3, <1>4, <1>5, <1>6, <1>7, <1>8, <1>9, <1>10 DEF Next, ThreadStep

\* FileIO::Check holds at every instant: every block of the file has exactly
\* one owner, and every row the blocks its size needs, all different, except
\* that a failed write to a loaded row leaves ids of -1, as long as saving
\* the mapping file does not fail.
THEOREM BlocksAreAccounted ==
  ASSUME ~SaveFailures
  PROVE  Spec => []BlocksAccounted
<1>1. Init => TornInv
  <2>1. ASSUME Init PROVE TornInv
    <3>1. \A t \in Threads : op[t].got = <<>>  BY <2>1 DEF Init, NoOp
    <3>2. \A k \in Keys : row[k] = NoRow /\ saved.rows[k] = NoRow  BY <2>1 DEF Init
    <3>3. Range(NoRow.blocks) = {} /\ NoRow # EmptyRow  BY EmptyRange DEF NoRow, EmptyRow
    <3> QED  BY <2>1, <3>1, <3>2, <3>3, EmptyRange DEF Init, TornInv
  <2> QED  BY <2>1
<1>2. Inv /\ TornInv /\ [Next]_vars => TornInv'  BY TornStep DEF Inv
<1>3. Inv /\ TornInv /\ NoneForgotten => BlocksAccounted
  <2> SUFFICES ASSUME Inv, TornInv, NEW k \in Keys, ~Absent(k)
               PROVE  /\ Len(row[k].blocks) = NumBlocks(row[k].size)
                      /\ Distinct(row[k].blocks)
                      /\ NoBlock \in Range(row[k].blocks) => WriteFailures /\ Crashes
    BY DEF BlocksAccounted, RowsWellFormed, Inv
  <2>1. row[k].size \in Int  BY DEF Inv, Typed, TypeOK, Rows
  <2>2. Len(row[k].blocks) = NumBlocks(row[k].size)  BY <2>1 DEF Inv, Typed, WellInv, Absent
  <2>3. NoBlock \in Range(row[k].blocks) => WriteFailures /\ Crashes  BY DEF TornInv
  <2> QED  BY <2>2, <2>3 DEF Inv, InjInv
<1>4. Spec => []Inv  BY InvHolds
<1>5. Spec => []NoneForgotten  BY NoBlockIsForgotten
<1> QED  BY <1>1, <1>2, <1>3, <1>4, <1>5, PTL DEF Spec

-----------------------------------------------------------------------------
(* What the blocks hold *)

\* An operation changes the blocks it holds only, when it writes.
LEMMA DiskStep ==
  ASSUME TypeOK, NEW t \in Threads, ThreadStep(t) \/ Call(t)
  PROVE  /\ \A b \in Blocks : b \notin Held(t) => disk'[b] = disk[b]
         /\ pc[t] # "write" => disk' = disk
<1>1. CASE Write(t)
  BY <1>1 DEF Write, WriteBlocks
<1>2. CASE WriteFails(t)
  <2> PICK W \in SUBSET Held(t) : disk' = WriteBlocks(op[t].got, op[t].value, W)
    BY <1>2 DEF WriteFails
  <2> QED  BY <1>2 DEF WriteFails, WriteBlocks
<1>3. CASE ~(Write(t) \/ WriteFails(t))
  BY <1>3 DEF ThreadStep, Call, PopRow, ExpandFile, NoExpansion, PopBlock, GetBlocksFails,
     Release, Swap, PutNew, PutOver, Merge, Delete, storeVars
<1> QED  BY <1>1, <1>2, <1>3

\* Writing all the pages of a value to different blocks puts them there.
LEMMA PagesWritten ==
  ASSUME TypeOK, InjInv, NEW t \in Threads, Write(t)
  PROVE  \A i \in 1..Len(op[t].got) : disk'[op[t].got[i]] = Page(op[t].value, i)
<1> DEFINE g == op[t].got
           v == op[t].value
<1>1. g \in Seq(Ids) /\ Distinct(g) /\ NoBlock \notin Range(g)  BY BlockSets DEF InjInv, Write
<1>2. disk' = WriteBlocks(g, v, Range(g) \cap Blocks)  BY DEF Write, Held
<1> HIDE DEF g, v
<1>3. DOMAIN g = 1..Len(g) /\ \A i \in DOMAIN g : g[i] \in Blocks
  BY <1>1, LenProperties, RealBlocks
<1>4. ASSUME NEW i \in DOMAIN g PROVE disk'[g[i]] = Page(v, i)
  <2>0. g[i] # NoBlock  BY <1>3
  <2>1. (CHOOSE j \in DOMAIN g : g[j] = g[i]) = i  BY <1>1, <2>0 DEF Distinct
  <2>2. g[i] \in Range(g) \cap Blocks  BY <1>3 DEF Range
  <2> QED  BY <1>2, <1>3, <2>1, <2>2 DEF WriteBlocks
<1> QED  BY <1>3, <1>4 DEF g, v

\* The full blocks that Merge keeps.
LEMMA KeptPrefix ==
  ASSUME TypeOK, NEW t \in Threads, Key(t) \in Keys, op[t].keep <= Len(OldBlocks(t))
  PROVE  /\ KeptBlocks(t) \in Seq(Ids) /\ Len(KeptBlocks(t)) = op[t].keep
         /\ op[t].keep \in Nat /\ op[t].keep * PageSize \in Nat
         /\ NumBlocks(op[t].keep * PageSize) = op[t].keep
         /\ \A i \in 1..op[t].keep : /\ KeptBlocks(t)[i] = OldBlocks(t)[i]
                                     /\ OldBlocks(t)[i] \in Ids
                                     /\ OldBlocks(t)[i] \in Range(OldBlocks(t))
<1> DEFINE c == op[t].keep
           o == OldBlocks(t)
<1>1. c \in Nat /\ o \in Seq(Ids) /\ KeptBlocks(t) \in Seq(Ids)
  BY NeedType, BlockSets, NewRowType
<1>2. Len(o) \in Nat /\ DOMAIN o = 1..Len(o) /\ \A i \in 1..Len(o) : o[i] \in Ids
  BY <1>1, LenProperties, ElementOfSeq
<1>3. \A i \in 1..c : o[i] \in Ids /\ o[i] \in Range(o)  BY <1>1, <1>2 DEF Range
<1>4. Len(KeptBlocks(t)) = c /\ \A i \in 1..c : KeptBlocks(t)[i] = o[i]
  <2>1. /\ Len(KeptBlocks(t)) = (IF 1 <= c THEN c - 1 + 1 ELSE 0)
        /\ \A i \in 1..(c - 1 + 1) : KeptBlocks(t)[i] = o[1 + i - 1]
    BY <1>1, <1>3, SubSeqProperties DEF KeptBlocks
  <2> HIDE DEF c, o
  <2> QED  BY <1>1, <2>1
<1>5. c * PageSize \in Nat /\ NumBlocks(c * PageSize) = c
  <2> HIDE DEF c
  <2>1. NumBlocks(0) = 0  BY NoBlocks
  <2>2. NumBlocks(c * PageSize + 0) = c + NumBlocks(0)  BY <1>1, NumBlocksAdd
  <2>3. c * PageSize + 0 = c * PageSize /\ c * PageSize \in Nat  BY <1>1, UnitsType
  <2> QED  BY <1>1, <2>1, <2>2, <2>3
<1> QED  BY <1>1, <1>3, <1>4, <1>5

\* A Merge that waits for its blocks still extends the value of its key, as
\* long as nobody writes to the blocks of its row.
LEMMA AppendsSame ==
  ASSUME TypeOK, NEW t \in Threads, Key(t) \in Keys, op[t].keep <= Len(OldBlocks(t)), Appends(t),
         Key(t)' = Key(t), op'[t].keep = op[t].keep, op'[t].value = op[t].value,
         row'[Key(t)] = row[Key(t)],
         \A b \in Range(OldBlocks(t)) \cap Blocks : disk'[b] = disk[b]
  PROVE  Appends(t)'
<1> DEFINE r == row[Key(t)]
           c == op[t].keep
           K == KeptBlocks(t)
<1>1. /\ K' = K /\ OldBlocks(t) = r.blocks
  BY DEF KeptBlocks, OldBlocks
<1>n. CASE NoBlock \in Range(K)  BY <1>1, <1>n DEF Appends
<1>r. SUFFICES ASSUME NoBlock \notin Range(K) PROVE Extends(t)'  BY <1>n DEF Appends
<1>2. /\ r.size \in Nat /\ Len(r.blocks) = NumBlocks(r.size) /\ r.blocks \in Seq(Ids)
      /\ NoBlock \notin Range(r.blocks) /\ Extends(t)
  <2>1. Extends(t)  BY <1>r DEF Appends
  <2>2. r \in Rows  BY DEF TypeOK
  <2>3. r.size >= 0 /\ Len(r.blocks) = NumBlocks(r.size) /\ NoBlock \notin Range(r.blocks)
    BY <2>1 DEF Extends
  <2> HIDE DEF r
  <2> QED  BY <2>1, <2>2, <2>3 DEF Rows
<1>3. \A i \in 1..NumBlocks(r.size) : r.blocks[i] \in Range(r.blocks) \cap Blocks
  BY <1>2, RealBlocks
<1>4. ReadFrom(disk', r.blocks, r.size) = ReadFrom(disk, r.blocks, r.size)
  <2>1. \A i \in 1..NumBlocks(r.size) : disk'[r.blocks[i]] = disk[r.blocks[i]]
    BY <1>1, <1>3
  <2> DEFINE bs == r.blocks
             n == r.size
             d == disk
             e == disk'
  <2>2. n \in Nat /\ SameIn(e, d, bs, n)  BY <1>2, <2>1 DEF SameIn
  <2> HIDE DEF bs, n, d, e
  <2>3. ReadFrom(e, bs, n) = ReadFrom(d, bs, n)  BY ONLY <2>2, ReadAgain
  <2> QED  BY <2>3 DEF bs, n, d, e
<1>5. ReadFrom(disk', K, c * PageSize) = ReadFrom(disk, K, c * PageSize)
  <2>1. /\ c * PageSize \in Nat /\ NumBlocks(c * PageSize) = c
        /\ \A i \in 1..c : disk'[K[i]] = disk[K[i]]
    BY <1>1, <1>2, KeptPrefix, RealBlocks
  <2> DEFINE n == c * PageSize
             d == disk
             e == disk'
  <2>2. n \in Nat /\ SameIn(e, d, K, n)  BY <2>1 DEF SameIn
  <2> HIDE DEF K, n, d, e
  <2>3. ReadFrom(e, K, n) = ReadFrom(d, K, n)  BY ONLY <2>2, ReadAgain
  <2> QED  BY <2>3 DEF n, d, e
<1>6. PICK v \in MergeValues :
         ReadFrom(disk, r.blocks, r.size) \o v = ReadFrom(disk, K, c * PageSize) \o op[t].value
  BY <1>2 DEF Extends
<1>7. ReadFrom(disk', r.blocks, r.size) \o v = ReadFrom(disk', K, c * PageSize) \o op[t].value
  BY <1>4, <1>5, <1>6
<1> HIDE DEF K
<1> QED  BY <1>1, <1>2, <1>7 DEF Extends, K

\* A Merge that starts will extend the value of its key: the partial last
\* block is read, and rewritten in front of the new data.
LEMMA MergeStarts ==
  ASSUME TypeOK, WellInv, NEW t \in Threads, NEW k \in Keys, NEW v \in MergeValues,
         Merge(t, k, v)
  PROVE  Appends(t)'
<1> DEFINE n == row[k].size
           bs == row[k].blocks
           c == n \div PageSize
           m == n % PageSize
           d == disk
           P == PageSize
           K == SubSeq(bs, 1, c)
<1>1. /\ n \in Nat /\ bs \in Seq(Ids) /\ Len(bs) = NumBlocks(n) /\ d \in Disks
      /\ v \in Seq(Units)
  BY ValueType DEF Merge, Absent, WellInv, TypeOK, Rows, Disks
<1>2. /\ c \in Nat /\ m \in 0..(P - 1) /\ m \in Nat /\ n = P * c + m
      /\ c <= Len(bs) /\ (m # 0 => c + 1 <= Len(bs)) /\ Len(bs) \in Nat
  <2>1. n \in Nat /\ Len(bs) = NumBlocks(n)  BY <1>1
  <2>2. Len(bs) \in Nat  BY <1>1, LenProperties
  <2> HIDE DEF n, bs
  <2>3. c \in Nat /\ m \in 0..(P - 1) /\ n = P * c + m  BY <2>1, DivFacts
  <2>4. c <= NumBlocks(n) /\ (m # 0 => c + 1 <= NumBlocks(n))  BY <2>1, PrefixFits
  <2>5. m \in Nat
    <3> HIDE DEF m
    <3> QED  BY <2>3
  <2> HIDE DEF c, m, P
  <2> QED  BY ONLY <2>1, <2>2, <2>3, <2>4, <2>5
<1>3. UNCHANGED <<row, disk>>  BY DEF Merge, storeVars
<1>4. /\ m # 0 => Start(t, Op("copy", k, ReadFrom(d, <<bs[c + 1]>>, m) \o v, c), "row")
      /\ m = 0 => Start(t, Op("append", k, v, c), "expand")
  BY ReadNow DEF Merge
<1>l. m # 0 => bs[c + 1] # NoBlock  BY DEF Merge
<1> HIDE DEF n, bs, c, m, d, P, K
<1>s. ASSUME NEW o, NEW p, Start(t, o, p) PROVE op'[t] = o
  BY <1>s DEF Start, TypeOK
<1>5. \A i \in 1..Len(bs) : bs[i] \in Ids  BY <1>1, ElementOfSeq
<1>6. K \in Seq(Ids) /\ Len(K) = c /\ \A i \in 1..c : K[i] = bs[i]
  <2>1. \A i \in 1..c : bs[i] \in Ids  BY <1>2, <1>5
  <2>2. /\ K \in Seq(Ids) /\ Len(K) = (IF 1 <= c THEN c - 1 + 1 ELSE 0)
        /\ \A i \in 1..(c - 1 + 1) : K[i] = bs[1 + i - 1]
    BY <1>1, <1>2, <2>1, SubSeqProperties DEF K
  <2> HIDE DEF K
  <2> QED  BY <1>2, <2>2
<1>7. c * P + m = n  BY <1>2, PageSizeAssumption DEF P
<1>o. op'[t].key = k /\ op'[t].keep = c
  <2>1. CASE m # 0
    <3> DEFINE w == ReadFrom(d, <<bs[c + 1]>>, m) \o v
    <3>1. op'[t] = Op("copy", k, w, c)  BY <1>4, <1>s, <2>1
    <3> HIDE DEF w
    <3> QED  BY <3>1 DEF Op
  <2>2. CASE m = 0
    <3>1. op'[t] = Op("append", k, v, c)  BY <1>4, <1>s, <2>2
    <3> QED  BY <3>1 DEF Op
  <2> QED  BY <2>1, <2>2
<1>k. Key(t)' = k /\ row'[Key(t)'] = row[k] /\ KeptBlocks(t)' = K
  <2>1. Key(t)' = k  BY <1>o DEF Key
  <2>2. row'[Key(t)'] = row[k]  BY <2>1, <1>3
  <2> QED  BY <1>o, <2>1, <2>2 DEF KeptBlocks, OldBlocks, K, bs
<1>r. SUFFICES ASSUME NoBlock \notin Range(K) PROVE Extends(t)'
  BY <1>k DEF Appends
<1>b. /\ \A i \in 1..c : K[i] = bs[i] /\ bs[i] \in Blocks
      /\ m # 0 => bs[c + 1] \in Blocks
      /\ NoBlock \notin Range(bs)
  <2>1. \A i \in 1..c : bs[i] \in Blocks  BY <1>6, <1>r, RealBlocks
  <2>2. m # 0 => bs[c + 1] \in Blocks  BY <1>2, <1>5, <1>l DEF Ids
  <2>3. Len(bs) = IF m = 0 THEN c ELSE c + 1
    <3>1. n = c * PageSize + m  BY <1>2 DEF P
    <3>2. NumBlocks(m) = IF m = 0 THEN 0 ELSE 1
      <4>1. CASE m = 0  BY <4>1, NoBlocks
      <4>2. CASE m # 0
        <5>1. m + P - 1 = P * 1 + (m - 1) /\ m - 1 \in 0..(P - 1) /\ m + P - 1 \in Nat
          BY <1>2, <4>2, PageSizeAssumption DEF P
        <5>2. /\ m + PageSize - 1 = PageSize * 1 + (m - 1) /\ m - 1 \in 0..(PageSize - 1)
              /\ m + PageSize - 1 \in Nat
          BY <5>1 DEF P
        <5>3. (m + PageSize - 1) \div PageSize = 1  BY <5>2, DivUnique
        <5> QED  BY <4>2, <5>3 DEF NumBlocks
      <4> QED  BY <4>1, <4>2
    <3>3. NumBlocks(c * PageSize + m) = c + NumBlocks(m)  BY <1>2, NumBlocksAdd
    <3> QED  BY <1>1, <1>2, <3>1, <3>2, <3>3
  <2>4. \A i \in 1..Len(bs) : bs[i] \in Blocks  BY <1>2, <2>1, <2>2, <2>3
  <2>5. DOMAIN bs = 1..Len(bs)  BY <1>1, LenProperties
  <2>6. NoBlock \notin Range(bs)  BY <2>4, <2>5 DEF Range
  <2> QED  BY <1>6, <2>1, <2>2, <2>6
<1>8. ASSUME NEW w, op'[t].key = k, op'[t].keep = c, op'[t].value = w,
             ReadFrom(d, bs, n) \o v = ReadFrom(d, K, c * P) \o w
      PROVE  Extends(t)'
  <2>1. disk' = d  BY <1>3 DEF d
  <2>2. row[k].size = n /\ row[k].blocks = bs  BY DEF n, bs
  <2>3. n >= 0 /\ Len(bs) = NumBlocks(n)  BY <1>1
  <2> QED  BY <1>8, <1>k, <1>b, <2>1, <2>2, <2>3 DEF Extends, P
<1>9. CASE m # 0
  <2> DEFINE gs == <<bs[c + 1]>>
             last == ReadFrom(d, gs, m)
             A == ReadFrom(d, K, c * P)
  <2>1. NumBlocks(m) = 1
    <3>1. m + P - 1 = P * 1 + (m - 1) /\ m - 1 \in 0..(P - 1) /\ m + P - 1 \in Nat
      BY <1>2, <1>9, PageSizeAssumption DEF P
    <3>2. m + PageSize - 1 = PageSize * 1 + (m - 1) /\ m - 1 \in 0..(PageSize - 1) /\ m + PageSize - 1 \in Nat
      BY <3>1 DEF P
    <3>3. (m + PageSize - 1) \div PageSize = 1  BY <3>2, DivUnique
    <3> QED  BY <3>3 DEF NumBlocks
  <2>2. \A i \in 1..NumBlocks(m) : gs[i] \in Blocks /\ bs[c + i] = gs[i]
    <3>1. bs[c + 1] \in Blocks  BY <1>9, <1>b
    <3> QED  BY <2>1, <3>1
  <2> HIDE DEF gs
  <2>3. /\ ReadFrom(d, bs, c * PageSize + m) = ReadFrom(d, K, c * PageSize) \o ReadFrom(d, gs, m)
        /\ ReadFrom(d, K, c * PageSize) \in Seq(Units)
        /\ ReadFrom(d, gs, m) \in Seq(Units)
    <3>1. \A i \in 1..c : bs[i] \in Blocks /\ K[i] = bs[i]  BY <1>b
    <3>2. d \in Disks /\ c \in Nat /\ m \in Nat  BY <1>1, <1>2
    <3>3. Joined(bs, c, K, gs, m)  BY ONLY <3>1, <2>2 DEF Joined
    <3>4. ReadsJoined(d, bs, c, K, gs, m)  BY ONLY <3>2, <3>3, ReadConcat
    <3> QED  BY ONLY <3>4 DEF ReadsJoined
  <2>4. ReadFrom(d, bs, n) = A \o last /\ A \in Seq(Units) /\ last \in Seq(Units)
    BY <1>7, <2>3 DEF P
  <2> HIDE DEF last, A
  <2>5. (A \o last) \o v = A \o (last \o v)
    <3>1. A \in Seq(Units) /\ last \in Seq(Units) /\ v \in Seq(Units)  BY <1>1, <2>4
    <3> QED  BY ONLY <3>1, ConcatAssociative
  <2>6. op'[t] = Op("copy", k, last \o v, c)  BY <1>4, <1>9, <1>s DEF last, gs
  <2>7. op'[t].key = k /\ op'[t].keep = c /\ op'[t].value = last \o v
    BY <2>6 DEF Op
  <2>8. ReadFrom(d, bs, n) \o v = ReadFrom(d, K, c * P) \o (last \o v)
    BY <2>4, <2>5 DEF A
  <2> QED  BY <1>8, <2>7, <2>8
<1>10. CASE m = 0
  <2>1. n = c * P /\ n \in Nat  BY <1>1, <1>2, <1>10, PageSizeAssumption DEF P
  <2>2. NumBlocks(n) = c
    <3>1. NumBlocks(0) = 0  BY NoBlocks
    <3>2. NumBlocks(c * PageSize + 0) = c + NumBlocks(0)  BY <1>2, NumBlocksAdd
    <3>3. c * PageSize + 0 = n  BY <2>1 DEF P
    <3> QED  BY <1>2, <3>1, <3>2, <3>3
  <2>3. \A i \in 1..NumBlocks(n) : d[bs[i]] = d[K[i]]  BY <1>6, <2>2
  <2>4. ReadFrom(d, bs, n) = ReadFrom(d, K, n)
    <3>1. ASSUME NEW f, NEW xs, NEW ys, NEW l \in Nat, \A i \in 1..NumBlocks(l) : f[xs[i]] = f[ys[i]]
          PROVE  ReadFrom(f, xs, l) = ReadFrom(f, ys, l)
      BY ONLY <3>1, ReadSame
    <3>2. n \in Nat  BY <2>1
    <3> HIDE DEF d, bs, K, n
    <3> QED  BY ONLY <3>1, <3>2, <2>3
  <2>5. op'[t] = Op("append", k, v, c)  BY <1>4, <1>10, <1>s
  <2>6. op'[t].key = k /\ op'[t].keep = c /\ op'[t].value = v
    BY <2>5 DEF Op
  <2>7. ReadFrom(d, bs, n) \o v = ReadFrom(d, K, c * P) \o v  BY <2>1, <2>4
  <2> QED  BY <1>8, <2>6, <2>7
<1> QED  BY <1>9, <1>10

\* The blocks of an operation's row are its key's until it swaps, so nobody
\* else writes to them.
LEMMA RowUntouched ==
  ASSUME TypeOK, LockInv, OwnerInv, NEW t \in Threads, pc[t] \notin {"idle", "swap"}
  PROVE  /\ Range(OldBlocks(t)) \cap Blocks = Owned(Key(t))
         /\ \A u \in Threads : Range(OldBlocks(t)) \cap Held(u) = {}
<1>1. Key(t) \in Keys  BY DEF LockInv
<1>2. Swapping(Key(t)) = {}
  <2>1. \A u \in Swapping(Key(t)) : u = t  BY <1>1, OneSwapping
  <2> QED  BY <2>1 DEF Swapping
<1>3. Range(OldBlocks(t)) \cap Blocks = Owned(Key(t))  BY <1>1, <1>2, OwnedInRow DEF OldBlocks
<1>4. \A u \in Threads : Held(u) \subseteq Blocks  BY DEF Held
<1> QED  BY <1>1, <1>3, <1>4 DEF OwnerInv, OneOwner

\* Every step keeps what operations have written and what they extend.
LEMMA DataStep ==
  ASSUME Typed, OwnerInv, DataInv, [Next]_vars
  PROVE  DataInv'
<1> USE DEF Typed, poolVars, storeVars
<1> DEFINE Pages(t) == pc[t] \in {"release", "swap"} /\ op[t].kind # "delete" =>
                         /\ NoBlock \notin Range(op[t].got)
                         /\ \A i \in 1..Len(op[t].got) : disk[op[t].got[i]] = Page(op[t].value, i)
           Ext(t) == pc[t] \notin {"idle", "swap"} /\ op[t].kind \in {"copy", "append"} => Appends(t)
<1>d. DataInv = \A t \in Threads : Pages(t) /\ Ext(t)  BY DEF DataInv
<1>e. DataInv' = \A t \in Threads : Pages(t)' /\ Ext(t)'  BY DEF DataInv
<1>o. \A t \in Threads : op[t] \in Ops /\ op[t].got \in Seq(Ids)  BY BlockSets
<1>k. \A t \in Threads : pc[t] # "idle" => Key(t) \in Keys /\ op[t].keep <= Len(OldBlocks(t))
  BY DEF LockInv, OpInv
<1>h. ASSUME NEW t \in Threads, NoBlock \notin Range(op[t].got), NEW i \in 1..Len(op[t].got)
      PROVE  op[t].got[i] \in Blocks /\ op[t].got[i] \in Held(t)
  BY <1>h, <1>o, RealBlocks DEF Held
<1>x. ASSUME NEW t \in Threads, pc[t] \notin {"idle", "swap"}, op[t].kind \in {"copy", "append"},
             Key(t)' = Key(t), op'[t].keep = op[t].keep, op'[t].value = op[t].value,
             row'[Key(t)] = row[Key(t)],
             \A b \in Blocks : (\A u \in Threads : b \notin Held(u)) => disk'[b] = disk[b]
      PROVE  Appends(t)'
  <2>2. \A b \in Range(OldBlocks(t)) \cap Blocks : disk'[b] = disk[b]
    BY <1>x, RowUntouched
  <2>3. Appends(t)  BY <1>x DEF DataInv
  <2> QED  BY <1>x, <1>k, <2>2, <2>3, AppendsSame
<1>1. ASSUME NEW t \in Threads, ThreadStep(t) \/ Call(t) PROVE DataInv'
  <2>1. /\ \A b \in Blocks : b \notin Held(t) => disk'[b] = disk[b]
        /\ pc[t] # "write" => disk' = disk
    BY <1>1, DiskStep
  <2>2. ASSUME NEW u \in Threads \ {t} PROVE Pages(u)' /\ Ext(u)'
    <3>1. /\ pc'[u] = pc[u] /\ op'[u] = op[u] /\ Key(u)' = Key(u)
          /\ pc[u] # "idle" => row'[Key(u)] = row[Key(u)]
      BY <1>1, OthersSame
    <3>2. Pages(u)'
      <4>1. NoBlock \notin Range(op[u].got) =>
              \A i \in 1..Len(op[u].got) : disk'[op[u].got[i]] = disk[op[u].got[i]]
        BY <1>h, <2>1 DEF OwnerInv, OneOwner
      <4>2. Pages(u)  BY <1>d
      <4> QED  BY <3>1, <4>1, <4>2
    <3>3. Ext(u)'
      <4>1. \A b \in Blocks : (\A w \in Threads : b \notin Held(w)) => disk'[b] = disk[b]
        BY <2>1
      <4> QED  BY <1>x, <3>1, <4>1
    <3> QED  BY <3>2, <3>3
  <2>3. SUFFICES Pages(t)' /\ Ext(t)'  BY <1>e, <2>2
  <2>4. CASE Call(t)
    <3>1. pc[t] = "idle" /\ op'[t].got = <<>>
      <4> PICK k \in Keys, o \in Ops, p \in PCs \ {"idle", "swap"} :
             /\ MayStart(t, k) /\ Start(t, o, p) /\ o.got = <<>>
        BY <2>4, CallEffect
      <4> QED  BY DEF MayStart, Idle, Start, TypeOK
    <3>2. Pages(t)'
      <4>1. Len(op'[t].got) = 0  BY <3>1
      <4>2. 1..Len(op'[t].got) = {}  BY <4>1
      <4>3. Range(op'[t].got) = {}  BY <3>1, EmptyRange
      <4> QED  BY <4>2, <4>3
    <3>3. Ext(t)'
      <4>0. PICK k \in Keys :
               \/ \E v \in PutValues : PutNew(t, k, v) \/ PutOver(t, k, v)
               \/ \E v \in MergeValues : Merge(t, k, v)
               \/ Delete(t, k)
        BY <2>4 DEF Call
      <4>1. CASE \E v \in PutValues : PutNew(t, k, v)
        BY <4>1 DEF PutNew, Start, Op, TypeOK
      <4>2. CASE \E v \in PutValues : PutOver(t, k, v)
        BY <4>2 DEF PutOver, Start, Op, TypeOK
      <4>3. CASE \E v \in MergeValues : Merge(t, k, v)  BY <4>3, MergeStarts
      <4>4. CASE Delete(t, k)  BY <4>4 DEF Delete, Start, Op, TypeOK
      <4> QED  BY <4>0, <4>1, <4>2, <4>3, <4>4
    <3> QED  BY <3>2, <3>3
  <2>5. CASE PopRow(t) \/ ExpandFile(t) \/ NoExpansion(t)
    <3>1. pc[t] \in {"row", "expand"} /\ op' = op /\ UNCHANGED <<row, disk>> /\ pc'[t] \notin {"release", "swap"}
      BY <2>5 DEF PopRow, ExpandFile, NoExpansion, Goto, NextPop, TypeOK
    <3>2. Ext(t)'
      <4>1. Key(t)' = Key(t)  BY <3>1 DEF Key
      <4> QED  BY <1>x, <3>1, <4>1
    <3> QED  BY <3>1, <3>2
  <2>6. CASE PopBlock(t)
    <3>1. /\ pc[t] = "pop" /\ pc'[t] \notin {"release", "swap"} /\ UNCHANGED <<row, disk>>
          /\ op'[t].key = op[t].key /\ op'[t].keep = op[t].keep /\ op'[t].kind = op[t].kind
          /\ op'[t].value = op[t].value
      BY <2>6, <1>o DEF PopBlock, NextPop, TypeOK, Ops
    <3>2. Key(t)' = Key(t)  BY <3>1 DEF Key
    <3>3. Ext(t)'  BY <1>x, <3>1, <3>2
    <3> QED  BY <3>1, <3>3
  <2>7. CASE GetBlocksFails(t) \/ WriteFails(t) \/ Swap(t)
    <3>1. pc'[t] = "idle"  BY <2>7 DEF GetBlocksFails, WriteFails, Swap, Done, TypeOK
    <3> QED  BY <3>1
  <2>8. CASE Write(t)
    <3>1. op' = op /\ row' = row /\ pc[t] = "write"  BY <2>8 DEF Write, Goto
    <3>2. Pages(t)'
      <4>1. \A i \in 1..Len(op[t].got) : disk'[op[t].got[i]] = Page(op[t].value, i)
        BY <2>8, PagesWritten DEF OwnerInv
      <4>2. NoBlock \notin Range(op[t].got)  BY <2>8 DEF Write
      <4> QED  BY <3>1, <4>1, <4>2
    <3>3. Ext(t)'
      <4>1. Key(t)' = Key(t)  BY <3>1 DEF Key
      <4>2. \A b \in Blocks : (\A w \in Threads : b \notin Held(w)) => disk'[b] = disk[b]
        BY <2>1
      <4> QED  BY <1>x, <3>1, <4>1, <4>2
    <3> QED  BY <3>2, <3>3
  <2>9. CASE Release(t)
    <3>1. pc[t] = "release" /\ pc'[t] = "swap" /\ op' = op /\ disk' = disk
      BY <2>9 DEF Release, Goto, TypeOK
    <3>2. Pages(t)  BY <1>d
    <3> QED  BY <3>1, <3>2
  <2> QED  BY <1>1, <2>4, <2>5, <2>6, <2>7, <2>8, <2>9 DEF ThreadStep
<1>2. CASE SaveMapping \/ SaveMappingFails \/ SavePool \/ UNCHANGED vars
  <2>1. UNCHANGED <<row, disk, pc, op>>
    BY <1>2 DEF SaveMapping, SaveMappingFails, SavePool, vars
  <2>2. ASSUME NEW t \in Threads PROVE Ext(t)'
    <3>1. Key(t)' = Key(t)  BY <2>1 DEF Key
    <3> QED  BY <1>x, <2>1, <3>1
  <2>3. \A t \in Threads : Pages(t)'  BY <1>d, <2>1
  <2> QED  BY <1>e, <2>2, <2>3
<1>3. CASE CrashAndRecover
  BY <1>3 DEF CrashAndRecover, DataInv
<1> QED  BY <1>1, <1>2, <1>3 DEF Next
-----------------------------------------------------------------------------
(* FileIO implements KVStore *)

\* The row a reader of key k will see: that of the operation that has taken
\* effect, if there is one.
Seen(k) ==
    IF \E t \in Threads : pc[t] = "swap" /\ Key(t) = k
    THEN NewRow(CHOOSE t \in Threads : pc[t] = "swap" /\ Key(t) = k)
    ELSE row[k]

\* What a key's value is read from, with the one operation on it in view.
SeenOnce == \A k \in Keys :
    /\ \A t \in Threads : pc[t] = "swap" /\ Key(t) = k => Seen(k) = NewRow(t)
    /\ (\A t \in Threads : ~(pc[t] = "swap" /\ Key(t) = k)) => Seen(k) = row[k]
Observed ==
    /\ \A k \in Keys : Visible(k) = ValueIn(disk, Seen(k))
    /\ \A k \in Keys : ValueOf(saved.rows[k]) = ValueIn(disk, saved.rows[k])

\* One operation at most has taken effect on a key and is about to swap.
LEMMA SeenRow == LockInv => SeenOnce
<1> SUFFICES ASSUME LockInv, NEW k \in Keys
             PROVE  /\ \A t \in Threads : pc[t] = "swap" /\ Key(t) = k => Seen(k) = NewRow(t)
                    /\ (\A t \in Threads : ~(pc[t] = "swap" /\ Key(t) = k)) => Seen(k) = row[k]
  BY DEF SeenOnce
<1>1. ASSUME NEW t \in Threads, pc[t] = "swap", Key(t) = k PROVE Seen(k) = NewRow(t)
  <2>1. \A u \in Threads : pc[u] = "swap" /\ Key(u) = k => u = t  BY <1>1 DEF LockInv
  <2>2. (CHOOSE u \in Threads : pc[u] = "swap" /\ Key(u) = k) = t  BY <1>1, <2>1
  <2> QED  BY <1>1, <2>2 DEF Seen
<1> QED  BY <1>1 DEF Seen

\* The value of a key is that of the row it will have.
LEMMA VisibleSeen == Observed
  BY DEF Observed, Visible, Seen, ValueOf, ValueIn, ReadBlocks, ReadFrom

\* What an operation keeps belongs to its key to the end.
LEMMA KeptOwned ==
  ASSUME TypeOK, LockInv, OpInv, InjInv, NEW t \in Threads, pc[t] # "idle"
  PROVE  Range(KeptBlocks(t)) \cap Blocks \subseteq Owned(Key(t))
<1>1. Key(t) \in Keys /\ op[t].keep <= Len(OldBlocks(t))  BY DEF LockInv, OpInv
<1>2. /\ Range(KeptBlocks(t)) \subseteq Range(row[Key(t)].blocks)
      /\ Range(KeptBlocks(t)) \cap Dropped(t) \subseteq {NoBlock}
  BY <1>1, KeptNotDropped DEF OldBlocks
<1>3. Swapping(Key(t)) \subseteq {t}  BY <1>1, OneSwapping
<1> QED  BY <1>2, <1>3 DEF Owned

\* Pages on its blocks give a new row the kept units and the new ones.
LEMMA NewValue ==
  ASSUME TypeOK, NEW t \in Threads, Key(t) \in Keys, op[t].keep <= Len(OldBlocks(t)),
         op[t].kind # "delete", Len(op[t].got) = Need(t), NEW d \in Disks,
         NoBlock \notin Range(op[t].got), NoBlock \notin Range(KeptBlocks(t)),
         \A i \in 1..Len(op[t].got) : d[op[t].got[i]] = Page(op[t].value, i)
  PROVE  ValueIn(d, NewRow(t)) = ReadFrom(d, KeptBlocks(t), op[t].keep * PageSize) \o op[t].value
<1> DEFINE c == op[t].keep
           v == op[t].value
           n == Len(v)
           K == KeptBlocks(t)
           g == op[t].got
           bs == K \o g
<1>1. /\ c \in Nat /\ v \in Seq(Units) /\ n \in Nat /\ g \in Seq(Ids) /\ Len(g) = NumBlocks(n)
      /\ NumBlocks(n) \in Nat
  BY NeedType DEF Need
<1>2. /\ K \in Seq(Ids) /\ Len(K) = c
      /\ \A i \in 1..c : K[i] \in Blocks
  BY KeptPrefix, RealBlocks
<1>3. /\ NewRow(t).size = c * PageSize + n /\ NewRow(t).size \in Nat /\ NewRow(t).blocks = bs
      /\ Len(NewRow(t).blocks) = NumBlocks(NewRow(t).size)
  BY NewRowSize
<1>4. \A i \in 1..NumBlocks(n) : d[g[i]] = Page(v, i)  BY <1>1
<1>g. \A i \in 1..NumBlocks(n) : g[i] \in Blocks  BY <1>1, RealBlocks
<1>b. NoBlock \notin Range(bs)
  <2>1. K \in Seq(Ids) /\ g \in Seq(Ids)  BY <1>1, <1>2
  <2>2. NoBlock \notin Range(K) /\ NoBlock \notin Range(g)  OBVIOUS
  <2> HIDE DEF K, g
  <2> QED  BY <2>1, <2>2, ConcatRange
<1> HIDE DEF c, K, g, v, n
<1>5. /\ Len(bs) = c + NumBlocks(n)
      /\ \A i \in 1..(c + NumBlocks(n)) : bs[i] = IF i <= c THEN K[i] ELSE g[i - c]
  <2>1. /\ Len(bs) = Len(K) + Len(g)
        /\ \A i \in 1..(Len(K) + Len(g)) : bs[i] = IF i <= Len(K) THEN K[i] ELSE g[i - Len(K)]
    <3>1. K \in Seq(Ids) /\ g \in Seq(Ids)  BY <1>1, <1>2
    <3> QED  BY ONLY <3>1, ConcatProperties DEF bs
  <2>2. Len(K) = c /\ Len(g) = NumBlocks(n)  BY <1>1, <1>2
  <2> HIDE DEF bs
  <2> QED  BY ONLY <2>1, <2>2
<1> HIDE DEF bs
<1>6. \A i \in 1..c : bs[i] \in Blocks /\ K[i] = bs[i]
  <2> SUFFICES ASSUME NEW i \in 1..c PROVE bs[i] \in Blocks /\ K[i] = bs[i]  OBVIOUS
  <2>1. i \in 1..(c + NumBlocks(n)) /\ i <= c  BY <1>1
  <2> QED  BY <1>2, <1>5, <2>1
<1>7. \A i \in 1..NumBlocks(n) : g[i] \in Blocks /\ bs[c + i] = g[i]
  <2> SUFFICES ASSUME NEW i \in 1..NumBlocks(n) PROVE g[i] \in Blocks /\ bs[c + i] = g[i]  OBVIOUS
  <2>1. c + i \in 1..(c + NumBlocks(n)) /\ ~(c + i <= c) /\ (c + i) - c = i  BY <1>1
  <2>2. g[i] \in Blocks  BY <1>g
  <2> QED  BY <1>5, <2>1, <2>2
<1>8. ReadFrom(d, bs, c * PageSize + n) = ReadFrom(d, K, c * PageSize) \o ReadFrom(d, g, n)
  <2>1. d \in Disks /\ c \in Nat /\ n \in Nat  BY <1>1
  <2>2. /\ ReadFrom(d, bs, c * PageSize + n) = ReadFrom(d, K, c * PageSize) \o ReadFrom(d, g, n)
        /\ ReadFrom(d, K, c * PageSize) \in Seq(Units)
        /\ ReadFrom(d, g, n) \in Seq(Units)
    <3>1. Joined(bs, c, K, g, n)  BY ONLY <1>6, <1>7 DEF Joined
    <3>2. ReadsJoined(d, bs, c, K, g, n)  BY ONLY <2>1, <3>1, ReadConcat
    <3> QED  BY ONLY <3>2 DEF ReadsJoined
  <2> QED  BY <2>2
<1>9. ReadFrom(d, g, n) = v
  <2>1. \A i \in 1..NumBlocks(Len(v)) : d[g[i]] = Page(v, i)  BY <1>4 DEF n
  <2>2. ReadFrom(d, g, Len(v)) = v  BY ONLY <2>1, <1>1, ReadWritten
  <2> QED  BY <2>2 DEF n
<1>10. ValueIn(d, NewRow(t)) = ReadFrom(d, bs, c * PageSize + n)
  <2> DEFINE z == c * PageSize + n
             r == NewRow(t)
  <2>1. r.size = z /\ z \in Nat /\ r.blocks = bs /\ Len(bs) = NumBlocks(z)  BY <1>3
  <2> HIDE DEF z, r
  <2>3. ~(r.size < 0) /\ NoBlock \notin Range(r.blocks)  BY <1>b, <2>1
  <2>4. ValueIn(d, r) = ReadFrom(d, bs, z)  BY <2>1, <2>3 DEF ValueIn
  <2> QED  BY <2>4 DEF z, r
<1> QED  BY <1>8, <1>9, <1>10 DEF c, K, v

\* An id of -1 among the kept blocks leaves the new row without a value.
LEMMA NoNewValue ==
  ASSUME TypeOK, NEW t \in Threads, Key(t) \in Keys, op[t].keep <= Len(OldBlocks(t)),
         op[t].kind # "delete", NoBlock \in Range(KeptBlocks(t)), NEW d
  PROVE  ValueIn(d, NewRow(t)) = None /\ ValueIn(d, row[Key(t)]) = None
<1>1. KeptBlocks(t) \in Seq(Ids) /\ op[t].got \in Seq(Ids) /\ op[t].keep \in Nat
      /\ OldBlocks(t) \in Seq(Ids)
  BY NewRowType, NeedType, BlockSets
<1>2. NoBlock \in Range(NewRow(t).blocks)
  <2>1. NewRow(t).blocks = KeptBlocks(t) \o op[t].got  BY DEF NewRow
  <2>2. Range(KeptBlocks(t) \o op[t].got) = Range(KeptBlocks(t)) \cup Range(op[t].got)
    BY <1>1, ConcatRange
  <2> QED  BY <2>1, <2>2
<1>3. NoBlock \in Range(row[Key(t)].blocks)
  <2>1. Range(KeptBlocks(t)) \subseteq Range(OldBlocks(t))  BY <1>1, SplitRange DEF KeptBlocks
  <2> QED  BY <2>1 DEF OldBlocks
<1> QED  BY <1>2, <1>3 DEF ValueIn

\* Keys that t does not work on keep their value.
LEMMA OthersVisible ==
  ASSUME Inv, LockInv', NEW t \in Threads, ThreadStep(t) \/ Call(t), NEW k \in Keys, k # Key(t)
  PROVE  Visible(k)' = Visible(k)
<1>i. TypeOK /\ LockInv /\ OpInv /\ WellInv /\ OwnerInv  BY DEF Inv, Typed, OwnerInv
<1>1. /\ row'[k] = row[k]
      /\ \A u \in Threads \ {t} :
           /\ pc'[u] = pc[u] /\ op'[u] = op[u] /\ Key(u)' = Key(u)
           /\ pc[u] # "idle" => NewRow(u)' = NewRow(u)
  BY <1>i, OthersSame
<1>2. ~(pc'[t] = "swap" /\ Key(t)' = k)
  <2>1. CASE Call(t)
    <3> PICK l \in Keys, o \in Ops, p \in PCs \ {"idle", "swap"} : Start(t, o, p)
      BY <1>i, <2>1, CallEffect
    <3> QED  BY <1>i DEF Start, TypeOK
  <2>2. CASE ThreadStep(t)
    <3>1. op'[t].key = op[t].key \/ pc'[t] = "idle"
      <4>1. CASE PopBlock(t)  BY <1>i, <4>1 DEF PopBlock, TypeOK, Ops
      <4>2. CASE PopRow(t) \/ ExpandFile(t) \/ NoExpansion(t) \/ Write(t) \/ Release(t)
        BY <4>2 DEF PopRow, ExpandFile, NoExpansion, Write, Release, Goto
      <4>3. CASE GetBlocksFails(t) \/ WriteFails(t) \/ Swap(t)
        BY <1>i, <4>3 DEF GetBlocksFails, WriteFails, Swap, Done, TypeOK
      <4> QED  BY <2>2, <4>1, <4>2, <4>3 DEF ThreadStep
    <3> QED  BY <3>1 DEF Key
  <2> QED  BY <2>1, <2>2
<1>s. SeenOnce /\ SeenOnce' /\ Observed /\ Observed'
  <2>1. LockInv' => SeenOnce'  BY SeenRow, PTL
  <2>2. Observed'  BY VisibleSeen, PTL
  <2> QED  BY <1>i, <2>1, <2>2, SeenRow, VisibleSeen
<1>3. /\ Seen(k)' = Seen(k) /\ Seen(k) \in Rows
      /\ Range(Seen(k).blocks) \cap Held(t) = {}
      /\ Seen(k).size >= 0 => Len(Seen(k).blocks) = NumBlocks(Seen(k).size)
  <2>1. CASE \E u \in Threads : pc[u] = "swap" /\ Key(u) = k
    <3> PICK u \in Threads : pc[u] = "swap" /\ Key(u) = k  BY <2>1
    <3>1. u \in Threads \ {t}  OBVIOUS
    <3>2. pc'[u] = "swap" /\ Key(u)' = k /\ NewRow(u)' = NewRow(u)  BY <1>1, <3>1
    <3>3. Seen(k) = NewRow(u) /\ Seen(k)' = NewRow(u)'  BY <1>s, <3>2 DEF SeenOnce
    <3>4. op[u].keep <= Len(OldBlocks(u)) /\ NewRow(u) \in Rows
      BY <1>i, NewRowType DEF OpInv
    <3>5. Range(KeptBlocks(u)) \cap Blocks \subseteq Owned(k)  BY <1>i, KeptOwned DEF OwnerInv
    <3>h. Held(u) \subseteq Blocks /\ Held(t) \subseteq Blocks  BY DEF Held
    <3>6. Range(KeptBlocks(u)) \cap Held(u) = {}  BY <1>i, <3>5, <3>h DEF OwnerInv, OneOwner
    <3>7. Range(NewRow(u).blocks) \cap Blocks \subseteq Owned(k) \cup Held(u)
      <4>1. Range(NewRow(u).blocks) \subseteq Range(KeptBlocks(u)) \cup Range(op[u].got)
        BY <1>i, <3>4, <3>6, NewRowBlocks DEF OwnerInv
      <4> QED  BY <3>5, <4>1 DEF Held
    <3>8. (Owned(k) \cup Held(u)) \cap Held(t) = {}
      BY <1>i, <3>1 DEF OwnerInv, OneOwner
    <3>9. NewRow(u).size >= 0 => Len(NewRow(u).blocks) = NumBlocks(NewRow(u).size)
      <4>1. CASE op[u].kind = "delete"  BY <4>1 DEF NewRow, NoRow
      <4>2. CASE op[u].kind # "delete"
        <5>1. Len(op[u].got) = Need(u)  BY <4>2 DEF Inv, Typed, ShapeInv, Shape
        <5> QED  BY <1>i, <3>4, <4>2, <5>1, NewRowSize
      <4> QED  BY <4>1, <4>2
    <3>10. Range(NewRow(u).blocks) \cap Held(t) = {}  BY <3>h, <3>7, <3>8
    <3> QED  BY <3>2, <3>3, <3>4, <3>9, <3>10
  <2>2. CASE \A u \in Threads : ~(pc[u] = "swap" /\ Key(u) = k)
    <3>1. \A u \in Threads : ~(pc'[u] = "swap" /\ Key(u)' = k)  BY <1>1, <1>2, <2>2
    <3>2. Seen(k) = row[k] /\ Seen(k)' = row'[k]  BY <1>s, <2>2, <3>1 DEF SeenOnce
    <3>3. Swapping(k) = {}  BY <2>2 DEF Swapping
    <3>4. Owned(k) = Range(row[k].blocks) \cap Blocks  BY <3>3, OwnedInRow
    <3>5. Owned(k) \cap Held(t) = {} /\ row[k] \in Rows  BY <1>i DEF OwnerInv, OneOwner, TypeOK
    <3>6. Range(row[k].blocks) \cap Held(t) = {}  BY <3>4, <3>5 DEF Held
    <3>7. row[k].size >= 0 => Len(row[k].blocks) = NumBlocks(row[k].size)  BY <1>i DEF WellInv
    <3> QED  BY <1>1, <3>2, <3>5, <3>6, <3>7
  <2> QED  BY <2>1, <2>2
<1>4. \A b \in Range(Seen(k).blocks) \cap Blocks : disk'[b] = disk[b]
  <2>1. \A b \in Blocks : b \notin Held(t) => disk'[b] = disk[b]  BY <1>i, DiskStep
  <2> QED  BY <1>3, <2>1
<1>5. ValueIn(disk', Seen(k)) = ValueIn(disk, Seen(k))
  <2> DEFINE r == Seen(k)
             d == disk
             e == disk'
  <2>1. /\ r \in Rows /\ (r.size >= 0 => Len(r.blocks) = NumBlocks(r.size))
        /\ \A b \in Range(r.blocks) \cap Blocks : e[b] = d[b]
    BY <1>3, <1>4
  <2> HIDE DEF r, d, e
  <2>2. ValueIn(e, r) = ValueIn(d, r)  BY ONLY <2>1, ValueSame
  <2> QED  BY <2>2 DEF r, d, e
<1> QED  BY <1>s, <1>3, <1>5 DEF Observed

\* What a recovery would read does not change under operations: they write to
\* no block that the saved mapping names.
LEMMA SavedVisible ==
  ASSUME Inv, ~DisableCheckpoint, NEW t \in Threads, ThreadStep(t) \/ Call(t), NEW k \in Keys
  PROVE  ValueOf(saved.rows[k])' = ValueOf(saved.rows[k])
<1>i. TypeOK /\ LockInv /\ OpInv /\ WellInv /\ SavedInv /\ CheckpointIntact  BY DEF Inv, Typed
<1>s. Observed /\ Observed'
  <2>1. Observed'  BY VisibleSeen, PTL
  <2> QED  BY <2>1, VisibleSeen
<1> DEFINE r == saved.rows[k]
           d == disk
           e == disk'
<1>1. saved' = saved  BY <1>i, OthersSame
<1>2. /\ r \in Rows /\ (r.size >= 0 => Len(r.blocks) = NumBlocks(r.size))
      /\ Range(r.blocks) \cap Blocks \subseteq SavedBlocks /\ SavedBlocks \subseteq Blocks
  BY <1>i DEF TypeOK, SavedBlocks, SavedInv, WellInv
<1>3. \A b \in Range(r.blocks) \cap Blocks : e[b] = d[b]
  <2>1. CASE pc[t] # "write"  BY <1>i, <2>1, DiskStep
  <2>2. CASE pc[t] = "write"
    <3>1. cp = "idle"  BY <1>i, <2>2 DEF SavedInv, Idle, TypeOK
    <3>2. SavedBlocks \cap Held(t) = {}  BY <1>i, <3>1 DEF CheckpointIntact
    <3>3. \A b \in Blocks : b \notin Held(t) => e[b] = d[b]  BY <1>i, DiskStep
    <3> QED  BY <1>2, <3>2, <3>3
  <2> QED  BY <2>1, <2>2
<1>4. ValueOf(saved.rows[k]) = ValueIn(d, r) /\ ValueOf(saved.rows[k])' = ValueIn(e, r)
  BY <1>s, <1>1 DEF Observed
<1> HIDE DEF r, d, e
<1>5. ValueIn(e, r) = ValueIn(d, r)  BY ONLY <1>2, <1>3, ValueSame
<1> QED  BY <1>4, <1>5

\* An operation that has taken effect, seen from its key: a Put leaves its
\* value, a Merge extends the one before, a Delete leaves none.
LEMMA TakesEffect ==
  ASSUME Inv, DataInv, NEW t \in Threads, pc[t] \in {"write", "release"},
         NEW d \in Disks, op[t].kind # "delete", NoBlock \notin Range(op[t].got),
         \A i \in 1..Len(op[t].got) : d[op[t].got[i]] = Page(op[t].value, i),
         \A b \in Blocks : b \notin Held(t) => d[b] = disk[b]
  PROVE  \/ \E v \in PutValues : ValueIn(d, NewRow(t)) = v
         \/ \E v \in MergeValues : /\ ValueIn(disk, row[Key(t)]) # None
                                   /\ ValueIn(d, NewRow(t)) = ValueIn(disk, row[Key(t)]) \o v
         \/ ValueIn(d, NewRow(t)) = None
<1>i. TypeOK /\ LockInv /\ OpInv /\ ShapeInv /\ OwnerInv  BY DEF Inv, Typed, OwnerInv
<1>k. Key(t) \in Keys /\ op[t].keep <= Len(OldBlocks(t))  BY <1>i DEF LockInv, OpInv
<1>s. Len(op[t].got) = Need(t) /\ Shape(t)  BY <1>i DEF ShapeInv, Shape
<1>n. CASE NoBlock \in Range(KeptBlocks(t))  BY <1>i, <1>k, <1>n, NoNewValue
<1>r. SUFFICES ASSUME NoBlock \notin Range(KeptBlocks(t))
               PROVE  \/ \E v \in PutValues : ValueIn(d, NewRow(t)) = v
                      \/ \E v \in MergeValues :
                           /\ ValueIn(disk, row[Key(t)]) # None
                           /\ ValueIn(d, NewRow(t)) = ValueIn(disk, row[Key(t)]) \o v
  BY <1>n
<1> DEFINE K == KeptBlocks(t)
           c == op[t].keep
           w == op[t].value
           r == row[Key(t)]
           D == disk
<1>1. ValueIn(d, NewRow(t)) = ReadFrom(d, K, c * PageSize) \o w  BY <1>i, <1>k, <1>s, <1>r, NewValue
<1>2. w \in Seq(Units) /\ op[t].kind \in Kinds /\ c \in Nat  BY <1>i, NeedType, BlockSets DEF Ops
<1>3. CASE op[t].kind \in {"new", "put"}
  <2>1. w \in PutValues /\ c = 0  BY <1>3, <1>s DEF Shape
  <2>2. ReadFrom(d, K, c * PageSize) = <<>>
    <3>1. c * PageSize = 0  BY <2>1
    <3> QED  BY <3>1, ReadNothing
  <2>3. <<>> \o w = w  BY <1>2, ConcatEmptySeq
  <2> QED  BY <1>1, <2>1, <2>2, <2>3
<1>4. CASE op[t].kind \in {"copy", "append"}
  <2>1. Extends(t)  BY <1>4, <1>r DEF DataInv, Appends
  <2>2. r \in Rows /\ r.blocks = OldBlocks(t)  BY <1>i, <1>k DEF TypeOK, OldBlocks
  <2>3. /\ r.size \in Nat /\ Len(r.blocks) = NumBlocks(r.size) /\ r.blocks \in Seq(Ids)
        /\ NoBlock \notin Range(r.blocks)
    BY <2>1, <2>2 DEF Extends, Rows
  <2>4. PICK v \in MergeValues :
           ReadFrom(D, r.blocks, r.size) \o v = ReadFrom(D, K, c * PageSize) \o w
    BY <2>1 DEF Extends
  <2>5. \A b \in Range(OldBlocks(t)) : d[b] = D[b]
    <3>1. Range(OldBlocks(t)) \subseteq Blocks  BY <2>2, <2>3, RealBlocks
    <3>2. Range(OldBlocks(t)) \cap Held(t) = {}  BY <1>i, RowUntouched
    <3> QED  BY <3>1, <3>2
  <2>6. ReadFrom(d, K, c * PageSize) = ReadFrom(D, K, c * PageSize)
    <3>1. /\ c * PageSize \in Nat /\ NumBlocks(c * PageSize) = c
          /\ \A i \in 1..c : d[K[i]] = D[K[i]]
      BY <1>i, <1>k, <2>5, KeptPrefix
    <3> DEFINE n == c * PageSize
    <3>2. n \in Nat /\ \A i \in 1..NumBlocks(n) : d[K[i]] = D[K[i]]  BY <3>1
    <3> HIDE DEF K, n, D
    <3>3. ReadFrom(d, K, n) = ReadFrom(D, K, n)  BY ONLY <3>2, ReadSame
    <3> QED  BY <3>3 DEF n
  <2>7. ValueIn(D, r) = ReadFrom(D, r.blocks, r.size)
    <3>1. ~(r.size < 0)  BY <2>3
    <3> QED  BY <2>3, <3>1 DEF ValueIn
  <2>8. ReadFrom(D, r.blocks, r.size) \in Seq(Units)
    <3> DEFINE bs == r.blocks
               n == r.size
    <3>1. n \in Nat /\ bs \in Seq(Ids) /\ Len(bs) = NumBlocks(n) /\ NoBlock \notin Range(bs)
      BY <2>3
    <3>2. D \in Disks  BY <1>i DEF TypeOK, Disks
    <3> HIDE DEF bs, n, D
    <3>3. \A i \in 1..NumBlocks(n) : bs[i] \in Blocks  BY <3>1, RealBlocks
    <3>4. ReadFrom(D, bs, n) \in Seq(Units)  BY <3>1, <3>2, <3>3, ReadType
    <3> QED  BY <3>4 DEF bs, n
  <2>9. ValueIn(D, r) # None  BY <2>7, <2>8, NoValueAssumption DEF Units
  <2>10. ValueIn(d, NewRow(t)) = ValueIn(D, r) \o v
    <3> DEFINE x == ReadFrom(D, r.blocks, r.size)
               y == ReadFrom(D, K, c * PageSize)
               z == ReadFrom(d, K, c * PageSize)
    <3>1. x \o v = y \o w /\ z = y /\ ValueIn(D, r) = x /\ ValueIn(d, NewRow(t)) = z \o w
      BY <1>1, <2>4, <2>6, <2>7
    <3> HIDE DEF x, y, z
    <3> QED  BY ONLY <3>1
  <2> QED  BY <2>9, <2>10
<1> QED  BY <1>2, <1>3, <1>4, <1>s DEF Kinds, Shape

\* A failed Put of a key whose row was loaded empty leaves the key without a
\* value: the size it was given has no blocks.
LEMMA FailedPut ==
  ASSUME NEW n \in Nat, n > 0, NEW d
  PROVE  ValueIn(d, TornRow(n)) = None
  BY TornRowType DEF ValueIn

\* A step of an operation changes the value of its key only when it takes
\* effect, and then as the abstract store does.
LEMMA OwnVisible ==
  ASSUME Inv, DataInv, TypeOK', LockInv',
         NEW t \in Threads, ThreadStep(t), NEW q \in Keys, q = Key(t)
  PROVE  \/ Visible(q)' = Visible(q)
         \/ \E v \in PutValues : Visible(q)' = v
         \/ \E v \in MergeValues : Visible(q) # None /\ Visible(q)' = Visible(q) \o v
         \/ Visible(q)' = None
<1>i. TypeOK /\ LockInv /\ OpInv /\ ShapeInv /\ WellInv /\ OwnerInv
  BY DEF Inv, Typed, OwnerInv
<1>s. SeenOnce /\ SeenOnce' /\ Observed /\ Observed'
  <2>1. LockInv' => SeenOnce'  BY SeenRow, PTL
  <2>2. Observed'  BY VisibleSeen, PTL
  <2> QED  BY <1>i, <2>1, <2>2, SeenRow, VisibleSeen
<1>p. pc[t] # "idle"
  BY DEF ThreadStep, PopRow, ExpandFile, NoExpansion, PopBlock, GetBlocksFails, Write, WriteFails,
     Release, Swap
<1>u. \A u \in Threads \ {t} : Key(u) # q /\ Key(u)' # q
  <2>1. \A u \in Threads \ {t} : Key(u) # q  BY <1>i DEF LockInv
  <2>2. \A u \in Threads \ {t} : Key(u)' = Key(u)  BY <1>i, OthersSame
  <2> QED  BY <2>1, <2>2
<1>b. pc[t] # "swap" => Visible(q) = ValueIn(disk, row[q])
  BY <1>s, <1>u DEF SeenOnce, Observed
<1>c. pc'[t] # "swap" => Visible(q)' = ValueIn(disk', row'[q])
  BY <1>s, <1>u DEF SeenOnce, Observed
<1>d. pc'[t] = "swap" /\ op' = op /\ row' = row => Visible(q)' = ValueIn(disk', NewRow(t))
  <2> SUFFICES ASSUME pc'[t] = "swap", op' = op, row' = row PROVE Visible(q)' = ValueIn(disk', NewRow(t))
    OBVIOUS
  <2>1. Key(t)' = q  BY DEF Key
  <2>2. NewRow(t)' = NewRow(t)  BY DEF NewRow, KeptBlocks, OldBlocks, Key
  <2> QED  BY <1>s, <2>1, <2>2 DEF SeenOnce, Observed
<1>e. pc[t] \notin {"idle", "swap"} => ValueIn(disk', row[q]) = ValueIn(disk, row[q])
  <2> SUFFICES ASSUME pc[t] \notin {"idle", "swap"} PROVE ValueIn(disk', row[q]) = ValueIn(disk, row[q])
    OBVIOUS
  <2> DEFINE r == row[q]
             d == disk
             e == disk'
  <2>1. r \in Rows /\ (r.size >= 0 => Len(r.blocks) = NumBlocks(r.size))
    BY <1>i DEF TypeOK, WellInv
  <2>3. Range(r.blocks) \cap Held(t) = {}  BY <1>i, RowUntouched DEF OldBlocks
  <2>4. \A b \in Blocks : b \notin Held(t) => e[b] = d[b]  BY <1>i, DiskStep
  <2>5. \A b \in Range(r.blocks) \cap Blocks : e[b] = d[b]  BY <2>3, <2>4
  <2> HIDE DEF r, d, e
  <2>6. ValueIn(e, r) = ValueIn(d, r)  BY ONLY <2>1, <2>5, ValueSame
  <2> QED  BY <2>6 DEF r, d, e
<1>f. disk \in Disks /\ disk' \in Disks  BY <1>i DEF TypeOK, Disks
<1>1. CASE PopRow(t) \/ ExpandFile(t) \/ NoExpansion(t) \/ PopBlock(t) \/ GetBlocksFails(t)
  <2>1. pc[t] # "swap" /\ pc'[t] # "swap" /\ row' = row
    BY <1>1, <1>i DEF PopRow, ExpandFile, NoExpansion, PopBlock, GetBlocksFails, Goto, Done,
       NextPop, TypeOK, storeVars
  <2> QED  BY <1>b, <1>c, <1>e, <1>p, <2>1
<1>2. CASE Write(t)
  <2>1. /\ pc[t] = "write" /\ op' = op /\ row' = row
        /\ Swaps(t) => pc'[t] = "release"
        /\ ~Swaps(t) => pc'[t] = "swap"
    BY <1>2, <1>i DEF Write, Goto, TypeOK
  <2>2. CASE Swaps(t)  BY <1>b, <1>c, <1>e, <2>1, <2>2
  <2>3. CASE ~Swaps(t)
    <3>1. Visible(q)' = ValueIn(disk', NewRow(t)) /\ Visible(q) = ValueIn(disk, row[q])
      BY <1>b, <1>d, <2>1, <2>3
    <3>2. op[t].kind # "delete"  BY <1>i, <2>1 DEF OpInv
    <3>3. \A i \in 1..Len(op[t].got) : disk'[op[t].got[i]] = Page(op[t].value, i)
      BY <1>2, <1>i, PagesWritten DEF OwnerInv
    <3>4. \A b \in Blocks : b \notin Held(t) => disk'[b] = disk[b]  BY <1>i, DiskStep
    <3> DEFINE e == disk'
    <3>5. /\ e \in Disks /\ \A i \in 1..Len(op[t].got) : e[op[t].got[i]] = Page(op[t].value, i)
          /\ \A b \in Blocks : b \notin Held(t) => e[b] = disk[b]
          /\ NoBlock \notin Range(op[t].got)
      BY <1>2, <1>f, <3>3, <3>4 DEF Write
    <3> HIDE DEF e
    <3>6. \/ \E v \in PutValues : ValueIn(e, NewRow(t)) = v
          \/ \E v \in MergeValues : /\ ValueIn(disk, row[Key(t)]) # None
                                    /\ ValueIn(e, NewRow(t)) = ValueIn(disk, row[Key(t)]) \o v
          \/ ValueIn(e, NewRow(t)) = None
      BY <2>1, <3>2, <3>5, TakesEffect
    <3> QED  BY <3>1, <3>6 DEF e
  <2> QED  BY <2>2, <2>3
<1>3. CASE WriteFails(t)
  <2>1. /\ pc[t] = "write" /\ pc'[t] = "idle" /\ op[t].got # <<>>
        /\ \/ row' = row
           \/ row[q] = EmptyRow /\ row'[q] = TornRow(Len(op[t].value))
    BY <1>3, <1>i DEF WriteFails, Done, TypeOK
  <2>2. CASE row' = row  BY <1>b, <1>c, <1>e, <2>1, <2>2
  <2>3. CASE row' # row
    <3>1. Len(op[t].value) > 0 /\ Len(op[t].value) \in Nat
      <4>1. Len(op[t].value) \in Nat /\ op[t].got \in Seq(Ids)  BY <1>i, NeedType
      <4>2. op[t].kind # "delete"  BY <1>i, <2>1 DEF OpInv
      <4>3. Len(op[t].got) = NumBlocks(Len(op[t].value))
        BY <1>i, <2>1, <4>2 DEF ShapeInv, Shape, Need
      <4>4. Len(op[t].got) # 0  BY <2>1, <4>1, EmptySeq
      <4> QED  BY <4>1, <4>3, <4>4, NoBlocks
    <3>3. \A d : ValueIn(d, TornRow(Len(op[t].value))) = None  BY <3>1, FailedPut
    <3>4. Visible(q)' = None  BY <1>c, <2>1, <2>3, <3>3
    <3>5. Visible(q) = None  BY <1>b, <2>1, <2>3 DEF ValueIn, EmptyRow
    <3> QED  BY <3>4, <3>5
  <2> QED  BY <2>2, <2>3
<1>4. CASE Release(t)
  <2>1. pc[t] = "release" /\ pc'[t] = "swap" /\ op' = op /\ row' = row /\ disk' = disk
    BY <1>4, <1>i DEF Release, Goto, TypeOK, storeVars
  <2>2. Visible(q)' = ValueIn(disk, NewRow(t)) /\ Visible(q) = ValueIn(disk, row[q])
    BY <1>b, <1>d, <2>1
  <2>3. CASE op[t].kind = "delete"
    <3>1. NewRow(t) = NoRow  BY <2>3 DEF NewRow
    <3>2. ValueIn(disk, NoRow) = None  BY DEF ValueIn, NoRow
    <3> QED  BY <2>2, <3>1, <3>2
  <2>4. CASE op[t].kind # "delete"
    <3>1. /\ NoBlock \notin Range(op[t].got)
          /\ \A i \in 1..Len(op[t].got) : disk[op[t].got[i]] = Page(op[t].value, i)
      BY <2>1, <2>4 DEF DataInv
    <3>2. \/ \E v \in PutValues : ValueIn(disk, NewRow(t)) = v
          \/ \E v \in MergeValues : /\ ValueIn(disk, row[Key(t)]) # None
                                    /\ ValueIn(disk, NewRow(t)) = ValueIn(disk, row[Key(t)]) \o v
          \/ ValueIn(disk, NewRow(t)) = None
      BY <1>f, <2>1, <2>4, <3>1, TakesEffect
    <3> QED  BY <2>2, <3>2
  <2> QED  BY <2>3, <2>4
<1>5. CASE Swap(t)
  <2>1. pc[t] = "swap" /\ pc'[t] = "idle" /\ disk' = disk /\ row'[q] = NewRow(t)
    BY <1>5, <1>i DEF Swap, Done, TypeOK
  <2>2. Visible(q) = ValueIn(disk, NewRow(t))  BY <1>s, <2>1 DEF SeenOnce, Observed
  <2> QED  BY <1>c, <2>1, <2>2
<1> QED  BY <1>1, <1>2, <1>3, <1>4, <1>5 DEF ThreadStep

\* The variables of the abstract store.
Store == [k \in Keys |-> Visible(k)]
SavedStore == [k \in Keys |-> ValueOf(saved.rows[k])]

\* Initially both are empty.
LEMMA StoreInit == Init => KV!Init
<1> SUFFICES ASSUME Init PROVE KV!Init  OBVIOUS
<1>i. LockInv  BY InitTyped DEF Typed
<1>s. SeenOnce /\ Observed  BY <1>i, SeenRow, VisibleSeen
<1>1. ASSUME NEW k \in Keys PROVE Visible(k) = None /\ ValueOf(saved.rows[k]) = None
  <2>1. \A t \in Threads : pc[t] = "idle"  BY DEF Init
  <2>2. Seen(k) = NoRow  BY <1>s, <2>1 DEF SeenOnce, Init
  <2>3. saved.rows[k] = NoRow  BY DEF Init
  <2>4. ValueIn(disk, NoRow) = None  BY DEF ValueIn, NoRow
  <2> QED  BY <1>s, <2>2, <2>3, <2>4 DEF Observed
<1> QED  BY <1>1 DEF KV!Init

\* Every step is a step of the abstract store or changes nothing in it.
LEMMA StoreStep ==
  ASSUME Inv, DataInv, ~SaveFailures, ~DisableCheckpoint, [Next]_vars
  PROVE  KV!Next \/ (Store' = Store /\ SavedStore' = SavedStore)
<1>i. TypeOK /\ LockInv /\ OpInv  BY DEF Inv, Typed
<1>j. TypeOK' /\ LockInv'  BY TypedStep DEF Inv, Typed
<1>s. SeenOnce /\ SeenOnce' /\ Observed /\ Observed'
  <2>1. LockInv' => SeenOnce'  BY SeenRow, PTL
  <2>2. Observed'  BY VisibleSeen, PTL
  <2> QED  BY <1>i, <1>j, <2>1, <2>2, SeenRow, VisibleSeen
<1>q. (\A t \in Threads : pc[t] = "idle") => \A k \in Keys : Visible(k) = ValueIn(disk, row[k])
  BY <1>s DEF SeenOnce, Observed
<1>1. ASSUME NEW t \in Threads, ThreadStep(t) \/ Call(t)
      PROVE  KV!Next \/ (Store' = Store /\ SavedStore' = SavedStore)
  <2>1. SavedStore' = SavedStore
    <3>1. \A k \in Keys : ValueOf(saved.rows[k])' = ValueOf(saved.rows[k])  BY <1>1, SavedVisible
    <3> QED  BY <3>1 DEF SavedStore
  <2>2. \A k \in Keys : k # Key(t) => Visible(k)' = Visible(k)  BY <1>1, <1>j, OthersVisible
  <2>3. CASE Key(t) \notin Keys
    <3>1. Store' = Store  BY <2>2, <2>3 DEF Store
    <3> QED  BY <2>1, <3>1
  <2>4. CASE Key(t) \in Keys
    <3>1. PICK q \in Keys : q = Key(t)  BY <2>4
    <3>2. ThreadStep(t)
      <4>1. ASSUME Call(t) PROVE FALSE
        <5>1. pc[t] = "idle"
          BY <4>1 DEF Call, PutNew, PutOver, Merge, Delete, MayStart, Idle
        <5> QED  BY <1>i, <2>4, <5>1 DEF LockInv, Key, NoOp
      <4> QED  BY <1>1, <4>1
    <3>3. \A x : Visible(q)' = x => Store' = [Store EXCEPT ![q] = x]
      BY <2>2, <3>1 DEF Store
    <3>4. Store[q] = Visible(q)  BY DEF Store
    <3>5. \/ Visible(q)' = Visible(q)
          \/ \E v \in PutValues : Visible(q)' = v
          \/ \E v \in MergeValues : Visible(q) # None /\ Visible(q)' = Visible(q) \o v
          \/ Visible(q)' = None
      BY <1>j, <3>1, <3>2, OwnVisible
    <3>6. CASE Visible(q)' = Visible(q)
      <4>1. Store' = Store  BY <2>2, <3>1, <3>6 DEF Store
      <4> QED  BY <2>1, <4>1
    <3>7. CASE \E v \in PutValues : Visible(q)' = v
      <4> PICK v \in PutValues : Visible(q)' = v  BY <3>7
      <4>1. Store' = [Store EXCEPT ![q] = v]  BY <3>3
      <4>2. KV!Put(q, v)  BY <2>1, <4>1 DEF KV!Put, Store, SavedStore
      <4> QED  BY <4>2 DEF KV!Next
    <3>8. CASE \E v \in MergeValues : Visible(q) # None /\ Visible(q)' = Visible(q) \o v
      <4> PICK v \in MergeValues : Visible(q) # None /\ Visible(q)' = Visible(q) \o v  BY <3>8
      <4>1. Store' = [Store EXCEPT ![q] = Store[q] \o v] /\ Store[q] # None  BY <3>3, <3>4
      <4>2. KV!Merge(q, v)  BY <2>1, <4>1 DEF KV!Merge, Store, SavedStore
      <4> QED  BY <4>2 DEF KV!Next
    <3>9. CASE Visible(q)' = None
      <4>1. Store' = [Store EXCEPT ![q] = None]  BY <3>3, <3>9
      <4>2. KV!Delete(q)  BY <2>1, <4>1 DEF KV!Delete, Store, SavedStore
      <4> QED  BY <4>2 DEF KV!Next
    <3> QED  BY <3>5, <3>6, <3>7, <3>8, <3>9
  <2> QED  BY <2>3, <2>4
<1>2. ASSUME SaveMapping PROVE KV!Next
  <2>1. /\ \A t \in Threads : pc[t] = "idle"
        /\ UNCHANGED <<row, disk, pc, op>>
        /\ \A k \in Keys : saved'.rows[k] = SavedRow(k)
    BY <1>2, <1>i DEF SaveMapping, Idle, storeVars, TypeOK
  <2>2. \A k \in Keys : Visible(k) = ValueIn(disk, row[k]) /\ Visible(k)' = Visible(k)
    <3>1. \A t \in Threads : pc'[t] = "idle"  BY <2>1
    <3>2. \A k \in Keys : Visible(k)' = ValueIn(disk', row'[k])
      BY <1>s, <3>1 DEF SeenOnce, Observed
    <3> QED  BY <1>q, <2>1, <3>2
  <2>3. \A k \in Keys : ValueIn(disk, SavedRow(k)) = ValueIn(disk, row[k])
    BY EmptyRange DEF SavedRow, NoRow, EmptyRow, ValueIn
  <2>4. \A k \in Keys : ValueOf(saved.rows[k])' = Visible(k)
    BY <1>s, <2>1, <2>2, <2>3 DEF Observed
  <2>5. SavedStore' = Store /\ Store' = Store  BY <2>2, <2>4 DEF Store, SavedStore
  <2>6. KV!Checkpoint  BY <2>5 DEF KV!Checkpoint, Store, SavedStore
  <2> QED  BY <2>6 DEF KV!Next
<1>3. ASSUME SavePool \/ UNCHANGED vars PROVE Store' = Store /\ SavedStore' = SavedStore
  <2>1. UNCHANGED <<row, disk, pc, op>> /\ saved'.rows = saved.rows
    BY <1>3, <1>i DEF SavePool, vars, storeVars, TypeOK
  <2>2. \A k \in Keys : Seen(k)' = Seen(k)
    BY <2>1 DEF Seen, NewRow, KeptBlocks, OldBlocks, Key
  <2>3. \A k \in Keys : Visible(k)' = Visible(k) /\ ValueOf(saved.rows[k])' = ValueOf(saved.rows[k])
    BY <1>s, <2>1, <2>2 DEF Observed
  <2> QED  BY <2>3 DEF Store, SavedStore
<1>4. ASSUME CrashAndRecover PROVE KV!Next
  <2>1. row' = saved.rows /\ UNCHANGED <<disk, saved>> /\ \A t \in Threads : pc'[t] = "idle"
    BY <1>4 DEF CrashAndRecover, Load
  <2>2. \A k \in Keys : Visible(k)' = ValueIn(disk', row'[k])
    BY <1>s, <2>1 DEF SeenOnce, Observed
  <2>3. \A k \in Keys : Visible(k)' = ValueOf(saved.rows[k])
                        /\ ValueOf(saved.rows[k])' = ValueOf(saved.rows[k])
    BY <1>s, <2>1, <2>2 DEF Observed
  <2>4. Store' = SavedStore /\ SavedStore' = SavedStore  BY <2>3 DEF Store, SavedStore
  <2>5. KV!Recover  BY <2>4 DEF KV!Recover, Store, SavedStore
  <2> QED  BY <2>5 DEF KV!Next
<1> QED  BY <1>1, <1>2, <1>3, <1>4 DEF Next, SaveMappingFails

\* FileIO is a store with atomic operations and a checkpoint: whichever
\* writes, expansions and processes fail, a Put, Merge or Delete takes effect
\* at once or not at all, and recovery brings back the values of the last
\* checkpoint.  A row that a failed write left without its blocks is a key
\* without a value, to readers and to the Merge that finds it.  Stores
\* without checkpoints are excluded.
THEOREM ImplementsKVStore ==
  ASSUME ~SaveFailures, ~DisableCheckpoint
  PROVE  Spec => Implements
<1> DEFINE I == Inv /\ DataInv
<1>1. Init => I  BY InitInv, InitShapes
<1>2. I /\ [Next]_vars => DataInv'  BY DataStep DEF Inv, OwnerInv
<1>3. Spec => []Inv  BY InvHolds
<1>4. Init => KV!Init  BY StoreInit
<1>5. I /\ [Next]_vars
        => [KV!Next]_<<[k \in Keys |-> Visible(k)], [k \in Keys |-> ValueOf(saved.rows[k])]>>
  BY StoreStep DEF Store, SavedStore
<1> QED  BY <1>1, <1>2, <1>3, <1>4, <1>5, PTL DEF Spec, Implements, KV!Spec
=============================================================================
