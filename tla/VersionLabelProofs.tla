------------------------- MODULE VersionLabelProofs -------------------------
(***************************************************************************)
(* What TLAPS proves of VersionLabel for any number of threads, rows and   *)
(* versions.  The type invariant needs nothing; everything about deletions *)
(* is proved for a build that reads the byte once per attempt, because it  *)
(* is false otherwise.                                                     *)
(***************************************************************************)
EXTENDS VersionLabel, FiniteSetTheorems, TLAPS

\* A compare-and-exchange never starts from the mark of a deleted row.
NeverExpectsDeleted ==
    \A t \in Threads : pc[t] \in {"read", "cas"} => oldVersion[t] # DELETED

\* Rows that are not in use are not deleted.
DeletedInUse == \A k \in Keys : m_data[k] = DELETED => k < R

\* The deletions the image will hold if no further one happens.
Pending ==
    {k \in Keys : /\ k < save.image.CR
                  /\ (IF k < save.i THEN save.image.rows[k] ELSE m_data[k]) = DELETED}

SaveSound ==
    /\ save.phase = "counted" => /\ save.image.deleted <= Cardinality(DeletedKeys)
                                 /\ save.i = 0
    /\ save.phase = "rows" => /\ save.image.deleted <= Cardinality(Pending)
                              /\ save.i <= save.image.CR

SizesSound ==
    /\ save.phase = "rows" => save.image.CR >= 1
    /\ file.valid => file.image.CR >= 1

ImagesSound ==
    /\ \A k \in Keys : save.image.rows[k] = DELETED => k < save.i
    /\ \A k \in Keys : file.image.rows[k] = DELETED => k < file.image.CR

\* DELETED and FRESH are bytes of their own, no version.
LEMMA ByteFacts ==
    /\ DELETED \in Bytes /\ FRESH \in Bytes /\ FRESH # DELETED
    /\ \A v \in Bytes : Bump(v) \in Bytes /\ Bump(v) # DELETED
<1>1. VersionCount \in Nat /\ VersionCount >= 2
  BY VersionAssumption
<1>2. ASSUME NEW v \in Bytes PROVE Bump(v) \in 0..(VersionCount - 1)
  BY <1>1, <1>2 DEF Bump, Bytes, FRESH
<1> QED
  BY <1>1, <1>2 DEF DELETED, FRESH, Bytes

LEMMA KeysFinite == IsFiniteSet(Keys) /\ 0 \in Keys
<1>1. IsFiniteSet(0..(Capacity - 1))
  BY FS_Interval, RowsAssumption
<1> QED
  BY <1>1, RowsAssumption DEF Keys

LEMMA BlankImage == Blank \in Images
  BY ByteFacts, RowsAssumption DEF Blank, Images

\* Subsets of the threads and of the keys have a cardinality.
LEMMA CardinalityFacts ==
    /\ \A S : S \subseteq Keys => IsFiniteSet(S) /\ Cardinality(S) \in Nat
    /\ \A S : S \subseteq Threads => IsFiniteSet(S) /\ Cardinality(S) \in Nat
  BY KeysFinite, ThreadsAssumption, FS_Subset, FS_CardinalityType

TypeInv == TypeOK /\ SizesSound

LEMMA TypeInductive == TypeInv /\ [Next]_vars => TypeInv'
<1> SUFFICES ASSUME TypeInv, [Next]_vars PROVE TypeInv'
  OBVIOUS
<1> USE DEF TypeInv, TypeOK, SizesSound
<1> USE ByteFacts, KeysFinite, BlankImage
<1>0. Capacity \in Nat /\ InitialRows \in 1..Capacity
  BY RowsAssumption
<1>1. ASSUME NEW t \in Threads, NEW k \in Keys, Delete(t, k) PROVE TypeInv'
  BY <1>1 DEF Delete, PCs, locals
<1>2. ASSUME NEW t \in Threads, NEW k \in Keys, IncVersion(t, k) PROVE TypeInv'
  BY <1>2 DEF IncVersion, PCs
<1>3. ASSUME NEW t \in Threads, CountDelete(t) PROVE TypeInv'
  BY <1>3 DEF CountDelete, PCs, locals
<1>4. ASSUME NEW t \in Threads, ReturnFalse(t) PROVE TypeInv'
  BY <1>4 DEF ReturnFalse, PCs, locals
<1>5. ASSUME NEW t \in Threads, CheckDeleted(t) PROVE TypeInv'
  BY <1>5 DEF CheckDeleted, PCs
<1>6. ASSUME NEW t \in Threads, GetVersion(t) PROVE TypeInv'
  BY <1>6 DEF GetVersion, PCs
<1>7. ASSUME NEW t \in Threads, CompareExchange(t) PROVE TypeInv'
  BY <1>7 DEF CompareExchange, PCs, locals
<1>8. ASSUME NEW t \in Threads, ExchangeFails(t) PROVE TypeInv'
  BY <1>8 DEF ExchangeFails, PCs, locals
<1>9. ASSUME AddBatch PROVE TypeInv'
  BY <1>9, <1>0 DEF AddBatch, locals
<1>10. ASSUME SaveCount PROVE TypeInv'
  BY <1>10, <1>0 DEF SaveCount, Phases, Images, Blank, locals
<1>11. ASSUME SaveSize PROVE TypeInv'
  <2>1. save' = [phase |-> "rows", i |-> save.i, image |-> [save.image EXCEPT !.CR = R]]
    BY <1>11 DEF SaveSize
  <2>2. [save.image EXCEPT !.CR = R] \in Images /\ save'.image.CR = R
    BY <2>1, <1>0 DEF Images
  <2> QED
    BY <1>11, <2>1, <2>2, <1>0 DEF SaveSize, Phases, locals
<1>12. ASSUME SaveRow PROVE TypeInv'
  <2> DEFINE rows == [save.image.rows EXCEPT ![save.i] = m_data[save.i]]
  <2>1. save' = [phase |-> "rows", i |-> save.i + 1, image |-> [save.image EXCEPT !.rows = rows]]
    BY <1>12 DEF SaveRow
  <2>2. save.i + 1 \in 0..Capacity /\ save.i \in Keys
    BY <1>12, <1>0 DEF SaveRow, Keys, Images
  <2>3. rows \in [Keys -> Bytes]
    BY <2>2 DEF Images
  <2>4. [save.image EXCEPT !.rows = rows] \in Images /\ save'.image.CR = save.image.CR
    BY <2>1, <2>3 DEF Images
  <2> QED
    BY <1>12, <2>1, <2>2, <2>4 DEF SaveRow, Phases, locals
<1>13. ASSUME SaveDone PROVE TypeInv'
  BY <1>13, <1>0 DEF SaveDone, Phases, locals
<1>14. ASSUME Load PROVE TypeInv'
  BY <1>14, <1>0 DEF Load, Phases, Images, PCs, locals
<1>15. ASSUME UNCHANGED vars PROVE TypeInv'
  BY <1>15 DEF vars
<1> QED
  BY <1>1, <1>2, <1>3, <1>4, <1>5, <1>6, <1>7, <1>8, <1>9, <1>10, <1>11, <1>12, <1>13,
     <1>14, <1>15 DEF Next, ThreadStep

LEMMA TypeInitial == Init => TypeInv
  BY ByteFacts, KeysFinite, BlankImage, RowsAssumption
     DEF Init, TypeInv, TypeOK, SizesSound, PCs, Phases

\* The version map keeps its types: every byte stays a byte and a map that was
\* saved and loaded has at least one row.
THEOREM TypeCorrect == Spec => []TypeOK
<1>1. Spec => []TypeInv
  BY TypeInitial, TypeInductive, PTL DEF Spec
<1>2. TypeInv => TypeOK
  BY DEF TypeInv
<1> QED
  BY <1>1, <1>2, PTL

-----------------------------------------------------------------------------
(***************************************************************************)
(* Deletions, in a build that reads the byte once.                         *)
(***************************************************************************)
LEMMA ExpectInductive ==
    ASSUME MergedLoads
    PROVE  TypeInv /\ NeverExpectsDeleted /\ [Next]_vars => NeverExpectsDeleted'
<1> SUFFICES ASSUME TypeInv, NeverExpectsDeleted, [Next]_vars PROVE NeverExpectsDeleted'
  OBVIOUS
<1> USE DEF TypeInv, TypeOK, NeverExpectsDeleted
<1>1. ASSUME NEW t \in Threads, ThreadStep(t) PROVE NeverExpectsDeleted'
  BY <1>1 DEF ThreadStep, Delete, IncVersion, CountDelete, ReturnFalse, CheckDeleted,
              GetVersion, CompareExchange, ExchangeFails, Deleted, locals, PCs
<1>2. ASSUME AddBatch \/ SaveCount \/ SaveSize \/ SaveRow \/ SaveDone PROVE NeverExpectsDeleted'
  BY <1>2 DEF AddBatch, SaveCount, SaveSize, SaveRow, SaveDone, locals
<1>3. ASSUME Load PROVE NeverExpectsDeleted'
  BY <1>3 DEF Load, locals
<1>4. ASSUME UNCHANGED vars PROVE NeverExpectsDeleted'
  BY <1>4 DEF vars
<1> QED
  BY <1>1, <1>2, <1>3, <1>4 DEF Next

\* What a step that is no Load does to the bytes.
LEMMA BytesStep ==
    ASSUME TypeInv, NeverExpectsDeleted, [Next]_vars, ~Load
    PROVE  /\ \A k \in Keys : m_data[k] = DELETED => m_data'[k] = DELETED
           /\ \A k \in Keys : m_data'[k] = DELETED => m_data[k] = DELETED \/ k < R
           /\ R' >= R
<1> USE DEF TypeInv, TypeOK
<1>1. ASSUME NEW t \in Threads, NEW k \in Keys, Delete(t, k)
      PROVE  /\ \A j \in Keys : m_data[j] = DELETED => m_data'[j] = DELETED
             /\ \A j \in Keys : m_data'[j] = DELETED => m_data[j] = DELETED \/ j < R
             /\ R' = R
  BY <1>1, ByteFacts DEF Delete
<1>2. ASSUME NEW t \in Threads, CompareExchange(t)
      PROVE  /\ \A j \in Keys : m_data'[j] = DELETED <=> m_data[j] = DELETED
             /\ R' = R
  <2>1. m_data[key[t]] # DELETED /\ Bump(oldVersion[t]) # DELETED /\ key[t] \in Keys
    BY <1>2, ByteFacts DEF CompareExchange, NeverExpectsDeleted
  <2> QED
    BY <1>2, <2>1 DEF CompareExchange
<1>3. ASSUME NEW t \in Threads,
             \/ \E k \in Keys : IncVersion(t, k)
             \/ CountDelete(t) \/ ReturnFalse(t) \/ CheckDeleted(t) \/ GetVersion(t) \/ ExchangeFails(t)
      PROVE  m_data' = m_data /\ R' = R
  BY <1>3 DEF IncVersion, CountDelete, ReturnFalse, CheckDeleted, GetVersion, ExchangeFails
<1>4. ASSUME AddBatch \/ SaveCount \/ SaveSize \/ SaveRow \/ SaveDone \/ UNCHANGED vars
      PROVE  m_data' = m_data /\ R' >= R
  BY <1>4 DEF AddBatch, SaveCount, SaveSize, SaveRow, SaveDone, vars
<1>5. R \in Nat
  BY RowsAssumption
<1> QED
  BY <1>1, <1>2, <1>3, <1>4, <1>5 DEF Next, ThreadStep

\* A deleted vector stays deleted while the process runs: IncVersion never
\* overwrites the mark Delete leaves.
THEOREM DeletedForever == ASSUME MergedLoads PROVE Spec => DeletedStaysDeleted
<1>1. Init => TypeInv /\ NeverExpectsDeleted
  BY TypeInitial DEF Init, NeverExpectsDeleted
<1>2. TypeInv /\ NeverExpectsDeleted /\ [Next]_vars => (TypeInv /\ NeverExpectsDeleted)'
  BY TypeInductive, ExpectInductive
<1>3. TypeInv /\ NeverExpectsDeleted /\ [Next]_vars
      => [Load \/ \A k \in Keys : m_data[k] = DELETED => m_data'[k] = DELETED]_vars
  BY BytesStep
<1> QED
  BY <1>1, <1>2, <1>3, PTL DEF Spec, DeletedStaysDeleted

-----------------------------------------------------------------------------
(***************************************************************************)
(* The delete count, across concurrent saves and restarts.                 *)
(***************************************************************************)
DeleteInv ==
    /\ TypeInv
    /\ NeverExpectsDeleted
    /\ DeletedInUse
    /\ SaveSound
    /\ ImagesSound
    /\ CountIsCovered
    /\ SavedCountIsCovered

LEMMA InUseInductive ==
    ASSUME MergedLoads, DeleteInv, [Next]_vars PROVE DeletedInUse'
<1> USE DEF DeleteInv
<1>1. CASE Load
  BY <1>1 DEF Load, DeletedInUse, ImagesSound
<1>2. CASE ~Load
  <2>1. R \in Nat /\ R' \in Nat
    BY TypeInductive, RowsAssumption DEF TypeInv, TypeOK
  <2>2. R' >= R /\ \A k \in Keys : m_data'[k] = DELETED => m_data[k] = DELETED \/ k < R
    BY <1>2, BytesStep
  <2> QED
    BY <2>1, <2>2 DEF DeletedInUse, Keys
<1> QED
  BY <1>1, <1>2

\* Every step that is no Load can only add to the deleted rows.
LEMMA DeletedGrows ==
    ASSUME MergedLoads, DeleteInv, [Next]_vars, ~Load
    PROVE  /\ DeletedKeys \subseteq DeletedKeys'
           /\ Cardinality(DeletedKeys) <= Cardinality(DeletedKeys')
<1>1. DeletedKeys \subseteq DeletedKeys'
  BY BytesStep DEF DeletedKeys, DeleteInv
<1>2. IsFiniteSet(DeletedKeys')
  BY CardinalityFacts DEF DeletedKeys
<1> QED
  BY <1>1, <1>2, FS_Subset

LEMMA CountInductive ==
    ASSUME MergedLoads, DeleteInv, [Next]_vars PROVE CountIsCovered'
<1> USE DEF DeleteInv, TypeInv, TypeOK
<1>0. /\ IsFiniteSet(DeletedKeys) /\ Cardinality(DeletedKeys) \in Nat
      /\ IsFiniteSet(DeletedKeys') /\ Cardinality(DeletedKeys') \in Nat
      /\ IsFiniteSet(Counting) /\ Cardinality(Counting) \in Nat
      /\ IsFiniteSet(Counting') /\ Cardinality(Counting') \in Nat
  BY CardinalityFacts DEF DeletedKeys, Counting
<1>1. ASSUME NEW t \in Threads, NEW k \in Keys, Delete(t, k), Deleted(k) PROVE CountIsCovered'
  <2>1. m_data' = m_data /\ pc' = pc /\ m_deleted' = m_deleted
    BY <1>1 DEF Delete, Deleted
  <2> QED
    BY <2>1 DEF CountIsCovered, Counting, DeletedKeys
<1>2. ASSUME NEW t \in Threads, NEW k \in Keys, Delete(t, k), ~Deleted(k) PROVE CountIsCovered'
  <2>1. DeletedKeys' = DeletedKeys \cup {k} /\ k \notin DeletedKeys
    BY <1>2 DEF Delete, Deleted, DeletedKeys
  <2>2. Counting' = Counting \cup {t} /\ t \notin Counting
    BY <1>2 DEF Delete, Deleted, Counting
  <2>3. /\ Cardinality(DeletedKeys') = Cardinality(DeletedKeys) + 1
        /\ Cardinality(Counting') = Cardinality(Counting) + 1
    BY <2>1, <2>2, <1>0, FS_AddElement
  <2> QED
    BY <1>2, <1>0, <2>3 DEF Delete, CountIsCovered
<1>3. ASSUME NEW t \in Threads, CountDelete(t) PROVE CountIsCovered'
  <2>1. Counting' = Counting \ {t} /\ t \in Counting
    BY <1>3 DEF CountDelete, Counting
  <2>2. Cardinality(Counting') = Cardinality(Counting) - 1
    BY <2>1, <1>0, FS_RemoveElement
  <2>3. DeletedKeys' = DeletedKeys
    BY <1>3 DEF CountDelete, DeletedKeys
  <2> QED
    BY <1>3, <1>0, <2>2, <2>3 DEF CountDelete, CountIsCovered
<1>4. ASSUME ~Load, Counting' = Counting, m_deleted' = m_deleted PROVE CountIsCovered'
  <2>1. Cardinality(DeletedKeys) <= Cardinality(DeletedKeys')
    BY <1>4, DeletedGrows
  <2> QED
    BY <1>4, <1>0, <2>1 DEF CountIsCovered
<1>5. ASSUME NEW t \in Threads,
             \/ \E k \in Keys : IncVersion(t, k)
             \/ ReturnFalse(t) \/ CheckDeleted(t) \/ GetVersion(t)
             \/ CompareExchange(t) \/ ExchangeFails(t)
      PROVE  Counting' = Counting /\ m_deleted' = m_deleted
  BY <1>5 DEF IncVersion, ReturnFalse, CheckDeleted, GetVersion, CompareExchange,
              ExchangeFails, Counting, PCs
<1>6. ASSUME AddBatch \/ SaveCount \/ SaveSize \/ SaveRow \/ SaveDone \/ UNCHANGED vars
      PROVE  Counting' = Counting /\ m_deleted' = m_deleted
  BY <1>6 DEF AddBatch, SaveCount, SaveSize, SaveRow, SaveDone, vars, Counting
<1>7. CASE Load
  <2>1. Counting' = {} /\ m_deleted' = file.image.deleted
    BY <1>7 DEF Load, Counting
  <2>2. DeletedRows(file.image) \subseteq DeletedKeys'
    BY <1>7 DEF Load, DeletedRows, DeletedKeys
  <2>3. Cardinality(DeletedRows(file.image)) <= Cardinality(DeletedKeys')
    BY <2>2, <1>0, FS_Subset
  <2>4. Cardinality(DeletedRows(file.image)) \in Nat /\ file.image.deleted \in Nat
    BY CardinalityFacts DEF DeletedRows, Images
  <2>5. file.image.deleted <= Cardinality(DeletedRows(file.image))
    BY <1>7 DEF Load, SavedCountIsCovered
  <2>6. Cardinality(Counting') = 0
    BY <2>1, FS_EmptySet
  <2> QED
    BY <2>1, <2>3, <2>4, <2>5, <2>6, <1>0 DEF CountIsCovered
<1> QED
  BY <1>1, <1>2, <1>3, <1>4, <1>5, <1>6, <1>7 DEF Next, ThreadStep

\* What one row of Save and the row count do to the image, field by field.
LEMMA SaveFields ==
    ASSUME TypeInv
    PROVE  /\ SaveSize => /\ save'.phase = "rows" /\ save'.i = save.i /\ save'.image.CR = R
                          /\ save'.image.deleted = save.image.deleted
                          /\ save'.image.rows = save.image.rows
           /\ SaveRow => /\ save'.phase = "rows" /\ save'.i = save.i + 1
                         /\ save'.image.CR = save.image.CR
                         /\ save'.image.deleted = save.image.deleted
                         /\ save'.image.rows = [save.image.rows EXCEPT ![save.i] = m_data[save.i]]
                         /\ save.i \in Keys /\ save.image.CR \in Nat
<1> USE DEF TypeInv, TypeOK
<1>0. Capacity \in Nat
  BY RowsAssumption
<1>1. ASSUME SaveSize
      PROVE  save' = [phase |-> "rows", i |-> save.i, image |-> [save.image EXCEPT !.CR = R]]
  BY <1>1 DEF SaveSize
<1>2. ASSUME SaveRow
      PROVE  save' = [phase |-> "rows", i |-> save.i + 1,
                      image |-> [save.image EXCEPT !.rows =
                                  [save.image.rows EXCEPT ![save.i] = m_data[save.i]]]]
  BY <1>2 DEF SaveRow
<1>3. save.image = [deleted |-> save.image.deleted, CR |-> save.image.CR,
                    rows |-> save.image.rows]
  BY DEF Images
<1>4. ASSUME SaveRow PROVE save.i \in Keys /\ save.image.CR \in Nat
  BY <1>4, <1>0 DEF SaveRow, Keys, Images
<1> QED
  BY <1>1, <1>2, <1>3, <1>4

\* The images Save builds hold no deletion beyond their rows.
LEMMA ImagesInductive ==
    ASSUME MergedLoads, DeleteInv, [Next]_vars PROVE ImagesSound'
<1> USE DEF DeleteInv, TypeInv, TypeOK, ImagesSound
<1>1. CASE SaveCount
  BY <1>1, ByteFacts DEF SaveCount, Blank
<1>2. CASE SaveSize
  BY <1>2, SaveFields DEF SaveSize
<1>3. CASE SaveRow
  <2>1. save.i \in Nat /\ save'.i = save.i + 1 /\ file' = file
    BY <1>3, RowsAssumption, SaveFields DEF SaveRow
  <2>2. save.i \in Keys /\ save.image.rows \in [Keys -> Bytes]
    BY <1>3, SaveFields DEF Images
  <2>3. \A k \in Keys : k # save.i => save'.image.rows[k] = save.image.rows[k]
    BY <1>3, <2>2, SaveFields
  <2>4. ASSUME NEW k \in Keys, save'.image.rows[k] = DELETED PROVE k < save'.i
    <3>1. CASE k = save.i
      BY <3>1, <2>1
    <3>2. CASE k # save.i
      <4>1. k < save.i
        BY <3>2, <2>3, <2>4
      <4> QED
        BY <4>1, <2>1 DEF Keys
    <3> QED
      BY <3>1, <3>2
  <2> QED
    BY <2>1, <2>4
<1>4. CASE SaveDone
  BY <1>4, ByteFacts DEF SaveDone, Blank
<1>5. CASE Load
  BY <1>5, ByteFacts DEF Load, Blank
<1>6. ASSUME save' = save, file' = file PROVE ImagesSound'
  BY <1>6
<1>7. ASSUME NEW t \in Threads, ThreadStep(t) PROVE save' = save /\ file' = file
  BY <1>7 DEF ThreadStep, Delete, IncVersion, CountDelete, ReturnFalse, CheckDeleted,
              GetVersion, CompareExchange, ExchangeFails
<1>8. CASE AddBatch \/ UNCHANGED vars
  BY <1>8, <1>6 DEF AddBatch, vars
<1> QED
  BY <1>1, <1>2, <1>3, <1>4, <1>5, <1>6, <1>7, <1>8 DEF Next

\* While Save runs, the count it has written stays covered by the deletions it
\* has written and those it still will.
LEMMA SaveInductive ==
    ASSUME MergedLoads, DeleteInv, [Next]_vars PROVE SaveSound' /\ SavedCountIsCovered'
<1> USE DEF DeleteInv
<1>0. /\ IsFiniteSet(Pending) /\ Cardinality(Pending) \in Nat
      /\ IsFiniteSet(Pending') /\ Cardinality(Pending') \in Nat
      /\ IsFiniteSet(DeletedKeys) /\ Cardinality(DeletedKeys) \in Nat
      /\ IsFiniteSet(DeletedKeys') /\ Cardinality(DeletedKeys') \in Nat
      /\ Cardinality(Counting) \in Nat
  BY CardinalityFacts DEF Pending, DeletedKeys, Counting
<1>t. TypeOK /\ TypeOK' /\ m_deleted \in Nat /\ save.image.deleted \in Nat
  BY TypeInductive DEF TypeInv, TypeOK, Images
<1>1. CASE SaveCount
  <2>1. save'.phase = "counted" /\ save'.image.deleted = m_deleted /\ save'.i = 0 /\ ~file'.valid
    BY <1>1 DEF SaveCount, Blank
  <2>2. DeletedKeys' = DeletedKeys
    BY <1>1 DEF SaveCount, DeletedKeys
  <2> QED
    BY <2>1, <2>2, <1>0, <1>t DEF CountIsCovered, SaveSound, SavedCountIsCovered
<1>2. CASE SaveSize
  <2>1. /\ save'.phase = "rows" /\ save'.i = save.i /\ save'.image.CR = R
        /\ save'.image.deleted = save.image.deleted /\ save'.image.rows = save.image.rows
        /\ save.phase = "counted" /\ file' = file /\ m_data' = m_data
    BY <1>2, <1>t DEF SaveSize, TypeOK, Images
  <2>2. save.i = 0
    BY <1>2 DEF SaveSize, SaveSound
  <2>3. Pending' = DeletedKeys
    BY <2>1, <2>2 DEF Pending, DeletedKeys, DeletedInUse, Keys
  <2> QED
    BY <2>1, <2>2, <2>3, <1>0, <1>t DEF SaveSound, SavedCountIsCovered, TypeOK
<1>3. CASE SaveRow
  <2>1. /\ save'.phase = "rows" /\ save'.i = save.i + 1 /\ save'.image.CR = save.image.CR
        /\ save'.image.deleted = save.image.deleted /\ save.i \in Keys /\ save.image.CR \in Nat
        /\ save'.image.rows = [save.image.rows EXCEPT ![save.i] = m_data[save.i]]
        /\ save.phase = "rows" /\ save.i < save.image.CR /\ file' = file /\ m_data' = m_data
    BY <1>3, SaveFields DEF SaveRow
  <2>2. save.image.rows \in [Keys -> Bytes]
    BY <1>t DEF TypeOK, Images
  <2>3. Pending' = Pending
    <3>1. \A k \in Keys : (k < save.image.CR /\ (IF k < save.i + 1 THEN save'.image.rows[k] ELSE m_data[k]) = DELETED)
                <=> (k < save.image.CR /\ (IF k < save.i THEN save.image.rows[k] ELSE m_data[k]) = DELETED)
      <4> SUFFICES ASSUME NEW k \in Keys
                   PROVE  (IF k < save.i + 1 THEN save'.image.rows[k] ELSE m_data[k])
                          = (IF k < save.i THEN save.image.rows[k] ELSE m_data[k])
        OBVIOUS
      <4>1. save.i \in Nat /\ k \in Nat
        BY <2>1 DEF Keys
      <4>2. save'.image.rows[k] = IF k = save.i THEN m_data[k] ELSE save.image.rows[k]
        BY <2>1, <2>2
      <4> QED
        BY <4>1, <4>2
    <3> QED
      BY <2>1, <3>1 DEF Pending
  <2> QED
    BY <2>1, <2>3, <1>0 DEF SaveSound, SavedCountIsCovered, Keys
<1>4. CASE SaveDone
  <2>1. /\ save'.phase = "none" /\ file'.image = save.image
        /\ save.phase = "rows" /\ save.i = save.image.CR
    BY <1>4 DEF SaveDone
  <2>2. Pending = DeletedRows(save.image)
    BY <2>1 DEF Pending, DeletedRows
  <2> QED
    BY <2>1, <2>2 DEF SaveSound, SavedCountIsCovered
<1>5. CASE Load
  BY <1>5 DEF Load, SaveSound, SavedCountIsCovered
<1>6. ASSUME save' = save, file' = file, ~Load PROVE SaveSound' /\ SavedCountIsCovered'
  <2>1. Cardinality(DeletedKeys) <= Cardinality(DeletedKeys')
    BY <1>6, DeletedGrows
  <2>2. Pending \subseteq Pending'
    BY <1>6, BytesStep DEF Pending
  <2>3. Cardinality(Pending) <= Cardinality(Pending')
    BY <2>2, <1>0, FS_Subset
  <2> QED
    BY <1>6, <2>1, <2>3, <1>0, <1>t DEF SaveSound, SavedCountIsCovered
<1>7. ASSUME NEW t \in Threads, ThreadStep(t) PROVE save' = save /\ file' = file
  BY <1>7 DEF ThreadStep, Delete, IncVersion, CountDelete, ReturnFalse, CheckDeleted,
              GetVersion, CompareExchange, ExchangeFails
<1>8. CASE AddBatch \/ UNCHANGED vars
  BY <1>8, <1>5, <1>6 DEF AddBatch, vars
<1> QED
  BY <1>1, <1>2, <1>3, <1>4, <1>5, <1>6, <1>7, <1>8 DEF Next

LEMMA DeleteInductive ==
    ASSUME MergedLoads PROVE DeleteInv /\ [Next]_vars => DeleteInv'
<1> SUFFICES ASSUME DeleteInv, [Next]_vars PROVE DeleteInv'
  OBVIOUS
<1>1. TypeInv' /\ NeverExpectsDeleted'
  BY TypeInductive, ExpectInductive DEF DeleteInv
<1> QED
  BY <1>1, InUseInductive, SaveInductive, ImagesInductive, CountInductive DEF DeleteInv

LEMMA DeleteInitial == Init => DeleteInv
<1> SUFFICES ASSUME Init PROVE DeleteInv
  OBVIOUS
<1>1. TypeInv /\ NeverExpectsDeleted /\ DeletedInUse
  BY TypeInitial, ByteFacts DEF Init, NeverExpectsDeleted, DeletedInUse
<1>2. SaveSound /\ ImagesSound /\ SavedCountIsCovered
  BY ByteFacts DEF Init, SaveSound, ImagesSound, SavedCountIsCovered, Blank
<1>3. DeletedKeys = {} /\ Counting = {}
  BY ByteFacts DEF Init, DeletedKeys, Counting
<1>4. CountIsCovered
  BY <1>3, FS_EmptySet DEF Init, CountIsCovered
<1> QED
  BY <1>1, <1>2, <1>4 DEF DeleteInv

\* The delete count never exceeds the deleted rows, in a running process and
\* after a restart from a checkpoint that raced with deletions.
THEOREM CountCovered == ASSUME MergedLoads PROVE Spec => []CountIsCovered
<1>1. Spec => []DeleteInv
  BY DeleteInitial, DeleteInductive, PTL DEF Spec
<1>2. DeleteInv => CountIsCovered
  BY DEF DeleteInv
<1> QED
  BY <1>1, <1>2, PTL

\* A version map saved while vectors are being deleted claims no more deletions
\* than its rows hold.
THEOREM SavedCountCovered == ASSUME MergedLoads PROVE Spec => []SavedCountIsCovered
<1>1. Spec => []DeleteInv
  BY DeleteInitial, DeleteInductive, PTL DEF Spec
<1>2. DeleteInv => SavedCountIsCovered
  BY DEF DeleteInv
<1> QED
  BY <1>1, <1>2, PTL

-----------------------------------------------------------------------------
LEMMA IncrementInductive ==
    ASSUME MergedLoads
    PROVE  TypeInv /\ NeverExpectsDeleted /\ NoIncrementLost /\ [Next]_vars => NoIncrementLost'
<1> SUFFICES ASSUME TypeInv, NeverExpectsDeleted, NoIncrementLost, [Next]_vars
             PROVE  NoIncrementLost'
  OBVIOUS
<1> USE DEF TypeInv, TypeOK, NoIncrementLost
<1>1. ASSUME NEW t \in Threads, NEW k \in Keys, Delete(t, k) PROVE NoIncrementLost'
  BY <1>1 DEF Delete
<1>2. ASSUME NEW t \in Threads, CompareExchange(t) PROVE NoIncrementLost'
  <2>1. key[t] \in Keys /\ m_data[key[t]] = oldVersion[t] /\ m_data[key[t]] = issued[key[t]]
    BY <1>2 DEF CompareExchange, NeverExpectsDeleted
  <2> QED
    BY <1>2, <2>1 DEF CompareExchange
<1>3. ASSUME m_data' = m_data, issued' = issued PROVE NoIncrementLost'
  BY <1>3
<1>4. ASSUME NEW t \in Threads,
             \/ \E k \in Keys : IncVersion(t, k)
             \/ CountDelete(t) \/ ReturnFalse(t) \/ CheckDeleted(t) \/ GetVersion(t) \/ ExchangeFails(t)
      PROVE  m_data' = m_data /\ issued' = issued
  BY <1>4 DEF IncVersion, CountDelete, ReturnFalse, CheckDeleted, GetVersion, ExchangeFails
<1>5. ASSUME AddBatch \/ SaveCount \/ SaveSize \/ SaveRow \/ SaveDone \/ UNCHANGED vars
      PROVE  m_data' = m_data /\ issued' = issued
  BY <1>5 DEF AddBatch, SaveCount, SaveSize, SaveRow, SaveDone, vars
<1>6. CASE Load
  BY <1>6 DEF Load
<1> QED
  BY <1>1, <1>2, <1>3, <1>4, <1>5, <1>6 DEF Next, ThreadStep

\* Concurrent IncVersion calls on one vector lose no increment, so no two
\* reassigns take the same version for theirs.
THEOREM IncrementsKept == ASSUME MergedLoads PROVE Spec => []NoIncrementLost
<1> DEFINE Inv == TypeInv /\ NeverExpectsDeleted /\ NoIncrementLost
<1>1. Init => Inv
  BY TypeInitial DEF Init, NeverExpectsDeleted, NoIncrementLost
<1>2. Inv /\ [Next]_vars => Inv'
  BY TypeInductive, ExpectInductive, IncrementInductive
<1>3. Inv => NoIncrementLost
  OBVIOUS
<1> QED
  BY <1>1, <1>2, <1>3, PTL DEF Spec
=============================================================================
