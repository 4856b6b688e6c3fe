---------------------------- MODULE VersionLabel ----------------------------
(***************************************************************************)
(* COMMON::VersionLabel (AnnService/inc/Core/Common/VersionLabel.h): one   *)
(* byte per vector, its version or the mark of a deleted vector, shared    *)
(* without a lock by the threads that delete vectors, by the reassign and  *)
(* split jobs that take a new version, by AddIndex that adds rows and by   *)
(* Checkpoint that saves the map while DeleteIndex, which does not take    *)
(* m_checkPointLock, goes on.                                              *)
(*                                                                         *)
(* IncVersion reads the byte twice without an atomic: in Deleted() and in  *)
(* GetVersion().  An optimised build may load it once, a Debug build loads *)
(* it twice; MergedLoads says which.  Keys out of range change nothing in  *)
(* any operation and are left out.                                         *)
(***************************************************************************)
EXTENDS Integers, FiniteSets

CONSTANTS Threads,       \* threads that take new versions
          Deleters,      \* those of them that also delete
          Capacity,      \* the row capacity of m_data
          InitialRows,   \* rows of the built index
          VersionCount,  \* versions before the wrap: 128 in the code (& 0x7f)
          MergedLoads    \* does the build read the byte once per attempt?

ASSUME ThreadsAssumption == IsFiniteSet(Threads) /\ Deleters \subseteq Threads
ASSUME RowsAssumption == /\ Capacity \in Nat
                         /\ InitialRows \in 1..Capacity
ASSUME VersionAssumption == VersionCount \in Nat \ {0, 1}
ASSUME LoadsAssumption == MergedLoads \in BOOLEAN

Keys == 0..(Capacity - 1)

\* With 128 versions these are 0xfe and 0xff, the byte memset(-1) leaves.
DELETED == 2 * VersionCount - 2
FRESH == 2 * VersionCount - 1
Bytes == 0..FRESH

\* (oldVersion + 1) & 0x7f
Bump(v) == (v + 1) % VersionCount

VARIABLES
    m_data,     \* the bytes
    R,          \* m_data.R(): rows in use
    m_deleted,  \* the atomic count of deletions
    pc, key, oldVersion,    \* each thread's place and locals
    issued,     \* per row, what the IncVersion calls answered true so far make of it
    save,       \* the image Save is writing: its count, its rows, its place
    file        \* the completed image, if there is one

vars == <<m_data, R, m_deleted, pc, key, oldVersion, issued, save, file>>
locals == <<key, oldVersion>>

PCs == {"idle", "count", "check", "read", "cas"}
Phases == {"none", "counted", "rows"}
Images == [deleted : Nat, CR : 0..Capacity, rows : [Keys -> Bytes]]
Blank == [deleted |-> 0, CR |-> 0, rows |-> [k \in Keys |-> FRESH]]

TypeOK ==
    /\ m_data \in [Keys -> Bytes]
    /\ R \in 1..Capacity
    /\ m_deleted \in Nat
    /\ pc \in [Threads -> PCs]
    /\ key \in [Threads -> Keys]
    /\ oldVersion \in [Threads -> Bytes]
    /\ issued \in [Keys -> Bytes]
    /\ save \in [phase : Phases, i : 0..Capacity, image : Images]
    /\ file \in [valid : BOOLEAN, image : Images]

Init ==
    /\ m_data = [k \in Keys |-> FRESH]
    /\ R = InitialRows
    /\ m_deleted = 0
    /\ pc = [t \in Threads |-> "idle"]
    /\ key = [t \in Threads |-> 0]
    /\ oldVersion = [t \in Threads |-> FRESH]
    /\ issued = [k \in Keys |-> FRESH]
    /\ save = [phase |-> "none", i |-> 0, image |-> Blank]
    /\ file = [valid |-> FALSE, image |-> Blank]

Deleted(k) == m_data[k] = DELETED

-----------------------------------------------------------------------------
(* Plausible bugs, each beside the step it would be made in.               *)

\* a plain store in place of the compare-and-exchange
CompareExchange_Store(t) ==
    /\ pc[t] = "cas"
    /\ m_data' = [m_data EXCEPT ![key[t]] = Bump(oldVersion[t])]
    /\ issued' = [issued EXCEPT ![key[t]] = Bump(@)]
    /\ pc' = [pc EXCEPT ![t] = "idle"]
    /\ UNCHANGED <<R, m_deleted, locals, save, file>>

-----------------------------------------------------------------------------

(***************************************************************************)
(* Delete: an atomic exchange, then the count in a step of its own.        *)
(***************************************************************************)
Delete(t, k) ==
    /\ pc[t] = "idle"
    /\ k < R
    /\ m_data' = [m_data EXCEPT ![k] = DELETED]
    /\ pc' = [pc EXCEPT ![t] = IF Deleted(k) THEN "idle" ELSE "count"]
    /\ UNCHANGED <<R, m_deleted, locals, issued, save, file>>

CountDelete(t) ==
    /\ pc[t] = "count"
    /\ m_deleted' = m_deleted + 1
    /\ pc' = [pc EXCEPT ![t] = "idle"]
    /\ UNCHANGED <<m_data, R, locals, issued, save, file>>

(***************************************************************************)
(* IncVersion: check, read, compare-and-exchange, and again until it wins. *)
(***************************************************************************)
IncVersion(t, k) ==
    /\ pc[t] = "idle"
    /\ k < R
    /\ pc' = [pc EXCEPT ![t] = "check"]
    /\ key' = [key EXCEPT ![t] = k]
    /\ UNCHANGED <<m_data, R, m_deleted, oldVersion, issued, save, file>>

ReturnFalse(t) ==
    /\ pc[t] = "check"
    /\ Deleted(key[t])
    /\ pc' = [pc EXCEPT ![t] = "idle"]
    /\ UNCHANGED <<m_data, R, m_deleted, locals, issued, save, file>>

CheckDeleted(t) ==
    /\ pc[t] = "check"
    /\ ~Deleted(key[t])
    /\ oldVersion' = [oldVersion EXCEPT ![t] = m_data[key[t]]]
    /\ pc' = [pc EXCEPT ![t] = "read"]
    /\ UNCHANGED <<m_data, R, m_deleted, key, issued, save, file>>

\* The byte that Deleted() loaded, or the byte as it is now.
GetVersion(t) ==
    /\ pc[t] = "read"
    /\ oldVersion' = IF MergedLoads THEN oldVersion
                                    ELSE [oldVersion EXCEPT ![t] = m_data[key[t]]]
    /\ pc' = [pc EXCEPT ![t] = "cas"]
    /\ UNCHANGED <<m_data, R, m_deleted, key, issued, save, file>>

CompareExchange(t) ==
    /\ pc[t] = "cas"
    /\ m_data[key[t]] = oldVersion[t]
    /\ m_data' = [m_data EXCEPT ![key[t]] = Bump(oldVersion[t])]
    /\ issued' = [issued EXCEPT ![key[t]] = Bump(@)]
    /\ pc' = [pc EXCEPT ![t] = "idle"]
    /\ UNCHANGED <<R, m_deleted, locals, save, file>>

ExchangeFails(t) ==
    /\ pc[t] = "cas"
    /\ m_data[key[t]] # oldVersion[t]
    /\ pc' = [pc EXCEPT ![t] = "check"]
    /\ UNCHANGED <<m_data, R, m_deleted, locals, issued, save, file>>

(***************************************************************************)
(* AddBatch(1) under m_dataAddLock.  The row is FRESH, or what SetR or an  *)
(* earlier Load left: the program never shrinks the map.                   *)
(***************************************************************************)
AddBatch ==
    /\ R < Capacity
    /\ R' = R + 1
    /\ UNCHANGED <<m_data, m_deleted, pc, locals, issued, save, file>>

(***************************************************************************)
(* Save: the count, then the number of rows, then row after row.  Opening  *)
(* the file truncates the previous one.                                    *)
(***************************************************************************)
SaveCount ==
    /\ save.phase = "none"
    /\ save' = [phase |-> "counted", i |-> 0, image |-> [Blank EXCEPT !.deleted = m_deleted]]
    /\ file' = [valid |-> FALSE, image |-> Blank]
    /\ UNCHANGED <<m_data, R, m_deleted, pc, locals, issued>>

SaveSize ==
    /\ save.phase = "counted"
    /\ save' = [save EXCEPT !.phase = "rows", !.image.CR = R]
    /\ UNCHANGED <<m_data, R, m_deleted, pc, locals, issued, file>>

SaveRow ==
    /\ save.phase = "rows"
    /\ save.i < save.image.CR
    /\ save' = [save EXCEPT !.i = @ + 1, !.image.rows = [@ EXCEPT ![save.i] = m_data[save.i]]]
    /\ UNCHANGED <<m_data, R, m_deleted, pc, locals, issued, file>>

SaveDone ==
    /\ save.phase = "rows"
    /\ save.i = save.image.CR
    /\ file' = [valid |-> TRUE, image |-> save.image]
    /\ save' = [phase |-> "none", i |-> 0, image |-> Blank]
    /\ UNCHANGED <<m_data, R, m_deleted, pc, locals, issued>>

(***************************************************************************)
(* Load in a new process: every thread starts over.  Deletions after the   *)
(* save are the write-ahead log's business.                                *)
(***************************************************************************)
Load ==
    /\ file.valid
    /\ m_data' = file.image.rows
    /\ R' = file.image.CR
    /\ m_deleted' = file.image.deleted
    /\ issued' = file.image.rows
    /\ pc' = [t \in Threads |-> "idle"]
    /\ save' = [phase |-> "none", i |-> 0, image |-> Blank]
    /\ UNCHANGED <<locals, file>>

ThreadStep(t) ==
    \/ \E k \in Keys : (t \in Deleters /\ Delete(t, k)) \/ IncVersion(t, k)
    \/ CountDelete(t) \/ ReturnFalse(t) \/ CheckDeleted(t) \/ GetVersion(t)
    \/ CompareExchange(t) \/ ExchangeFails(t)

Next ==
    \/ \E t \in Threads : ThreadStep(t)
    \/ AddBatch \/ SaveCount \/ SaveSize \/ SaveRow \/ SaveDone \/ Load

Spec == Init /\ [][Next]_vars

-----------------------------------------------------------------------------
DeletedKeys == {k \in Keys : m_data[k] = DELETED}
Counting == {t \in Threads : pc[t] = "count"}
DeletedRows(image) == {k \in Keys : k < image.CR /\ image.rows[k] = DELETED}

\* No step of a running process takes a vector out of the deleted state: an
\* IncVersion that races with Delete must not overwrite the mark.
DeletedStaysDeleted ==
    [][Load \/ \A k \in Keys : m_data[k] = DELETED => m_data'[k] = DELETED]_vars

\* The delete count, with the deletions not counted yet, never exceeds the
\* number of deleted rows, restarts from a raced checkpoint included: it is
\* what NeedRefine compares with the number of samples.
CountIsCovered == m_deleted + Cardinality(Counting) <= Cardinality(DeletedKeys)

\* A saved map never claims more deletions than its rows hold, although
\* Delete goes on while Save writes: Save reads the count first.
SavedCountIsCovered ==
    file.valid => file.image.deleted <= Cardinality(DeletedRows(file.image))

\* A live row holds exactly what the successful IncVersion calls make of it:
\* no increment is lost, so no two callers take the same version for their own.
NoIncrementLost == \A k \in Keys : m_data[k] # DELETED => m_data[k] = issued[k]
=============================================================================
