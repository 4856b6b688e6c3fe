----------------------------- MODULE MCBlockIO -----------------------------
(***************************************************************************)
(* The two stores that postings are read from and written to through       *)
(* queues of requests, one of them at work in each behaviour: FileIO with  *)
(* its cache (BlockIO) and SPDKIO (SPDKStore).                             *)
(***************************************************************************)
EXTENDS BlockIO, TLC

CONSTANTS t1, t2

\* Two workspaces that are not the one with number 0, whose context the
\* cache uses, and one shard.
Base ==
    [shards |-> 1, capacity |-> 2, limit |-> 2, blockLimit |-> 4, batch |-> 64, windows |-> FALSE,
     ctx |-> (t1 :> 1 @@ t2 :> 2), ops |-> {}, serial |-> FALSE, maxOps |-> 3, longest |-> 1, pool |-> 5, stored |-> 2]

\* Reads beside writes that evict one another's keys.
Evicting == [Base EXCEPT !.capacity = 1, !.limit = 1, !.ops = {"Put", "Merge", "Get", "MultiGet"}, !.maxOps = 4, !.pool = 4]

\* Values of two pages: the row grows and shrinks under a cached key.
Growing == [Base EXCEPT !.ops = {"Put", "Delete", "Get"}, !.longest = 2, !.batch = 1, !.maxOps = 4]

\* The file is full: puts, or evictions before them, fail.
Full == [Base EXCEPT !.ops = {"Put", "Get", "Delete", "Save"}, !.longest = 2, !.pool = 3, !.capacity = 4]
Tight == [Full EXCEPT !.capacity = 2, !.pool = 2, !.maxOps = 4]

\* Values the cache does not take, and postings at the limit of a row.
Large == [Base EXCEPT !.ops = {"Put", "Merge", "Get", "MultiGet"}, !.longest = 2, !.capacity = 1, !.limit = 1, !.blockLimit = 3, !.stored = 1]

\* Merges around the limit of a cached value, and Save, with two shards.
\* Their requests share context 0, so one operation at a time.
Saving == [Base EXCEPT !.serial = TRUE, !.ops = {"Put", "Merge", "Save", "Get"}, !.shards = 2, !.capacity = 2, !.limit = 2, !.maxOps = 4, !.pool = 6]

\* On Windows the shards do not share a queue: two of them at work.
Windows == [Saving EXCEPT !.serial = FALSE, !.windows = TRUE, !.ops = {"Put", "Merge", "Get"}, !.capacity = 1, !.limit = 1, !.maxOps = 3]

\* A workspace shares the cache's context.
Shared == [Evicting EXCEPT !.ctx = (t1 :> 0 @@ t2 :> 1)]

MCSettings == {Evicting, Growing, Full, Tight, Large, Saving, Windows}
SharedContext == {Shared}

(***************************************************************************)
(* Settings of SPDKStore.  A page has two words.  Where there are no more  *)
(* blocks than a writer and another need, the file grows.                  *)
(***************************************************************************)
Device ==
    [mem |-> FALSE, start |-> 5, growth |-> 2, max |-> 9, threshold |-> 100, blockLimit |-> 3, bufferLimit |-> 1,
     requests |-> 4, bufferPages |-> 2, batch |-> 1, timeout |-> FALSE, nomem |-> FALSE,
     ops |-> {}, stored |-> <<3, 2>>, lengths |-> {1}, maxOps |-> 3]

\* Merges into a posting that ends within a page and into one that does not.
Merging == [Device EXCEPT !.ops = {"Put", "Merge", "Get"}]

\* Searches beside writers, into page buffers and, with values at the limit
\* of the requests and of a row, into strings.
Searching == [Device EXCEPT !.ops = {"Put", "MultiGet"}, !.lengths = {2}]
Strings == [Device EXCEPT !.ops = {"Put", "MultiGetStrings"}, !.lengths = {3, 5}, !.maxOps = 2]

\* Few enough blocks that those released before a checkpoint are used again.
Checkpoints ==
    [Device EXCEPT !.ops = {"Put", "Merge", "Delete", "Checkpoint"}, !.start = 3, !.threshold = 60,
                   !.stored = <<1>>, !.maxOps = 4]
Restarts == [Checkpoints EXCEPT !.ops = {"Put", "Delete", "ShutDown", "Get"}]

\* As much memory as is needed, of the part that is reserved.
Memory ==
    [Device EXCEPT !.mem = TRUE, !.start = 16, !.max = 16, !.stored = <<1>>, !.ops = {"Put", "Merge", "Get", "MultiGet"}]

DeviceSettings == {Merging, Searching, Strings, Checkpoints, Restarts, Memory}

\* A search that ran out of time, then other operations of its workspace.
Late == {[Device EXCEPT !.ops = {"Put", "Get", "MultiGet"}, !.timeout = TRUE]}

\* A search that still has a posting that is deleted.
Gone == {[Device EXCEPT !.ops = {"Delete", "MultiGet"}]}

\* All blocks that are left are in reserve; less is left than a growth.
Reserved == {[Device EXCEPT !.ops = {"Put"}, !.max = 5, !.lengths = {3}]}
Capped == {[Device EXCEPT !.ops = {"Put"}, !.start = 4, !.max = 5, !.lengths = {3}]}

\* The device runs out of memory.
NoMemory == {[Device EXCEPT !.ops = {"Put", "Get"}, !.nomem = TRUE]}

\* All of the memory that is asked for.
AllMemory == {[Memory EXCEPT !.start = 8, !.max = 8]}

(***************************************************************************)
(* The two, side by side.                                                  *)
(***************************************************************************)
VARIABLES cfg, pool, reserve, total, mapping, spare, saved, ssd, reqs, submitted, device, inflight, looping,
          completed, step, op, latest, quiet, begun

CONSTANT SPDKSettings

S == INSTANCE SPDKStore WITH PageSize <- 2, Settings <- SPDKSettings

deviceVars == <<cfg, pool, reserve, total, mapping, spare, saved, ssd, reqs, submitted, device, inflight, looping,
                completed, step, op, latest, quiet, begun>>

\* The one that is not at work waits in an initial state of its own.
FileIdle == started = 0 /\ setting = CHOOSE s \in Settings : TRUE
DeviceIdle == begun = 0 /\ cfg = CHOOSE s \in SPDKSettings : TRUE

StoresInit == Init /\ S!Init /\ (FileIdle \/ DeviceIdle)

StoresNext ==
    \/ DeviceIdle /\ Next /\ UNCHANGED deviceVars
    \/ FileIdle /\ S!Next /\ UNCHANGED vars

StoresSpec == StoresInit /\ [][StoresNext]_<<vars, deviceVars>>

\* A read that succeeds returns the value last acknowledged for its key,
\* unless somebody wrote the key meanwhile: from FileIO, whichever of cache
\* and disk has it and whoever evicts it, and from SPDKIO, whose completions
\* are counted and not matched with their requests.
StoresReadLatest == (DeviceIdle => ReadsLatest) /\ (FileIdle => S!ReadsLatest)

\* What is under the readers is in order: of FileIO, the cache's lists and
\* counts agree, every block has one place, and a Save leaves nothing in the
\* cache; of SPDKIO, every block has one place, the last checkpoint can be
\* read until the next one, nobody waits for blocks that are there, the
\* device's loop goes on, and no row is missing.
StoresSound == (DeviceIdle => StorageSound) /\ (FileIdle => S!StorageSound)
=============================================================================
