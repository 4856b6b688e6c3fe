------------------------------ MODULE MCFileIO ------------------------------
(* FileIO for TLC: pages of two units, so that a value of one or three units *)
(* leaves a partial last block and one of two or four units a full one.      *)
(* The run about progress uses Blank for every unit: the disk does not       *)
(* change.                                                                   *)
EXTENDS FileIO, TLC

CONSTANTS a, b

\* for the run about progress, in which the contents do not matter
PlainMerges == {<<a>>}
ShortPuts == {<<a>>}

\* for the run about values
TaggedPuts == {<<a, b, a>>}
TaggedMerges == {<<b>>}

BlockSymmetry == Permutations(Blocks \ StartBlocks) \cup Permutations(StartBlocks)
Symmetry == BlockSymmetry \cup Permutations(Threads) \cup Permutations(Keys)

\* What is on a block that no row, no saved row and no finished write names is
\* never read before it is written: states that differ in it only are the same.
Referenced == SavedBlocks \cup UNION {Range(row[k].blocks) : k \in Keys}
              \cup UNION {Held(t) : t \in {u \in Threads : pc[u] \in {"release", "swap"}}}
Contents == [x \in Referenced \cap Blocks |-> disk[x]]
MCView == <<poolVars, row, Contents, buffer, pc, op, saved, cp>>
=============================================================================
