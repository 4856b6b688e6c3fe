----------------------------- MODULE ByteCells -----------------------------
(***************************************************************************)
(* Values in buffers and files: a value of n bytes is n cells, so that what *)
(* is read at another offset or with another width than it was written is   *)
(* told apart from it.                                                      *)
(***************************************************************************)
EXTENDS Integers, Sequences

Cells(value, n) == [j \in 1 .. n |-> [value |-> value, part |-> j, bytes |-> n]]

\* Stands for whatever a value is that is put together from other cells.
Garbled == -1000

\* The value of n bytes behind position pos.
ValueAt(buffer, pos, n) ==
  IF pos + n <= Len(buffer) /\ SubSeq(buffer, pos + 1, pos + n) = Cells(buffer[pos + 1].value, n)
  THEN buffer[pos + 1].value
  ELSE Garbled
=============================================================================
