---------------------------- MODULE TextReader -----------------------------
(***************************************************************************)
(* Reading vectors from text files (TxtVectorReader): every file is cut     *)
(* into as many blocks as there are threads, the blocks are read by the     *)
(* threads in any order into files of their own, and these are merged in    *)
(* the order of the blocks. A line is metadata, a tab and the elements of    *)
(* the vector; a character is a record of its class and its line.           *)
(***************************************************************************)
EXTENDS Integers, Sequences, FiniteSetsExt, SequencesExt

CONSTANTS TextFiles,      \* inputs: sequences of files, a file being a sequence
                          \* of lines [meta, dim, ending]
          ThreadNums,     \* values of ReaderOptions::m_threadNum
          Dimension,      \* ReaderOptions::m_dimension
          Garbage         \* class of a byte of the line buffer never written

VARIABLE reader           \* the reader, or NoReader

NoReader == [at |-> "none"]

Ended == -1               \* a thread that has left its loop

(***************************************************************************)
(* The text of a file.                                                      *)
(***************************************************************************)
Chars(class, n, line) == [i \in 1 .. n |-> [c |-> class, line |-> line]]

LineText(shape, line) ==
  Chars("m", shape.meta, line) \o Chars("t", 1, line) \o Chars("v", shape.dim, line)
    \o [i \in DOMAIN shape.ending |-> [c |-> shape.ending[i], line |-> line]]

Text(files, f) ==
  FlattenSeq([k \in DOMAIN files[f] |-> LineText(files[f][k], <<f, k>>)])

(***************************************************************************)
(* SimpleFileIO::ReadString: the position after it, the buffer and the      *)
(* count it returns. The buffer keeps what earlier lines left behind the    *)
(* terminator.                                                              *)
(***************************************************************************)
Terminator == [c |-> "0", line |-> <<0, 0>>]

Overwritten(buffer, chars) ==
  chars \o SubSeq(buffer, Len(chars) + 1, Len(buffer))

ReadString(text, pos, buffer) ==
  LET delims == {i \in pos + 1 .. Len(text) : text[i].c \in {"r", "n"}}
      d == Min(delims)
      pair == d < Len(text) /\ text[d + 1].c = "n"
      swallowed == IF pair THEN 1 ELSE 0
      chars == SubSeq(text, pos + 1, IF delims = {} THEN Len(text) ELSE d - 1)
      written == Overwritten(buffer, Append(chars, Terminator))
  IN  IF delims = {}
      THEN [pos |-> Max({pos, Len(text)}), buffer |-> written, count |-> Len(chars)]
      ELSE [pos |-> d + swallowed, buffer |-> written,
            count |-> Len(chars) + 1 + swallowed]

\* currentLine[i], i from 0.
CharAt(buffer, i) ==
  IF i < Len(buffer) THEN buffer[i + 1] ELSE [c |-> Garbage, line |-> <<0, 0>>]

\* TranslateVector: the elements from `from` to the terminator, exactly
\* Dimension of them. The delimiters between them are left out.
TranslateVector(buffer, from) ==
  LET ends == {i \in from .. Len(buffer) - 1 : buffer[i + 1].c = "0"}
      elements == SubSeq(buffer, from + 1, Min(ends))
  IN  IF ends = {} THEN [ok |-> FALSE]
      ELSE [ok |-> Len(elements) = Dimension
                   /\ \A i \in DOMAIN elements : elements[i].c = "v",
            vector |-> elements]

(***************************************************************************)
(* LoadFileInternal for one block.                                          *)
(***************************************************************************)
RECURSIVE ReadLines(_, _, _)
ReadLines(text, blockSize, s) ==
  LET line == ReadString(text, s.pos, s.buffer)
      tabs == {i \in 0 .. line.count - 1 : CharAt(line.buffer, i).c = "t"}
      tabIndex == Max(tabs)
      parsed == TranslateVector(line.buffer, tabIndex + 1)
  IN  IF s.totalRead > blockSize \/ line.count = 0
      THEN [s EXCEPT !.index = Append(@, Len(s.meta))]
      ELSE IF tabs = {} THEN [s EXCEPT !.ok = FALSE]
      ELSE IF ~parsed.ok THEN [s EXCEPT !.ok = FALSE]
      ELSE ReadLines(text, blockSize,
             [s EXCEPT !.pos = line.pos, !.buffer = line.buffer,
                       !.totalRead = @ + line.count,
                       !.vectors = Append(@, parsed.vector),
                       !.index = Append(@, Len(s.meta)),
                       !.meta = @ \o [i \in 1 .. tabIndex |-> CharAt(line.buffer, i - 1)]])

\* The mutant that goes on only while it is before the end of its block.
LoadFileInternal_Before(text, block, blockSize) ==
  LET skipped == ReadString(text, block * blockSize, <<>>)
      empty == [pos |-> 0, buffer |-> <<>>, totalRead |-> 0, ok |-> TRUE,
                vectors |-> <<>>, meta |-> <<>>, index |-> <<>>]
  IN  ReadLines(text, blockSize - 1,
        IF block = 0 THEN empty
        ELSE [empty EXCEPT !.pos = skipped.pos, !.buffer = skipped.buffer,
                           !.totalRead = skipped.count])

\* A block but the first skips the rest of the line it starts in; it goes on
\* with the line that starts behind its end.
LoadFileInternal(text, block, blockSize) ==
  LET skipped == ReadString(text, block * blockSize, <<>>)
      empty == [pos |-> 0, buffer |-> <<>>, totalRead |-> 0, ok |-> TRUE,
                vectors |-> <<>>, meta |-> <<>>, index |-> <<>>]
  IN  ReadLines(text, blockSize,
        IF block = 0 THEN empty
        ELSE [empty EXCEPT !.pos = skipped.pos, !.buffer = skipped.buffer,
                           !.totalRead = skipped.count])

(***************************************************************************)
(* LoadFile: the tasks, the threads that take them, and the merge.          *)
(***************************************************************************)
Tasks(files, threadNum) ==
  FlattenSeq([f \in DOMAIN files |->
    [b \in 1 .. threadNum |->
       [file |-> f, block |-> b - 1,
        blockSize |-> (Len(Text(files, f)) + threadNum - 1) \div threadNum]]])

Loading(files, threadNum) ==
  [at |-> "loading", files |-> files, subWorks |-> Tasks(files, threadNum), sent |-> 0,
   thread |-> [t \in 1 .. threadNum |-> 0],
   output |-> [i \in DOMAIN Tasks(files, threadNum) |-> <<>>],
   vectors |-> <<>>, meta |-> <<>>, index |-> <<>>]

\* sent.fetch_add(1)
TakeBlock(t) ==
  /\ reader.at = "loading"
  /\ reader.thread[t] = 0
  /\ reader' = [reader EXCEPT !.sent = @ + 1,
                              !.thread[t] = IF reader.sent < Len(reader.subWorks)
                                            THEN reader.sent + 1 ELSE Ended]

\* The task in hand. Its files are its own. An error is thrown in the thread and
\* ends the program.
LoadBlock(t) ==
  /\ reader.at = "loading"
  /\ reader.thread[t] > 0
  /\ LET i == reader.thread[t]
         work == reader.subWorks[i]
         out == LoadFileInternal(Text(reader.files, work.file), work.block, work.blockSize)
     IN  reader' = IF out.ok
                   THEN [reader EXCEPT !.thread[t] = 0, !.output[i] = out]
                   ELSE [reader EXCEPT !.at = "terminated"]

\* Behind the join of the threads. The offsets of a block are shifted by the
\* bytes of metadata of the blocks before it.
MergeData ==
  /\ reader.at = "loading"
  /\ \A t \in DOMAIN reader.thread : reader.thread[t] = Ended
  /\ LET out == reader.output
         before[i \in 0 .. Len(out)] ==
           IF i = 0 THEN 0 ELSE before[i - 1] + out[i].index[Len(out[i].index)]
         offsets(i) == [j \in 1 .. Len(out[i].vectors) |-> out[i].index[j] + before[i - 1]]
     IN  reader' = [reader EXCEPT
           !.at = "merged",
           !.vectors = FlattenSeq([i \in DOMAIN out |-> out[i].vectors]),
           !.meta = FlattenSeq([i \in DOMAIN out |-> out[i].meta]),
           !.index = Append(FlattenSeq([i \in DOMAIN out |-> offsets(i)]),
                            before[Len(out)])]

(***************************************************************************)
(* The specification.                                                       *)
(***************************************************************************)
ReaderInit ==
  \E files \in TextFiles, threadNum \in ThreadNums : reader = Loading(files, threadNum)

ReaderNext ==
  \/ reader.at = "loading" /\ \E t \in DOMAIN reader.thread : TakeBlock(t) \/ LoadBlock(t)
  \/ MergeData

(***************************************************************************)
(* What is read from the merged files.                                      *)
(***************************************************************************)
\* GetVectorSet(start, end): both are cut to the rows there are. If start is
\* still behind end, the number of bytes wraps and their allocation throws.
GetVectorSet(start, end) ==
  LET row == Len(reader.vectors)
      from == IF start > row THEN row ELSE start
      to == IF end < 0 \/ end > row THEN row ELSE end
  IN  [thrown |-> from > to, vectors |-> SubSeq(reader.vectors, from + 1, to)]

\* FileMetadataSet::GetMetadata(i) on the two files.
MetadataOf(i) == SubSeq(reader.meta, reader.index[i] + 1, reader.index[i + 1])

(***************************************************************************)
(* Properties.                                                              *)
(***************************************************************************)
AllLines(files) ==
  FlattenSeq([f \in DOMAIN files |-> [k \in DOMAIN files[f] |-> <<f, k>>]])

\* Wherever the ends of the blocks fall (within a line, at its start, between the
\* two characters of its end) and in whichever order the threads read them, each
\* line of the files is one vector, in the order of the lines, with its own
\* metadata. Any range of the vectors can be read, whether it ends among them, behind
\* them or has no end (-1); a range that ends before it begins is not (TxtReader.cpp,
\* LoadFile, LoadFileInternal, MergeData, GetVectorSet).
LinesRead ==
  reader.at = "merged" =>
    LET lines == AllLines(reader.files)
        shape(i) == reader.files[lines[i][1]][lines[i][2]]
        last(end) == IF end = -1 THEN Len(lines) ELSE Min({end, Len(lines)})
    IN  /\ \A start \in 0 .. Len(lines) + 1, end \in -1 .. Len(lines) + 1 :
             LET got == GetVectorSet(start, end) IN
             /\ got.thrown <=> Min({start, Len(lines)}) > last(end)
             /\ ~got.thrown =>
                  got.vectors = [i \in 1 .. Max({0, last(end) - start}) |->
                                   Chars("v", Dimension, lines[start + i])]
        /\ \A i \in DOMAIN lines :
             MetadataOf(i) = Chars("m", shape(i).meta, lines[i])
=============================================================================
