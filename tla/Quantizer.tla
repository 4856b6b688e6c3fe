----------------------------- MODULE Quantizer -----------------------------
(***************************************************************************)
(* Product quantizers: a vector is cut into subvectors, each is replaced by *)
(* the number of its nearest entry of a codebook, and distances are looked  *)
(* up in tables: between two codes, or between a query and a code (ADC).    *)
(* OPQ rotates the vector first. A quantizer is saved and loaded again.     *)
(***************************************************************************)
EXTENDS ByteCells, FiniteSetsExt, SequencesExt

CONSTANTS Quantizers,     \* quantizers: [type, M, Ks, dim, codebooks, matrix, method]
          QueryVectors(_)   \* vectors of a dimension

VARIABLE quantizer        \* the quantizer in use, or NoQuantizer

NoQuantizer == [at |-> "none"]

\* The codebooks are one array, indexed from 0: entry j of subvector i.
Entry(q, i, j) ==
  SubSeq(q.codebooks, (i * q.Ks + j) * q.dim + 1, (i * q.Ks + j + 1) * q.dim)

SubVector(q, v, i) == SubSeq(v, i * q.dim + 1, (i + 1) * q.dim)

SumTo(n, f(_)) == FoldLeft(LAMBDA sum, i : sum + f(i), 0, [i \in 1 .. n |-> i - 1])

(***************************************************************************)
(* DistanceCalcSelector; the base of the value type is 1.                   *)
(***************************************************************************)
L2Of(x, y) == SumTo(Len(x), LAMBDA i : (x[i + 1] - y[i + 1]) * (x[i + 1] - y[i + 1]))

DotOf(x, y) == SumTo(Len(x), LAMBDA i : x[i + 1] * y[i + 1])

DistCalc(method, x, y) == IF method = "L2" THEN L2Of(x, y) ELSE 1 - DotOf(x, y)

(***************************************************************************)
(* PQQuantizer.                                                             *)
(***************************************************************************)
DistIndexCalc(q, i, j, k) == i * q.Ks * q.Ks + j * q.Ks + k

\* InitializeDistanceTables: the table has the last value written to a place.
DistanceTables(q) ==
  LET triples == {<<i, j, k>> : i \in 0 .. q.M - 1, j \in 0 .. q.Ks - 1, k \in 0 .. q.Ks - 1}
  IN  [place \in 0 .. q.M * q.Ks * q.Ks - 1 |->
         LET t == CHOOSE t \in triples : DistIndexCalc(q, t[1], t[2], t[3]) = place
         IN  DistCalc(q.method, Entry(q, t[1], t[2]), Entry(q, t[1], t[3]))]

\* The codes: the first entry with the smallest L2 distance, whatever the method.
NearestEntry(q, v, i) ==
  LET dist(j) == L2Of(SubVector(q, v, i), Entry(q, i, j))
  IN  CHOOSE j \in 0 .. q.Ks - 1 :
        \A k \in 0 .. q.Ks - 1 : dist(j) < dist(k) \/ (dist(j) = dist(k) /\ j <= k)

PQCodes(q, v) == [i \in 1 .. q.M |-> NearestEntry(q, v, i - 1)]

\* The table of a query: its distances to all the entries.
PQTable(q, v) ==
  [place \in 0 .. q.M * q.Ks - 1 |->
     DistCalc(q.method, SubVector(q, v, place \div q.Ks), Entry(q, place \div q.Ks, place % q.Ks))]

PQReconstruct(q, codes) == FlattenSeq([i \in 1 .. q.M |-> Entry(q, i - 1, codes[i])])

\* L2Distance and CosineDistance are the same: of two codes ...
CodeDistance(q, x, y) ==
  LET tables == DistanceTables(q)
  IN  SumTo(q.M, LAMBDA i : tables[DistIndexCalc(q, i, x[i + 1], y[i + 1])])

\* ... or, with ADC, of the table of a query and a code.
TableDistance(q, table, y) == SumTo(q.M, LAMBDA i : table[i * q.Ks + y[i + 1]])

(***************************************************************************)
(* OPQQuantizer. The matrix is a sequence of rows.                          *)
(***************************************************************************)
\* The mutant that rotates back.
Transposed_Not(m) == m

Transposed(m) == [i \in DOMAIN m |-> [j \in DOMAIN m |-> m[j][i]]]

\* m_base - m_fdot(vec, row): the base of float is 1.
VectorMatrixMultiply(m, v) == [i \in DOMAIN m |-> 1 - DistCalc("Cosine", v, m[i])]

Rotated(q, v) ==
  IF q.type = "OPQ" THEN VectorMatrixMultiply(Transposed(q.matrix), v) ELSE v

QuantizeVector(q, v) == PQCodes(q, Rotated(q, v))

QuantizeQuery(q, v) == PQTable(q, Rotated(q, v))

ReconstructVector(q, codes) ==
  IF q.type = "OPQ" THEN VectorMatrixMultiply(q.matrix, PQReconstruct(q, codes))
  ELSE PQReconstruct(q, codes)

(***************************************************************************)
(* Files. An entry has 4 bytes (float), a distance method one.              *)
(***************************************************************************)
Methods == <<"L2", "Cosine", "InnerProduct">>

MethodNumber(method) == (CHOOSE i \in DOMAIN Methods : Methods[i] = method) - 1

Floats(values) == FlattenSeq([i \in DOMAIN values |-> Cells(values[i], 4)])

HeaderCells(q) ==
  Cells(IF q.type = "OPQ" THEN 2 ELSE 1, 1) \o Cells(3, 1)
    \o Cells(q.M, 4) \o Cells(q.Ks, 4) \o Cells(q.dim, 4)

SavePQ(q) ==
  HeaderCells(q) \o Floats(q.codebooks) \o Cells(MethodNumber(q.method), 1)

\* OPQ writes no distance method.
SaveOPQ(q) == HeaderCells(q) \o Floats(q.codebooks) \o Floats(FlattenSeq(q.matrix))

BufferSize(q) ==
  4 * q.M * q.Ks * q.dim + 15
    + IF q.type = "OPQ" THEN 4 * (q.M * q.dim) * (q.M * q.dim) ELSE 0

FloatsAt(file, pos, n) == [i \in 1 .. n |-> ValueAt(file, pos + 4 * (i - 1), 4)]

\* The distance method from the byte behind pos: a byte of something else is any
\* number; a number that is no method, or the end of the file, is L2.
MethodsAt(file, pos) ==
  IF pos + 1 > Len(file) THEN {"L2"}
  ELSE LET n == ValueAt(file, pos, 1)
       IN  IF n = Garbled THEN {Methods[i] : i \in DOMAIN Methods}
           ELSE {IF n + 1 \in DOMAIN Methods THEN Methods[n + 1] ELSE "L2"}

\* LoadIQuantizer and PQQuantizer::LoadQuantizer from a stream or from memory:
\* the quantizers that may come out of it. OPQ then reads the matrix: from a
\* stream, at the place where PQ has stopped; from memory, behind the codebooks.
Loaded(file, from) ==
  LET type == IF ValueAt(file, 0, 1) = 2 THEN "OPQ" ELSE "PQ"
      M == ValueAt(file, 2, 4)
      Ks == ValueAt(file, 6, 4)
      dim == ValueAt(file, 10, 4)
      entries == 14 + 4 * M * Ks * dim
      n == M * dim
      at == IF from = "stream" /\ entries < Len(file) THEN entries + 1 ELSE entries
      rows == [i \in 1 .. n |-> FloatsAt(file, at + 4 * n * (i - 1), n)]
      short == type = "OPQ" /\ at + 4 * n * n > Len(file)
  IN  IF short THEN {NoQuantizer}
      ELSE {[type |-> type, M |-> M, Ks |-> Ks, dim |-> dim,
             codebooks |-> FloatsAt(file, 14, M * Ks * dim),
             matrix |-> IF type = "OPQ" THEN rows ELSE <<>>, method |-> method]
              : method \in MethodsAt(file, entries)}

(***************************************************************************)
(* The specification. `made` is the quantizer that was made.                *)
(***************************************************************************)
QuantizerInit ==
  \E q \in Quantizers :
    quantizer = [at |-> "ready", made |-> q, q |-> q, file |-> <<>>]

SaveQuantizer ==
  /\ quantizer.at = "ready"
  /\ quantizer' = [quantizer EXCEPT
       !.at = "saved",
       !.file = IF quantizer.q.type = "OPQ" THEN SaveOPQ(quantizer.q) ELSE SavePQ(quantizer.q)]

\* A quantizer that cannot be loaded is a null pointer.
LoadQuantizer(from) ==
  /\ quantizer.at = "saved"
  /\ \E q \in Loaded(quantizer.file, from) :
       quantizer' = IF q = NoQuantizer THEN [quantizer EXCEPT !.at = "failed"]
                    ELSE [quantizer EXCEPT !.at = "loaded", !.q = q]

QuantizerNext ==
  \/ SaveQuantizer
  \/ \E from \in {"stream", "raw"} : LoadQuantizer(from)

(***************************************************************************)
(* Properties.                                                              *)
(***************************************************************************)
\* Distances from the tables are those of the vectors the codes stand for: of two
\* codes, and of a query and a code, with OPQ of the vectors before the rotation;
\* no other code is nearer to a vector than its own; and a PQ quantizer comes back
\* from its file as it was, in the space it says it needs (PQQuantizer.h,
\* OPQQuantizer.h, IQuantizer.cpp). A distance that is not L2 is larger by the same
\* number for all the vectors, once for each subvector but one.
QuantizedExact ==
  quantizer.at \in {"ready", "saved", "loaded"} =>
    LET q == quantizer.q
        shift == IF q.method = "L2" THEN 0 ELSE q.M - 1
        allCodes == [1 .. q.M -> 0 .. q.Ks - 1]
    IN  /\ quantizer.at = "ready" =>
             /\ \A x, y \in allCodes :
                  CodeDistance(q, x, y) =
                    DistCalc(q.method, ReconstructVector(q, x), ReconstructVector(q, y)) + shift
             /\ \A v \in QueryVectors(q.M * q.dim) :
                  /\ \A y \in allCodes :
                       TableDistance(q, QuantizeQuery(q, v), y) =
                         DistCalc(q.method, v, ReconstructVector(q, y)) + shift
                  /\ \A y \in allCodes :
                       L2Of(v, ReconstructVector(q, QuantizeVector(q, v)))
                         <= L2Of(v, ReconstructVector(q, y))
        /\ q.type = "PQ" =>
             /\ quantizer.at = "saved" => Len(quantizer.file) = BufferSize(q)
             /\ quantizer.at = "loaded" => q = quantizer.made

\* A quantizer file ends with the codebook entries and, for OPQ, the rotation
\* matrix (docs/GettingStart.md): an OPQ quantizer that was saved is loaded again,
\* with its codebooks and its matrix.
OPQReloads ==
  quantizer.at # "none" /\ quantizer.made.type = "OPQ" =>
    /\ quantizer.at # "failed"
    /\ quantizer.at = "loaded" => /\ quantizer.q.codebooks = quantizer.made.codebooks
                                  /\ quantizer.q.matrix = quantizer.made.matrix
=============================================================================
