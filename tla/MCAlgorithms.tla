--------------------------- MODULE MCAlgorithms ----------------------------
(***************************************************************************)
(* The sequential parts, one of them at work in each behaviour: distance    *)
(* kernels, containers of a search, text reader, codecs of the services,    *)
(* metadata, quantizers, and the partition of data among several parts.     *)
(***************************************************************************)
EXTENDS Kernels, Containers, TextReader, Codecs, Metadata, Quantizer, DataPartition

vars == <<kernel, box, reader, wire, metadata, quantizer, partition>>

KernelIdle == kernel = NoCall

BoxIdle == box = NoBox

ReaderIdle == reader = NoReader

WireIdle == wire = NoWire

MetadataIdle == metadata = NoMetadata

QuantizerIdle == quantizer = NoQuantizer

PartitionIdle == partition = NoPartition

Init ==
  \/ /\ KernelInit /\ BoxIdle /\ ReaderIdle /\ WireIdle
     /\ MetadataIdle /\ QuantizerIdle /\ PartitionIdle
  \/ /\ KernelIdle /\ BoxInit /\ ReaderIdle /\ WireIdle
     /\ MetadataIdle /\ QuantizerIdle /\ PartitionIdle
  \/ /\ KernelIdle /\ BoxIdle /\ ReaderInit /\ WireIdle
     /\ MetadataIdle /\ QuantizerIdle /\ PartitionIdle
  \/ /\ KernelIdle /\ BoxIdle /\ ReaderIdle /\ WireInit
     /\ MetadataIdle /\ QuantizerIdle /\ PartitionIdle
  \/ /\ KernelIdle /\ BoxIdle /\ ReaderIdle /\ WireIdle
     /\ MetadataInit /\ QuantizerIdle /\ PartitionIdle
  \/ /\ KernelIdle /\ BoxIdle /\ ReaderIdle /\ WireIdle
     /\ MetadataIdle /\ QuantizerInit /\ PartitionIdle
  \/ /\ KernelIdle /\ BoxIdle /\ ReaderIdle /\ WireIdle
     /\ MetadataIdle /\ QuantizerIdle /\ PartitionInit

Next ==
  \/ KernelNext /\ UNCHANGED <<box, reader, wire, metadata, quantizer, partition>>
  \/ BoxNext /\ UNCHANGED <<kernel, reader, wire, metadata, quantizer, partition>>
  \/ ReaderNext /\ UNCHANGED <<kernel, box, wire, metadata, quantizer, partition>>
  \/ WireNext /\ UNCHANGED <<kernel, box, reader, metadata, quantizer, partition>>
  \/ MetadataNext /\ UNCHANGED <<kernel, box, reader, wire, quantizer, partition>>
  \/ QuantizerNext /\ UNCHANGED <<kernel, box, reader, wire, metadata, partition>>
  \/ PartitionNext /\ UNCHANGED <<kernel, box, reader, wire, metadata, quantizer>>

Spec == Init /\ [][Next]_vars

(***************************************************************************)
(* Kernels: every remainder modulo 32, and a few longer vectors, on every   *)
(* generation of CPU; patterns that pass through the extreme values.        *)
(***************************************************************************)
MCLengths == (0 .. 20) \cup {31, 32, 33, 35, 47, 63, 64, 67, 97}

MCCpuFlags ==
  {{}, {"sse"}, {"sse", "sse2"}, {"sse", "sse2", "avx"}, {"sse", "sse2", "avx", "avx2"},
   {"sse", "sse2", "avx", "avx2", "avx512f", "avx512bw"}}

MCKernelX(T, i) ==
  CASE T \in {"int8", "uint8"} -> (37 * i + 128) % 256
    [] T = "int16" -> (((137 * i) % 601) - 300) % 65536
    [] T = "float" -> ((7 * i) % 23) - 11

MCKernelY(T, i) ==
  CASE T \in {"int8", "uint8"} -> (91 * i + 127) % 256
    [] T = "int16" -> (((59 * i) % 401) - 200) % 65536
    [] T = "float" -> ((5 * i) % 19) - 9

(***************************************************************************)
(* Text files: three lines, two files, an empty file, a last line without   *)
(* an end, a line with too few elements.                                    *)
(***************************************************************************)
GoodLines == [meta : {0, 2}, dim : {2}, ending : {<<"n">>, <<"r", "n">>}]

SomeLines ==
  GoodLines \cup {[meta |-> 1, dim |-> 2, ending |-> <<>>], [meta |-> 1, dim |-> 1, ending |-> <<"n">>]}

MCTextFiles ==
  {<< <<a, b, c>> >> : a \in GoodLines, b \in GoodLines, c \in SomeLines}
    \cup {<< <<a>>, <<b>> >> : a \in SomeLines, b \in SomeLines}
    \cup {<< <<>>, <<a>> >> : a \in SomeLines}

(***************************************************************************)
(* Codecs.                                                                  *)
(***************************************************************************)
MCBlobs == UNION {[1 .. n -> {0, 1, 90, 255}] : n \in 0 .. 4} \cup [1 .. 7 -> {3, 200}]

MCQueries == [type : {0}, text : {<<>>, <<7>>, <<4, 4, 9>>}]

SomeResults(metas) == [VID : {-1, 6}, Dist : {3}, Meta : metas]

IndexResults ==
  [name : {<<>>, <<1, 2>>}, withMeta : {1},
   results : {<<>>} \cup [1 .. 2 -> SomeResults({<<>>, <<8, 9>>})]]
    \cup [name : {<<1, 2>>}, withMeta : {0},
          results : UNION {[1 .. n -> SomeResults({<<>>})] : n \in 0 .. 2}]

FirstIs6(r) == Len(r.results) > 0 => r.results[1].VID = 6

MCResults ==
  [status : {0, 2}, indexes : {<<>>} \cup {<<r>> : r \in IndexResults}]
    \cup [status : {0},
          indexes : {<<r, s>> : r \in {x \in IndexResults : FirstIs6(x)},
                                s \in {x \in IndexResults : FirstIs6(x)}}]

Point(id, dist) == [VID |-> id, Dist |-> dist]

MCServed ==
  [a |-> [type |-> "int8", dim |-> 2, points |-> <<Point(1, 2)>>],
   b |-> [type |-> "int8", dim |-> 2, points |-> <<Point(0, 5), Point(4, 3), Point(2, 3)>>],
   c |-> [type |-> "float", dim |-> 2, points |-> <<Point(1, 1)>>]]

MCNames == UNION {[1 .. n -> {"a", "b", "c", "d"}] : n \in 0 .. 3}

MCVectors == [dim : {2, 3}, types : {{"float"}, {"int8", "float"}}]

(***************************************************************************)
(* Metadata and quantizers; the matrices are orthonormal.                   *)
(***************************************************************************)
MCMetaItems == {<<>>, <<1>>, <<2, 3>>}

QuantizersOf(type, M, Ks, dim, codebooks, matrix) ==
  {[type |-> type, M |-> M, Ks |-> Ks, dim |-> dim, codebooks |-> codebooks,
    matrix |-> matrix, method |-> method] : method \in {"L2", "Cosine"}}

MCQuantizers ==
  QuantizersOf("PQ", 2, 3, 1, <<0, 2, 5, -1, 3, 3>>, <<>>)
    \cup QuantizersOf("PQ", 2, 2, 2, <<0, 1, 3, 0, -1, 2, 1, 1>>, <<>>)
    \cup QuantizersOf("PQ", 1, 3, 2, <<0, 1, 3, 0, -1, 2>>, <<>>)
    \cup QuantizersOf("OPQ", 2, 2, 1, <<0, 2, -1, 3>>, << <<0, 1>>, <<-1, 0>> >>)
    \cup QuantizersOf("OPQ", 3, 2, 1, <<0, 2, -1, 3, 1, 4>>,
                      << <<0, 0, 1>>, <<-1, 0, 0>>, <<0, 1, 0>> >>)

MCQueryVectors(d) == [1 .. d -> {-2, 0, 3}]

(***************************************************************************)
(* Jobs: two or three parts, with and without MPI; a penalty that keeps the *)
(* distance from improving; vectors in two clusters; hard limits; centres   *)
(* from a file, with which a killed job runs again.                         *)
(***************************************************************************)
Data2 == (0 :> <<0, 1, 2>>) @@ (1 :> <<1, 8, 9>>)

DataSlow == (0 :> <<0, 2, 4>>) @@ (1 :> <<6, 8, 10>>)

Data3 == (0 :> <<5>>) @@ (1 :> <<0, 6, 10>>) @@ (2 :> <<>>)

Job(mode, data, K, assign, hardcut, newp, lambda, maxIter, init) ==
  [mode |-> mode, data |-> data, K |-> K, TH |-> 2, assign |-> assign, closure |-> <<4, 1>>,
   vf |-> <<3, 2>>, hardcut |-> hardcut, newp |-> newp, lambda |-> lambda, maxIter |-> maxIter,
   init |-> (0 :> init[1]) @@ (1 :> init[2]) @@ (IF K = 3 THEN (2 :> init[3]) ELSE <<>>),
   file |-> <<>>]

MCJobs ==
  {Job(mode, Data2, 2, assign, hardcut, 0, lambda, maxIter, <<0, 2>>) :
     mode \in {"MPI", "Files"}, assign \in {1, 2}, hardcut \in {0, 1}, lambda \in {0, 20},
     maxIter \in {0, 5}}
  \cup {Job(mode, Data3, 3, 2, 0, newp, 9, maxIter, <<5, 5, 5>>) :
          mode \in {"MPI", "Files"}, newp \in {0, 1}, maxIter \in {0, 5}}
  \cup {Job(mode, DataSlow, 2, 1, 0, 0, 0, 2, <<0, 2>>) : mode \in {"MPI", "Files"}}
=============================================================================
