------------------------------ MODULE Kernels ------------------------------
(***************************************************************************)
(* The vector kernels of DistanceUtils and SIMDUtils: the distance of two   *)
(* vectors and the sum of one into another, in blocks as wide as the        *)
(* registers of the machine and then in ever smaller ones, and the choice   *)
(* of the kernel by what the machine has.                                   *)
(*                                                                          *)
(* A kernel is a sequence of loops. A loop runs while the position is below *)
(* the length rounded down to the loop's width, and its body is a sequence  *)
(* of REPEATs, each of a number of elements. Partial results are kept in 16,*)
(* 8 or 4 lanes, or in one scalar, and are folded when the next loop has    *)
(* fewer lanes. Memory holds raw values; a kernel widens them. Rounding of  *)
(* floats is left out: the values of the instances are exact in a float.    *)
(***************************************************************************)
EXTENDS Integers, Sequences, FiniteSetsExt, SequencesExt

CONSTANTS Lengths,      \* the lengths of vectors
          CpuFlags,     \* the machines: sets of the flags cpuid reports
          KernelX(_, _),   \* KernelX(T, i): the raw element i of the first vector
          KernelY(_, _)

VARIABLE kernel         \* the call in progress, or NoCall

NoCall == [at |-> "none"]

ElementTypes == {"int8", "uint8", "int16", "float"}

Operations == {"L2", "Cosine", "Sum"}

(***************************************************************************)
(* Widening.                                                                *)
(***************************************************************************)
SignExtend(raw, bits) == IF raw >= 2 ^ (bits - 1) THEN raw - 2 ^ bits ELSE raw

Widened(T, raw) ==
  CASE T = "int8"  -> SignExtend(raw, 8)
    [] T = "int16" -> SignExtend(raw, 16)
    [] OTHER       -> raw

GetBase(T) ==
  CASE T = "int8"  -> 127
    [] T = "uint8" -> 255
    [] T = "int16" -> 32767
    [] T = "float" -> 1

(***************************************************************************)
(* The primitives: what a block of elements adds to each of the lanes.      *)
(* unpacklo and unpackhi put the two halves of each 16 byte chunk on the    *)
(* same lanes, and madd adds neighbours.                                    *)
(***************************************************************************)
Laned(lanes, size, LaneOf(_), Term(_)) ==
  [l \in 0 .. lanes - 1 |->
     MapThenSumSet(Term, {e \in 0 .. size - 1 : LaneOf(e) = l})]

LaneEpi8(e) == 4 * (e \div 16) + ((e % 8) \div 2)

LaneMadd(e) == e \div 2

LaneEpi16(e) == 4 * (e \div 8) + (e % 4)

LanePs(e) == e

Sub16(a, b) == SignExtend((a - b) % 2 ^ 16, 16)

Mul(T, X, Y, e) == Widened(T, X[e]) * Widened(T, Y[e])

SqDf(T, X, Y, e) == LET d == Widened(T, X[e]) - Widened(T, Y[e]) IN d * d

SqDf16(T, X, Y, e) == LET d == Sub16(Widened(T, X[e]), Widened(T, Y[e])) IN d * d

_mm_mul_epi8(X, Y) == Laned(4, 16, LaneEpi8, LAMBDA e : Mul("int8", X, Y, e))

_mm_sqdf_epi8(X, Y) == Laned(4, 16, LaneEpi8, LAMBDA e : SqDf16("int8", X, Y, e))

_mm_mul_epu8(X, Y) == Laned(4, 16, LaneEpi8, LAMBDA e : Mul("uint8", X, Y, e))

_mm_sqdf_epu8(X, Y) == Laned(4, 16, LaneEpi8, LAMBDA e : SqDf16("uint8", X, Y, e))

_mm_mul_epi16(X, Y) == Laned(4, 8, LaneMadd, LAMBDA e : Mul("int16", X, Y, e))

_mm_sqdf_epi16(X, Y) == Laned(4, 8, LaneEpi16, LAMBDA e : SqDf("int16", X, Y, e))

_mm_sqdf_ps(X, Y) == Laned(4, 4, LanePs, LAMBDA e : SqDf("float", X, Y, e))

_mm_mul_ps(X, Y) == Laned(4, 4, LanePs, LAMBDA e : Mul("float", X, Y, e))

_mm256_mul_epi8(X, Y) == Laned(8, 32, LaneEpi8, LAMBDA e : Mul("int8", X, Y, e))

_mm256_sqdf_epi8(X, Y) == Laned(8, 32, LaneEpi8, LAMBDA e : SqDf16("int8", X, Y, e))

_mm256_mul_epu8(X, Y) == Laned(8, 32, LaneEpi8, LAMBDA e : Mul("uint8", X, Y, e))

\* The mutant _mm256_sqdf_epu8 that extends the sign of unsigned bytes.
_mm256_sqdf_epu8_Signed(X, Y) ==
  Laned(8, 32, LaneEpi8, LAMBDA e : SqDf16("int8", X, Y, e))

_mm256_sqdf_epu8(X, Y) == Laned(8, 32, LaneEpi8, LAMBDA e : SqDf16("uint8", X, Y, e))

_mm256_mul_epi16(X, Y) == Laned(8, 16, LaneMadd, LAMBDA e : Mul("int16", X, Y, e))

_mm256_sqdf_epi16(X, Y) == Laned(8, 16, LaneEpi16, LAMBDA e : SqDf("int16", X, Y, e))

_mm256_sqdf_ps(X, Y) == Laned(8, 8, LanePs, LAMBDA e : SqDf("float", X, Y, e))

_mm256_mul_ps(X, Y) == Laned(8, 8, LanePs, LAMBDA e : Mul("float", X, Y, e))

_mm512_mul_epi8(X, Y) == Laned(16, 64, LaneEpi8, LAMBDA e : Mul("int8", X, Y, e))

_mm512_sqdf_epi8(X, Y) == Laned(16, 64, LaneEpi8, LAMBDA e : SqDf16("int8", X, Y, e))

_mm512_mul_epu8(X, Y) == Laned(16, 64, LaneEpi8, LAMBDA e : Mul("uint8", X, Y, e))

_mm512_sqdf_epu8(X, Y) == Laned(16, 64, LaneEpi8, LAMBDA e : SqDf16("uint8", X, Y, e))

_mm512_mul_epi16(X, Y) == Laned(16, 32, LaneMadd, LAMBDA e : Mul("int16", X, Y, e))

_mm512_sqdf_epi16(X, Y) == Laned(16, 32, LaneEpi16, LAMBDA e : SqDf("int16", X, Y, e))

_mm512_sqdf_ps(X, Y) == Laned(16, 16, LanePs, LAMBDA e : SqDf("float", X, Y, e))

_mm512_mul_ps(X, Y) == Laned(16, 16, LanePs, LAMBDA e : Mul("float", X, Y, e))

\* One element after the other, in a float.
Scalar(T, op, X, Y) ==
  [l \in {0} |-> IF op = "L2" THEN SqDf(T, X, Y, 0) ELSE Mul(T, X, Y, 0)]

(***************************************************************************)
(* A loop: its width, the lanes it adds to, and the sizes of the REPEATs of *)
(* its body.                                                                *)
(***************************************************************************)
Loop(width, lanes, repeats) ==
  [width |-> width, lanes |-> lanes, repeats |-> repeats]

Fours == Loop(4, 1, <<1, 1, 1, 1>>)

Ones == Loop(1, 1, <<1>>)

ComputeL2Distance == <<Fours, Ones>>

L2_SSE_int8 == <<Loop(32, 4, <<16, 16>>), Loop(16, 4, <<16>>), Fours, Ones>>

L2_AVX_int8 == <<Loop(32, 8, <<32>>), Loop(16, 4, <<16>>), Fours, Ones>>

L2_AVX512_int8 ==
  <<Loop(64, 16, <<64>>), Loop(32, 8, <<32>>), Loop(16, 4, <<16>>), Fours, Ones>>

L2_SSE_uint8 == <<Loop(32, 4, <<16, 16>>), Loop(16, 4, <<16>>), Fours, Ones>>

L2_AVX_uint8 == <<Loop(32, 8, <<32>>), Loop(16, 4, <<16>>), Fours, Ones>>

L2_AVX512_uint8 ==
  <<Loop(64, 16, <<64>>), Loop(32, 8, <<32>>), Loop(16, 4, <<16>>), Fours, Ones>>

L2_SSE_int16 == <<Loop(16, 4, <<8, 8>>), Loop(8, 4, <<8>>), Fours, Ones>>

L2_AVX_int16 == <<Loop(16, 8, <<16>>), Loop(8, 4, <<8>>), Fours, Ones>>

L2_AVX512_int16 ==
  <<Loop(32, 16, <<32>>), Loop(16, 8, <<16>>), Loop(8, 4, <<8>>), Fours, Ones>>

L2_SSE_float == <<Loop(16, 4, <<4, 4, 4, 4>>), Loop(4, 4, <<4>>), Ones>>

L2_AVX_float == <<Loop(16, 8, <<8, 8>>), Loop(4, 4, <<4>>), Ones>>

L2_AVX512_float ==
  <<Loop(16, 16, <<16>>), Loop(8, 8, <<8>>), Loop(4, 4, <<4>>), Ones>>

ComputeCosineDistance == <<Fours, Ones>>

Cosine_SSE_int8 == <<Loop(32, 4, <<16, 16>>), Loop(16, 4, <<16>>), Fours, Ones>>

Cosine_AVX_int8 == <<Loop(32, 8, <<32>>), Loop(16, 4, <<16>>), Fours, Ones>>

Cosine_AVX512_int8 ==
  <<Loop(64, 16, <<64>>), Loop(32, 8, <<32>>), Loop(16, 4, <<16>>), Fours, Ones>>

Cosine_SSE_uint8 == <<Loop(32, 4, <<16, 16>>), Loop(16, 4, <<16>>), Fours, Ones>>

Cosine_AVX_uint8 == <<Loop(32, 8, <<32>>), Loop(16, 4, <<16>>), Fours, Ones>>

Cosine_AVX512_uint8 ==
  <<Loop(64, 16, <<64>>), Loop(32, 8, <<32>>), Loop(16, 4, <<16>>), Fours, Ones>>

Cosine_SSE_int16 == <<Loop(16, 4, <<8, 8>>), Loop(8, 4, <<8>>), Fours, Ones>>

Cosine_AVX_int16 == <<Loop(16, 8, <<16>>), Loop(8, 4, <<8>>), Fours, Ones>>

Cosine_AVX512_int16 ==
  <<Loop(32, 16, <<32>>), Loop(16, 8, <<16>>), Loop(8, 4, <<8>>), Fours, Ones>>

Cosine_SSE_float == <<Loop(16, 4, <<4, 4, 4, 4>>), Loop(4, 4, <<4>>), Ones>>

Cosine_AVX_float == <<Loop(16, 8, <<8, 8>>), Loop(4, 4, <<4>>), Ones>>

Cosine_AVX512_float ==
  <<Loop(16, 16, <<16>>), Loop(8, 8, <<8>>), Loop(4, 4, <<4>>), Ones>>

ComputeSum_Naive == <<Ones>>

Sum_SSE_int8 == <<Loop(16, 4, <<16>>), Ones>>

Sum_AVX_int8 == <<Loop(16, 4, <<16>>), Ones>>

Sum_AVX512_int8 == <<Loop(16, 4, <<16>>), Ones>>

Sum_SSE_uint8 == <<Loop(16, 4, <<16>>), Ones>>

Sum_AVX_uint8 == <<Loop(16, 4, <<16>>), Ones>>

Sum_AVX512_uint8 == <<Loop(16, 4, <<16>>), Ones>>

Sum_SSE_int16 == <<Loop(8, 4, <<8>>), Ones>>

Sum_AVX_int16 == <<Loop(8, 4, <<8>>), Ones>>

Sum_AVX512_int16 == <<Loop(8, 4, <<8>>), Ones>>

Sum_SSE_float == <<Loop(4, 4, <<4>>), Ones>>

Sum_AVX_float == <<Loop(4, 4, <<4>>), Ones>>

Sum_AVX512_float == <<Loop(4, 4, <<4>>), Ones>>

LoopsOf(op, isa, T) ==
  IF isa = "Naive"
  THEN [L2 |-> ComputeL2Distance, Cosine |-> ComputeCosineDistance,
        Sum |-> ComputeSum_Naive][op]
  ELSE [L2 |->
         [SSE |-> [int8 |-> L2_SSE_int8, uint8 |-> L2_SSE_uint8,
                   int16 |-> L2_SSE_int16, float |-> L2_SSE_float],
          AVX |-> [int8 |-> L2_AVX_int8, uint8 |-> L2_AVX_uint8,
                   int16 |-> L2_AVX_int16, float |-> L2_AVX_float],
          AVX512 |-> [int8 |-> L2_AVX512_int8, uint8 |-> L2_AVX512_uint8,
                      int16 |-> L2_AVX512_int16, float |-> L2_AVX512_float]],
        Cosine |->
         [SSE |-> [int8 |-> Cosine_SSE_int8, uint8 |-> Cosine_SSE_uint8,
                   int16 |-> Cosine_SSE_int16, float |-> Cosine_SSE_float],
          AVX |-> [int8 |-> Cosine_AVX_int8, uint8 |-> Cosine_AVX_uint8,
                   int16 |-> Cosine_AVX_int16, float |-> Cosine_AVX_float],
          AVX512 |-> [int8 |-> Cosine_AVX512_int8, uint8 |-> Cosine_AVX512_uint8,
                      int16 |-> Cosine_AVX512_int16, float |-> Cosine_AVX512_float]],
        Sum |->
         [SSE |-> [int8 |-> Sum_SSE_int8, uint8 |-> Sum_SSE_uint8,
                   int16 |-> Sum_SSE_int16, float |-> Sum_SSE_float],
          AVX |-> [int8 |-> Sum_AVX_int8, uint8 |-> Sum_AVX_uint8,
                   int16 |-> Sum_AVX_int16, float |-> Sum_AVX_float],
          AVX512 |-> [int8 |-> Sum_AVX512_int8, uint8 |-> Sum_AVX512_uint8,
                      int16 |-> Sum_AVX512_int16, float |-> Sum_AVX512_float]]]
       [op][isa][T]

(***************************************************************************)
(* The machine. AVX512 is taken to be there when EITHER of its two flags is.*)
(***************************************************************************)
Detected(cpu) ==
  [SSE    |-> "sse" \in cpu,
   SSE2   |-> "sse2" \in cpu,
   AVX    |-> "avx" \in cpu,
   AVX2   |-> "avx2" \in cpu,
   AVX512 |-> {"avx512f", "avx512bw"} \cap cpu # {}]

DistanceCalcSelector(T, cpu) ==
  LET hw == Detected(cpu)
      isSize4 == T = "float"
  IN  IF hw.AVX512 THEN "AVX512"
      ELSE IF hw.AVX2 \/ (isSize4 /\ hw.AVX) THEN "AVX"
      ELSE IF hw.SSE2 \/ (isSize4 /\ hw.SSE) THEN "SSE"
      ELSE "Naive"

SumCalcSelector(T, cpu) ==
  LET hw == Detected(cpu)
      isSize4 == T = "float"
  IN  IF hw.AVX512 THEN "AVX512"
      ELSE IF hw.AVX2 \/ (isSize4 /\ hw.AVX) THEN "AVX"
      ELSE IF hw.SSE2 \/ (isSize4 /\ hw.SSE) THEN "SSE"
      ELSE "Naive"

(***************************************************************************)
(* A call.                                                                  *)
(***************************************************************************)
\* The primitive of a REPEAT, by its registers.
Exec(T, op, lanes, X, Y) ==
  CASE lanes = 1 -> Scalar(T, op, X, Y)
    [] lanes = 4 ->
        (CASE T = "int8"  -> IF op = "L2" THEN _mm_sqdf_epi8(X, Y) ELSE _mm_mul_epi8(X, Y)
           [] T = "uint8" -> IF op = "L2" THEN _mm_sqdf_epu8(X, Y) ELSE _mm_mul_epu8(X, Y)
           [] T = "int16" -> IF op = "L2" THEN _mm_sqdf_epi16(X, Y) ELSE _mm_mul_epi16(X, Y)
           [] T = "float" -> IF op = "L2" THEN _mm_sqdf_ps(X, Y) ELSE _mm_mul_ps(X, Y))
    [] lanes = 8 ->
        (CASE T = "int8"  -> IF op = "L2" THEN _mm256_sqdf_epi8(X, Y) ELSE _mm256_mul_epi8(X, Y)
           [] T = "uint8" -> IF op = "L2" THEN _mm256_sqdf_epu8(X, Y) ELSE _mm256_mul_epu8(X, Y)
           [] T = "int16" -> IF op = "L2" THEN _mm256_sqdf_epi16(X, Y) ELSE _mm256_mul_epi16(X, Y)
           [] T = "float" -> IF op = "L2" THEN _mm256_sqdf_ps(X, Y) ELSE _mm256_mul_ps(X, Y))
    [] lanes = 16 ->
        (CASE T = "int8"  -> IF op = "L2" THEN _mm512_sqdf_epi8(X, Y) ELSE _mm512_mul_epi8(X, Y)
           [] T = "uint8" -> IF op = "L2" THEN _mm512_sqdf_epu8(X, Y) ELSE _mm512_mul_epu8(X, Y)
           [] T = "int16" -> IF op = "L2" THEN _mm512_sqdf_epi16(X, Y) ELSE _mm512_mul_epi16(X, Y)
           [] T = "float" -> IF op = "L2" THEN _mm512_sqdf_ps(X, Y) ELSE _mm512_mul_ps(X, Y))

\* The upper half of the lanes is added to the lower one until `lanes` are
\* left; the last four are added up one by one.
Folded(acc, lanes) ==
  [l \in 0 .. lanes - 1 |->
     MapThenSumSet(LAMBDA m : acc[m], {m \in DOMAIN acc : m % lanes = l})]

\* REPEAT: load from both vectors, advance, accumulate.
Repeat(k, size) ==
  LET lanes == k.loops[k.loop].lanes
      Part(V(_, _)) == [e \in 0 .. size - 1 |-> V(k.T, k.pos + e)]
      sum == Exec(k.T, k.op, lanes, Part(KernelX), Part(KernelY))
  IN  [k EXCEPT !.pos = @ + size,
                !.acc = [l \in 0 .. lanes - 1 |-> @[l] + sum[l]]]

\* An addition in the width of the element, stored over the first vector.
Stored(k, size) ==
  [k EXCEPT !.pos = @ + size,
            !.out = [e \in k.pos .. k.pos + size - 1 |->
                       LET sum == KernelX(k.T, e) + KernelY(k.T, e)
                       IN  CASE k.T \in {"int8", "uint8"} -> sum % 2 ^ 8
                             [] k.T = "int16"             -> sum % 2 ^ 16
                             [] k.T = "float"             -> sum] @@ @]

PEnd(k) == LET w == k.loops[k.loop].width IN (k.n \div w) * w

KernelCall(T, op, cpu, n) ==
  LET isa == IF op = "Sum" THEN SumCalcSelector(T, cpu) ELSE DistanceCalcSelector(T, cpu)
      loops == LoopsOf(op, isa, T)
  IN  [at |-> "loop", T |-> T, op |-> op, n |-> n, loops |-> loops, loop |-> 1,
       pos |-> 0, acc |-> [l \in 0 .. loops[1].lanes - 1 |-> 0], out |-> <<>>]

KernelInit ==
  \E T \in ElementTypes, op \in Operations, cpu \in CpuFlags, n \in Lengths :
    kernel = KernelCall(T, op, cpu, n)

\* An iteration of the loop: all the REPEATs of its body.
Iterate ==
  /\ kernel.at = "loop"
  /\ kernel.pos < PEnd(kernel)
  /\ kernel' = FoldLeft(LAMBDA k, size : IF k.op = "Sum" THEN Stored(k, size)
                                             ELSE Repeat(k, size),
                        kernel, kernel.loops[kernel.loop].repeats)

NextLoop ==
  /\ kernel.at = "loop"
  /\ kernel.pos >= PEnd(kernel)
  /\ kernel.loop < Len(kernel.loops)
  /\ kernel' = [kernel EXCEPT !.loop = @ + 1,
                              !.acc = Folded(@, kernel.loops[kernel.loop + 1].lanes)]

KernelReturn ==
  /\ kernel.at = "loop"
  /\ kernel.pos >= PEnd(kernel)
  /\ kernel.loop = Len(kernel.loops)
  /\ kernel' = [at |-> "returned", T |-> kernel.T, op |-> kernel.op,
                n |-> kernel.n, out |-> kernel.out,
                diff |-> IF kernel.op = "Cosine"
                         THEN GetBase(kernel.T) * GetBase(kernel.T) - kernel.acc[0]
                         ELSE kernel.acc[0]]

KernelNext == Iterate \/ NextLoop \/ KernelReturn

(***************************************************************************)
(* Properties.                                                              *)
(***************************************************************************)
\* Every kernel a machine may choose returns what the definition of the
\* distance says, whatever the length is: no element is left out, used twice
\* or read beyond the end, no lane is forgotten when registers are narrowed,
\* and 8 and 16 bit elements are widened as their type says; the sum changes
\* each element of the first vector exactly once and wraps in its width
\* (DistanceUtils.cpp and SIMDUtils.cpp, 36 kernels that differ in their block
\* sizes and of which a machine only ever runs a third).
KernelsAgree ==
  LET T == kernel.T
      n == kernel.n
      X == [i \in 0 .. n - 1 |-> KernelX(T, i)]
      Y == [i \in 0 .. n - 1 |-> KernelY(T, i)]
      Sum(F(_, _, _, _)) == MapThenSumSet(LAMBDA i : F(T, X, Y, i), 0 .. n - 1)
      w == [int8 |-> 8, uint8 |-> 8, int16 |-> 16, float |-> 30]
  IN  /\ kernel.at = "loop" => kernel.pos <= n
      /\ kernel.at = "returned" =>
           CASE kernel.op = "L2" -> kernel.diff = Sum(SqDf)
             [] kernel.op = "Cosine" -> kernel.diff = GetBase(T) ^ 2 - Sum(Mul)
             [] kernel.op = "Sum" ->
                  /\ DOMAIN kernel.out = 0 .. n - 1
                  /\ \A i \in 0 .. n - 1 :
                       (kernel.out[i] - X[i] - Y[i]) % 2 ^ w[T] = 0
=============================================================================
