------------------------------ MODULE SpanUtil ------------------------------
(***************************************************************************)
(* util/span_util.h: how a list of `size` elements is cut into n spans.    *)
(* The orchestrator uses it to give each worker thread its CPUs and each   *)
(* loader thread its shards; simple_fix_tool to give each worker its       *)
(* blobs.  A span is modelled by its first position and its length,        *)
(* positions count from 0 as in the code.                                  *)
(***************************************************************************)
EXTENDS Integers, Sequences

\* min_span_size, plus one for the first size % n spans.
SpanSize(size, n, i) ==
    (size \div n) + (IF i < size % n THEN 1 ELSE 0)

\* Mutant: the longer spans are forgotten.
SpanBegin_NoRemainder(size, n) ==
    [i \in 0..n |-> i * (size \div n)]

\* The loop over i: span i starts where span i-1 ended (`current`).
SpanBegin(size, n) ==
    LET current[i \in 0..n] ==
          IF i = 0 THEN 0 ELSE current[i-1] + SpanSize(size, n, i-1)
    IN  current

\* The positions of v that each of the n spans covers.
PartitionEvenly(size, n) ==
    [i \in 0..(n-1) |->
        SpanBegin(size, n)[i] .. (SpanBegin(size, n)[i] + SpanSize(size, n, i) - 1)]

\* The sums of the first i elements of s.
Sums(s) ==
    LET sum[i \in 0..Len(s)] == IF i = 0 THEN 0 ELSE sum[i - 1] + s[i]
    IN  sum

=============================================================================
