------------------------------ MODULE RangeMap ------------------------------
(***************************************************************************)
(* util/range_map.h: a map from disjoint right-open key ranges to values.  *)
(* The std::map of the class is a sequence of records in key order.  What  *)
(* a value is and how two of them are combined comes with the Methods      *)
(* class of the template: here, the operators the module is instantiated   *)
(* with.  An operator that may leave no value to keep returns a sequence   *)
(* of at most one value.  The `usage` accounting, which no user of the     *)
(* class asks for, is left out.                                            *)
(***************************************************************************)
EXTENDS Integers, Sequences, FiniteSets
LOCAL Seqs == INSTANCE SequencesExt

CONSTANTS
    Slice(_, _, _, _, _),   \* value of [start, limit) cut to [s, l)
    AddTo(_, _),            \* dest and v combined
    RemoveFrom(_, _),       \* <<what is left of dest>> or <<>>
    CanMerge(_, _),         \* may the values of touching ranges be merged?
    MergeValues(_, _),      \* the value of the merged range
    MakeIntersection(_, _), \* <<value>> or <<>>
    MakeDifference(_, _)    \* <<value>> or <<>>

Entry(start, limit, value) ==
    [start |-> start, limit |-> limit, value |-> value]

(* Position of the first range that starts at or after k: map_.lower_bound
   and map_.upper_bound of {k, k} agree, a range is never empty.           *)
FirstFrom(m, k) == Cardinality({i \in DOMAIN m : m[i].start < k}) + 1

(* LowerBound(): the first range that contains or follows k.               *)
LowerBound(m, k) == Cardinality({i \in DOMAIN m : m[i].limit <= k}) + 1

UpperBound(m, k) == FirstFrom(m, k)

(* Find(start, limit): the ranges that overlap [start, limit).             *)
Find(m, start, limit) ==
    IF start = limit THEN <<>>
    ELSE SubSeq(m, LowerBound(m, start), UpperBound(m, limit) - 1)

(* FindAt(key): the range that contains key, as a sequence of at most one. *)
FindAt(m, key) == SelectSeq(m, LAMBDA i : i.start <= key /\ key < i.limit)

Lesser(a, b) == IF a < b THEN a ELSE b
Greater(a, b) == IF a < b THEN b ELSE a

(* Merge(Find(start, limit)): the ranges of [start, limit), the one before
   and the one after them are merged where they touch.                     *)
MergeNext(done, i) ==
    IF /\ done # <<>>
       /\ Seqs!Last(done).limit = i.start
       /\ CanMerge(Seqs!Last(done).value, i.value)
    THEN Append(Seqs!Front(done),
                Entry(Seqs!Last(done).start, i.limit,
                      MergeValues(Seqs!Last(done).value, i.value)))
    ELSE Append(done, i)

MergeFromTo(m, from, to) ==
    SubSeq(m, 1, from - 1)
        \o Seqs!FoldLeft(MergeNext, <<>>, SubSeq(m, from, to))
        \o SubSeq(m, to + 1, Len(m))

Merge(m, start, limit) ==
    MergeFromTo(m, Greater(LowerBound(m, start) - 1, 1),
                Lesser(UpperBound(m, limit), Len(m)))

(* The part [s, l) of a stored range.                                      *)
Cut(i, s, l) == Entry(s, l, Slice(i.start, i.limit, i.value, s, l))

(* ChangeValue(): the entry with the new value, or nothing to keep.        *)
ChangeValue(i, value, mode) ==
    IF mode = "kAdd" THEN <<[i EXCEPT !.value = AddTo(i.value, value)]>>
    ELSE LET left == RemoveFrom(i.value, value)
         IN  [n \in DOMAIN left |-> [i EXCEPT !.value = left[n]]]

(* What Change() makes of a range that overlaps x, the range to add or to
   remove: an untouched prefix, the changed part, an untouched suffix.     *)
SplitAt(i, s, l, x, mode) ==
    (IF i.start < s THEN <<Cut(i, i.start, s)>> ELSE <<>>)
        \o ChangeValue(Cut(i, s, l), Cut(x, s, l).value, mode)
        \o (IF l < i.limit THEN <<Cut(i, l, i.limit)>> ELSE <<>>)

SplitUp(i, x, mode) ==
    SplitAt(i, Greater(i.start, x.start), Lesser(i.limit, x.limit), x, mode)

(* What no range covers is filled by an Add().                             *)
Fill(prev, next, x, mode) ==
    IF mode = "kAdd" /\ prev < next THEN <<Cut(x, prev, next)>> ELSE <<>>

(* The loop of Change() over the ranges found.  prev is where the part of x
   not yet looked at begins.                                               *)
Visited(found, x, mode) ==
    Seqs!FoldLeft(LAMBDA seen, i :
                 [out |-> seen.out \o Fill(seen.prev, i.start, x, mode)
                                   \o SplitUp(i, x, mode),
                  prev |-> i.limit],
             [out |-> <<>>, prev |-> x.start], found)

(* The ranges from first up to before last are replaced.                   *)
Replaced(m, first, last, end, x, mode) ==
    SubSeq(m, 1, first - 1) \o end.out \o Fill(end.prev, x.limit, x, mode)
        \o SubSeq(m, last, Len(m))

(* Change(): Add() and Remove().                                           *)
Change(m, x, mode) ==
    Merge(Replaced(m, LowerBound(m, x.start), UpperBound(m, x.limit),
                   Visited(SubSeq(m, LowerBound(m, x.start),
                                  UpperBound(m, x.limit) - 1), x, mode),
                   x, mode),
          x.start, x.limit)

Add(m, start, limit, value) == Change(m, Entry(start, limit, value), "kAdd")

Remove(m, start, limit, value) == Change(m, Entry(start, limit, value), "kRemove")

(* Covers(): [start, limit) has no gap.                                    *)
HasNoGap(found, start, limit) ==
    IF found = <<>> THEN start = limit
    ELSE /\ found[1].start <= start
         /\ \A n \in 2 .. Len(found) : found[n].start <= found[n - 1].limit
         /\ Seqs!Last(found).limit >= limit

Covers(m, start, limit) == HasNoGap(Find(m, start, limit), start, limit)

(* AddIntersectionOf(map_x, start, limit, value_y), then over map_y.       *)
AddIntersectionOfRange(m, x, y) ==
    LET AddAt(acc, i, s, l) ==
            LET both == MakeIntersection(Cut(i, s, l).value, Cut(y, s, l).value)
            IN  IF both = <<>> THEN acc ELSE Add(acc, s, l, both[1])
    IN  Seqs!FoldLeft(LAMBDA acc, i : AddAt(acc, i, Greater(y.start, i.start),
                                            Lesser(i.limit, y.limit)),
                      m, Find(x, y.start, y.limit))

AddIntersectionOf(m, x, y) ==
    Seqs!FoldLeft(LAMBDA acc, i : AddIntersectionOfRange(acc, x, i), m, y)

(* AddDifferenceOf(start, limit, value_x, map_y): where map_y has nothing,
   value_x as it is; where it has something, the difference of the values. *)
AddAll(m, ranges) ==
    Seqs!FoldLeft(LAMBDA acc, i : Add(acc, i.start, i.limit, i.value), m, ranges)

Difference(x, i, s, l) ==
    LET diff == MakeDifference(Cut(x, s, l).value, Cut(i, s, l).value)
    IN  [n \in DOMAIN diff |-> Entry(s, l, diff[n])]

Differences(x, found) ==
    Seqs!FoldLeft(LAMBDA seen, i :
                 [out |-> seen.out \o Difference(x, i, Greater(x.start, i.start),
                                                Lesser(i.limit, x.limit))
                                   \o Fill(seen.prev, i.start, x, "kAdd"),
                  prev |-> i.limit],
             [out |-> <<>>, prev |-> x.start], found)

AddDifferenceOf(m, start, limit, value_x, y) ==
    LET x == Entry(start, limit, value_x)
        end == Differences(x, Find(y, start, limit))
    IN  AddAll(m, end.out \o Fill(end.prev, limit, x, "kAdd"))

(* The form in which the class keeps its ranges, on which operator== of
   all its users rests: in order, not empty, not overlapping, and merged
   wherever two of them touch and may be.                                  *)
IsCanonical(m) ==
    /\ \A n \in DOMAIN m : m[n].start < m[n].limit
    /\ \A n \in 2 .. Len(m) :
           \/ m[n - 1].limit < m[n].start
           \/ /\ m[n - 1].limit = m[n].start
              /\ ~CanMerge(m[n - 1].value, m[n].value)

(* The addresses of a range map.                                           *)
Keys(m) == UNION {i.start .. (i.limit - 1) : i \in {m[n] : n \in DOMAIN m}}
=============================================================================
