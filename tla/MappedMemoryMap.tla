-------------------------- MODULE MappedMemoryMap --------------------------
(***************************************************************************)
(* The three users of RangeMap: common/mapped_memory_map (address ranges   *)
(* with permissions), common/memory_bytes_set (a set of addresses kept as  *)
(* ranges) and the byte map inside common/memory_state (ranges with the    *)
(* bytes written to them).  Permissions (common/memory_perms) are sets of  *)
(* the four bits; the byte data of a range is a sequence as long as it.    *)
(***************************************************************************)
EXTENDS Integers, Sequences, FiniteSets
LOCAL INSTANCE SequencesExt

Readable == "r"
Writable == "w"
Executable == "x"
Mapped == "m"
None == {}
All == {Readable, Writable, Executable}
AllPlusMapped == All \cup {Mapped}

(* MemoryPermsMethods.                                                     *)
PermsSlice(start, limit, v, s, l) == v
PermsAddTo(dest, v) == dest \cup v
PermsRemoveFrom(dest, v) == IF dest \subseteq v THEN <<>> ELSE <<dest \ v>>
PermsCanMerge(v1, v2) == v1 = v2
PermsMerge(dest, v) == dest
PermsIntersection(v1, v2) == IF v1 \cap v2 = {} THEN <<>> ELSE <<v1 \cap v2>>

(* Mutant: equal is taken for included.                                  *)
PermsDifference_Less(v1, v2) == IF v1 \subseteq v2 THEN <<>> ELSE <<v1 \ v2>>

PermsDifference(v1, v2) == IF v1 = v2 THEN <<>> ELSE <<v1 \ v2>>

PermsMap == INSTANCE RangeMap WITH
    Slice <- PermsSlice, AddTo <- PermsAddTo, RemoveFrom <- PermsRemoveFrom,
    CanMerge <- PermsCanMerge, MergeValues <- PermsMerge,
    MakeIntersection <- PermsIntersection, MakeDifference <- PermsDifference

(* MemoryBytesSetMethods: the value does not matter.                       *)
DummySlice(start, limit, v, s, l) == v
DummyAddTo(dest, v) == FALSE
DummyRemoveFrom(dest, v) == <<>>
DummyCanMerge(v1, v2) == TRUE
DummyMerge(dest, v) == FALSE
DummyIntersection(v1, v2) == <<FALSE>>
DummyDifference(v1, v2) == <<>>

BytesSet == INSTANCE RangeMap WITH
    Slice <- DummySlice, AddTo <- DummyAddTo, RemoveFrom <- DummyRemoveFrom,
    CanMerge <- DummyCanMerge, MergeValues <- DummyMerge,
    MakeIntersection <- DummyIntersection, MakeDifference <- DummyDifference

(* Mutant: the slice is always taken from the start.                     *)
BytesSlice_FromStart(start, limit, v, s, l) ==
    IF v = <<>> THEN v ELSE SubSeq(v, 1, l - s)

(* MemoryBytesMethods of MemoryState: a plain overwrite, touching ranges
   are concatenated, the empty byte data stands for any in a removal.      *)
BytesSlice(start, limit, v, s, l) ==
    IF v = <<>> THEN v ELSE SubSeq(v, s - start + 1, l - start)
BytesAddTo(dest, v) == v
BytesRemoveFrom(dest, v) == <<>>
BytesCanMerge(v1, v2) == TRUE
BytesMerge(dest, v) == dest \o v
BytesIntersection(v1, v2) == <<v1>>
BytesDifference(v1, v2) == <<v1>>

BytesMap == INSTANCE RangeMap WITH
    Slice <- BytesSlice, AddTo <- BytesAddTo, RemoveFrom <- BytesRemoveFrom,
    CanMerge <- BytesCanMerge, MergeValues <- BytesMerge,
    MakeIntersection <- BytesIntersection, MakeDifference <- BytesDifference

-----------------------------------------------------------------------------
(* MappedMemoryMap.                                                        *)
MapAdd(m, start, limit, perms) == PermsMap!Add(m, start, limit, perms)

MapSet(m, start, limit, perms) ==
    PermsMap!Add(PermsMap!Remove(m, start, limit, AllPlusMapped),
                 start, limit, perms)

MapRemove(m, start, limit, perms) == PermsMap!Remove(m, start, limit, perms)

(* RemoveRangesOf(): the loop over the ranges of m.  A removal may merge or
   erase the current range, so the loop remembers only its limit and looks
   the next range r up from there.                                         *)
RemoveFoundIn(at, r, y, perms) ==
    [map |-> FoldLeft(LAMBDA acc, i : MapRemove(acc, i.start, i.limit, perms),
                      at.map, PermsMap!Find(y, r.start, r.limit)),
     limit |-> r.limit]

RemoveRound(at, n, y, perms) ==
    IF n > Len(at.map) THEN at ELSE RemoveFoundIn(at, at.map[n], y, perms)

RemoveRangesOf(m, y, perms) ==
    FoldLeft(LAMBDA at, n :
                 RemoveRound(at, PermsMap!LowerBound(at.map, at.limit), y, perms),
             [map |-> m, limit |-> 0],
             [n \in 1 .. Len(m) + 2 * Len(y) |-> n]).map

ContainsAddress(m, a) == PermsMap!FindAt(m, a) # <<>>

PermsAt(m, a) == UNION {r.value : r \in ToSet(PermsMap!FindAt(m, a))}

MapContains(m, start, limit) == PermsMap!Covers(m, start, limit)

Overlaps(m, start, limit) == PermsMap!Find(m, start, limit) # <<>>

(* Perms(start, limit, mode): what no range covers has no permissions.     *)
PermsOr(m, start, limit) ==
    UNION {r.value : r \in ToSet(PermsMap!Find(m, start, limit))}

CommonPerms(found) ==
    {p \in AllPlusMapped : \A n \in DOMAIN found : p \in found[n].value}

PermsAnd(m, start, limit) ==
    IF start >= limit \/ ~PermsMap!Covers(m, start, limit) THEN None
    ELSE CommonPerms(PermsMap!Find(m, start, limit))

(* MemoryBytesSet.                                                         *)
SetAdd(s, start, limit) == BytesSet!Add(s, start, limit, FALSE)

SetRemove(s, start, limit) == BytesSet!Remove(s, start, limit, FALSE)

IsDisjointFrom(s, start, limit) == BytesSet!Find(s, start, limit) = <<>>
=============================================================================
