---------------------------- MODULE MemoryState ----------------------------
(***************************************************************************)
(* common/memory_state: what is known of the memory of a process that      *)
(* plays snapshots, and the commands that bring it to the state a snapshot *)
(* asks for.  Three range maps are kept in step: the mapped ranges with    *)
(* their permissions, the written ranges, and the bytes written to them.   *)
(***************************************************************************)
EXTENDS Snapshot

CONSTANTS
    Writes,            \* MemoryBytes written to a MemoryState
    Snapshots,         \* the snapshots to play, made through the Snapshot API
    kMinSkipOverBytes, \* equal bytes that end a run of changed ones
    Unknown,           \* a byte nothing is known of
    MaxCalls           \* bound: calls on a MemoryState

ASSUME MemoryStateAssumption ==
    /\ kMinSkipOverBytes \in Nat \ {0}
    /\ MaxCalls \in Nat

VARIABLES
    mem,   \* [mapped, written, bytes]
    calls  \* number of calls made

EmptyState == [mapped |-> <<>>, written |-> <<>>, bytes |-> <<>>]

-----------------------------------------------------------------------------
(* Mutators, as functions of a state.                                      *)

AddNewMemoryMapping(ms, m) ==
    [ms EXCEPT !.mapped = MapAdd(@, m.start, m.limit, m.perms \cup {Mapped})]

SetMemoryMapping(ms, m) ==
    [ms EXCEPT !.mapped = MapSet(@, m.start, m.limit, m.perms \cup {Mapped})]

RemoveMemoryMapping(ms, start, limit) ==
    [mapped |-> MapRemove(ms.mapped, start, limit, AllPlusMapped),
     written |-> SetRemove(ms.written, start, limit),
     bytes |-> BytesMap!Remove(ms.bytes, start, limit, <<>>)]

(* The mapped ranges that a snapshot does not have.                        *)
ExtraMappings(ms, s) == RemoveRangesOf(ms.mapped, s.map, AllPlusMapped)

RemoveMemoryMappingsNotIn(ms, s) ==
    Seqs!FoldLeft(LAMBDA acc, i : RemoveMemoryMapping(acc, i.start, i.limit),
                  ms, ExtraMappings(ms, s))

ClearMemoryMappingsPermsNotIn(ms, s) ==
    Seqs!FoldLeft(LAMBDA acc, i :
                      [acc EXCEPT !.mapped = MapRemove(@, i.start, i.limit, All)],
                  ms, ExtraMappings(ms, s))

SetMemoryBytes(ms, b) ==
    [ms EXCEPT !.written = SetAdd(@, b.start, Limit(b)),
               !.bytes = BytesMap!Add(@, b.start, Limit(b), b.values)]

SetMemoryBytesList(ms, list) == Seqs!FoldLeft(SetMemoryBytes, ms, list)

ForgetMemoryBytes(ms, start, limit) ==
    [ms EXCEPT !.bytes = BytesMap!Remove(@, start, limit, <<>>)]

Zeros(start, limit) == MemoryBytes(start, [n \in 1 .. limit - start |-> 0])

ZeroMappedMemoryBytes(ms, m) == SetMemoryBytes(ms, Zeros(m.start, m.limit))

(* The parts of the mapped memory that s wants to be without a permission
   they have, ranges that s maps itself left out.                          *)
DeniedParts(ms, s) ==
    PermsMap!AddIntersectionOf(
        <<>>, ms.mapped, RemoveRangesOf(s.negative_map, s.map, AllPlusMapped))

DenyNegatives(ms, s) ==
    Seqs!FoldLeft(LAMBDA acc, i :
        [acc EXCEPT !.mapped = MapRemove(@, i.start, i.limit, i.value)],
        ms, DeniedParts(ms, s))

ZeroAll(ms, ranges) == Seqs!FoldLeft(ZeroMappedMemoryBytes, ms, ranges)

SetInitialState(ms, s, zero) ==
    SetMemoryBytesList(
        ZeroAll(DenyNegatives(Seqs!FoldLeft(SetMemoryMapping, ms, s.mappings), s),
                IF zero THEN RemoveRangesOf(s.map, ms.mapped, AllPlusMapped)
                ELSE <<>>),
        s.bytes)

MakeInitial(s, zero) == SetInitialState(EmptyState, s, zero)

(* MakeEnd(snapshot, end_state_index).                                     *)
MakeEnd(s, n, zero) ==
    SetMemoryBytesList(
        ZeroAll(Seqs!FoldLeft(AddNewMemoryMapping, EmptyState, s.mappings),
                IF zero THEN s.mappings ELSE <<>>),
        s.bytes \o s.end_states[n].bytes)

(* memory_bytes_list(written_memory()).                                    *)
BytesAt(r, w) ==
    MemoryBytes(w.start, BytesSlice(r.start, r.limit, r.value, w.start, w.limit))

memory_bytes_list(ms) ==
    [n \in DOMAIN ms.written |->
        BytesAt(BytesMap!FindAt(ms.bytes, ms.written[n].start)[1], ms.written[n])]

-----------------------------------------------------------------------------
(* Commands for the difference to a wanted state.                          *)

Cmd(action, start, limit, perms) ==
    [action |-> action, start |-> start, limit |-> limit, perms |-> perms]

(* DeltaMemoryMapping(): nothing where the memory is mapped just so, a
   kProtect where it is mapped otherwise, a kMap where it is not mapped.   *)
CmdsFor(delta, wanted) ==
    [n \in DOMAIN delta |->
        Cmd(IF delta[n].value = wanted \cup {Mapped} THEN "kMap" ELSE "kProtect",
            delta[n].start, delta[n].limit, wanted)]

DeltaMemoryMapping(ms, m, added_perms) ==
    IF ms.mapped = <<>>
    THEN <<Cmd("kMap", m.start, m.limit, m.perms \cup added_perms)>>
    ELSE CmdsFor(PermsMap!AddDifferenceOf(<<>>, m.start, m.limit,
                                          m.perms \cup added_perms \cup {Mapped},
                                          ms.mapped),
                 m.perms \cup added_perms)

DeltasOf(ms, list, added_perms) ==
    Seqs!FlattenSeq([n \in DOMAIN list |->
                        DeltaMemoryMapping(ms, list[n], added_perms)])

(* DeltaMemoryMappings(): also a kProtect for what the snapshot denies,
   with the permissions that all of the range keeps.                       *)
DenyCmds(ms, delta) ==
    [n \in DOMAIN delta |->
        Cmd("kProtect", delta[n].start, delta[n].limit,
            PermsAnd(ms.mapped, delta[n].start, delta[n].limit)
                \ (delta[n].value \cup {Mapped}))]

DeltaMemoryMappings(ms, s, added_perms) ==
    DeltasOf(ms, s.mappings, added_perms)
        \o DenyCmds(ms, IF s.negatives = <<>> \/ ms.mapped = <<>> THEN <<>>
                        ELSE DeniedParts(ms, s))

(* DeltaMemoryMappingsExact(): also a kUnmap, or a kProtect without any
   permissions, for what the snapshot does not have.                       *)
UnmapCmds(extra) ==
    [n \in DOMAIN extra |->
        Cmd("kUnmap", extra[n].start, extra[n].limit, {Readable})]
SealCmds(extra) ==
    [n \in DOMAIN extra |->
        Cmd("kProtect", extra[n].start, extra[n].limit, None)]

DeltaMemoryMappingsExact(ms, s, added_perms, mode) ==
    DeltasOf(ms, s.mappings, added_perms)
        \o IF mode = "kUnmapUnused" THEN UnmapCmds(ExtraMappings(ms, s))
           ELSE SealCmds(SelectSeq(ExtraMappings(ms, s),
                                   LAMBDA i : i.value \cap All # {}))

(* GrowResultChunk(): bytes [addr, addr + size) of b are passed on.  They
   join the current chunk if it ends less than kMinSkipOverBytes before
   them.                                                                   *)
GrowResultChunk(b, addr, size, chunks) ==
    LET chunk == Seqs!Last(chunks)
    IN  IF chunks # <<>> /\ addr - Limit(chunk) < kMinSkipOverBytes
        THEN Append(Seqs!Front(chunks), BytesIn(b, chunk.start, addr + size))
        ELSE Append(chunks, BytesIn(b, addr, addr + size))

(* DeltaMemoryBytes(): byte by byte up to the end of the last overlapping
   written range, then the tail in one piece.                              *)
ComparedEnd(b, over) ==
    IF over # <<>> /\ Seqs!Last(over).limit < Limit(b) THEN Seqs!Last(over).limit
    ELSE Limit(b)

DiffersAt(b, addr, at) ==
    \/ at = <<>>
    \/ at[1].value[addr - at[1].start + 1] # b.values[addr - b.start + 1]

Compare(b, over, end) ==
    Seqs!FoldLeft(LAMBDA chunks, addr :
                      IF DiffersAt(b, addr, BytesMap!FindAt(over, addr))
                      THEN GrowResultChunk(b, addr, 1, chunks) ELSE chunks,
                  <<>>, [n \in 1 .. end - b.start |-> b.start + n - 1])

CompareToEnd(b, over, end) ==
    IF end < Limit(b)
    THEN GrowResultChunk(b, end, Limit(b) - end, Compare(b, over, end))
    ELSE Compare(b, over, end)

CompareOver(b, over) == CompareToEnd(b, over, ComparedEnd(b, over))

DeltaMemoryBytes(ms, b) ==
    IF BytesMap!LowerBound(ms.bytes, b.start) > Len(ms.bytes) THEN <<b>>
    ELSE CompareOver(b, BytesMap!Find(ms.bytes, b.start, Limit(b)))

(* What the harness does with a command: mmap(), mprotect(), munmap().     *)
ApplyCmd(ms, cmd) ==
    IF cmd.action = "kUnmap" THEN RemoveMemoryMapping(ms, cmd.start, cmd.limit)
    ELSE SetMemoryMapping(ms, cmd)

ApplyCmds(ms, cmds) == Seqs!FoldLeft(ApplyCmd, ms, cmds)

-----------------------------------------------------------------------------
(* The actions: one call on the MemoryState.                               *)

MemInit == mem = EmptyState /\ calls = 0

Call(new) ==
    /\ calls < MaxCalls
    /\ calls' = calls + 1
    /\ mem' = new

DoAddNewMemoryMapping ==
    \E m \in MappingInputs :
        /\ ~Overlaps(mem.mapped, m.start, m.limit)
        /\ Call(AddNewMemoryMapping(mem, m))

(* SetMemoryMapping() and, without permissions,
   SetMemoryMappingEmptyPermsOk().                                         *)
DoSetMemoryMapping ==
    \E m \in MappingInputs, perms \in {x.perms : x \in MappingInputs} \cup {None} :
        Call(SetMemoryMapping(mem, [m EXCEPT !.perms = perms]))

DoRemoveMemoryMapping ==
    \E m \in MappingInputs : Call(RemoveMemoryMapping(mem, m.start, m.limit))

DoRemoveMemoryMappingsNotIn ==
    \E s \in Snapshots : Call(RemoveMemoryMappingsNotIn(mem, s))

DoClearMemoryMappingsPermsNotIn ==
    \E s \in Snapshots : Call(ClearMemoryMappingsPermsNotIn(mem, s))

DoSetMemoryBytes ==
    \E b \in Writes :
        /\ MapContains(mem.mapped, b.start, Limit(b))
        /\ Call(SetMemoryBytes(mem, b))

DoZeroMappedMemoryBytes ==
    \E m \in MappingInputs :
        /\ MapContains(mem.mapped, m.start, m.limit)
        /\ Call(ZeroMappedMemoryBytes(mem, m))

DoForgetMemoryBytes ==
    \E m \in MappingInputs : Call(ForgetMemoryBytes(mem, m.start, m.limit))

DoSetInitialState ==
    \E s \in Snapshots, zero \in BOOLEAN : Call(SetInitialState(mem, s, zero))

MemNext ==
    \/ DoAddNewMemoryMapping
    \/ DoSetMemoryMapping
    \/ DoRemoveMemoryMapping
    \/ DoRemoveMemoryMappingsNotIn
    \/ DoClearMemoryMappingsPermsNotIn
    \/ DoSetMemoryBytes
    \/ DoZeroMappedMemoryBytes
    \/ DoForgetMemoryBytes
    \/ DoSetInitialState

-----------------------------------------------------------------------------
(* The state by address, and what it should be.                            *)

ByteIn(at, a) ==
    IF at = <<>> THEN Unknown ELSE at[1].value[a - at[1].start + 1]
ByteAt(ms, a) == ByteIn(BytesMap!FindAt(ms.bytes, a), a)

ImageOf(s) ==
    [perms |-> [a \in Addresses |-> ListedPerms(s.mappings, a)],
     denied |-> [a \in Addresses |-> ListedPerms(s.negatives, a)],
     bytes |-> [a \in Addresses |->
         IF ListedBytes(s.bytes, a) = {} THEN Unknown
         ELSE CHOOSE v \in ListedBytes(s.bytes, a) : TRUE]]

Abstract == INSTANCE AddressSpace WITH
    Protections <- {[lo |-> m.start, hi |-> m.limit, perms |-> p] :
                        m \in MappingInputs,
                        p \in {x.perms : x \in MappingInputs} \cup {None}},
    Writes <- {[a \in b.start .. (Limit(b) - 1) |-> b.values[a - b.start + 1]] :
                   b \in Writes},
    Images <- {ImageOf(s) : s \in Snapshots},
    perms <- [a \in Addresses |-> PermsAt(mem.mapped, a)],
    bytes <- [a \in Addresses |-> ByteAt(mem, a)]

(* Range by range is byte by byte: every call does to the range maps what
   AddressSpace says it does to each address, however the ranges were
   split, merged and sliced by the calls before it.                        *)
AddressSpaceSpec == Abstract!Spec

(* The ranges are in order, disjoint, not empty, and merged wherever two
   of them touch: operator== compares the ranges.  All that is written is
   mapped, and what is known was written.                                  *)
Canonical ==
    /\ PermsMap!IsCanonical(mem.mapped)
    /\ BytesSet!IsCanonical(mem.written)
    /\ BytesMap!IsCanonical(mem.bytes)
    /\ \A n \in DOMAIN mem.bytes :
           Len(mem.bytes[n].value) = mem.bytes[n].limit - mem.bytes[n].start
    /\ BytesMap!Keys(mem.bytes) \subseteq BytesSet!Keys(mem.written)
    /\ BytesSet!Keys(mem.written) \subseteq PermsMap!Keys(mem.mapped)
    /\ \A n \in DOMAIN mem.mapped : Mapped \in mem.mapped[n].value

EndIsRight(start, end, changed) ==
    \A a \in Addresses :
        /\ PermsAt(end.mapped, a) = PermsAt(start.mapped, a)
        /\ IF ListedBytes(changed, a) = {} THEN ByteAt(end, a) = ByteAt(start, a)
           ELSE {ByteAt(end, a)} = ListedBytes(changed, a)

PlayedAlike(s, n, start) ==
    /\ MakeInitial(n, TRUE) = start
    /\ \A a \in Addresses :
           ByteAt(start, a) = Unknown <=> ListedPerms(s.mappings, a) = {}
    /\ \A k \in DOMAIN s.end_states :
           \A end \in {MakeEnd(s, k, TRUE), MakeEnd(n, k, TRUE)} :
               EndIsRight(start, end, s.end_states[k].bytes)

NormalizedIsAlike(s, n) ==
    /\ NormalizeKeepsContents(s, n)
    /\ PlayedAlike(s, n, MakeInitial(s, TRUE))

(* After every call a snapshot has its guarantees, and normalizing it
   changes none of what is played: the memory it starts with, where all
   that is not given is zero, and the memory of each end state, which
   differs from it only in the bytes of the end state.  The guarantee that
   negative mappings do not conflict with mappings is kept by every call but
   set_memory_mapping_perms().                                             *)
SnapshotGuarantees ==
    /\ Guarantees(snap)
    /\ NormalizedIsAlike(snap, NormalizeAll(snap))
    /\ NegativesStayApart(snap)

WithPerms(list, added) ==
    [n \in DOMAIN list |-> [list[n] EXCEPT !.perms = @ \cup added]]

DeltaMappingRight(m, wanted, cmds) ==
    /\ ApplyCmds(mem, cmds).mapped
           = SetMemoryMapping(mem, [m EXCEPT !.perms = wanted]).mapped
    /\ \A n \in DOMAIN cmds : \A a \in cmds[n].start .. (cmds[n].limit - 1) :
           /\ PermsAt(mem.mapped, a) # wanted \cup {Mapped}
           /\ cmds[n].action = "kMap" <=> PermsAt(mem.mapped, a) = {}

DeltaExactRight(alone, unmapped, sealed) ==
    /\ unmapped.mapped = alone
    /\ \A a \in Addresses :
           PermsAt(sealed.mapped, a) =
               IF PermsAt(alone, a) # {} THEN PermsAt(alone, a)
               ELSE PermsAt(mem.mapped, a) \ All

ApplyExact(s, added, mode) ==
    ApplyCmds(mem, DeltaMemoryMappingsExact(mem, s, added, mode))

DeltaSnapshotRight(s, added, after) ==
    \A a \in Addresses :
        IF PermsAt(s.map, a) # {}
        THEN PermsAt(after, a) = PermsAt(s.map, a) \cup added \cup {Mapped}
        ELSE /\ PermsAt(after, a) \cap PermsAt(s.negative_map, a) = {}
             /\ PermsAt(after, a) \subseteq PermsAt(mem.mapped, a)
             /\ Mapped \in PermsAt(mem.mapped, a) => Mapped \in PermsAt(after, a)

DeltaBytesRight(b, delta) ==
    /\ DisjointBytes(delta)
    /\ SetMemoryBytesList(mem, delta).bytes = SetMemoryBytes(mem, b).bytes
    /\ \A n \in DOMAIN delta :
           /\ ByteAt(mem, delta[n].start) # delta[n].values[1]
           /\ ByteAt(mem, Limit(delta[n]) - 1) # Seqs!Last(delta[n].values)

(* The range maps stay canonical; "applying the commands of x has the same
   effect on *this as SetMemoryMappings(y)", for a mapping and for a
   snapshot with anything else unmapped or sealed; "SetMemoryBytes(x) still
   has the same effect on *this as SetMemoryBytes(bytes)"; and nothing is
   commanded for memory that is as it should be.  A call may leave the empty
   state: nothing is lost by looking only at what calls have made.         *)
DeltasRight ==
    calls > 0 =>
        /\ Canonical
        /\ \A m \in MappingInputs, added \in {None, {Writable}} :
               DeltaMappingRight(m, m.perms \cup added,
                                 DeltaMemoryMapping(mem, m, added))
        /\ \A s \in Snapshots, added \in {None, {Writable}} :
               /\ DeltaExactRight(
                      Seqs!FoldLeft(AddNewMemoryMapping, EmptyState,
                                    WithPerms(s.mappings, added)).mapped,
                      ApplyExact(s, added, "kUnmapUnused"),
                      ApplyExact(s, added, "kProtectUnused"))
               /\ DeltaSnapshotRight(s, added,
                      ApplyCmds(mem, DeltaMemoryMappings(mem, s, added)).mapped)
        /\ \A b \in Writes : DeltaBytesRight(b, DeltaMemoryBytes(mem, b))
=============================================================================
