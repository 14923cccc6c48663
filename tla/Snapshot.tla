------------------------------ MODULE Snapshot ------------------------------
(***************************************************************************)
(* common/snapshot: the memory mappings, memory bytes, registers and       *)
(* expected end states of a snapshot, kept consistent by can_add_*() tests *)
(* that the caller makes before each add_*().  Lists are kept in the order *)
(* of the calls, next to maps by address that the tests consult.           *)
(* Not modelled: the id, metadata, trace data and register checksums of a  *)
(* snapshot, which no test relates to anything else.                       *)
(***************************************************************************)
EXTENDS MappedMemoryMap

CONSTANTS
    PageSize,        \* page_size()
    MaxAddress,      \* kMaxAddress: the last address, of width addresses
    StackSize,       \* required_stack_size()
    Platforms,       \* PlatformIds callers pass in
    MappingInputs,   \* MemoryMappings callers pass in
    BytesInputs,     \* MemoryBytes callers pass in
    RegisterInputs,  \* RegisterStates callers pass in
    EndStateInputs,  \* EndStates callers pass in
    MaxListed        \* bound: entries of each list of a snapshot

ASSUME SizesAssumption ==
    /\ PageSize \in Nat \ {0}
    /\ MaxAddress \in Nat
    /\ (MaxAddress + 1) % PageSize = 0
    /\ StackSize \in Nat \ {0}
    /\ MaxListed \in Nat

VARIABLE snap  \* the Snapshot under construction

Seqs == INSTANCE SequencesExt

-----------------------------------------------------------------------------
(* MemoryMapping: the range [start, limit) with perms, without Mapped.     *)
Mapping(start, limit, perms) ==
    [start |-> start, limit |-> limit, perms |-> perms]

CanMakeSized(start, num_bytes) ==
    num_bytes > 0 /\ start <= MaxAddress - num_bytes

(* MemoryBytes: byte values from address start on.                         *)
MemoryBytes(start, values) == [start |-> start, values |-> values]
Limit(b) == b.start + Len(b.values)
BytesIn(b, start, limit) ==
    MemoryBytes(start, SubSeq(b.values, start - b.start + 1, limit - b.start))

(* MemoryBytesListEq(): equal as sorted lists; the entries are disjoint.   *)
MemoryBytesListEq(x, y) == Len(x) = Len(y) /\ Seqs!ToSet(x) = Seqs!ToSet(y)

(* Endpoint, RegisterState and EndState.  Registers are a sequence of at
   most one record, `valid` when they can be deserialized.                 *)
Instruction(address) == [type |-> "kInstruction", address |-> address]
Signal(num, cause, address, at) ==
    [type |-> "kSignal", num |-> num, cause |-> cause, address |-> address,
     at |-> at]
Registers(ip, sp) == <<[valid |-> TRUE, ip |-> ip, sp |-> sp]>>
EndState(endpoint, registers, bytes, platforms) ==
    [endpoint |-> endpoint, registers |-> registers, bytes |-> bytes,
     platforms |-> platforms]

DataEquals(x, y) ==
    /\ x.endpoint = y.endpoint
    /\ x.registers = y.registers
    /\ MemoryBytesListEq(x.bytes, y.bytes)

(* EndState::IsComplete(state).                                            *)
EndStateIsComplete(e, state) ==
    IF state = "kNormalState" THEN e.registers # <<>> /\ e.platforms # {}
    ELSE e.registers = <<>> /\ e.bytes = <<>> /\ e.platforms = {}

(* The constructor, and Clear().                                           *)
EmptySnapshot ==
    [map |-> <<>>, negative_map |-> <<>>, written |-> <<>>,
     mappings |-> <<>>, negatives |-> <<>>, bytes |-> <<>>,
     registers |-> <<>>, end_states |-> <<>>]

-----------------------------------------------------------------------------
(* The tests.                                                              *)

PageAligned(a) == a % PageSize = 0

can_add_memory_mapping(s, x) ==
    /\ x.perms # None
    /\ x.start # x.limit
    /\ PageAligned(x.start) /\ PageAligned(x.limit)
    /\ ~Overlaps(s.map, x.start, x.limit)
    /\ x.perms \cap PermsOr(s.negative_map, x.start, x.limit) = {}

can_add_negative_memory_mapping(s, x, overlap_ok) ==
    /\ x.perms # None
    /\ x.start # x.limit
    /\ PageAligned(x.start)
    /\ PageAligned(x.limit) \/ x.limit = MaxAddress  \* the very last page
    /\ overlap_ok \/ ~Overlaps(s.negative_map, x.start, x.limit)
    /\ x.perms \cap PermsOr(s.map, x.start, x.limit) = {}

can_add_memory_bytes(s, b) ==
    /\ MapContains(s.map, b.start, Limit(b))
    /\ IsDisjointFrom(s.written, b.start, Limit(b))

IsExecutable(s, address) ==
    /\ CanMakeSized(address, 1)
    /\ Executable \in PermsAnd(s.map, address, address + 1)

can_set_registers(s, r, is_end_state) ==
    /\ r # <<>> /\ r[1].valid
    /\ \/ is_end_state
       \/ /\ IsExecutable(s, r[1].ip)
          /\ r[1].sp >= StackSize
          /\ Writable \in PermsAnd(s.map, r[1].sp - StackSize, r[1].sp)

(* Is there a mapping for an address of a signal endpoint?  The last byte
   of the address space is in no range: the one before it stands for it.   *)
HasMapping(s, e, address) ==
    \/ ContainsAddress(s.map, address)
    \/ /\ e.num = "kSigSegv"
       /\ \/ ContainsAddress(s.negative_map, address)
          \/ /\ address = MaxAddress
             /\ ContainsAddress(s.negative_map, MaxAddress - 1)

can_add_expected_end_state(s, x, unmapped_endpoint_ok, duplicate_ok) ==
    LET e == x.endpoint
    IN  /\ IF e.type = "kInstruction"
           THEN /\ CanMakeSized(e.address, 1)
                /\ unmapped_endpoint_ok \/ IsExecutable(s, e.address)
           ELSE /\ e.address # 0 => HasMapping(s, e, e.address)
                /\ unmapped_endpoint_ok \/ HasMapping(s, e, e.at)
        /\ IF x.registers = <<>> THEN x.bytes = <<>>
           ELSE can_set_registers(s, x.registers, TRUE)
        /\ \A n \in DOMAIN x.bytes :
               Writable \in PermsAnd(s.map, x.bytes[n].start, Limit(x.bytes[n]))
        /\ \/ duplicate_ok
           \/ \A n \in DOMAIN s.end_states : ~DataEquals(x, s.end_states[n])

(* IsComplete(state).                                                      *)
NeedsNegativeMapping(e) ==
    /\ e.type = "kSignal" /\ e.num = "kSigSegv"
    /\ e.cause \in {"kSegvCantRead", "kSegvCantWrite", "kSegvCantExec"}

IsComplete(s, state) ==
    /\ s.mappings # <<>>
    /\ (\E n \in DOMAIN s.end_states :
            NeedsNegativeMapping(s.end_states[n].endpoint))
           <=> s.negatives # <<>>
    /\ s.bytes # <<>>
    /\ s.registers # <<>>
    /\ state = "kNormalState" => s.end_states # <<>>
    /\ \A n \in DOMAIN s.end_states :
           /\ EndStateIsComplete(s.end_states[n], state)
           /\ state # "kMakingState" =>
                  can_add_expected_end_state(s, s.end_states[n], FALSE, TRUE)

-----------------------------------------------------------------------------
(* The operations, as functions of a snapshot.                             *)

add_memory_mapping(s, x) ==
    [s EXCEPT !.map = MapAdd(@, x.start, x.limit, x.perms),
              !.mappings = Append(@, x)]

set_memory_mapping_perms(s, n, perms) ==
    LET m == s.mappings[n]
    IN  [s EXCEPT !.mappings[n].perms = perms,
                  !.map = MapSet(@, m.start, m.limit, perms)]

add_negative_memory_mapping(s, x) ==
    [s EXCEPT !.negative_map = MapAdd(@, x.start, x.limit, x.perms),
              !.negatives = Append(@, x)]

add_memory_bytes(s, b) ==
    [s EXCEPT !.written = SetAdd(@, b.start, Limit(b)),
              !.bytes = Append(@, b)]

add_expected_end_state(s, x) == [s EXCEPT !.end_states = Append(@, x)]

(* SortedMemoryMappingList().                                              *)
SortedMemoryMappingList(m) ==
    [n \in DOMAIN m |-> Mapping(m[n].start, m[n].limit, m[n].value)]

(* add_negative_memory_mapping_overlap_ok(): an overlap rewrites the list
   from the map.                                                           *)
RewriteNegatives(s, m) ==
    [s EXCEPT !.negative_map = m, !.negatives = SortedMemoryMappingList(m)]

add_negative_memory_mapping_overlap_ok(s, x) ==
    IF Overlaps(s.negative_map, x.start, x.limit)
    THEN RewriteNegatives(s, MapAdd(s.negative_map, x.start, x.limit, x.perms))
    ELSE add_negative_memory_mapping(s, x)

(* AddNegativeMemoryMappingsFor(): the page of a SEGV must stay without the
   permission whose absence caused it; executable and writable memory is
   readable too.  A snapshot it cannot be added to is returned unchanged.  *)
NegativePerms(cause) ==
    CASE cause = "kSegvCantExec" -> {Executable}
      [] cause = "kSegvCantWrite" -> {Writable}
      [] cause = "kSegvCantRead" -> {Readable, Executable, Writable}
      [] OTHER -> None

NegativeMappingFor(e) ==
    LET start == (e.address \div PageSize) * PageSize
        is_last_page == e.address >= MaxAddress - PageSize + 1
        size == IF is_last_page THEN PageSize - 1 ELSE PageSize
    IN  Mapping(start, start + size, NegativePerms(e.cause))

AddNegativeIfPossible(s, m) ==
    IF /\ CanMakeSized(m.start, m.limit - m.start)
       /\ can_add_negative_memory_mapping(s, m, TRUE)
    THEN add_negative_memory_mapping_overlap_ok(s, m)
    ELSE s

AddNegativeMemoryMappingsFor(s, x) ==
    IF NeedsNegativeMapping(x.endpoint)
    THEN AddNegativeIfPossible(s, NegativeMappingFor(x.endpoint))
    ELSE s

(* ReplaceMemoryBytes(): stops at the first entry that cannot be added and
   leaves the snapshot with those before it.                               *)
AddNextBytes(acc, b) ==
    IF acc.ok /\ can_add_memory_bytes(acc.snap, b)
    THEN [acc EXCEPT !.snap = add_memory_bytes(@, b)]
    ELSE [acc EXCEPT !.ok = FALSE]

ReplaceMemoryBytes(s, list) ==
    Seqs!FoldLeft(AddNextBytes,
                  [ok |-> TRUE,
                   snap |-> [s EXCEPT !.written = <<>>, !.bytes = <<>>]],
                  list)

(* can_set_memory_mappings(): everything else in the snapshot can be added
   again to one with the new mappings.                                     *)
Rebuilt(ok, s) == [ok |-> ok, snap |-> s]
RebuildMapping(acc, x) ==
    Rebuilt(acc.ok /\ can_add_memory_mapping(acc.snap, x),
            add_memory_mapping(acc.snap, x))
RebuildNegative(acc, x) ==
    Rebuilt(acc.ok /\ can_add_negative_memory_mapping(acc.snap, x, FALSE),
            add_negative_memory_mapping(acc.snap, x))
RebuildBytes(acc, b) ==
    Rebuilt(acc.ok /\ can_add_memory_bytes(acc.snap, b),
            add_memory_bytes(acc.snap, b))
RebuildEndState(acc, x) ==
    Rebuilt(acc.ok /\ can_add_expected_end_state(acc.snap, x, FALSE, FALSE),
            add_expected_end_state(acc.snap, x))

RebuildMemory(s, list) ==
    Seqs!FoldLeft(RebuildBytes,
        Seqs!FoldLeft(RebuildNegative,
            Seqs!FoldLeft(RebuildMapping, Rebuilt(TRUE, EmptySnapshot), list),
            s.negatives),
        s.bytes)

CanTakeStates(memory, s) ==
    /\ s.registers # <<>> => can_set_registers(memory.snap, s.registers, FALSE)
    /\ Seqs!FoldLeft(RebuildEndState, memory, s.end_states).ok

can_set_memory_mappings(s, list) == CanTakeStates(RebuildMemory(s, list), s)

set_memory_mappings(s, list) ==
    [s EXCEPT !.map = Seqs!FoldLeft(LAMBDA m, x :
                          MapAdd(m, x.start, x.limit, x.perms), <<>>, list),
              !.mappings = list]

NormalizeMemoryMappings(s) ==
    [s EXCEPT !.mappings = SortedMemoryMappingList(s.map),
              !.negatives = SortedMemoryMappingList(s.negative_map)]

SortedBytes(list) ==
    Seqs!SetToSortSeq(Seqs!ToSet(list), LAMBDA a, b : a.start < b.start)

(* Mutant: the bytes are only sorted.                                    *)
NormalizedBytes_SortsOnly(memory_map, list) == SortedBytes(list)

(* NormalizeMemoryBytes(memory_map, list): in address order, cut where the
   mapping changes, and joined again where touching pieces have the same
   permissions.                                                            *)
ChunkIn(b, r) ==
    [bytes |-> BytesIn(b, IF r.start < b.start THEN b.start ELSE r.start,
                          IF Limit(b) < r.limit THEN Limit(b) ELSE r.limit),
     perms |-> r.value \ {Mapped}]

ChunksIn(b, over) == [n \in DOMAIN over |-> ChunkIn(b, over[n])]

ChunksOf(memory_map, sorted) ==
    Seqs!FlattenSeq([n \in DOMAIN sorted |->
        ChunksIn(sorted[n],
                 PermsMap!Find(memory_map, sorted[n].start, Limit(sorted[n])))])

JoinChunk(done, c) ==
    IF /\ done # <<>>
       /\ c.bytes.start = Limit(Seqs!Last(done).bytes)
       /\ c.perms = Seqs!Last(done).perms
    THEN [done EXCEPT ![Len(done)].bytes.values = @ \o c.bytes.values]
    ELSE Append(done, c)

BytesOfChunks(chunks) == [n \in DOMAIN chunks |-> chunks[n].bytes]

NormalizedBytes(memory_map, list) ==
    BytesOfChunks(Seqs!FoldLeft(JoinChunk, <<>>,
                                ChunksOf(memory_map, SortedBytes(list))))

NormalizeMemoryBytes(s) ==
    [s EXCEPT !.bytes = NormalizedBytes(s.map, @),
              !.end_states = [n \in DOMAIN @ |->
                  [@[n] EXCEPT !.bytes = NormalizedBytes(s.map, @)]]]

NormalizeAll(s) == NormalizeMemoryBytes(NormalizeMemoryMappings(s))

TryRemoveUndefinedEndStates(s) ==
    IF \E n \in DOMAIN s.end_states :
           EndStateIsComplete(s.end_states[n], "kNormalState")
    THEN [s EXCEPT !.end_states = SelectSeq(@, LAMBDA e :
                       ~EndStateIsComplete(e, "kUndefinedEndState"))]
    ELSE s

-----------------------------------------------------------------------------
(* The actions: one call by the owner of the snapshot, who tests first.    *)

SnapInit == snap = EmptySnapshot

AddMemoryMapping ==
    \E x \in MappingInputs :
        /\ Len(snap.mappings) < MaxListed
        /\ can_add_memory_mapping(snap, x)
        /\ snap' = add_memory_mapping(snap, x)

SetMemoryMappingPerms ==
    \E n \in DOMAIN snap.mappings, x \in MappingInputs :
        /\ snap.mappings[n].start = x.start /\ snap.mappings[n].limit = x.limit
        /\ snap' = set_memory_mapping_perms(snap, n, x.perms)

SetMemoryMappings ==
    \E x, y \in MappingInputs : \E list \in {<<x>>, <<x, y>>} :
        /\ can_set_memory_mappings(snap, list)
        /\ snap' = set_memory_mappings(snap, list)

AddNegativeMemoryMapping ==
    \E x \in MappingInputs :
        /\ Len(snap.negatives) < MaxListed
        /\ can_add_negative_memory_mapping(snap, x, FALSE)
        /\ snap' = add_negative_memory_mapping(snap, x)

AddNegativesFor ==
    \E x \in EndStateInputs :
        /\ Len(snap.negatives) < MaxListed
        /\ snap' = AddNegativeMemoryMappingsFor(snap, x)

(* set_negative_memory_mappings({}), the only use of it.                   *)
ClearNegativeMemoryMappings ==
    snap' = [snap EXCEPT !.negative_map = <<>>, !.negatives = <<>>]

AddMemoryBytes ==
    \E b \in BytesInputs :
        /\ Len(snap.bytes) < MaxListed
        /\ can_add_memory_bytes(snap, b)
        /\ snap' = add_memory_bytes(snap, b)

DoReplaceMemoryBytes ==
    \E a, b \in BytesInputs : \E list \in {<<>>, <<a>>, <<a, b>>} :
        snap' = ReplaceMemoryBytes(snap, list).snap

SetRegisters ==
    \E r \in RegisterInputs :
        /\ can_set_registers(snap, r, FALSE)
        /\ snap' = [snap EXCEPT !.registers = r]

AddExpectedEndState ==
    \E x \in EndStateInputs, unmapped_endpoint_ok \in BOOLEAN :
        /\ Len(snap.end_states) < MaxListed
        /\ can_add_expected_end_state(snap, x, unmapped_endpoint_ok, FALSE)
        /\ snap' = add_expected_end_state(snap, x)

AddPlatformToExpectedEndState ==
    \E n \in DOMAIN snap.end_states, p \in Platforms :
        snap' = [snap EXCEPT !.end_states[n].platforms = @ \cup {p}]

(* set_expected_end_states(xs) with at most one, as its callers do, and
   remove_expected_end_state().                                            *)
SetExpectedEndStates ==
    \/ snap' = [snap EXCEPT !.end_states = <<>>]
    \/ \E x \in EndStateInputs :
           LET cleared == [snap EXCEPT !.end_states = <<>>]
           IN  /\ can_add_expected_end_state(cleared, x, FALSE, FALSE)
               /\ snap' = add_expected_end_state(cleared, x)

RemoveExpectedEndState ==
    \E n \in DOMAIN snap.end_states :
        snap' = [snap EXCEPT !.end_states = Seqs!RemoveAt(@, n)]

Normalize ==
    snap' \in {NormalizeMemoryMappings(snap), NormalizeMemoryBytes(snap),
               NormalizeAll(snap)}

DoTryRemoveUndefinedEndStates == snap' = TryRemoveUndefinedEndStates(snap)

Clear == snap' = EmptySnapshot

SnapNext ==
    \/ AddMemoryMapping
    \/ SetMemoryMappingPerms
    \/ SetMemoryMappings
    \/ AddNegativeMemoryMapping
    \/ AddNegativesFor
    \/ ClearNegativeMemoryMappings
    \/ AddMemoryBytes
    \/ DoReplaceMemoryBytes
    \/ SetRegisters
    \/ AddExpectedEndState
    \/ AddPlatformToExpectedEndState
    \/ SetExpectedEndStates
    \/ RemoveExpectedEndState
    \/ Normalize
    \/ DoTryRemoveUndefinedEndStates
    \/ Clear

-----------------------------------------------------------------------------
(* What a snapshot says of each address, read off its lists.               *)

Addresses == 0 .. MaxAddress

ListedPerms(list, a) ==
    UNION {list[n].perms : n \in {k \in DOMAIN list :
                                      list[k].start <= a /\ a < list[k].limit}}

ListedBytes(list, a) ==
    {b.values[a - b.start + 1] :
        b \in {c \in Seqs!ToSet(list) : c.start <= a /\ a < Limit(c)}}

DisjointMappings(list) ==
    \A i, j \in DOMAIN list :
        i # j => \/ list[i].limit <= list[j].start
                 \/ list[j].limit <= list[i].start

DisjointBytes(list) ==
    \A i, j \in DOMAIN list :
        i # j => \/ Limit(list[i]) <= list[j].start
                 \/ Limit(list[j]) <= list[i].start

NoConflict(s) ==
    \A a \in Addresses : PermsAt(s.map, a) \cap PermsAt(s.negative_map, a) = {}

(* "Guaranteed to be disjoint" and "inside memory_mappings()": the maps by
   address say the same as the lists, the entries of a list do not overlap,
   and all bytes, those of the end states too, are mapped.  That negative
   mappings do not conflict with mappings either is no invariant: see
   NegativesStayApart.                                                     *)
Guarantees(s) ==
    /\ \A a \in Addresses :
           /\ PermsAt(s.map, a) = ListedPerms(s.mappings, a)
           /\ PermsAt(s.negative_map, a) = ListedPerms(s.negatives, a)
           /\ a \in BytesSet!Keys(s.written) <=> ListedBytes(s.bytes, a) # {}
    /\ DisjointMappings(s.mappings) /\ DisjointMappings(s.negatives)
    /\ DisjointBytes(s.bytes)
    /\ BytesSet!Keys(s.written) \subseteq PermsMap!Keys(s.map)
    /\ \A n \in DOMAIN s.end_states :
           LET bytes == s.end_states[n].bytes
           IN  /\ DisjointBytes(bytes)
               /\ \A k \in DOMAIN bytes :
                      MapContains(s.map, bytes[k].start, Limit(bytes[k]))

(* snapshot.h says of negative_memory_mappings() that they are "Guaranteed to
   be disjoint and not conflict with memory_mappings()".  No call that its
   test allows gives a mapping a permission that a negative mapping forbids,
   whatever the order in which the two were added or replaced, but for one,
   which breaks what the header says: set_memory_mapping_perms() does not
   look at the negative mappings.  It has no callers.                      *)
NegativesStayApart(s) ==
    NoConflict(s) =>
        /\ \A x \in MappingInputs :
               /\ can_add_memory_mapping(s, x) =>
                      NoConflict(add_memory_mapping(s, x))
               /\ can_add_negative_memory_mapping(s, x, FALSE) =>
                      NoConflict(add_negative_memory_mapping(s, x))
               /\ can_set_memory_mappings(s, <<x>>) =>
                      NoConflict(set_memory_mappings(s, <<x>>))
        /\ \A x \in EndStateInputs :
               NoConflict(AddNegativeMemoryMappingsFor(s, x))

(* Normalizing changes the lists but nothing they say, leaves no two runs
   of bytes that could be one and none that crosses a change of
   permissions, and is idempotent: two snapshots with the same contents are
   EqualsButEndStates() after it.                                          *)
SamePerms(m, b) ==
    \A a \in b.start .. (Limit(b) - 1) : PermsAt(m, a) = PermsAt(m, b.start)

NormalizeKeepsContents(s, n) ==
    /\ NormalizeAll(n) = n
    /\ \A a \in Addresses :
           /\ ListedPerms(n.mappings, a) = ListedPerms(s.mappings, a)
           /\ ListedPerms(n.negatives, a) = ListedPerms(s.negatives, a)
           /\ ListedBytes(n.bytes, a) = ListedBytes(s.bytes, a)
           /\ \A k \in DOMAIN n.end_states :
                  ListedBytes(n.end_states[k].bytes, a)
                      = ListedBytes(s.end_states[k].bytes, a)
    /\ \A k \in DOMAIN n.bytes : SamePerms(n.map, n.bytes[k])
    /\ \A k \in 2 .. Len(n.bytes) :
           \/ Limit(n.bytes[k - 1]) < n.bytes[k].start
           \/ PermsAt(n.map, n.bytes[k - 1].start) # PermsAt(n.map, n.bytes[k].start)
=============================================================================
