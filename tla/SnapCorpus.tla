----------------------------- MODULE SnapCorpus -----------------------------
(***************************************************************************)
(* The life of a corpus: snapshots are snapified and compiled into a file  *)
(* (snap/gen), the file is mapped at some address and relocated            *)
(* (snap/snap_relocator, snap/snap_corpus_util), and the runner maps the   *)
(* memory of its snaps, checks it and plays them (runner/runner.cc).       *)
(* The file may be damaged on its way to the runner.                       *)
(***************************************************************************)
EXTENDS SnapGenerator

CONSTANTS
    OptionChoices,   \* SnapifyOptions of a corpus
    LoadAddresses,   \* where mmap() may put a corpus
    RunnerMappings,  \* /proc/self/maps of a runner, without the corpus
    MaxSnaps         \* bound: snaps of a corpus

ASSUME LoadAssumption ==
    /\ \A a \in LoadAddresses : a % PageSize = 0
    /\ MaxSnaps \in Nat

VARIABLES
    stage,      \* where the corpus is
    options,    \* the SnapifyOptions
    compress,   \* RelocatableSnapGeneratorOptions.compress_repeating_bytes
    originals,  \* the snapshots that are in the corpus
    snapified,  \* what Snapify() made of them
    traversal,  \* of the generator
    file,       \* [size, objects]
    damaged,    \* did the file change since it was made?
    strict,     \* RunnerMainOptions.strict
    corpus_mapping, \* where the file is mapped
    image,      \* the objects of the corpus in memory, by address
    current     \* the snap being mapped or played

corpusVars == <<stage, options, compress, originals, snapified, traversal, file, damaged, strict,
                corpus_mapping, image, current, mem>>

CorpusInit ==
    /\ stage = "making"
    /\ options \in OptionChoices
    /\ compress \in BOOLEAN
    /\ originals = <<>> /\ snapified = <<>>
    /\ file = [size |-> 0, objects |-> <<>>]
    /\ traversal = <<>>
    /\ damaged = FALSE /\ strict = FALSE
    /\ corpus_mapping = 0 /\ image = <<>> /\ current = 0
    /\ mem = EmptyState

-----------------------------------------------------------------------------
(* Making the file.                                                        *)

AddToCorpus ==
    /\ stage = "making"
    /\ Len(snapified) < MaxSnaps
    /\ \E s \in Snapshots :
           /\ CanSnapify(s, options)
           /\ originals' = Append(originals, s)
           /\ snapified' = snapified \o DoSnapify(s, options)
    /\ UNCHANGED <<stage, options, compress, traversal, file, damaged, strict, corpus_mapping, image,
                   current, mem>>

(* GenerateRelocatableSnapsImpl(), in steps.                               *)
StartLayout ==
    /\ stage = "making"
    /\ stage' = "kLayout"
    /\ traversal' = BeginPass(NewTraversal(compress), Len(snapified))
    /\ UNCHANGED <<options, compress, originals, snapified, file, damaged, strict,
                   corpus_mapping, image, current, mem>>

ProcessSnapshot ==
    /\ stage \in {"kLayout", "kGeneration"}
    /\ current < Len(snapified)
    /\ current' = current + 1
    /\ traversal' = ProcessNext(traversal, stage, current + 1, snapified[current + 1])
    /\ UNCHANGED <<stage, options, compress, originals, snapified, file, damaged, strict,
                   corpus_mapping, image, mem>>

FinishLayout ==
    /\ stage = "kLayout"
    /\ current = Len(snapified)
    /\ traversal' = MergeBlocks(traversal)
    /\ stage' = "laid out"
    /\ current' = 0
    /\ UNCHANGED <<options, compress, originals, snapified, file, damaged, strict,
                   corpus_mapping, image, mem>>

(* The corpus must not need more than page alignment.                      *)
StartGeneration ==
    LET main == traversal.blocks["main"]
    IN  /\ stage = "laid out"
        /\ traversal' = [BeginPass(PrepareSnapGeneration(traversal, main.size),
                                   Len(snapified))
                             EXCEPT !.died = @ \/ main.alignment > PageSize]
        /\ stage' = "kGeneration"
        /\ UNCHANGED <<options, compress, originals, snapified, file, damaged, strict,
                       corpus_mapping, image, current, mem>>

FinishGeneration ==
    /\ stage = "kGeneration"
    /\ current = Len(snapified)
    /\ \E t \in {FillCorpus(MergeBlocks(traversal), Len(snapified))} :
           /\ traversal' = [t EXCEPT !.objects = <<>>]
           /\ file' = [size |-> t.blocks["main"].size, objects |-> t.objects]
    /\ stage' = "file"
    /\ current' = 0
    /\ UNCHANGED <<options, compress, originals, snapified, damaged, strict,
                   corpus_mapping, image, mem>>

(* What may happen to a file: it is cut short, it was made for another
   architecture or by another version, or an object changes: a byte, or an
   address that now leads outside of the corpus.                           *)
Truncated(f) ==
    {[size |-> n, objects |->
        [a \in {x \in DOMAIN f.objects : x + f.objects[x].size <= n} |-> f.objects[a]]] :
        n \in {0, SizeOf["SnapCorpus"] - 1, SizeOf["SnapCorpus"], f.size - 1} \ {f.size}}

(* A file of another architecture or version has a checksum of its own.    *)
Foreign(f) ==
    {WriteChecksum(g) : g \in
        {[f EXCEPT !.objects[0].fields.architecture = "other"],
         [f EXCEPT !.objects[0].fields.sizes = <<>>],
         [f EXCEPT !.objects[0].fields.header_size = "other"],
         [f EXCEPT !.objects[0].fields.magic = "other"]}}

Changed(f) ==
    {[f EXCEPT !.objects[a].fields[1] = 3 - @] :
        a \in {x \in DOMAIN f.objects : f.objects[x].type = "byte"}}
    \cup {[f EXCEPT !.objects[a].fields.data = f.size] :
        a \in {x \in DOMAIN f.objects : /\ f.objects[x].type = "SnapMemoryBytes"
                                        /\ ~f.objects[x].fields.repeating}}
    \cup {[f EXCEPT !.objects[0].fields.snaps.elements = @ + 1]}

Damage ==
    /\ stage = "file"
    /\ ~damaged
    /\ damaged' = TRUE
    /\ file' \in Truncated(file) \cup Foreign(file) \cup Changed(file)
    /\ UNCHANGED <<stage, options, compress, originals, snapified, traversal, strict, corpus_mapping, image,
                   current, mem>>

-----------------------------------------------------------------------------
(* SnapRelocator: adds the start address to every pointer, once each.      *)
(* A Relocation: [error, objects by address, start, limit].                *)

ValidateRelocatedAddress(r, T, address) ==
    IF address < r.start \/ address + SizeOf[T] > r.limit THEN "kOutOfBound"
    ELSE IF address % AlignOf[T] # 0 THEN "kAlignment"
    ELSE "kOk"

Failed(r) == r.error # "kOk"

(* A pointer is a field of an object, or a field of such a field, or all of
   the object.                                                             *)
Get(f, path) == CASE Len(path) = 0 -> f
                  [] Len(path) = 1 -> f[path[1]]
                  [] OTHER -> f[path[1]][path[2]]
Set(f, path, v) == CASE Len(path) = 0 -> v
                     [] Len(path) = 1 -> [f EXCEPT ![path[1]] = v]
                     [] OTHER -> [f EXCEPT ![path[1]][path[2]] = v]

SetIfValid(r, error, at, path, adjusted) ==
    IF error # "kOk" THEN [r EXCEPT !.error = error]
    ELSE [r EXCEPT !.objects[at].fields = Set(@, path, adjusted)]

AdjustTo(r, T, at, path, adjusted) ==
    SetIfValid(r, ValidateRelocatedAddress(r, T, adjusted), at, path, adjusted)

AdjustPointer(r, T, at, path) ==
    IF Failed(r) THEN r
    ELSE AdjustTo(r, T, at, path, r.start + Get(r.objects[at].fields, path))

(* AdjustArray(): an empty array has no elements.                          *)
WithinLimit(adjusted, limit) ==
    IF ~Failed(adjusted) /\ limit > adjusted.limit
    THEN [adjusted EXCEPT !.error = "kOutOfBound"] ELSE adjusted

AdjustArray(r, T, at, field) ==
    LET array == r.objects[at].fields[field]
    IN  IF Failed(r) THEN r
        ELSE IF array.size = 0
             THEN [r EXCEPT !.objects[at].fields[field].elements = 0]
        ELSE WithinLimit(AdjustPointer(r, T, at, <<field, "elements">>),
                         r.start + array.elements + array.size * SizeOf[T])

(* RelocationIterator: the addresses of the elements of an array.          *)
Elements(array, T) ==
    [n \in 1 .. array.size |-> array.elements + (n - 1) * SizeOf[T]]

RelocateEach(r, at, field, T, Relocate(_, _)) ==
    IF Failed(r) THEN r
    ELSE Seqs!FoldLeft(Relocate, r, Elements(r.objects[at].fields[field], T))

RelocateMemoryBytes(r, at) ==
    IF Failed(r) \/ r.objects[at].fields.repeating THEN r
    ELSE AdjustPointer(r, "byte", at, <<"data">>)

RelocateMemoryBytesArray(r, at, field) ==
    RelocateEach(AdjustArray(r, "SnapMemoryBytes", at, field), at, field,
                 "SnapMemoryBytes", RelocateMemoryBytes)

RelocateMapping(r, at) == RelocateMemoryBytesArray(r, at, "memory_bytes")

RelocateRegisterState(r, at, field) ==
    AdjustPointer(AdjustPointer(r, "FPRegSet", at, <<field, "fpregs">>),
                  "GRegSet", at, <<field, "gregs">>)

RelocateIdAndMappings(r, at) ==
    RelocateEach(AdjustArray(AdjustPointer(r, "char", at, <<"id">>),
                             "SnapMemoryMapping", at, "memory_mappings"),
                 at, "memory_mappings", "SnapMemoryMapping", RelocateMapping)

RelocateSnap(r, at) ==
    RelocateMemoryBytesArray(
        RelocateRegisterState(
            RelocateRegisterState(RelocateIdAndMappings(r, at), at, "registers"),
            at, "end_state_registers"),
        at, "end_state_memory_bytes")

RelocatePointedTo(r, at) ==
    IF Failed(r) THEN r ELSE RelocateSnap(r, r.objects[at].fields)

RelocateSnapPointer(r, at) ==
    RelocatePointedTo(AdjustPointer(r, "Snap", at, <<>>), at)

(* RelocateCorpus(verify).                                                 *)
HeaderError(r, verify) ==
    LET header == r.objects[r.start].fields
        unmoved == [a \in {x - r.start : x \in DOMAIN r.objects} |->
                       r.objects[a + r.start]]
    IN  IF ValidateRelocatedAddress(r, "SnapCorpus", r.start) # "kOk"
        THEN ValidateRelocatedAddress(r, "SnapCorpus", r.start)
        ELSE IF \/ header.magic # "kSnapCorpusMagic"
                \/ header.header_size # "SnapCorpusHeader"
                \/ header.num_bytes # r.limit - r.start
             THEN "kBadData"
        ELSE IF verify /\ header.checksum # CorpusChecksum(unmoved)
             THEN "kBadChecksum"
        ELSE IF header.architecture # "host" \/ header.sizes # SizeOf
             THEN "kBadData"
        ELSE "kOk"

Relocation(f, at) ==
    [error |-> "kOk",
     objects |-> [a \in {x + at : x \in DOMAIN f.objects} |-> f.objects[a - at]],
     start |-> at, limit |-> at + f.size]

RelocateSnaps(r, at) ==
    RelocateEach(AdjustArray(r, "pointer", at, "snaps"), at, "snaps", "pointer",
                 RelocateSnapPointer)

CheckHeader(r, verify) == [r EXCEPT !.error = HeaderError(r, verify)]

(* The corpus is made read-only in the end, if mprotect() can.             *)
ProtectAfter(r, mprotect) ==
    IF ~Failed(r) /\ ~mprotect THEN [r EXCEPT !.error = "kMprotect"] ELSE r

(* Mutant: verify is not passed on.                                      *)
RelocateCorpus_NoVerify(f, at, verify, mprotect) ==
    ProtectAfter(RelocateSnaps(CheckHeader(Relocation(f, at), FALSE), at), mprotect)

RelocateCorpus(f, at, verify, mprotect) ==
    IF f.size = 0 THEN [Relocation(f, at) EXCEPT !.error = "kEmptyCorpus"]
    ELSE ProtectAfter(RelocateSnaps(CheckHeader(Relocation(f, at), verify), at), mprotect)

(* LoadCorpusFromFile(), which dies on an error.                           *)
LoadCorpus ==
    /\ stage = "file"
    /\ \E at \in LoadAddresses, verify, mprotect \in BOOLEAN :
           \E r \in {RelocateCorpus(file, at, verify, mprotect)} :
               /\ stage' = CASE r.error = "kOk" -> "mapping"
                             [] r.error = "kMprotect" -> "not protected"
                             [] OTHER -> "load failed"
               /\ image' = IF Failed(r) THEN <<>> ELSE r.objects
               /\ strict' = verify
               /\ corpus_mapping' = at
    /\ UNCHANGED <<options, compress, originals, snapified, traversal, file, damaged, current, mem>>

-----------------------------------------------------------------------------
(* The runner's view of a loaded corpus.                                   *)

Fields(at) == image[at].fields
FieldsAt(at) == [n \in DOMAIN at |-> Fields(at[n])]
ArrayOf(array, T) == FieldsAt(Elements(array, T))

Snaps == [n \in 1 .. Fields(corpus_mapping).snaps.size |->
             Fields(ArrayOf(Fields(corpus_mapping).snaps, "pointer")[n])]
MappingsOf(snap_) == ArrayOf(snap_.memory_mappings, "SnapMemoryMapping")
BytesOf(array) == ArrayOf(array, "SnapMemoryBytes")

(* The bytes of a SnapMemoryBytes.                                         *)
SnapMemoryBytesData(b) ==
    IF b.repeating THEN [n \in 1 .. b.size |-> b.data] ELSE Fields(b.data)

SetupMemoryBytes(ms, b) ==
    SetMemoryBytes(ms, MemoryBytes(b.start, SnapMemoryBytesData(b)))

SetupAll(ms, list) == Seqs!FoldLeft(SetupMemoryBytes, ms, list)

VerifyMemoryBytes(ms, b) ==
    \A n \in 1 .. b.size : ByteAt(ms, b.start + n - 1) = SnapMemoryBytesData(b)[n]

(* mmap(MAP_FIXED): whatever was there is replaced.                        *)
Mmap(ms, m, perms) ==
    ZeroMappedMemoryBytes(
        SetMemoryMapping(ms, Mapping(m.start, m.start + m.num_bytes, perms)),
        Mapping(m.start, m.start + m.num_bytes, perms))

CanDirectMap(m, bytes) ==
    /\ Writable \notin m.perms
    /\ Len(bytes) = 1
    /\ ~bytes[1].repeating
    /\ bytes[1].start = m.start /\ bytes[1].size = m.num_bytes
    /\ PageAligned(bytes[1].data)

(* CreateMemoryMapping(): from the file, where the data was never
   relocated, or by a copy; writable memory is filled before each play.    *)
FillMapped(mapped, m, bytes) ==
    IF CanDirectMap(m, bytes)
    THEN SetMemoryBytes(mapped,
             MemoryBytes(m.start,
                         file.objects[bytes[1].data - corpus_mapping].fields))
    ELSE IF Writable \in m.perms THEN mapped
    ELSE SetupAll(mapped, bytes)

CreateMemoryMapping(ms, m) ==
    FillMapped(Mmap(ms, m, m.perms), m, BytesOf(m.memory_bytes))

OverlapsRange(mappings, r) ==
    \E n \in DOMAIN mappings :
        mappings[n].start < r.limit
            /\ r.start < mappings[n].start + mappings[n].num_bytes

SnapOverlapsWithProcMapsEntries(s) ==
    \E r \in RunnerMappings
             \cup {[start |-> corpus_mapping, limit |-> corpus_mapping + file.size]} :
        OverlapsRange(MappingsOf(s), r)

(* One turn of the loop of MapCorpus().                                    *)
MapSnap ==
    /\ stage = "mapping"
    /\ current < Len(Snaps)
    /\ current' = current + 1
    /\ IF SnapOverlapsWithProcMapsEntries(Snaps[current + 1])
       THEN stage' = "kOverlappingMappings" /\ UNCHANGED mem
       ELSE /\ mem' = Seqs!FoldLeft(CreateMemoryMapping, mem,
                                    MappingsOf(Snaps[current + 1]))
            /\ UNCHANGED stage
    /\ UNCHANGED <<options, compress, originals, snapified, traversal, file, damaged, strict, corpus_mapping, image>>

VerifyMapping(m) ==
    Writable \notin m.perms =>
        m.memory_checksum = [k \in 1 .. m.num_bytes |-> ByteAt(mem, m.start + k - 1)]

VerifySnapChecksums(s) ==
    /\ \A m \in Seqs!ToSet(MappingsOf(s)) : VerifyMapping(m)
    /\ s.registers_memory_checksum = RegisterMemoryChecksum(image, s.registers)
    /\ s.end_state_registers_memory_checksum
           = RegisterMemoryChecksum(image, s.end_state_registers)

(* VerifyChecksums(), in strict mode only.                                 *)
VerifyChecksums ==
    /\ stage = "mapping"
    /\ current = Len(Snaps)
    /\ stage' = IF strict /\ \E n \in 1 .. Len(Snaps) : ~VerifySnapChecksums(Snaps[n])
                THEN "kInitialChecksumMismatch" ELSE "ready"
    /\ UNCHANGED <<options, compress, originals, snapified, traversal, file, damaged, strict, corpus_mapping, image,
                   current, mem>>

(* PrepareSnapMemory(): a write to memory that another snap mapped without
   write permission over it is a SIGSEGV in the runner.                    *)
WritableBytes(mappings) ==
    Seqs!FlattenSeq([n \in DOMAIN mappings |->
        IF Writable \in mappings[n].perms THEN BytesOf(mappings[n].memory_bytes)
        ELSE <<>>])

(* Mutant: memory is prepared for the first play only.                   *)
PrepareSnapMemory_Once(list) ==
    /\ stage' = "prepared"
    /\ mem' = IF stage = "ready" THEN SetupAll(mem, list) ELSE mem

PrepareSnapMemory(list) ==
    IF \E n \in DOMAIN list : Writable \notin PermsAt(mem.mapped, list[n].start)
    THEN stage' = "crashed" /\ UNCHANGED mem
    ELSE stage' = "prepared" /\ mem' = SetupAll(mem, list)

PrepareSnap ==
    /\ stage \in {"ready", "kAsExpected", "kMemoryMismatch"}
    /\ \E n \in 1 .. Len(Snaps) : 
           /\ current' = n
           /\ PrepareSnapMemory(WritableBytes(MappingsOf(Snaps[n])))
    /\ UNCHANGED <<options, compress, originals, snapified, traversal, file, damaged, strict, corpus_mapping, image>>

(* The snap runs and leaves the memory it was recorded with, if there is a
   record; EndSpotToOutcome() compares.                                    *)
RunSnap ==
    /\ stage = "prepared"
    /\ mem' = SetMemoryBytesList(mem, PickEndState(originals[current], options)[1].bytes)
    /\ stage' = IF \A b \in Seqs!ToSet(BytesOf(Snaps[current].end_state_memory_bytes)) :
                       VerifyMemoryBytes(mem', b)
                THEN "kAsExpected" ELSE "kMemoryMismatch"
    /\ UNCHANGED <<options, compress, originals, snapified, traversal, file, damaged, strict, corpus_mapping,
                   image, current>>

(* SnapToSnapshot().                                                       *)
PlainBytes(list) ==
    [n \in DOMAIN list |-> MemoryBytes(list[n].start, SnapMemoryBytesData(list[n]))]

MemoryOf(mappings) ==
    Seqs!FoldLeft(add_memory_bytes,
        Seqs!FoldLeft(LAMBDA acc, m : add_memory_mapping(acc,
                          Mapping(m.start, m.start + m.num_bytes, m.perms)),
                      EmptySnapshot, mappings),
        PlainBytes(Seqs!FlattenSeq([n \in DOMAIN mappings |->
                                       BytesOf(mappings[n].memory_bytes)])))

SnapToSnapshot(s, platform) ==
    [MemoryOf(MappingsOf(s)) EXCEPT
        !.registers = <<Fields(s.registers.gregs)>>,
        !.end_states = <<EndState(
            Instruction(s.end_state_instruction_address),
            <<Fields(s.end_state_registers.gregs)>>,
            PlainBytes(BytesOf(s.end_state_memory_bytes)),
            {platform})>>]

CorpusNext ==
    \/ AddToCorpus
    \/ StartLayout
    \/ ProcessSnapshot
    \/ FinishLayout
    \/ StartGeneration
    \/ FinishGeneration
    \/ Damage
    \/ LoadCorpus
    \/ MapSnap
    \/ VerifyChecksums
    \/ PrepareSnap
    \/ RunSnap

-----------------------------------------------------------------------------
(* Snapify() succeeds when CanSnapify() says so, and keeps what is played:
   apart from the exit sequence at the
   endpoint the memory at the start is that of the original, given in full,
   and so is the memory of the end, as far as it can be written.  Code that
   is to be mapped from the file is in one piece.                          *)
KeepsMemory(s, z, e, before, after) ==
    /\ \A a \in Addresses :
           /\ ListedPerms(z.mappings, a) = ListedPerms(s.mappings, a)
           /\ ListedBytes(z.bytes, a) = {ByteAt(before, a)} \ {Unknown}
           /\ ListedBytes(z.end_states[1].bytes, a) =
                  IF e.registers # <<>> /\ Writable \in ListedPerms(s.mappings, a)
                  THEN {ByteAt(after, a)} ELSE {}
    /\ options.support_direct_mmap =>
           \A m \in Seqs!ToSet(z.mappings) : Executable \in m.perms =>
               \E b \in Seqs!ToSet(z.bytes) : b.start = m.start /\ Limit(b) = m.limit

KeepsAfter(s, z, e, before) ==
    KeepsMemory(s, z, e, before, SetMemoryBytesList(before, e.bytes))

KeepsEnd(s, z, e) ==
    KeepsAfter(s, z, e, SetMemoryBytes(MakeInitial(s, TRUE),
                            MemoryBytes(e.endpoint.address, ExitSequence)))

SnapifyKeepsMemory ==
    /\ Len(snapified) = Len(originals)
    /\ \A n \in DOMAIN snapified :
           KeepsEnd(originals[n], snapified[n], PickEndState(originals[n], options)[1])

(* The two passes agree: no allocation of the generation pass dies outside
   of its block, every object lies alone in the file, in bounds, and the
   sizes of the layout pass are those of the file.                         *)
LayoutMatches ==
    /\ traversal # <<>> => ~traversal.died
    /\ stage = "file" =>
           \A b \in DOMAIN traversal.blocks :
               traversal.blocks[b].size = traversal.blocks[b].max
    /\ stage = "file" /\ ~damaged =>
           LET objects == file.objects
           IN  \A a \in DOMAIN objects :
                   /\ a + objects[a].size <= file.size
                   /\ \A b \in DOMAIN objects :
                          a < b => a + objects[a].size <= b

(* A corpus loaded at any address gives the snapshots it was made from:
   every pointer was relocated, and once.  An undefined end state comes
   back with registers of zero.                                            *)
SameBack(back, z, e) ==
    /\ back.mappings = z.mappings
    /\ back.bytes = z.bytes
    /\ back.registers = z.registers
    /\ back.end_states = <<[e EXCEPT
           !.registers = IF @ = <<>> THEN <<ZeroRegisters>> ELSE @,
           !.platforms = {options.platform_id}]>>

RoundTrips ==
    stage = "mapping" /\ ~damaged =>
        /\ Len(Snaps) = Len(snapified)
        /\ \A n \in DOMAIN Snaps :
               SameBack(SnapToSnapshot(Snaps[n], options.platform_id), snapified[n],
                        snapified[n].end_states[1])

(* Memory holds the snapshot played where its permissions are relevant.    *)
HoldsInitial(expected, Relevant(_)) ==
    \A a \in Addresses :
        (PermsAt(expected.mapped, a) # {} /\ Relevant(PermsAt(expected.mapped, a)))
        => ByteAt(mem, a) = ByteAt(expected, a)

MemoryIsInitial(n, Relevant(_)) ==
    HoldsInitial(MakeInitial(snapified[n], TRUE), Relevant)

(* A runner in strict mode plays no damaged corpus, and what it cannot
   write is what the snap was made with, even when the snaps of a corpus
   overlap: then a later mapping replaced an earlier one.                  *)
StrictFindsDamage ==
    strict /\ stage \in {"ready", "prepared", "kAsExpected", "kMemoryMismatch"} =>
        /\ ~damaged
        /\ \A n \in DOMAIN snapified :
               MemoryIsInitial(n, LAMBDA perms : Writable \notin perms)

(* Snaps that the partitioner puts together share only memory with equal
   permissions, writable ones (SnapshotGroup::CanAddSnapshot).  Each of
   them is played from its initial memory, however often and in whatever
   order snaps were played before it, and ends as recorded.                *)
Compatible(s, z) ==
    \A a \in Addresses :
        LET p == ListedPerms(s.mappings, a)
            q == ListedPerms(z.mappings, a)
        IN  p # {} /\ q # {} => p = q /\ Writable \in p

PlaysFromInitialMemory ==
    (/\ ~damaged
     /\ \A i, j \in DOMAIN originals : i < j => Compatible(originals[i], originals[j]))
    => /\ stage \notin {"crashed", "kInitialChecksumMismatch", "load failed"}
       /\ stage = "prepared" =>
              /\ MemoryIsInitial(current, LAMBDA perms : TRUE)
              /\ \A a \in Addresses : LET p == ListedPerms(snapified[current].mappings, a)
                                      IN p # {} => PermsAt(mem.mapped, a) = p \cup {Mapped}
       /\ stage # "kMemoryMismatch"

(* A corpus file gives back what it was made from: the two passes that write
   it agree, and reading it at any address undoes them.                    *)
CorpusRoundTrips == LayoutMatches /\ RoundTrips

(* What a runner plays is the snapshot: Snapify() kept its memory, and every
   play starts from that memory.                                           *)
PlaysTheSnapshot == SnapifyKeepsMemory /\ PlaysFromInitialMemory
=============================================================================
