--------------------------- MODULE SnapGenerator ---------------------------
(***************************************************************************)
(* snap/gen/relocatable_snap_generator over snap/gen/relocatable_data_block:*)
(* compiles snapified snapshots into a relocatable corpus, in two passes   *)
(* over the same snapshots.  The layout pass finds the size of every data  *)
(* block, the generation pass allocates the same way again and fills in    *)
(* objects with the addresses they will have in the corpus, loaded at 0.   *)
(* The corpus is a function from addresses to objects; an object is a      *)
(* record with its type, its size and its fields.                          *)
(***************************************************************************)
EXTENDS Snapify, TLC

CONSTANTS
    SizeOf, AlignOf,  \* by type: sizeof and alignof the C++ type
    IdSize            \* size of an id, its NUL included

ASSUME SizeOfAssumption ==
    \A T \in DOMAIN SizeOf : SizeOf[T] \in Nat \ {0} /\ SizeOf[T] % AlignOf[T] = 0

SubBlocks == <<"snap", "memory_bytes", "memory_mapping", "byte_data", "string",
               "fpregs", "gregs", "page_data">>

NoContents == -1  \* no content buffer yet

EmptyBlock == [size |-> 0, alignment |-> 1, load |-> 0, max |-> NoContents]

(* A Traversal: its data blocks, its maps for deduping and what it wrote.
   died: a CHECK failed.                                                   *)
NewTraversal(compress) ==
    [blocks |-> [b \in Seqs!ToSet(SubBlocks) \cup {"main"} |-> EmptyBlock],
     byte_refs |-> <<>>, fpregs_refs |-> <<>>, gregs_refs |-> <<>>,
     corpus |-> <<>>, pointers |-> <<>>, snaps |-> <<>>,  \* Refs of Process()
     objects |-> <<>>, compress |-> compress, died |-> FALSE]

Extend(f, key, value) == (key :> value) @@ f

Done(t, ref) == [t |-> t, ref |-> ref]
Ref(block, offset) == [block |-> block, offset |-> offset]
Plus(ref, bytes) == [ref EXCEPT !.offset = @ + bytes]
LoadAddress(t, ref) == t.blocks[ref.block].load + ref.offset

(* RelocatableDataBlock::Allocate().                                       *)
Allocate(t, block, size, alignment) ==
    LET b == t.blocks[block]
        offset == RoundUp(b.size, alignment)
    IN  Done([t EXCEPT !.blocks[block] =
                           [b EXCEPT !.size = offset + size,
                                     !.alignment = IF @ < alignment THEN alignment
                                                   ELSE @],
                       !.died = @ \/ (b.max # NoContents /\ offset + size > b.max)],
             Ref(block, offset))

AllocateObjectsOfType(t, block, T, n) ==
    Allocate(t, block, SizeOf[T] * n, AlignOf[T])

AllocateBlock(t, b) == Allocate(t, "main", t.blocks[b].size, t.blocks[b].alignment)

(* What the generation pass writes at a Ref; an object must be aligned.    *)
Write(t, pass, ref, T, size, fields) ==
    LET at == LoadAddress(t, ref)
    IN  IF pass = "kLayout" THEN t
        ELSE [t EXCEPT !.objects = Extend(@, at,
                           [type |-> T, size |-> size, fields |-> fields]),
                       !.died = @ \/ (T \in DOMAIN AlignOf /\ at % AlignOf[T] # 0)]

WriteObject(t, pass, ref, T, fields) == Write(t, pass, ref, T, SizeOf[T], fields)

-----------------------------------------------------------------------------
(* ProcessMemoryBytes(): equal byte data is stored once.  Whole pages go to
   a block of their own, page aligned so that they can be mapped.          *)
StoreBytes(new, pass, b) ==
    Done([Write(new.t, pass, new.ref, "byte", Len(b.values), b.values)
              EXCEPT !.byte_refs = Extend(@, b.values, new.ref)],
         new.ref)

ProcessMemoryBytes(t, pass, b) ==
    IF b.values \in DOMAIN t.byte_refs THEN Done(t, t.byte_refs[b.values])
    ELSE StoreBytes(IF PageAligned(b.start) /\ PageAligned(Len(b.values))
                    THEN Allocate(t, "page_data", Len(b.values), PageSize)
                    ELSE Allocate(t, "byte_data", Len(b.values), AlignOf["uint64_t"]),
                    pass, b)

(* ProcessAllocated(memory_bytes).                                         *)
WriteBytesWithData(values, pass, b, ref) ==
    WriteObject(values.t, pass, ref, "SnapMemoryBytes",
        [start |-> b.start, repeating |-> FALSE, size |-> Len(b.values),
         data |-> LoadAddress(values.t, values.ref)])

ProcessAllocatedBytes(t, pass, b, ref) ==
    IF t.compress /\ IsRepeatingByteRun(b.values)
    THEN WriteObject(t, pass, ref, "SnapMemoryBytes",
             [start |-> b.start, repeating |-> TRUE, size |-> Len(b.values),
              data |-> b.values[1]])
    ELSE WriteBytesWithData(ProcessMemoryBytes(t, pass, b), pass, b, ref)

FillMemoryBytes(new, pass, list) ==
    Done(Seqs!FoldLeft(LAMBDA acc, n :
             ProcessAllocatedBytes(acc, pass, list[n],
                 Plus(new.ref, (n - 1) * SizeOf["SnapMemoryBytes"])),
             new.t, [n \in DOMAIN list |-> n]),
         new.ref)

ProcessMemoryBytesList(t, pass, list) ==
    FillMemoryBytes(
        AllocateObjectsOfType(t, "memory_bytes", "SnapMemoryBytes", Len(list)),
        pass, list)

Array(size, elements) == [size |-> size, elements |-> elements]

(* The checksum stands for the bytes it is computed over.                  *)
WriteMapping(done, pass, m, list, ref) ==
    WriteObject(done.t, pass, ref, "SnapMemoryMapping",
        [start |-> m.start, num_bytes |-> m.limit - m.start, perms |-> m.perms,
         memory_checksum |-> Seqs!FlattenSeq([n \in DOMAIN list |-> list[n].values]),
         memory_bytes |-> Array(Len(list), LoadAddress(done.t, done.ref))])

ProcessMemoryMapping(t, pass, m, list, ref) ==
    WriteMapping(ProcessMemoryBytesList(t, pass, list), pass, m, list, ref)

FillMappings(new, pass, mappings, bytes_per_mapping) ==
    Done(Seqs!FoldLeft(LAMBDA acc, n :
             ProcessMemoryMapping(acc, pass, mappings[n], bytes_per_mapping[n],
                 Plus(new.ref, (n - 1) * SizeOf["SnapMemoryMapping"])),
             new.t, [n \in DOMAIN mappings |-> n]),
         new.ref)

ProcessMemoryMappings(t, pass, mappings, bytes_per_mapping) ==
    FillMappings(
        AllocateObjectsOfType(t, "memory_mapping", "SnapMemoryMapping",
                              Len(mappings)),
        pass, mappings, bytes_per_mapping)

(* SplitBytesByMapping(); Snapify() left no bytes that span two mappings.  *)
SplitBytesByMapping(mappings, list) ==
    [n \in DOMAIN mappings |->
        SelectSeq(list, LAMBDA b : /\ mappings[n].start <= b.start
                                   /\ Limit(b) <= mappings[n].limit)]

BytesFitMappings(mappings, list) ==
    \A k \in DOMAIN list : \E n \in DOMAIN mappings :
        mappings[n].start <= list[k].start /\ Limit(list[k]) <= mappings[n].limit

(* ProcessRegisterSet(), for general and for floating point registers:
   deduped by the serialized form; no registers are all zero.              *)
ZeroRegisters == [valid |-> TRUE, ip |-> 0, sp |-> 0]

StoreRegisters(new, pass, serialized, empty_ok, T, refs) ==
    Done([WriteObject(new.t, pass, new.ref, T,
                      IF serialized = <<>> THEN ZeroRegisters ELSE serialized[1])
              EXCEPT ![refs] = Extend(@, serialized, new.ref),
                     !.died = @ \/ (pass = "kGeneration"
                                    /\ serialized = <<>> /\ ~empty_ok)],
         new.ref)

ProcessRegisterSet(t, pass, serialized, empty_ok, block, T, refs) ==
    IF serialized \in DOMAIN t[refs] THEN Done(t, t[refs][serialized])
    ELSE StoreRegisters(AllocateObjectsOfType(t, block, T, 1), pass, serialized,
                        empty_ok, T, refs)

(* All snapshots share their floating point registers, if they have any.   *)
Fpregs(registers) == IF registers = <<>> THEN <<>> ELSE <<"fpregs">>

RegisterView(t, g, fp) ==
    Done(t, [gregs |-> LoadAddress(t, g), fpregs |-> LoadAddress(t, fp)])

ViewOf(g, fp) == RegisterView(fp.t, g.ref, fp.ref)

WithFpregs(g, pass, registers, empty_ok) ==
    ViewOf(g, ProcessRegisterSet(g.t, pass, Fpregs(registers), empty_ok,
                                 "fpregs", "FPRegSet", "fpregs_refs"))

ProcessRegisterState(t, pass, registers, empty_ok) ==
    WithFpregs(ProcessRegisterSet(t, pass, registers, empty_ok,
                                  "gregs", "GRegSet", "gregs_refs"),
               pass, registers, empty_ok)

(* CalculateRegisterMemoryChecksum(): stands for the registers.            *)
RegisterMemoryChecksum(objects, view) ==
    <<objects[view.fpregs].fields, objects[view.gregs].fields>>

(* ProcessAllocated(snapshot): its parts one after the other, each in the
   traversal that the one before it left.                                  *)
WithPart(parts, name, done) == [t |-> done.t] @@ (name :> done.ref) @@ parts

WithMemory(parts, pass, s) ==
    WithPart(parts, "mappings",
             ProcessMemoryMappings(parts.t, pass, s.mappings,
                                   SplitBytesByMapping(s.mappings, s.bytes)))

WithEndBytes(parts, pass, e) ==
    WithPart(parts, "bytes", ProcessMemoryBytesList(parts.t, pass, e.bytes))

WithRegisters(parts, name, pass, registers, empty_ok) ==
    WithPart(parts, name, ProcessRegisterState(parts.t, pass, registers, empty_ok))

PartsOf(t, pass, s, e) ==
    WithRegisters(
        WithRegisters(
            WithEndBytes(
                WithMemory(WithPart(<<>>, "id", Allocate(t, "string", IdSize, 1)),
                           pass, s),
                pass, e),
            "registers", pass, s.registers, FALSE),
        "end_registers", pass, e.registers, TRUE)

WriteSnap(t, pass, s, e, parts, ref) ==
    WriteObject(t, pass, ref, "Snap",
        [id |-> LoadAddress(t, parts.id),
         memory_mappings |-> Array(Len(s.mappings), LoadAddress(t, parts.mappings)),
         registers |-> parts.registers,
         end_state_instruction_address |-> e.endpoint.address,
         end_state_registers |-> parts.end_registers,
         end_state_memory_bytes |-> Array(Len(e.bytes), LoadAddress(t, parts.bytes)),
         registers_memory_checksum |->
             RegisterMemoryChecksum(t.objects, parts.registers),
         end_state_registers_memory_checksum |->
             RegisterMemoryChecksum(t.objects, parts.end_registers)])

WriteId(parts, pass, id, fits) ==
    [Write(parts.t, pass, parts.id, "char", IdSize, id) EXCEPT !.died = @ \/ ~fits]

WriteParts(parts, pass, id, s, ref) ==
    WriteSnap(WriteId(parts, pass, id, BytesFitMappings(s.mappings, s.bytes)),
              pass, s, s.end_states[1], parts, ref)

ProcessAllocatedSnapshot(t, pass, id, s, ref) ==
    WriteParts(PartsOf(t, pass, s, s.end_states[1]), pass, id, s, ref)

(* The corpus checksum stands for everything it covers: all but itself.    *)
CorpusChecksum(objects) == [objects EXCEPT ![0].fields.checksum = 0]

Header(num_bytes) ==
    [magic |-> "kSnapCorpusMagic", header_size |-> "SnapCorpusHeader",
     num_bytes |-> num_bytes, sizes |-> SizeOf,
     architecture |-> "host", checksum |-> 0]

(* Process(), in three parts: what comes before the loop over snapshots,
   one turn of it, and what comes after.                                   *)
Keep(done, field) == [done.t EXCEPT ![field] = done.ref]

AllocateFor(t, field, T, n) == Keep(AllocateObjectsOfType(t, "snap", T, n), field)

BeginPass(t, n) ==
    AllocateFor(AllocateFor(AllocateFor(t, "corpus", "SnapCorpus", 1),
                            "pointers", "pointer", n),
                "snaps", "Snap", n)

ProcessNext(t, pass, k, s) ==
    ProcessAllocatedSnapshot(t, pass, k, s, Plus(t.snaps, (k - 1) * SizeOf["Snap"]))

MergeBlocks(t) == Seqs!FoldLeft(LAMBDA acc, b : AllocateBlock(acc, b).t, t, SubBlocks)

WriteHeader(t, n) ==
    WriteObject(t, "kGeneration", t.corpus, "SnapCorpus",
        Header(t.blocks["main"].size)
            @@ [snaps |-> Array(n, LoadAddress(t, t.pointers))])

WritePointer(t, k) ==
    WriteObject(t, "kGeneration", Plus(t.pointers, (k - 1) * SizeOf["pointer"]),
                "pointer", LoadAddress(t, Plus(t.snaps, (k - 1) * SizeOf["Snap"])))

WriteChecksum(t) ==
    [t EXCEPT !.objects[0].fields.checksum = CorpusChecksum(t.objects)]

FillCorpus(t, n) ==
    WriteChecksum(Seqs!FoldLeft(WritePointer, WriteHeader(t, n), [k \in 1 .. n |-> k]))

(* Mutant: the size of the layout pass is not reset.                     *)
PlaceSubBlock_KeepsSize(t, b, new) ==
    [new.t EXCEPT !.blocks[b].load = LoadAddress(new.t, new.ref),
                  !.blocks[b].max = t.blocks[b].size]

(* PrepareSnapGeneration(): places each block in the buffer of the corpus,
   as large as the layout pass left it, and forgets what was allocated.    *)
PlaceSubBlock(t, b, new) ==
    [new.t EXCEPT !.blocks[b] = [EmptyBlock EXCEPT
        !.load = LoadAddress(new.t, new.ref), !.max = t.blocks[b].size]]

ResetMain(t, size) == [t EXCEPT !.blocks["main"] = [EmptyBlock EXCEPT !.max = size]]

PrepareSnapGeneration(t, size) ==
    [ResetMain(Seqs!FoldLeft(LAMBDA acc, b :
                   PlaceSubBlock(acc, b, AllocateBlock(acc, b)),
                   ResetMain(t, size), SubBlocks), size)
        EXCEPT !.byte_refs = <<>>, !.fpregs_refs = <<>>, !.gregs_refs = <<>>]
=============================================================================
