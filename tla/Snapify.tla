------------------------------ MODULE Snapify ------------------------------
(***************************************************************************)
(* snap/gen/snapify: turns a snapshot into one that can be compiled into a *)
(* corpus.  It keeps a single end state, ends with the exit sequence, and  *)
(* gives the bytes of all of its mapped memory, cut into runs of repeating *)
(* bytes (snap/gen/repeating_byte_runs) that the corpus compresses.        *)
(***************************************************************************)
EXTENDS MemoryState

CONSTANTS
    ExitSequence,             \* the bytes of the exit sequence
    ExitStackSize,            \* stack the exit sequence needs
    Reserved,                 \* ReservedMemoryMappings(), as {start, limit}
    kByteRunAlignmentSize,
    kMinRepeatingByteRunSize

ASSUME RunSizesAssumption ==
    /\ kByteRunAlignmentSize \in Nat \ {0}
    /\ PageSize % kByteRunAlignmentSize = 0
    /\ kMinRepeatingByteRunSize >= kByteRunAlignmentSize
    /\ kMinRepeatingByteRunSize % kByteRunAlignmentSize = 0

(* SnapifyOptions.                                                         *)
Options(compress, direct_mmap, undefined_ok, platform) ==
    [compress_repeating_bytes |-> compress, support_direct_mmap |-> direct_mmap,
     allow_undefined_end_state |-> undefined_ok, platform_id |-> platform]

-----------------------------------------------------------------------------
(* repeating_byte_runs.                                                    *)

RoundUp(n, alignment) == ((n + alignment - 1) \div alignment) * alignment

IsRepeatingByteRun(values) ==
    /\ Len(values) >= kMinRepeatingByteRunSize
    /\ Len(values) % kByteRunAlignmentSize = 0
    /\ \A n \in DOMAIN values : values[n] = values[1]

RunSize(values, offset) ==
    Seqs!Max({n \in 1 .. Len(values) - offset :
                 \A k \in 1 .. n : values[offset + k] = values[offset + 1]})

(* One turn of the loop that cuts byte data into runs: the equal bytes from
   the current offset on.  A run that is too short is rounded up, as the
   rest of its aligned unit cannot be compressed either, and joins the run
   before it if that was not repeating.                                    *)
AddRun(acc, size, repeating) ==
    [offset |-> acc.offset + size,
     runs |->
         IF acc.runs # <<>> /\ ~repeating /\ ~Seqs!Last(acc.runs).repeating
         THEN [acc.runs EXCEPT ![Len(acc.runs)].size = @ + size]
         ELSE Append(acc.runs, [offset |-> acc.offset, size |-> size,
                                repeating |-> repeating])]

AddAlignedRun(acc, run_size) ==
    IF run_size >= kMinRepeatingByteRunSize
    THEN AddRun(acc, run_size - (run_size % kByteRunAlignmentSize), TRUE)
    ELSE AddRun(acc, RoundUp(run_size, kByteRunAlignmentSize), FALSE)

NextRun(values, acc) ==
    IF acc.offset < Len(values)
    THEN AddAlignedRun(acc, RunSize(values, acc.offset)) ELSE acc

PiecesOf(b, runs) ==
    [n \in DOMAIN runs |-> BytesIn(b, b.start + runs[n].offset,
                                   b.start + runs[n].offset + runs[n].size)]

GetRepeatingByteRuns(b) ==
    PiecesOf(b, Seqs!FoldLeft(LAMBDA acc, n : NextRun(b.values, acc),
                              [offset |-> 0, runs |-> <<>>], b.values).runs)

-----------------------------------------------------------------------------
(* Snapify().  A snapshot that cannot be snapified is <<>>.                *)

IsCompleteSomeState(s) ==
    \E state \in {"kNormalState", "kUndefinedEndState", "kMakingState"} :
        IsComplete(s, state)

(* PickEndState(): the first end state for the platform, which must then be
   complete, or the only one, possibly undefined.                          *)
FirstIfComplete(fits) ==
    IF fits # <<>> /\ EndStateIsComplete(fits[1], "kNormalState")
    THEN <<fits[1]>> ELSE <<>>

PickEndState(s, opts) ==
    IF opts.allow_undefined_end_state
    THEN IF Len(s.end_states) = 1 /\ IsCompleteSomeState(s)
         THEN s.end_states ELSE <<>>
    ELSE FirstIfComplete(SelectSeq(s.end_states, LAMBDA e :
             opts.platform_id \in e.platforms \/ opts.platform_id = "kAny"))

OverlapReservedMemoryMappings(list) ==
    \E n \in DOMAIN list, r \in Reserved :
        list[n].start < r.limit /\ r.start < list[n].limit

ExitFits(s, opts, e, sp) ==
    /\ e.endpoint.type = "kInstruction"
    /\ ~OverlapReservedMemoryMappings(s.mappings)
    /\ MapContains(s.map, e.endpoint.address,
                   e.endpoint.address + Len(ExitSequence))
    /\ ~(/\ opts.allow_undefined_end_state
         /\ EndStateIsComplete(e, "kUndefinedEndState"))
       => /\ sp >= ExitStackSize
          /\ MapContains(s.map, sp - ExitStackSize, sp)

CanSnapify(s, opts) ==
    \E e \in Seqs!ToSet(PickEndState(s, opts)) :
        ExitFits(s, opts, e, e.registers[1].sp)

(* The three query functions a caller chooses from.                        *)
ShouldCompress(query, ms, b) ==
    \/ query = "ShouldAlwaysCompress"
    \/ /\ query = "ShouldCompressNonExecutable"
       /\ Executable \notin PermsAt(ms.mapped, b.start)

CompressList(ms, query, list) ==
    Seqs!FlattenSeq([n \in DOMAIN list |->
        IF ShouldCompress(query, ms, list[n]) THEN GetRepeatingByteRuns(list[n])
        ELSE <<list[n]>>])

SnapifyMemoryByteList(ms, query) ==
    CompressList(ms, query, NormalizedBytes(ms.mapped, memory_bytes_list(ms)))

(* Overwrites whatever is at the endpoint; adds no mapping.                *)
MergeExitSequence(s, address) ==
    IF MapContains(s.map, address, address + Len(ExitSequence))
    THEN ReplaceMemoryBytes(s, memory_bytes_list(
             SetMemoryBytes(MakeInitial(s, TRUE), MemoryBytes(address, ExitSequence))))
    ELSE Rebuilt(FALSE, s)

SnapifyInitialBytes(s, opts) ==
    ReplaceMemoryBytes(s, SnapifyMemoryByteList(MakeInitial(s, TRUE),
        IF ~opts.compress_repeating_bytes THEN "ShouldNeverCompress"
        ELSE IF opts.support_direct_mmap THEN "ShouldCompressNonExecutable"
        ELSE "ShouldAlwaysCompress"))

(* The bytes of an end state: those of all writable memory.                *)
WritableMemory(s, ms) ==
    Seqs!FoldLeft(LAMBDA acc, i : RemoveMemoryMapping(acc, i.start, i.limit), ms,
                  SelectSeq(s.map, LAMBDA i : Writable \notin i.value))

SnapifyEndState(s, e, opts) ==
    IF EndStateIsComplete(e, "kNormalState")
    THEN [e EXCEPT !.bytes = SnapifyMemoryByteList(
             WritableMemory(s, SetMemoryBytesList(MakeInitial(s, TRUE), @)),
             IF opts.compress_repeating_bytes THEN "ShouldAlwaysCompress"
             ELSE "ShouldNeverCompress")]
    ELSE e

TakeEndState(bare, e) ==
    IF can_add_expected_end_state(bare, e, FALSE, FALSE)
    THEN <<add_expected_end_state(bare, e)>> ELSE <<>>

SnapifyStates(bare, e, opts) == TakeEndState(bare, SnapifyEndState(bare, e, opts))

IfReplaced(initial, opts) ==
    IF initial.ok
    THEN SnapifyStates([initial.snap EXCEPT !.end_states = <<>>],
                       initial.snap.end_states[1], opts)
    ELSE <<>>

SnapifyMemoryBytes(merged, opts) ==
    IF merged.ok THEN IfReplaced(SnapifyInitialBytes(merged.snap, opts), opts)
    ELSE <<>>

SnapifyWith(s, e, opts) ==
    SnapifyMemoryBytes(
        MergeExitSequence([NormalizeMemoryMappings(s) EXCEPT !.end_states = <<e>>],
                          e.endpoint.address),
        opts)

DoSnapify(s, opts) ==
    IF CanSnapify(s, opts) THEN SnapifyWith(s, PickEndState(s, opts)[1], opts)
    ELSE <<>>
=============================================================================
