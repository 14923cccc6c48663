---------------------------- MODULE SnapshotProto ----------------------------
(***************************************************************************)
(* common/snapshot_proto, player/player_result_proto and the serialization *)
(* of registers under util/ucontext: a snapshot or a player result as the  *)
(* proto that tools exchange, and back.  The proto may come from anywhere: *)
(* FromProto() trusts no field of it.                                      *)
(*                                                                         *)
(* A message is a record; an optional field it does not have is not in its *)
(* DOMAIN.  A status-or-value is a sequence of at most one value.  What    *)
(* the registers hold is the instruction and the stack pointer.  The build *)
(* is for x86_64, where the legacy format of registers is still read.      *)
(* Not modelled: ids, metadata, trace data, checksums and CPU usage, which *)
(* are copied and constrain nothing else.                                  *)
(***************************************************************************)
EXTENDS MemoryState, TLC

CONSTANTS
    PlatformIds,    \* PlatformId: the number of each platform, 0 for kUndefined
    kMaxPlatformId  \* the largest number of a platform

ASSUME PlatformIdsAssumption ==
    /\ kMaxPlatformId \in Nat
    /\ Platforms \subseteq DOMAIN PlatformIds
    /\ {PlatformIds[p] : p \in DOMAIN PlatformIds} = 0 .. kMaxPlatformId
    /\ \A p, q \in DOMAIN PlatformIds : PlatformIds[p] = PlatformIds[q] => p = q

Ok(value) == <<value>>
Error == <<>>

(* PROTO_MUST_HAVE_FIELD() for each of the fields.                         *)
MustHave(proto, fields) == fields \subseteq DOMAIN proto

(* The loop over a repeated field: the first element that fails ends it.   *)
FoldOk(Step(_, _), acc, list) ==
    Seqs!FoldLeft(LAMBDA a, p : IF a = Error THEN Error ELSE Step(a[1], p),
                  acc, list)

-----------------------------------------------------------------------------
(* Serialized registers: a string, of which we keep the size, the header
   and the registers that follow it.  A legacy string has no header.       *)

Architectures == {"X86_64", "AARCH64"}
kHeaderSize == 8
PayloadSize == [X86_64 |-> [gregs |-> 176, fpregs |-> 512],
                AARCH64 |-> [gregs |-> 288, fpregs |-> 528]]
Magic == [X86_64 |-> [gregs |-> "ig", fpregs |-> "if"],
          AARCH64 |-> [gregs |-> "ag", fpregs |-> "af"]]
LegacySize == [gregs |-> 216, fpregs |-> 512]

EmptyString == [size |-> 0, magic |-> "", version |-> 0, regs |-> <<>>]

SimpleSerialize(arch, set, regs) ==
    [size |-> kHeaderSize + PayloadSize[arch][set],
     magic |-> Magic[arch][set], version |-> 0, regs |-> regs]

SerializeLegacy(set, regs) ==
    [size |-> LegacySize[set], magic |-> "", version |-> 0, regs |-> regs]

MayBeLegacySerialized(arch, set, data) ==
    arch = "X86_64" /\ data.size = LegacySize[set]

MayBeSimpleSerialized(arch, set, data) ==
    /\ data.size >= kHeaderSize
    /\ data.magic = Magic[arch][set]
    /\ data.version = 0
    /\ data.size - kHeaderSize >= PayloadSize[arch][set]

(* MayBeSerializedGRegs(), MayBeSerializedFPRegs().                        *)
MayBeSerialized(arch, set, data) ==
    \/ MayBeLegacySerialized(arch, set, data)
    \/ MayBeSimpleSerialized(arch, set, data)

(* The number of bytes read, or -1.                                        *)
SimpleDeserialize(arch, set, data) ==
    IF /\ data.size >= kHeaderSize
       /\ data.magic = Magic[arch][set]
       /\ data.version = 0
       /\ data.size - kHeaderSize >= PayloadSize[arch][set]
    THEN kHeaderSize + PayloadSize[arch][set]
    ELSE -1

DeserializeLegacy(set, data) ==
    IF data.size < LegacySize[set] THEN -1 ELSE LegacySize[set]

(* The size decides between the formats of x86_64.                         *)
DeserializeX86_64(set, data) ==
    IF MayBeLegacySerialized("X86_64", set, data)
    THEN DeserializeLegacy(set, data)
    ELSE SimpleDeserialize("X86_64", set, data)

DeserializeAArch64(set, data) == SimpleDeserialize("AARCH64", set, data)

(* DeserializeGRegs(), DeserializeFPRegs() of a string, all of which must
   have been read.                                                         *)
Deserializes(arch, set, data) ==
    data.size = IF arch = "X86_64" THEN DeserializeX86_64(set, data)
                ELSE DeserializeAArch64(set, data)

(* ConvertRegsToSnapshot(), and an unset RegisterState.                    *)
ConvertRegsToSnapshot(arch, registers) ==
    [set \in {"gregs", "fpregs"} |->
        IF registers = <<>> THEN EmptyString
        ELSE SimpleSerialize(arch, set, registers)]

(* What can_set_registers() makes of the two strings.                      *)
RegisterStateOf(arch, r) ==
    IF r.gregs.size = 0 /\ r.fpregs.size = 0 THEN <<>>
    ELSE IF Deserializes(arch, "gregs", r.gregs)
            /\ Deserializes(arch, "fpregs", r.fpregs)
         THEN r.gregs.regs
         ELSE <<[valid |-> FALSE, ip |-> 0, sp |-> 0]>>

(* registers_match_arch(): set_registers() CHECKs it.                      *)
registers_match_arch(arch, r) ==
    \A set \in {"gregs", "fpregs"} : MayBeSerialized(arch, set, r[set])

-----------------------------------------------------------------------------
(* Sets as the bits of an integer.                                         *)

Bit(p) ==
    CASE p = Readable -> 1 [] p = Writable -> 2 [] p = Executable -> 4
known_bits == 7
HasBit(bits, n) == (bits \div n) % 2 = 1

permission_bits(perms) == Seqs!MapThenSumSet(Bit, perms)
set_permission_bits(bits) == {p \in All : HasBit(bits, Bit(p))}

PlatformsToBitmask(platforms) ==
    Seqs!MapThenSumSet(LAMBDA p : 2 ^ PlatformIds[p], platforms)

(* Mutant: the loop ends before kMaxPlatformId.                          *)
BitmaskToPlatforms_NotLast(bitmask) ==
    {p \in DOMAIN PlatformIds : /\ HasBit(bitmask, 2 ^ PlatformIds[p])
                                /\ PlatformIds[p] < kMaxPlatformId}

(* A bit beyond kMaxPlatformId is dropped.                                 *)
BitmaskToPlatforms(bitmask) ==
    {p \in DOMAIN PlatformIds : HasBit(bitmask, 2 ^ PlatformIds[p])}

-----------------------------------------------------------------------------
(* ToProto().                                                              *)

MemoryMappingToProto(x) ==
    [start_address |-> x.start, num_bytes |-> x.limit - x.start,
     permissions |-> permission_bits(x.perms)]

MemoryBytesToProto(b) == [start_address |-> b.start, byte_values |-> b.values]

EndpointToProto(e) ==
    IF e.type = "kInstruction" THEN [instruction_address |-> e.address]
    ELSE [signal |-> [sig_num |-> e.num, sig_cause |-> e.cause,
                      sig_address |-> e.address,
                      sig_instruction_address |-> e.at]]

EachToProto(Convert(_), list) == [n \in DOMAIN list |-> Convert(list[n])]

EndStateToProto(arch, e) ==
    LET required == [endpoint |-> EndpointToProto(e.endpoint),
                     registers |-> ConvertRegsToSnapshot(arch, e.registers),
                     memory_bytes |-> EachToProto(MemoryBytesToProto, e.bytes)]
    IN  IF e.platforms = {} THEN required
        ELSE required @@ [platforms |-> PlatformsToBitmask(e.platforms)]

ToProto(arch, s) ==
    [architecture |-> arch,
     memory_mappings |-> EachToProto(MemoryMappingToProto, s.mappings),
     negative_memory_mappings |-> EachToProto(MemoryMappingToProto, s.negatives),
     memory_bytes |-> EachToProto(MemoryBytesToProto, s.bytes),
     registers |-> ConvertRegsToSnapshot(arch, s.registers),
     expected_end_states |->
         EachToProto(LAMBDA e : EndStateToProto(arch, e), s.end_states)]

-----------------------------------------------------------------------------
(* FromProto().                                                            *)

MemoryMappingFromProto(p) ==
    IF /\ MustHave(p, {"start_address", "num_bytes", "permissions"})
       /\ CanMakeSized(p.start_address, p.num_bytes)
       /\ p.permissions <= known_bits
    THEN Ok(Mapping(p.start_address, p.start_address + p.num_bytes,
                    set_permission_bits(p.permissions)))
    ELSE Error

(* MemoryBytes::CanConstruct() is CanMakeSized() of its size.              *)
MemoryBytesFromProto(p) ==
    IF /\ MustHave(p, {"start_address", "byte_values"})
       /\ CanMakeSized(p.start_address, Len(p.byte_values))
    THEN Ok(MemoryBytes(p.start_address, p.byte_values))
    ELSE Error

RegisterStateFromProto(arch, p) ==
    IF MustHave(p, {"gregs", "fpregs"}) THEN Ok(RegisterStateOf(arch, p))
    ELSE Error

SignalFromProto(p) ==
    IF /\ MustHave(p, {"sig_num", "sig_cause", "sig_address",
                       "sig_instruction_address"})
       /\ p.sig_num # "UNDEFINED_SIG_NUM"
       /\ p.sig_cause # "UNDEFINED_SIG_CAUSE"
       /\ p.sig_cause # "kGenericSigCause" <=> p.sig_num = "kSigSegv"
    THEN Ok(Signal(p.sig_num, p.sig_cause, p.sig_address,
                   p.sig_instruction_address))
    ELSE Error

EndpointFromProto(p) ==
    CASE "instruction_address" \in DOMAIN p -> Ok(Instruction(p.instruction_address))
      [] "signal" \in DOMAIN p -> SignalFromProto(p.signal)
      [] OTHER -> Error

(* EndState::can_add_memory_bytes() and add_memory_bytes().                *)
TryAddChangedBytes(e, b) ==
    IF /\ b # Error
       /\ \A n \in DOMAIN e.bytes : \/ Limit(b[1]) <= e.bytes[n].start
                                   \/ Limit(e.bytes[n]) <= b[1].start
    THEN Ok([e EXCEPT !.bytes = Append(@, b[1])])
    ELSE Error

AddChangedBytes(e, p) == TryAddChangedBytes(e, MemoryBytesFromProto(p))

TryEndState(endpoint, registers, p) ==
    IF endpoint = Error \/ registers = Error THEN Error
    ELSE FoldOk(AddChangedBytes,
                Ok(EndState(endpoint[1], registers[1], <<>>,
                            IF "platforms" \in DOMAIN p
                            THEN BitmaskToPlatforms(p.platforms) ELSE {})),
                p.memory_bytes)

EndStateFromProto(arch, p) ==
    IF ~MustHave(p, {"endpoint", "registers"}) THEN Error
    ELSE TryEndState(EndpointFromProto(p.endpoint),
                     RegisterStateFromProto(arch, p.registers), p)

(* What was read is added if the snapshot can take it.                     *)
TryAddMapping(s, x) ==
    IF x # Error /\ can_add_memory_mapping(s, x[1])
    THEN Ok(add_memory_mapping(s, x[1])) ELSE Error
AddMappingFrom(s, p) == TryAddMapping(s, MemoryMappingFromProto(p))

TryAddNegative(s, x) ==
    IF x # Error /\ can_add_negative_memory_mapping(s, x[1], FALSE)
    THEN Ok(add_negative_memory_mapping(s, x[1])) ELSE Error
AddNegativeFrom(s, p) == TryAddNegative(s, MemoryMappingFromProto(p))

TryAddBytes(s, b) ==
    IF b # Error /\ can_add_memory_bytes(s, b[1])
    THEN Ok(add_memory_bytes(s, b[1])) ELSE Error
AddBytesFrom(s, p) == TryAddBytes(s, MemoryBytesFromProto(p))

TrySetRegisters(s, r) ==
    IF r # Error /\ can_set_registers(s, r[1], FALSE)
    THEN Ok([s EXCEPT !.registers = r[1]]) ELSE Error
SetRegistersFrom(arch, filled, p) ==
    IF filled = Error THEN Error
    ELSE TrySetRegisters(filled[1], RegisterStateFromProto(arch, p))

TryAddEndState(s, e) ==
    IF e # Error /\ can_add_expected_end_state(s, e[1], FALSE, FALSE)
    THEN Ok(add_expected_end_state(s, e[1])) ELSE Error
AddEndStateFrom(arch, s, p) == TryAddEndState(s, EndStateFromProto(arch, p))

IsCompleteSomeState(s) ==
    \E state \in {"kNormalState", "kUndefinedEndState", "kMakingState"} :
        IsComplete(s, state)

MemoryFromProto(p) ==
    FoldOk(AddBytesFrom,
           FoldOk(AddNegativeFrom,
                  FoldOk(AddMappingFrom, Ok(EmptySnapshot), p.memory_mappings),
                  p.negative_memory_mappings),
           p.memory_bytes)

IfComplete(full) ==
    IF full # Error /\ IsCompleteSomeState(full[1]) THEN full ELSE Error

FromProto(p) ==
    IF \/ ~MustHave(p, {"architecture", "registers"})
       \/ p.architecture = "UNDEFINED_ARCH"
    THEN Error
    ELSE IfComplete(
             FoldOk(LAMBDA s, e : AddEndStateFrom(p.architecture, s, e),
                    SetRegistersFrom(p.architecture, MemoryFromProto(p), p.registers),
                    p.expected_end_states))

-----------------------------------------------------------------------------
(* PlayerResultProto.  The end state is meant to be compared with one that
   was expected, which some outcomes have not got.                         *)

Outcomes == {"kAsExpected", "kPlatformMismatch", "kMemoryMismatch",
             "kRegisterStateMismatch", "kEndpointMismatch",
             "kExecutionRunaway", "kExecutionMisbehave"}
HasNoEndState == {"kEndpointMismatch", "kExecutionRunaway", "kExecutionMisbehave"}

(* A result: end_state_index and actual_end_state are optional.            *)
PlayerResult(outcome, end_state_index, actual_end_state) ==
    [outcome |-> outcome, end_state_index |-> end_state_index,
     actual_end_state |-> actual_end_state]

PlayerResultToProto(arch, r) ==
    [outcome |-> r.outcome]
      @@ (IF r.end_state_index = <<>> THEN <<>>
          ELSE [end_state_index |-> r.end_state_index[1]])
      @@ (IF r.actual_end_state = <<>> THEN <<>>
          ELSE [actual_end_state |-> EndStateToProto(arch, r.actual_end_state[1])])

TryResult(p, state) ==
    IF /\ MustHave(p, {"outcome"})
       /\ p.outcome \in HasNoEndState => "end_state_index" \notin DOMAIN p
       /\ "actual_end_state" \in DOMAIN p => state # Error
    THEN Ok(PlayerResult(p.outcome,
                         IF "end_state_index" \in DOMAIN p
                         THEN <<p.end_state_index>> ELSE <<>>,
                         state))
    ELSE Error

PlayerResultFromProto(arch, p) ==
    TryResult(p, IF "actual_end_state" \in DOMAIN p
                 THEN EndStateFromProto(arch, p.actual_end_state) ELSE <<>>)

-----------------------------------------------------------------------------
(* Ways in which a proto may be other than what ToProto() writes.          *)

Without(proto, field) == [f \in DOMAIN proto \ {field} |-> proto[f]]
AnyFieldMissing(proto) == {Without(proto, f) : f \in DOMAIN proto}

(* One element of a repeated field missing, repeated or changed.           *)
DamagedList(list, Damaged(_)) ==
    UNION {{Seqs!RemoveAt(list, n), Append(list, list[n])}
               \cup {[list EXCEPT ![n] = d] : d \in Damaged(list[n])} :
           n \in DOMAIN list}

DamagedMapping(p) ==
    AnyFieldMissing(p)
      \cup {[p EXCEPT !.num_bytes = n] : n \in {0, 1, p.num_bytes + PageSize}}
      \cup {[p EXCEPT !.permissions = n] : n \in {0, p.permissions + 8, known_bits}}
      \cup {[p EXCEPT !.start_address = @ + PageSize]}

DamagedBytes(p) ==
    AnyFieldMissing(p)
      \cup {[p EXCEPT !.byte_values = <<>>], [p EXCEPT !.start_address = @ + 1],
            [p EXCEPT !.start_address = MaxAddress]}

DamagedRegisters(p) ==
    AnyFieldMissing(p)
      \cup {[p EXCEPT ![set] = x] : set \in DOMAIN p, x \in
               {p.gregs, p.fpregs, EmptyString,
                [p.gregs EXCEPT !.size = @ + 1],
                [p.gregs EXCEPT !.version = 1],
                SerializeLegacy("gregs", p.gregs.regs)}}
      \cup {[set \in DOMAIN p |-> SerializeLegacy(set, p.gregs.regs)]}
      \cup {ConvertRegsToSnapshot(arch, p.gregs.regs) : arch \in Architectures}

DamagedSignal(p) ==
    AnyFieldMissing(p)
      \cup {[p EXCEPT !.sig_num = n] : n \in {"UNDEFINED_SIG_NUM", "kSigTrap"}}
      \cup {[p EXCEPT !.sig_cause = c] : c \in
               {"UNDEFINED_SIG_CAUSE", "kGenericSigCause", "kSegvCantExec"}}
      \cup {[p EXCEPT !.sig_instruction_address = MaxAddress]}

DamagedEndpoint(p) ==
    AnyFieldMissing(p)
      \cup (IF "signal" \in DOMAIN p
            THEN {[signal |-> d] : d \in DamagedSignal(p.signal)}
            ELSE {[instruction_address |-> MaxAddress]})

Mask(p) == IF "platforms" \in DOMAIN p THEN p.platforms ELSE 0

DamagedEndState(p) ==
    (AnyFieldMissing(p) \ {Without(p, "memory_bytes")})
      \cup {[p EXCEPT !.endpoint = d] : d \in DamagedEndpoint(p.endpoint)}
      \cup {[p EXCEPT !.registers = d] : d \in DamagedRegisters(p.registers)}
      \cup {[p EXCEPT !.memory_bytes = d] :
                d \in DamagedList(p.memory_bytes, DamagedBytes)}
      \cup {[platforms |-> n + Mask(p)] @@ p :
                n \in {1, 2 ^ (kMaxPlatformId + 1)}}

DamagedSnapshot(p) ==
    {Without(p, "architecture"), Without(p, "registers")}
      \cup {[p EXCEPT !.architecture = a] :
                a \in Architectures \cup {"UNDEFINED_ARCH"}}
      \cup {[p EXCEPT !.memory_mappings = d] :
                d \in DamagedList(p.memory_mappings, DamagedMapping)}
      \cup {[p EXCEPT !.negative_memory_mappings = d] :
                d \in DamagedList(p.negative_memory_mappings, DamagedMapping)}
      \cup {[p EXCEPT !.memory_bytes = d] :
                d \in DamagedList(p.memory_bytes, DamagedBytes)}
      \cup {[p EXCEPT !.registers = d] : d \in DamagedRegisters(p.registers)}
      \cup {[p EXCEPT !.expected_end_states = d] :
                d \in DamagedList(p.expected_end_states, DamagedEndState)}

(* What a tool that reads the snapshot relies on.                          *)
SameLists(x, y) ==
    /\ x.mappings = y.mappings /\ x.negatives = y.negatives
    /\ x.bytes = y.bytes /\ x.registers = y.registers
    /\ x.end_states = y.end_states

Reloadable(s) ==
    /\ NoConflict(s)
    /\ can_set_registers(s, s.registers, FALSE)
    /\ \A n \in DOMAIN s.end_states :
           /\ can_add_expected_end_state(s, s.end_states[n], FALSE, TRUE)
           /\ \A k \in 1 .. n - 1 : ~DataEquals(s.end_states[k], s.end_states[n])

(* A complete snapshot that is written to a proto is read back as it was,
   unless the calls that made it took away what an earlier one relied on:
   permissions changed after registers or negative mappings were set, an
   endpoint left unmapped, end states made alike by normalization.  Then,
   and only then, it cannot be read back.                                  *)
LoadedAsSaved(loaded, s) ==
    /\ loaded # Error <=> Reloadable(s)
    /\ loaded # Error => SameLists(loaded[1], s)

SavedIsLoaded(arch) ==
    /\ LoadedAsSaved(FromProto(ToProto(arch, snap)), snap)
    /\ \A outcome \in Outcomes, e \in Seqs!ToSet(snap.end_states) :
           \A r \in {PlayerResult(outcome, IF outcome \in HasNoEndState THEN <<>>
                                           ELSE <<0>>, <<e>>)} :
               PlayerResultFromProto(arch, PlayerResultToProto(arch, r)) = Ok(r)

(* Whatever field of a snapshot's proto is missing, repeated or changed,
   FromProto() fails or returns a snapshot with all the guarantees of one
   made by calls, that loads again and that says what the proto says, in the
   order of the proto: mappings, bytes, registers and every end state with its
   endpoint, registers, bytes and platforms.  It says less in one thing: the
   platforms beyond kMaxPlatformId are silently dropped.  The registers pass
   the CHECK of set_registers().                                           *)
SaysEndState(e, p) ==
    /\ EndpointToProto(e.endpoint) = p.endpoint
    /\ e.registers = p.registers.gregs.regs
    /\ EachToProto(MemoryBytesToProto, e.bytes) = p.memory_bytes
    /\ PlatformsToBitmask(e.platforms) = Mask(p) % 2 ^ (kMaxPlatformId + 1)

SaysWhat(s, p, again) ==
    /\ Guarantees(s) /\ Reloadable(s) /\ IsCompleteSomeState(s)
    /\ registers_match_arch(p.architecture, p.registers)
    /\ \A f \in {"memory_mappings", "negative_memory_mappings", "memory_bytes"} :
           again[f] = p[f]
    /\ s.registers = p.registers.gregs.regs
    /\ Len(s.end_states) = Len(p.expected_end_states)
    /\ \A n \in DOMAIN s.end_states :
           SaysEndState(s.end_states[n], p.expected_end_states[n])

LoadedIsSound(p, loaded) ==
    loaded # Error => SaysWhat(loaded[1], p, ToProto(p.architecture, loaded[1]))

(* A snapshot survives its proto, and a damaged proto never becomes a snapshot
   that the setters would have refused.                                    *)
ProtoFaithful ==
    IsCompleteSomeState(snap) =>
        \A arch \in Architectures :
            /\ SavedIsLoaded(arch)
            /\ \A p \in DamagedSnapshot(ToProto(arch, snap)) :
                   LoadedIsSound(p, FromProto(p))
=============================================================================
