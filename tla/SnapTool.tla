------------------------------- MODULE SnapTool -------------------------------
(***************************************************************************)
(* tools/snap_tool: the commands that edit the snapshot of a file and, by  *)
(* default, write it back over the file; and NormalizeSnapshot() of the    *)
(* fix tool, which prepares a snapshot for being made again.               *)
(* Not modelled: print, trace and get_instructions, which write no         *)
(* snapshot; make, play and generate_corpus, which are SnapMaker,          *)
(* RunnerDriver and SnapCorpus.                                            *)
(***************************************************************************)
EXTENDS SnapshotProto

CONSTANT ExitPadding  \* bytes of a code page kept free for the exit sequence

ASSUME ExitPaddingAssumption == ExitPadding \in 1 .. PageSize

(* The outcome of a command: refused with a message, or OutputSnapshotOrDie,
   which normalizes, CHECKs and writes.                                    *)
Refused == [result |-> "refused"]
WriteIfComplete(n) ==
    IF IsCompleteSomeState(n) THEN [result |-> "written", snap |-> n]
    ELSE [result |-> "died"]
OutputSnapshotOrDie(s) == WriteIfComplete(NormalizeAll(s))

Undefined(address) == EndState(Instruction(address), <<>>, <<>>, {})

(* set_end: one endpoint in the place of all end states.                   *)
SetEnd(s, address) ==
    IF can_add_expected_end_state(s, Undefined(address), FALSE, FALSE)
    THEN OutputSnapshotOrDie([s EXCEPT !.end_states = <<Undefined(address)>>])
    ELSE Refused

(* Mutant: bytes that are there already are not replaced.                *)
SetBytes_AddsOnly(s, b) ==
    IF can_add_memory_bytes(s, b)
    THEN OutputSnapshotOrDie(add_memory_bytes(s, b)) ELSE Refused

(* set_bytes: overwrites bytes of the initial memory.                      *)
OutputIfReplaced(replaced) ==
    IF replaced.ok THEN OutputSnapshotOrDie(replaced.snap) ELSE Refused

SetBytesIn(s, memory_state, b) ==
    IF MapContains(memory_state.mapped, b.start, Limit(b))
    THEN OutputIfReplaced(ReplaceMemoryBytes(s,
             memory_bytes_list(SetMemoryBytes(memory_state, b))))
    ELSE Refused

SetBytes(s, b) == SetBytesIn(s, MakeInitial(s, TRUE), b)

(* set_pc: the address of the first instruction.                           *)
SetInstructionPointer(s, pc) ==
    LET new_regs == <<[s.registers[1] EXCEPT !.ip = pc]>>
    IN  IF can_set_registers(s, new_regs, FALSE)
        THEN OutputSnapshotOrDie([s EXCEPT !.registers = new_regs]) ELSE Refused

(* NormalizeSnapshot(): an end state that is the only one stays; otherwise
   one at the end of the code page takes the place of all.                 *)
EndOfCodePage(s) ==
    (s.registers[1].ip \div PageSize) * PageSize + PageSize - ExitPadding

WithOnly(cleared, undef) ==
    IF can_add_expected_end_state(cleared, undef, FALSE, FALSE)
    THEN Ok(NormalizeAll(add_expected_end_state(cleared, undef)))
    ELSE Error

NormalizeSnapshot(s) ==
    IF Len(s.end_states) = 1 /\ IsCompleteSomeState(s) THEN Ok(NormalizeAll(s))
    ELSE WithOnly([s EXCEPT !.end_states = <<>>, !.negatives = <<>>,
                            !.negative_map = <<>>],
                  Undefined(EndOfCodePage(s)))

-----------------------------------------------------------------------------
LoadedAs(loaded, s) == loaded # Error /\ SameLists(loaded[1], s)
LoadsAgain(s) == LoadedAs(FromProto(ToProto("X86_64", s)), s)

(* What was written loads again unless the normalization n of what was there
   does not, and has the end states and negative mappings of n.            *)
WrittenFrom(n, o) ==
    /\ o.result = "written"
    /\ LoadsAgain(o.snap) <=> Reloadable(n)
    /\ o.snap.end_states = n.end_states
    /\ o.snap.negatives = n.negatives

SameInitial(o) == MakeInitial(o.snap, TRUE) = MakeInitial(snap, TRUE)

SameButFor(b, was, is) ==
    /\ is.mapped = was.mapped
    /\ \A a \in Addresses :
           ByteAt(is, a) = IF a \in b.start .. Limit(b) - 1
                           THEN b.values[a - b.start + 1] ELSE ByteAt(was, a)

SetBytesRight(n, b, o) ==
    IF \A a \in b.start .. Limit(b) - 1 : ListedPerms(snap.mappings, a) # {}
    THEN /\ WrittenFrom(n, o)
         /\ o.snap.registers = snap.registers
         /\ SameButFor(b, MakeInitial(snap, TRUE), MakeInitial(o.snap, TRUE))
    ELSE o.result = "refused"

SetInstructionPointerRight(n, a, o) ==
    IF Executable \in ListedPerms(snap.mappings, a)
    THEN /\ WrittenFrom(n, o)
         /\ o.snap.registers = Registers(a, snap.registers[1].sp)
         /\ SameInitial(o)
    ELSE o.result = "refused"

CanEndAt(a) ==
    /\ Executable \in ListedPerms(snap.mappings, a)
    /\ \A n \in DOMAIN snap.end_states : ~DataEquals(snap.end_states[n], Undefined(a))

EndsOnlyAt(a, o) ==
    /\ o.result = "written"
    /\ o.snap.end_states = <<Undefined(a)>>
    /\ o.snap.registers = snap.registers
    /\ SameInitial(o)
    /\ LoadsAgain(o.snap)

SetEndRight(a, o) ==
    IF CanEndAt(a)
    THEN o.result = "written" \/ snap.negatives = <<>> => EndsOnlyAt(a, o)
    ELSE o.result = "refused"

NormalizeSnapshotRight(n) ==
    n # Error => /\ LoadsAgain(n[1])
                 /\ Len(n[1].end_states) = 1
                 /\ MakeInitial(n[1], TRUE) = MakeInitial(snap, TRUE)

CommandsRight(n) ==
    /\ \A b \in Writes : SetBytesRight(n, b, SetBytes(snap, b))
    /\ \A a \in Addresses :
           /\ SetInstructionPointerRight(n, a, SetInstructionPointer(snap, a))
           /\ SetEndRight(a, SetEnd(snap, a))

(* For every snapshot that snap_tool can load: what a command writes over
   the file can be loaded again, unless the normalization made two of its
   end states alike, and differs from what was there in what the command is to
   set and in nothing that is played: set_bytes in those bytes, set_pc in the
   instruction pointer, set_end in the end states, of which the undefined one
   at the address given is left.  A command is refused just for an address
   that is not mapped as it needs, or at which set_end finds an undefined end
   state already.  One case is left open: set_end is "a way to manually
   replace snapshot's end-state(s)", but need not write a snapshot that has
   negative mappings, which the new end state does not need: it dies of the
   CHECK in OutputSnapshotOrDie().  What the fix tool prepares has one end
   state, loads again, and starts with the memory it had.                  *)
ToolOutputIsRight ==
    IsCompleteSomeState(snap) /\ Reloadable(snap) =>
        /\ CommandsRight(NormalizeAll(snap))
        /\ NormalizeSnapshotRight(NormalizeSnapshot(snap))
=============================================================================
