------------------------------- MODULE Program -------------------------------
(***************************************************************************)
(* A fuzzer input as a list of instructions (fuzzer/program.{h,cc}), with  *)
(* the two back ends that decode instructions and re-encode branches       *)
(* (fuzzer/program_{x86_64,aarch64}.cc).                                   *)
(*                                                                         *)
(* Bytes are a sequence of encodings, one for each thing the decoder finds *)
(* there. An encoding is a record                                          *)
(*   arch   "x86_64" or "aarch64"                                          *)
(*   kind   "insn", "rejected" (decodes, but is filtered out) or           *)
(*          "undecodable" (skipped by the smallest instruction size)       *)
(*   size   its bytes                                                      *)
(*   canon  its size after the encoder has canonicalised it                *)
(*   width  the bits of its branch displacement, 0 if it is no branch      *)
(*   field  the signed value in these bits                                 *)
(* An instruction adds to its encoding what the program knows of it: the   *)
(* byte displacement and the instruction boundary a direct branch should   *)
(* lead to, and the offset in the program. Boundaries count from 0, like   *)
(* the indexes of the code.                                                *)
(***************************************************************************)
EXTENDS SpanUtil, FiniteSets, SequencesExt

CONSTANTS
  FixupLimit,    \* InstructionConfig::displacement_fixup_limit
  kInvalid       \* kInvalidByteDisplacement, kInvalidInstructionBoundary

ASSUME ProgramAssumption == FixupLimit \in Nat /\ kInvalid \notin Int

\* Unit of a displacement field, and where it counts from.
Scale(e) == IF e.arch = "aarch64" THEN 4 ELSE 1
Base(e) == IF e.arch = "aarch64" THEN 0 ELSE e.size

------------------------------------------------------------------------------
(* Instructions. *)

\* The numbers that w bits hold.
TwoTo(w) ==
  LET power[k \in 0 .. w] == IF k = 0 THEN 1 ELSE 2 * power[k - 1]
  IN power[w]

\* The value a field of that many bits holds after a number was cut to it.
SignedField(v, width) ==
  ((v + TwoTo(width - 1)) % TwoTo(width)) - TwoTo(width - 1)

\* The displacement in the bytes, from the start of the instruction.
ExtractBranchDisplacement(e) ==
  e.field * Scale(e) + Base(e)

DisplacementWithinFixupLimit(d) == (IF d >= 0 THEN d ELSE -d) < FixupLimit

GetDirectBranchInfo(e) ==
  IF e.width > 0 /\ DisplacementWithinFixupLimit(ExtractBranchDisplacement(e))
  THEN ExtractBranchDisplacement(e) ELSE kInvalid

\* The instruction an encoding decodes to; its boundary is resolved later.
InstructionFromBytes(e, offset) ==
  [encoded |-> e, disp |-> GetDirectBranchInfo(e), boundary |-> kInvalid,
   offset |-> offset]

Valid(insn) == insn.disp # kInvalid

\* One call of the encoder for the displacement wanted: the field is cut to
\* its width, and the size becomes the canonical one.
ReencodeInternal(insn) ==
  LET e == insn.encoded
      wanted == (insn.disp - Base(e)) \div Scale(e)
  IN [insn EXCEPT !.encoded = [e EXCEPT !.size = e.canon,
                                        !.field = SignedField(wanted, e.width)]]

\* The bytes after TryToReencodeInstructionDisplacements: a change of size
\* moves what the displacement is relative to, so it is encoded again.
Reencoded(insn) ==
  LET once == ReencodeInternal(insn)
  IN IF once.encoded.size # insn.encoded.size THEN ReencodeInternal(once) ELSE once

\* Its result, found by decoding the bytes again.
ReencodeSucceeds(insn) ==
  ExtractBranchDisplacement(Reencoded(insn).encoded) = insn.disp

\* The encodings a decoder gives. The field of a branch is wide enough for the
\* bytes that the encoder saves or adds (8 bits at least, and an instruction
\* has 15 bytes at most); an instruction of AArch64 keeps its size.
Shapes ==
  [arch : {"x86_64", "aarch64"}, kind : {"insn", "rejected", "undecodable"},
   size : Nat \ {0}, canon : Nat \ {0}, width : Nat, field : Int]
SizeChangeFits(e) ==
  \/ e.size = e.canon
  \/ /\ e.arch = "x86_64"
     /\ e.width > 0 => SignedField(e.size - e.canon, e.width) = e.size - e.canon
Encodings == {e \in Shapes : SizeChangeFits(e)}

------------------------------------------------------------------------------
(* Programs: a sequence of instructions and the length in bytes. *)

NumInstructions(p) == Len(p.instructions)
NumInstructionBoundaries(p) == Len(p.instructions) + 1
Boundaries(p) == 0 .. NumInstructions(p)

MapInstructions(p, Op(_)) ==
  [p EXCEPT !.instructions = [k \in DOMAIN @ |-> Op(@[k])]]

\* Where instructions laid out one after the other start, counted from 0, and
\* their length.
Starts(insns) == Sums([k \in DOMAIN insns |-> insns[k].encoded.size])
SizeOfAll(insns) == Starts(insns)[Len(insns)]

\* The offsets of the instructions and the length of the program.
FixupInvariants(p) ==
  LET starts == Starts(p.instructions)
  IN [p EXCEPT
        !.instructions = [k \in DOMAIN @ |->
           [p.instructions[k] EXCEPT !.offset = starts[k - 1]]],
        !.byte_len = starts[Len(p.instructions)]]

InstructionBoundaryToProgramByteOffset(p, boundary) ==
  IF boundary < NumInstructions(p)
  THEN p.instructions[boundary + 1].offset
  ELSE Last(p.instructions).offset + Last(p.instructions).encoded.size

\* The first of the boundaries nearest to an offset.
FindClosestInstructionBoundary(p, offset) ==
  LET Diff(b) == LET d == InstructionBoundaryToProgramByteOffset(p, b) - offset
                 IN IF d >= 0 THEN d ELSE -d
  IN CHOOSE b \in Boundaries(p) :
       \A c \in Boundaries(p) : Diff(b) < Diff(c) \/ (Diff(b) = Diff(c) /\ b <= c)

ResolveDisplacements(p) ==
  MapInstructions(p, LAMBDA i :
    IF Valid(i) /\ i.boundary = kInvalid
    THEN [i EXCEPT !.boundary =
            FindClosestInstructionBoundary(p, i.offset + i.disp)]
    ELSE i)

\* The constructor keeps what is not rejected.
KeptOf(insn) == IF insn.encoded.kind = "insn" THEN <<insn>> ELSE <<>>
Accepted(insns) ==
  LET kept[k \in 0 .. Len(insns)] ==
        IF k = 0 THEN <<>> ELSE kept[k - 1] \o KeptOf(insns[k])
  IN kept[Len(insns)]

\* What the constructor reads from bytes, at the offsets of the bytes.
Decoded(bytes) ==
  LET starts == Sums([k \in DOMAIN bytes |-> bytes[k].size])
      All == [k \in DOMAIN bytes |-> InstructionFromBytes(bytes[k], starts[k - 1])]
  IN [instructions |-> Accepted(All),
      byte_len |-> 0, encodings_may_be_invalid |-> TRUE]

\* The constructor. Displacements are resolved before what was dropped is
\* squeezed out.
ProgramFromBytes(bytes) == FixupInvariants(ResolveDisplacements(Decoded(bytes)))

\* The CHECKs of the constructor with strict = true.
StrictlyDecodable(bytes) ==
  LET p == Decoded(bytes)
  IN /\ \A k \in DOMAIN bytes : bytes[k].kind = "insn"
     /\ \A k \in DOMAIN p.instructions :
          LET i == p.instructions[k]
          IN Valid(i) => \E b \in Boundaries(p) :
               InstructionBoundaryToProgramByteOffset(p, b) = i.offset + i.disp

\* Insertion and removal move the boundaries behind them.
AdjustInstructionIndexes(p, boundary, amount) ==
  MapInstructions(p, LAMBDA i :
    IF Valid(i) /\ i.boundary >= boundary
    THEN [i EXCEPT !.boundary = @ + amount] ELSE i)

\* Instructions put in at a boundary; branches to boundaries from `adjusted`
\* on move along.
InsertMoving(p, boundary, adjusted, insns) ==
  LET q == AdjustInstructionIndexes(p, adjusted, Len(insns))
  IN FixupInvariants(
       [q EXCEPT !.instructions = SubSeq(@, 1, boundary) \o insns
                                  \o SubSeq(@, boundary + 1, Len(@)),
                 !.encodings_may_be_invalid = TRUE])

InsertInstructionBlock(p, boundary, steal_displacements, insns) ==
  InsertMoving(p, boundary, IF steal_displacements THEN boundary + 1 ELSE boundary,
               insns)

\* Mutant: branches to what lies behind the instruction are forgotten.
RemoveInstruction_KeepsIndexes(p, index) ==
  FixupInvariants([p EXCEPT !.instructions = RemoveAt(@, index + 1),
                            !.encodings_may_be_invalid = TRUE])

RemoveInstruction(p, index) ==
  LET q == AdjustInstructionIndexes(p, index + 1, -1)
  IN FixupInvariants([q EXCEPT !.instructions = RemoveAt(@, index + 1),
                               !.encodings_may_be_invalid = TRUE])

\* Offsets are left as they are, and wrong, until the next FixupInvariants.
SetInstructionBlock(p, index, insns) ==
  [p EXCEPT
     !.instructions = [k \in DOMAIN @ |->
        IF k - index \in DOMAIN insns THEN insns[k - index] ELSE @[k]],
     !.byte_len = @ + SizeOfAll(insns)
                    - SizeOfAll(SubSeq(p.instructions, index + 1, index + Len(insns))),
     !.encodings_may_be_invalid = TRUE]

CopyInstructionBlock(p, index, size) ==
  SubSeq(p.instructions, index + 1, index + size)

\* The displacement that leads where the boundary says.
TargetDisplacement(p, insn) ==
  InstructionBoundaryToProgramByteOffset(p, insn.boundary) - insn.offset

\* What CheckConsistency asserts.
Consistent(p) ==
  /\ \A k \in DOMAIN p.instructions :
       LET i == p.instructions[k]
       IN IF Valid(i) THEN i.boundary \in Boundaries(p) ELSE i.boundary = kInvalid
  /\ p.byte_len = SizeOfAll(p.instructions)

\* ToBytes, where its CHECKs hold.
ToBytes(p) == [k \in DOMAIN p.instructions |-> p.instructions[k].encoded]
ToBytesChecks(p) ==
  /\ ~p.encodings_may_be_invalid
  /\ \A k \in DOMAIN p.instructions :
       p.instructions[k].offset = Starts(p.instructions)[k - 1]

=============================================================================
