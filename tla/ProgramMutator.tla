--------------------------- MODULE ProgramMutator ---------------------------
(***************************************************************************)
(* ProgramBatchMutator: one mutant made from two inputs of the fuzzer.     *)
(* Mutations edit the instructions and boundaries of a program and leave   *)
(* its encoded branches wrong; FinalizeProgram then cuts the program to    *)
(* max_len and rewrites branches until nothing moves any more. Everything  *)
(* random is a choice. A retry of a mutation that failed changes nothing,  *)
(* so a bounded number of retries is a choice to give up.                  *)
(***************************************************************************)
EXTENDS Program

CONSTANTS
  Inputs,        \* byte strings the fuzzer hands out, by architecture
  Generated,     \* encodings random bytes may decode to, by architecture
  MaxRepeat,     \* largest number of repetitions of the edits: 4
  RetryLimit,    \* attempts of the outermost RetryMutation: 128
  MinKept,       \* DeleteInstruction leaves this many instructions: 3
  MaxLen         \* max_len of the mutator, by architecture

ASSUME MutatorAssumption ==
  /\ MaxRepeat \in Nat \ {0} /\ RetryLimit \in Nat \ {0}
  /\ MinKept \in Nat /\ DOMAIN MaxLen = DOMAIN Inputs
  /\ \A a \in DOMAIN Inputs :
       /\ \A bytes \in Inputs[a] : bytes \in Seq(Encodings)
       /\ \A e \in Generated[a] : e \in Encodings /\ e.kind = "insn"
       /\ MaxLen[a] \in Nat /\ MaxLen[a] < FixupLimit

VARIABLES
  arch,      \* the template parameter
  program,   \* the mutant in the making
  other,     \* the program it may copy from
  stage,     \* where GenerateSingleOutput is
  reps,      \* edits RepeatMutation has still to make
  tries,     \* attempts of the outermost RetryMutation
  mutated,   \* an edit of this attempt succeeded
  fix,       \* locals of FixupEncodedDisplacements
  output     \* the bytes of the mutant

mutatorVars == <<arch, program, other, stage, reps, tries, mutated, fix, output>>

NoFix == [at |-> 0, offset |-> 0, stable |-> FALSE, modified |-> FALSE,
          iteration |-> 0]

\* GenerateSingleOutput copies its input; both come from Mutate's list.
MutatorInit ==
  /\ arch \in DOMAIN Inputs
  /\ \E a, b \in Inputs[arch] : 
       program = ProgramFromBytes(a) /\ other = ProgramFromBytes(b)
  /\ stage = "select" /\ reps = 0 /\ tries = 0 /\ mutated = FALSE
  /\ fix = NoFix /\ output = <<>>

------------------------------------------------------------------------------
(* Choices of the operations. *)

\* RandomizeInstructionDisplacementBoundaries.
RandomizeInstructionDisplacementBoundaries(insn, num) ==
  IF Valid(insn) THEN {[insn EXCEPT !.boundary = b] : b \in 0 .. num - 1} ELSE {insn}

\* GenerateSingleInstruction: random bytes that decode to something usable.
GenerateSingleInstruction == {InstructionFromBytes(e, 0) : e \in Generated[arch]}

\* MutateSingleInstruction: flipped bits of the instruction turn it into another
\* (or, two flips later, into itself).
MutateSingleInstruction(original) ==
  GenerateSingleInstruction \cup {InstructionFromBytes(original.encoded, 0)}

\* CopyOrRandomizeInstructionDisplacementBoundaries.
CopyOrRandomize(original, insn, num) ==
  IF Valid(insn) /\ Valid(original) /\ insn.disp = original.disp
  THEN {[insn EXCEPT !.boundary = original.boundary]}
  ELSE RandomizeInstructionDisplacementBoundaries(insn, num)

\* ShiftOrRandomizeInstructionDisplacementBoundaries, for one instruction.
ShiftOrRandomize(insn, index_offset, num) ==
  IF Valid(insn) /\ insn.boundary + index_offset \in 0 .. num - 1
  THEN {[insn EXCEPT !.boundary = @ + index_offset]}
  ELSE RandomizeInstructionDisplacementBoundaries(insn, num)

\* The same for a block.
ShiftBlock(block, index_offset, num) ==
  LET Outcomes(k) == ShiftOrRandomize(block[k], index_offset, num)
  IN {s \in [DOMAIN block -> UNION {Outcomes(k) : k \in DOMAIN block}] :
        \A k \in DOMAIN block : s[k] \in Outcomes(k)}

------------------------------------------------------------------------------
(* The mutations of program_mutation_ops.h. *)

InsertGeneratedInstruction ==
  \E insn \in GenerateSingleInstruction :
  \E placed \in RandomizeInstructionDisplacementBoundaries(
                  insn, NumInstructionBoundaries(program) + 1) :
  \E boundary \in Boundaries(program), steal \in BOOLEAN :
    program' = InsertInstructionBlock(program, boundary, steal, <<placed>>)

MutateInstruction ==
  \E target \in 0 .. NumInstructions(program) - 1 :
    LET original == program.instructions[target + 1]
    IN \E insn \in MutateSingleInstruction(original) :
       \E placed \in CopyOrRandomize(original, insn,
                                     NumInstructionBoundaries(program)) :
         program' = SetInstructionBlock(program, target, <<placed>>)

SwapInstructions ==
  \E a, b \in 0 .. NumInstructions(program) - 1 :
    /\ a # b
    /\ program' = SetInstructionBlock(
                    SetInstructionBlock(program, a, <<program.instructions[b + 1]>>),
                    b, <<program.instructions[a + 1]>>)

DeleteInstruction(minimum) ==
  /\ NumInstructions(program) > minimum
  /\ \E victim \in 0 .. NumInstructions(program) - 1 :
       program' = RemoveInstruction(program, victim)

CrossoverInsert ==
  \E size \in 1 .. NumInstructions(other) :
  \E src \in 0 .. NumInstructions(other) - size, dst \in Boundaries(program) :
    LET block == CopyInstructionBlock(other, src, size)
    IN \E shifted \in ShiftBlock(block, dst - src,
                                 NumInstructionBoundaries(program) + size),
          steal \in BOOLEAN :
         program' = InsertInstructionBlock(program, dst, steal, shifted)

CrossoverOverwrite ==
  LET n == NumInstructions(program)
      half == IF n \div 2 = 0 THEN 1 ELSE n \div 2
  IN /\ n > 0
     /\ \E size \in 1 .. NumInstructions(other) :
        /\ size <= half
        /\ \E src \in 0 .. NumInstructions(other) - size, dst \in 0 .. n - size :
             LET block == CopyInstructionBlock(other, src, size)
             IN \E shifted \in ShiftBlock(block, dst - src,
                                          NumInstructionBoundaries(program)) :
                  program' = SetInstructionBlock(program, dst, shifted)

------------------------------------------------------------------------------
(* The policy of ProgramBatchMutator's constructor. *)

SelectEdits ==
  /\ stage = "select" /\ tries < RetryLimit
  /\ reps' \in 1 .. MaxRepeat
  /\ stage' = "edit" /\ tries' = tries + 1
  /\ UNCHANGED <<arch, program, other, mutated, fix, output>>

\* A crossover that fails is tried again, or something else is.
SelectCrossover ==
  /\ stage = "select" /\ tries < RetryLimit
  /\ CrossoverInsert \/ CrossoverOverwrite
  /\ stage' = "add" /\ tries' = 0
  /\ UNCHANGED <<arch, other, reps, mutated, fix, output>>

SelectFails ==
  /\ stage = "select" /\ tries < RetryLimit
  /\ tries' = tries + 1
  /\ UNCHANGED <<arch, program, other, stage, reps, mutated, fix, output>>

\* RetryMutation returns false: the program is finalized as it is.
SelectGivesUp ==
  /\ stage = "select" /\ tries = RetryLimit
  /\ stage' = "add" /\ tries' = 0
  /\ UNCHANGED <<arch, program, other, reps, mutated, fix, output>>

Edit ==
  /\ stage = "edit" /\ reps > 0
  /\ \/ InsertGeneratedInstruction
     \/ MutateInstruction
     \/ SwapInstructions
     \/ DeleteInstruction(MinKept)
  /\ reps' = reps - 1 /\ mutated' = TRUE
  /\ UNCHANGED <<arch, other, stage, tries, fix, output>>

\* The inner RetryMutation has run out of attempts.
EditGivesUp ==
  /\ stage = "edit" /\ reps > 0
  /\ reps' = reps - 1
  /\ UNCHANGED <<arch, program, other, stage, tries, mutated, fix, output>>

EditsDone ==
  /\ stage = "edit" /\ reps = 0
  /\ stage' = IF mutated THEN "add" ELSE "select"
  /\ tries' = IF mutated THEN 0 ELSE tries
  /\ mutated' = FALSE
  /\ UNCHANGED <<arch, program, other, reps, fix, output>>

------------------------------------------------------------------------------
(* FinalizeProgram. *)

AddInstructionIfZeroLength ==
  /\ stage = "add"
  /\ IF program.byte_len = 0
     THEN InsertGeneratedInstruction /\ UNCHANGED stage
     ELSE stage' = "limit" /\ UNCHANGED program
  /\ UNCHANGED <<arch, other, reps, tries, mutated, fix, output>>

\* One instruction less. Before the first fixup `fix` is NoFix; afterwards
\* the loop goes round again only if something was deleted.
LimitProgramLength ==
  /\ stage \in {"limit", "relimit"}
  /\ program.byte_len > MaxLen[arch]
  /\ DeleteInstruction(0)
  /\ stage' = "limit"
  /\ UNCHANGED <<arch, other, reps, tries, mutated, fix, output>>

\* FixupEncodedDisplacements up to its first pass.
FixupStart ==
  /\ stage = "limit" /\ program.byte_len <= MaxLen[arch]
  /\ program' = FixupInvariants(program)
  /\ fix' = [NoFix EXCEPT !.at = 1, !.stable = TRUE]
  /\ stage' = "fixup"
  /\ UNCHANGED <<arch, other, reps, tries, mutated, output>>

\* The instruction of the pass is replaced, and the pass goes on behind it.
PassOver(insn, modified) ==
  /\ program' = [program EXCEPT !.instructions[fix.at] = insn]
  /\ fix' = [fix EXCEPT !.at = @ + 1,
                        !.stable = @ /\ program.instructions[fix.at].offset = fix.offset,
                        !.modified = @ \/ modified,
                        !.offset = @ + insn.encoded.size]

\* The instruction at its new offset, and the program that holds it.
Moved == [program.instructions[fix.at] EXCEPT !.offset = fix.offset]
WithMoved == [program EXCEPT !.instructions[fix.at] = Moved]
Synced(boundary) ==
  LET insn == [Moved EXCEPT !.boundary = boundary]
  IN [insn EXCEPT !.disp = TargetDisplacement(WithMoved, insn)]
InPass == stage = "fixup" /\ fix.at <= NumInstructions(program)
InSync == Valid(Moved) => TargetDisplacement(WithMoved, Moved) = Moved.disp

FixupInSync ==
  /\ InPass /\ InSync
  /\ PassOver(Moved, FALSE)
  /\ UNCHANGED <<arch, other, stage, reps, tries, mutated, output>>

\* The branch is rewritten; if its displacement cannot be encoded, boundaries
\* are drawn until one can. Draws that fail leave nothing behind but the
\* canonical size.
FixupReencode ==
  /\ InPass /\ ~InSync
  /\ LET wanted == Synced(Moved.boundary)
     IN IF ReencodeSucceeds(wanted)
        THEN /\ PassOver(Reencoded(wanted), TRUE)
             /\ UNCHANGED stage
        ELSE /\ program' = [program EXCEPT !.instructions[fix.at].encoded =
                                             Reencoded(wanted).encoded]
             /\ stage' = "randomize"
             /\ UNCHANGED fix
  /\ UNCHANGED <<arch, other, reps, tries, mutated, output>>

\* A draw that fails.
RandomizeAgain ==
  /\ stage = "randomize"
  /\ \E b \in Boundaries(program) :
       LET drawn == Synced(b)
       IN /\ ~ReencodeSucceeds(drawn)
          /\ program' = [program EXCEPT !.instructions[fix.at].encoded =
                                          Reencoded(drawn).encoded]
  /\ UNCHANGED <<arch, other, stage, reps, tries, mutated, fix, output>>

\* Mutant: only boundaries before the instruction are drawn.
RandomizeEncodable_BackwardOnly ==
  /\ stage = "randomize"
  /\ \E b \in 0 .. fix.at - 2 :
       LET drawn == Synced(b)
       IN /\ ReencodeSucceeds(drawn)
          /\ PassOver(Reencoded(drawn), TRUE)
  /\ stage' = "fixup"
  /\ UNCHANGED <<arch, other, reps, tries, mutated, output>>

\* A draw that succeeds.
RandomizeEncodable ==
  /\ stage = "randomize"
  /\ \E b \in Boundaries(program) :
       LET drawn == Synced(b)
       IN /\ ReencodeSucceeds(drawn)
          /\ PassOver(Reencoded(drawn), TRUE)
  /\ stage' = "fixup"
  /\ UNCHANGED <<arch, other, reps, tries, mutated, output>>

\* The end of a pass. Sizes that changed move what follows: another pass.
FixupPassEnd ==
  /\ stage = "fixup" /\ fix.at > NumInstructions(program)
  /\ LET stable == fix.stable /\ program.byte_len = fix.offset
     IN /\ program' = [program EXCEPT !.byte_len = fix.offset,
                                      !.encodings_may_be_invalid = @ /\ ~stable]
        /\ fix' = IF stable THEN NoFix
                  ELSE [fix EXCEPT !.at = 1, !.offset = 0, !.stable = TRUE,
                                   !.iteration = @ + 1]
        /\ stage' = CASE ~stable -> "fixup"
                      [] stable /\ fix.modified -> "relimit"
                      [] OTHER -> "emit"
  /\ UNCHANGED <<arch, other, reps, tries, mutated, output>>

\* The program still fits.
LimitHolds ==
  /\ stage = "relimit" /\ program.byte_len <= MaxLen[arch]
  /\ stage' = "emit"
  /\ UNCHANGED <<arch, program, other, reps, tries, mutated, fix, output>>

Emit ==
  /\ stage = "emit"
  /\ output' = ToBytes(program)
  /\ stage' = "done"
  /\ UNCHANGED <<arch, program, other, reps, tries, mutated, fix>>

MutatorNext ==
  \/ SelectEdits \/ SelectCrossover \/ SelectFails \/ SelectGivesUp
  \/ Edit \/ EditGivesUp \/ EditsDone
  \/ AddInstructionIfZeroLength \/ LimitProgramLength
  \/ FixupStart \/ FixupInSync \/ FixupReencode
  \/ RandomizeAgain \/ RandomizeEncodable \/ FixupPassEnd \/ LimitHolds
  \/ Emit

MutatorSpec == MutatorInit /\ [][MutatorNext]_mutatorVars

\* The mutator runs on, and the random numbers do not avoid for ever the
\* boundaries that can be encoded.
MutatorFairSpec == MutatorSpec /\ WF_mutatorVars(MutatorNext) /\ SF_mutatorVars(RandomizeEncodable)

------------------------------------------------------------------------------
(* Properties. *)

\* No CHECK of the program fails, whatever the sequence of mutations: what
\* CheckConsistency asserts between the operations, that a boundary can be
\* turned into an offset, the bound on the passes of
\* FixupEncodedDisplacements, an instruction left to delete while the program
\* is too long, and the offsets ToBytes looks at.
ChecksHold ==
  /\ stage \notin {"fixup", "randomize"} => Consistent(program)
  /\ stage = "fixup" => fix.iteration <= NumInstructions(program)
  /\ program.byte_len > MaxLen[arch] /\ stage \in {"limit", "relimit"}
       => NumInstructions(program) > 0
  /\ stage = "emit" => ToBytesChecks(program)

\* A mutant is a valid input: it fits max_len, and disassembling it strictly
\* (every byte an accepted instruction, every branch exactly on a boundary)
\* gives back the instructions and branch targets the mutator had in mind.
OutputDecodes ==
  stage = "done" =>
    /\ SizeOfAll(program.instructions) <= MaxLen[arch]
    /\ StrictlyDecodable(output)
    /\ ProgramFromBytes(output).instructions = program.instructions

\* Where a branch leads, as the instructions from there on.
Suffix(p, boundary) ==
  [k \in 1 .. NumInstructions(p) - boundary |-> p.instructions[boundary + k].encoded]

\* What insertion and deletion at any place do to the branches.
EditsKeepTargets ==
  stage = "edit" =>
    \A k \in DOMAIN program.instructions :
      LET insn == program.instructions[k]
          t == insn.boundary
          block == <<[insn EXCEPT !.disp = kInvalid, !.boundary = kInvalid]>>
      IN Valid(insn) =>
        /\ \A x \in 0 .. NumInstructions(program) - 1 :
             k # x + 1 =>
               LET q == RemoveInstruction(program, x)
                   moved == q.instructions[IF k > x + 1 THEN k - 1 ELSE k]
               IN Suffix(q, moved.boundary) =
                    IF x < t THEN Suffix(program, t)
                    ELSE RemoveAt(Suffix(program, t), x - t + 1)
        /\ \A b \in Boundaries(program), steal \in BOOLEAN :
             LET q == InsertInstructionBlock(program, b, steal, block)
                 moved == q.instructions[IF k > b THEN k + 1 ELSE k]
             IN Suffix(q, moved.boundary) =
                  IF b < t \/ (b = t /\ ~steal) THEN Suffix(program, t)
                  ELSE InsertAt(Suffix(program, t), b - t + 1, insn.encoded)

\* Inserting and deleting moves branches along with what they lead to, also
\* branches of and to the instructions next to the edit: behind a branch
\* follows what followed before, less the deleted instruction, or with the
\* block in its place. A block at the target itself follows the branch only
\* if it steals displacements. And rewriting a branch gives its target up for
\* a random one only if no encoding of the instruction reaches it.
BranchTargetsKept ==
  /\ EditsKeepTargets
  /\ stage = "randomize" => ~ReencodeSucceeds(Synced(Moved.boundary))

\* A mutant is sound: no CHECK fails on the way to it, it is a valid input, and
\* its branches lead where they led before.
MutationSound == ChecksHold /\ OutputDecodes /\ BranchTargetsKept

\* A mutant comes out in the end: neither the passes over the branches, nor
\* the alternation of fixing and cutting, nor the search for a boundary that
\* can be encoded goes on for ever.
MutationEnds == <>(stage = "done")

------------------------------------------------------------------------------
(* Why: an inductive invariant. *)

InsnSet ==
  [encoded : Shapes, disp : Int \cup {kInvalid}, boundary : Int \cup {kInvalid},
   offset : Int]
Programs ==
  [instructions : Seq(InsnSet), byte_len : Int, encodings_may_be_invalid : BOOLEAN]

\* What is known of an instruction in the program at all times: an accepted
\* encoding, a branch where the program takes it for one.
GoodInsn(i) ==
  /\ i.encoded.kind = "insn" /\ SizeChangeFits(i.encoded)
  /\ IF Valid(i) THEN i.encoded.width > 0
     ELSE i.boundary = kInvalid /\ GetDirectBranchInfo(i.encoded) = kInvalid

\* The displacement the program knows is the one in the bytes.
Told(i) == Valid(i) => i.disp = ExtractBranchDisplacement(i.encoded)

WellFormed(p) ==
  /\ p \in Programs
  /\ \A k \in DOMAIN p.instructions :
       LET i == p.instructions[k]
       IN GoodInsn(i) /\ (Valid(i) => i.boundary \in Boundaries(p))

\* A program between two operations.
Sound(p) ==
  /\ WellFormed(p) /\ p.byte_len = SizeOfAll(p.instructions)
  /\ \A k \in DOMAIN p.instructions : Told(p.instructions[k])

Stages == {"select", "edit", "add", "limit", "fixup", "randomize", "relimit",
           "emit", "done"}

Fixes == [at : Nat, offset : Int, stable : BOOLEAN, modified : BOOLEAN, iteration : Nat]

MutatorTypeOK ==
  /\ arch \in DOMAIN Inputs /\ stage \in Stages
  /\ fix \in Fixes

Fixing == stage \in {"fixup", "randomize"}

\* While branches are rewritten the length is wrong, and at most one branch
\* is.
ProgramInv ==
  /\ Sound(other) /\ WellFormed(program)
  /\ ~Fixing => Sound(program)
  /\ \A k \in DOMAIN program.instructions :
       Told(program.instructions[k]) \/ (stage = "randomize" /\ k = fix.at)

\* Where the previous pass ended instruction k of a program.
OldEnd(p, k) ==
  IF k = NumInstructions(p) THEN p.byte_len ELSE p.instructions[k + 1].offset
OldEndIs(p, k) ==
  p.instructions[k].offset + p.instructions[k].encoded.size = OldEnd(p, k)

\* Something has moved in this pass.
Shifted(p, f) ==
  \/ ~f.stable
  \/ IF f.at > NumInstructions(p) THEN p.byte_len # f.offset
     ELSE p.instructions[f.at].offset # f.offset \/ ~OldEndIs(p, f.at)

\* The instructions the encoder will not change the size of (again).
Canonical(p) ==
  {k \in DOMAIN p.instructions :
     p.instructions[k].encoded.size = p.instructions[k].encoded.canon}

InSyncAt(p, k) ==
  LET i == p.instructions[k] IN Valid(i) => TargetDisplacement(p, i) = i.disp

\* A pass: before f.at everything is in place, behind it everything is as the
\* pass before left it.
PassPlace(p, f) ==
  /\ f.at \in 1 .. NumInstructions(p) + 1
  /\ f.offset = Starts(p.instructions)[f.at - 1]
  /\ \A k \in 1 .. f.at - 1 :
       p.instructions[k].offset = Starts(p.instructions)[k - 1]
PassOld(p, f, st) ==
  \A k \in f.at .. NumInstructions(p) : (k = f.at => st = "fixup") => OldEndIs(p, k)
\* A pass that moves something has changed the size of an instruction that
\* will not change again.
PassCount(p, f) == f.iteration + (IF Shifted(p, f) THEN 1 ELSE 0) <= Cardinality(Canonical(p))
\* If nothing has moved, the branches are right up to here.
PassSync(p, f) == ~Shifted(p, f) => \A k \in 1 .. f.at - 1 : InSyncAt(p, k)

PassFacts(p, f, st) ==
  PassPlace(p, f) /\ PassOld(p, f, st) /\ PassCount(p, f) /\ PassSync(p, f)

PassInv ==
  Fixing =>
    /\ PassFacts(program, fix, stage)
    /\ stage = "fixup" /\ ~fix.modified =>
         SizeOfAll(program.instructions) <= MaxLen[arch]

\* A branch that could not be encoded.
RandomizeInv ==
  stage = "randomize" =>
    /\ fix.at <= NumInstructions(program)
    /\ Valid(program.instructions[fix.at])
    /\ fix.at \in Canonical(program)
    /\ ~ReencodeSucceeds(Synced(Moved.boundary))

\* After a pass in which nothing moved.
SettledInv ==
  stage \in {"relimit", "emit", "done"} =>
    /\ ~program.encodings_may_be_invalid
    /\ \A k \in DOMAIN program.instructions :
         /\ program.instructions[k].offset = Starts(program.instructions)[k - 1]
         /\ InSyncAt(program, k)
    /\ stage # "relimit" => SizeOfAll(program.instructions) <= MaxLen[arch]
    /\ stage = "done" => output = ToBytes(program)

MutatorInv == MutatorTypeOK /\ ProgramInv /\ PassInv /\ RandomizeInv /\ SettledInv
=============================================================================
