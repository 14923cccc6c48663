------------------------- MODULE HashTestSynthesis -------------------------
(***************************************************************************)
(* Synthesis of one hashtest: which instructions of the XED table may be   *)
(* tested, how the body of the test loop is laid out, with its branches,   *)
(* and how every test step takes its inputs from the registers that hold   *)
(* entropy and folds its outputs back into them.                           *)
(*                                                                         *)
(* A register is <<bank, index>>, a RegisterMask is a set of registers.    *)
(* An instruction stands for the operands the generator looks at; that     *)
(* XED encodes it, and as what, is part of the instruction.  The code is   *)
(* not kept: along one path through the branches (variable path says       *)
(* whether the code being emitted is on it) it is run as it is emitted,    *)
(* and values records what each register then holds: the entropy it was    *)
(* computed from, nothing at all if the register is spent or was never     *)
(* set.                                                                    *)
(***************************************************************************)
EXTENDS Integers, Sequences, FiniteSets, SequencesExt

CONSTANTS
    Chips,               \* [entropy, tmp], each a function bank -> indices
    kLoopIndex,          \* the loop counter, a GP index
    StackIndex,          \* RSP, a GP index
    PopOrders(_),        \* orders in which the entropy registers may be popped
    PopTmp(_),           \* temporaries PopRandomBit may take of a set of them
    Interleavings(_),    \* bound: orders of the banks' steps, given their numbers
    Instructions,        \* the XED instruction table
    DuplicationBudgets(_), \* the budgets the rates allow for a schedule's length
    FlagSaveSize,        \* 3 if mask_trap_flag is set, 2 otherwise
    TargetInstructions   \* 1000 in the code

Banks == {"gp", "vec", "mask", "mmx"}
Bank(set, b) == {r \in set : r[1] = b}

ASSUME LayoutAssumption ==
  \A chip \in Chips, b \in Banks :
    /\ chip.entropy[b] \cap chip.tmp[b] = {}
    /\ b \in {"gp", "mmx"} => chip.entropy[b] # {}
    /\ b = "gp" => {kLoopIndex, StackIndex} \cap (chip.entropy[b] \cup chip.tmp[b]) = {}

\* The registers of each bank that hold entropy and those that are temporary.
\* A chip without vector or mask registers has none of either.
InitRegisterLayout(chip) ==
  [entropy |-> UNION {{b} \X chip.entropy[b] : b \in Banks},
   tmp     |-> UNION {{b} \X chip.tmp[b] : b \in Banks}]

------------------------------------------------------------------------------
(* The instruction pool. *)

\* An operand is [vis, what, reg, read, written, width].  what is a bank, or
\* "writemask", "flags", "imm", "pseudo", "address", "stack", "segment",
\* "tile", "memory"; reg is the index of a fixed register.  A conditional
\* write counts as a read too.
OperandIsRegister(o) == o.what \notin {"imm", "memory"}
OperandIsExplicit(o) == o.vis = "explicit"
OperandBank(o) == IF o.what = "writemask" THEN "mask" ELSE o.what
OperandIsFixed(o) == ~OperandIsExplicit(o) /\ o.what \in Banks

\* The operand widths an effective width of 16, 32 or 64 bits gives a meaning.
OperandWidths(o) ==
  CASE o.width = "V" -> {16, 32, 64}
    [] o.width = "Z" -> {16, 32}
    [] o.width = "Y" -> {32, 64}
    [] OTHER -> {}

PrefilterOperands(ins) ==
  \A k \in DOMAIN ins.ops : ins.ops[k].what \notin {"memory", "segment", "tile"}

PrefilterInstruction(ins) == ins.testable /\ PrefilterOperands(ins)

XedRegToRegisterID(o) == <<o.what, o.reg>>

Ops(ins) == {ins.ops[k] : k \in DOMAIN ins.ops}

GetFixedRegisterInfo(ins) ==
  LET fixed(kind(_)) == {XedRegToRegisterID(o) : o \in {p \in Ops(ins) : OperandIsFixed(p) /\ kind(p)}}
  IN [read          |-> fixed(LAMBDA o : o.read),
      written       |-> fixed(LAMBDA o : o.written),
      flags_written |-> \E o \in Ops(ins) : o.what = "flags" /\ o.written]

\* The positions of the explicit operands of a bank.
Explicit(ins, b) ==
  {k \in DOMAIN ins.ops : OperandIsExplicit(ins.ops[k]) /\ OperandBank(ins.ops[k]) = b}

\* What IsCandidate fills in, for an instruction it accepts.
Candidate(ins) ==
  LET fixed == GetFixedRegisterInfo(ins)
  IN [ins         |-> ins,
      fixed_reg   |-> fixed,
      reg_read    |-> [b \in Banks |-> Cardinality(Bank(fixed.read, b))
                                         + Cardinality({k \in Explicit(ins, b) : ins.ops[k].read})],
      reg_written |-> [b \in Banks |-> Cardinality(Bank(fixed.written, b))
                                         + Cardinality({k \in Explicit(ins, b) : ins.ops[k].written})],
      widths      |-> UNION {OperandWidths(o) : o \in Ops(ins)},
      writemask   |-> \E o \in Ops(ins) : o.what = "writemask"]

OutputBanks(c) == {b \in Banks : c.reg_written[b] > 0}

IsCandidate(ins) ==
  /\ \A o \in Ops(ins) : o.what \notin {"address", "stack"}
  /\ Cardinality(OutputBanks(Candidate(ins))) <= 1

OutputMode(c) == IF OutputBanks(c) = {} THEN "gp" ELSE CHOOSE b \in OutputBanks(c) : TRUE

TriedWidths(c) == IF c.widths = {} THEN {32} ELSE c.widths

\* What SynthesizeTestInstruction pops of a bank's temporaries, for what an
\* explicit operand writes, and of its entropy, for what one only reads; a
\* writemask only counts if it is used.
PoppedTmp(c, b) == Cardinality({k \in Explicit(c.ins, b) : c.ins.ops[k].written})
PoppedEntropy(c, b, use) ==
  Cardinality({k \in Explicit(c.ins, b) : /\ ~c.ins.ops[k].written
                                          /\ c.ins.ops[k].what = "writemask" => use})

\* Do its CHECKs hold, those of PopRandomBit and of PrepareFixedRegisters?
SynthesizeTestInstruction(c, pool, use) ==
  LET fixed == c.fixed_reg.read \cup c.fixed_reg.written
  IN /\ fixed \subseteq pool.tmp
     /\ \A b \in Banks :
          /\ PoppedTmp(c, b) <= Cardinality(Bank(pool.tmp \ fixed, b))
          /\ PoppedEntropy(c, b, use) <= Cardinality(Bank(pool.entropy, b))

\* A dead register of every bank that has any is taken from the pool, a mix
\* register is not.
PressedPool(chip) ==
  LET pool == InitRegisterLayout(chip)
      dead == {Head(CHOOSE order \in PopOrders(Bank(pool.entropy, b)) : TRUE) :
                 b \in {x \in Banks : chip.entropy[x] # {}}}
  IN [pool EXCEPT !.entropy = @ \ dead]

\* TryToEncodeWidth: what may come of it.  XED may take the instruction for
\* another iform for some registers only; one of eight tries is enough.
TryToEncodeWidth(chip, c, w) ==
  {r \in {"kOK", "kIFormMismatch", "kEncodeError"} :
     r \in c.ins.encode[w] /\ SynthesizeTestInstruction(c, PressedPool(chip), FALSE)}
  \cup {"check failed" : use \in {u \in BOOLEAN : /\ u => c.writemask
                                  /\ ~SynthesizeTestInstruction(c, PressedPool(chip), u)}}

\* TryToEncode: a width that only encodes as another iform is dropped, an
\* encoding error rejects the instruction, a failing CHECK ends the generator.
TryToEncode(chip, c) ==
  {CASE \E w \in TriedWidths(c) : result[w] = "check failed" -> "check failed"
     [] \E w \in TriedWidths(c) : result[w] = "kEncodeError" -> "rejected"
     [] \E w \in TriedWidths(c) : result[w] = "kOK" -> "accepted"
     [] OTHER -> "rejected" :
   result \in {f \in [TriedWidths(c) -> {"kOK", "kIFormMismatch", "kEncodeError",
                                          "check failed"}] :
                \A w \in TriedWidths(c) : f[w] \in TryToEncodeWidth(chip, c, w)}}

\* The instructions GenerateInstructionPool tries to encode, and what may come
\* of each.
Candidates(chip) ==
  {Candidate(ins) : ins \in {i \in Instructions : /\ chip \in i.valid_for
                                                 /\ PrefilterInstruction(i)
                                                 /\ IsCandidate(i)}}
GenerateInstructionPool(chip) ==
  {f \in [Candidates(chip) -> {"accepted", "rejected", "check failed"}] :
     \A c \in Candidates(chip) : f[c] \in TryToEncode(chip, c)}

\* InstructionPool.Add keeps, of the accepted candidates, those that write a
\* bank where a test step will look for them.
Added(results) == {c \in DOMAIN results : results[c] = "accepted" /\ OutputBanks(c) # {}}

------------------------------------------------------------------------------
VARIABLES
    spc,          \* "start", "schedule", "blocks", "done", "check failed"
    rpool,        \* the register layout of the chip
    ipool,        \* the candidates a step chooses from
    dead_pool,    \* rpool without the registers that are dead here
    calls,        \* the calls of SynthesizeBlock and its parts still to return
    counts,       \* what those that returned returned
    step,         \* the test step being synthesized
    max_body,     \* what SynthesizeLoopBody returned
    first_dead,   \* the dead registers at the start of the loop body
    path,         \* is the code being emitted on the path that is run?
    values,       \* register -> what the path has left in it
    executed,     \* instructions on the path
    updated       \* entropy registers written on the path

svars == <<spc, rpool, ipool, dead_pool, calls, counts, step, max_body,
           first_dead, path, values, executed, updated>>

NoStep == [at |-> "none"]

SynthesisInit ==
  /\ spc = "start" /\ step = NoStep
  /\ rpool = [entropy |-> {}, tmp |-> {}] /\ dead_pool = rpool
  /\ ipool = {} /\ calls = <<>> /\ counts = <<>>
  /\ max_body = 0 /\ first_dead = {}
  /\ path = TRUE /\ values = <<>> /\ executed = 0 /\ updated = {}

\* A CHECK that fails ends the generator.
CheckFails ==
  /\ spc' = "check failed"
  /\ UNCHANGED <<rpool, ipool, dead_pool, calls, counts, step, max_body,
                 first_dead, path, values, executed, updated>>

\* An instruction computes what it writes from what it reads.  What it is
\* given has to hold something, or nothing can be said of the result.
Exec(v, reads, writes) ==
  LET garbage == \E r \in reads : v[r] = {}
      result  == IF garbage THEN {} ELSE UNION {v[r] : r \in reads}
  IN [r \in DOMAIN v |-> IF r \in writes THEN result ELSE v[r]]

\* What the test instruction, or the flags it sets, add to a value.
Result == <<"result", 0>>

RegMov(v, src, dst) == Exec(v, {src}, {dst})

\* Values that already share the mix register's entropy could cancel it.
Mix(v, mix, a, b, dst) ==
  IF mix \in v[a] THEN [v EXCEPT ![dst] = {}] ELSE Exec(v, {a, b}, {dst})

\* What permuting and mixing do to the registers of each bank: GP and MMX
\* registers are changed in place, MMX needs a second register to rotate one,
\* vector and mask instructions have a destination of their own.  Which of
\* its instructions is used makes no difference.
GPRegPermute(v, dst) == Exec(v, {dst}, {dst})
GPRegMix(v, mix, src, dst) == Mix(v, mix, src, dst, dst)
VecRegPermute(v, src, dst) == Exec(v, {src}, {dst})
VecRegMix(v, mix, a, b, dst) == Mix(v, mix, a, b, dst)
MaskRegPermute(v, src, dst, tmp) ==
  Exec(Exec(Exec(v, {src}, {tmp}), {src}, {dst}), {tmp, dst}, {dst})
MaskRegMix(v, mix, a, b, dst) == Mix(v, mix, a, b, dst)
MMXRegPermute(v, dst, tmp) == Exec(Exec(v, {dst}, {tmp}), {dst, tmp}, {dst})
MMXRegMix(v, mix, src, dst) == Mix(v, mix, src, dst, dst)

------------------------------------------------------------------------------
(* SynthesizeTestSnapshot and SynthesizeLoopBody. *)

Generate ==
  /\ spc = "start"
  /\ \E chip \in Chips : \E results \in GenerateInstructionPool(chip) :
       /\ rpool' = InitRegisterLayout(chip)
       /\ IF \A c \in DOMAIN results : results[c] # "check failed"
          THEN ipool' = Added(results) /\ spc' = "schedule" /\ UNCHANGED step
          ELSE /\ spc' = "check failed"
               /\ \E c \in DOMAIN results :
                    results[c] = "check failed" /\ step' = [at |-> "encode", c |-> c]
               /\ UNCHANGED ipool
  /\ UNCHANGED <<dead_pool, calls, counts, max_body, first_dead, path,
                 values, executed, updated>>

\* The cycle of dead and mix registers of one bank, for the order in which
\* its entropy registers were popped.
Cycle(order) ==
  [k \in 1 .. Len(order) |->
    [dead |-> order[k], mix |-> order[(k % Len(order)) + 1]]]
GenerateRegisterSchedule(b) == {Cycle(order) : order \in PopOrders(Bank(rpool.entropy, b))}

\* The interleavings of the schedules: which bank each step of the body is
\* taken from.
OutputModes(schedules) ==
  {modes \in Interleavings([b \in Banks |-> Len(schedules[b])]) :
     \A b \in Banks : Cardinality({k \in DOMAIN modes : modes[k] = b}) = Len(schedules[b])}
InterleaveSchedules(modes, schedules) ==
  [k \in DOMAIN modes |->
     schedules[modes[k]][Cardinality({j \in 1 .. k : modes[j] = modes[k]})]]

\* The registers the snapshot sets, and those the preamble sets because the
\* snapshot cannot.
CreateSnapshot == {r \in rpool.entropy : r[1] # "mask"}
Preamble == Bank(rpool.entropy, "mask")
PreambleSize == 2 * Cardinality(Preamble)

SynthesizeLoopBody ==
  /\ spc = "schedule"
  /\ \E gs \in GenerateRegisterSchedule("gp"), vs \in GenerateRegisterSchedule("vec"),
        ks \in GenerateRegisterSchedule("mask"), ms \in GenerateRegisterSchedule("mmx"),
        budget \in DuplicationBudgets(Cardinality(rpool.entropy)) :
       LET schedules == [b \in Banks |-> CASE b = "gp" -> gs [] b = "vec" -> vs
                                           [] b = "mask" -> ks [] OTHER -> ms]
           dead == {schedules[b][1].dead : b \in {x \in Banks : schedules[x] # <<>>}}
       IN /\ \E modes \in OutputModes(schedules) :
               calls' = <<[op |-> "block", schedule |-> InterleaveSchedules(modes, schedules),
                           budget |-> budget]>>
          /\ first_dead' = dead
          /\ dead_pool' = [rpool EXCEPT !.entropy = @ \ dead]
          /\ values' = [r \in rpool.entropy \cup rpool.tmp |->
                          IF r \in (CreateSnapshot \cup Preamble) \ dead THEN {r} ELSE {}]
  /\ spc' = "blocks"
  /\ UNCHANGED <<rpool, ipool, counts, step, max_body, path, executed, updated>>

\* The counter is decremented and the loop closed.
LoopCloses ==
  /\ spc = "blocks" /\ calls = <<>>
  /\ max_body' = counts[1]
  /\ spc' = "done"
  /\ UNCHANGED <<rpool, ipool, dead_pool, calls, counts, step, first_dead,
                 path, values, executed, updated>>

IterationCount == (TargetInstructions - PreambleSize) \div (max_body + 2)

------------------------------------------------------------------------------
(* SynthesizeBlock and its parts. *)

Call == Head(calls)
Calling(op) == spc = "blocks" /\ calls # <<>> /\ Call.op = op
Replace(with) == calls' = with \o Tail(calls)
Block(schedule, budget) == [op |-> "block", schedule |-> schedule, budget |-> budget]

SynthesizeBasicBlock ==
  /\ Calling("block") /\ Call.budget = 0
  /\ Replace(<<[op |-> "basic", schedule |-> Call.schedule, n |-> 0]>>)
  /\ UNCHANGED <<spc, rpool, ipool, dead_pool, counts, step, max_body, first_dead,
                 path, values, executed, updated>>

\* A branch puts the schedule into both of its sides.  The path takes one of
\* them; it executes TEST and the conditional jump.
SynthesizeBranch ==
  /\ Calling("block") /\ Call.budget > 0
  /\ Call.budget >= Len(Call.schedule) \/ Len(Call.schedule) = 1
  /\ LET left == Call.budget - Len(Call.schedule)
     IN IF Bank(dead_pool.entropy, "gp") = {}
        THEN CheckFails
        ELSE /\ \E a \in 0 .. left, side \in IF path THEN {"a", "b"} ELSE {"none"} :
                  /\ Replace(<<Block(Call.schedule, a),
                               [op |-> "second", schedule |-> Call.schedule,
                                budget |-> left - a, dead_pool |-> dead_pool, side |-> side],
                               [op |-> "join", side |-> side]>>)
                  /\ path' = (side = "a")
             /\ executed' = IF path THEN executed + 2 ELSE executed
             /\ UNCHANGED <<spc, rpool, ipool, dead_pool, counts, step, max_body,
                            first_dead, values, updated>>

\* The second side starts from the registers that were dead at the branch.
\* The first one ends with a jump over it.
SecondSide ==
  /\ Calling("second")
  /\ dead_pool' = Call.dead_pool
  /\ Replace(<<Block(Call.schedule, Call.budget)>>)
  /\ executed' = IF Call.side = "a" THEN executed + 1 ELSE executed
  /\ path' = (Call.side = "b")
  /\ UNCHANGED <<spc, rpool, ipool, counts, step, max_body, first_dead, values, updated>>

\* The jump over the second side counts.
BranchCount(a, b) == (IF a + 1 > b THEN a + 1 ELSE b) + 2

Join ==
  /\ Calling("join")
  /\ LET n == Len(counts)
     IN counts' = Append(SubSeq(counts, 1, n - 2), BranchCount(counts[n - 1], counts[n]))
  /\ path' = (Call.side # "none")
  /\ Replace(<<>>)
  /\ UNCHANGED <<spc, rpool, ipool, dead_pool, step, max_body, first_dead,
                 values, executed, updated>>

SynthesizeSplit ==
  /\ Calling("block") /\ Call.budget > 0 /\ Len(Call.schedule) > 1
  /\ \E at \in 1 .. Len(Call.schedule) - 1, a \in 0 .. Call.budget :
       Replace(<<Block(SubSeq(Call.schedule, 1, at), a),
                 Block(SubSeq(Call.schedule, at + 1, Len(Call.schedule)), Call.budget - a),
                 [op |-> "sum"]>>)
  /\ UNCHANGED <<spc, rpool, ipool, dead_pool, counts, step, max_body, first_dead,
                 path, values, executed, updated>>

Sum ==
  /\ Calling("sum")
  /\ LET n == Len(counts)
     IN counts' = Append(SubSeq(counts, 1, n - 2), counts[n - 1] + counts[n])
  /\ Replace(<<>>)
  /\ UNCHANGED <<spc, rpool, ipool, dead_pool, step, max_body, first_dead, path,
                 values, executed, updated>>

BasicBlockReturns ==
  /\ Calling("basic") /\ Call.schedule = <<>> /\ step = NoStep
  /\ counts' = Append(counts, Call.n)
  /\ Replace(<<>>)
  /\ UNCHANGED <<spc, rpool, ipool, dead_pool, step, max_body, first_dead, path,
                 values, executed, updated>>

------------------------------------------------------------------------------
(* SynthesizeTestStep. *)

\* Emitting n instructions that turn the registers' contents into v.
EmitCode(n, v) ==
  /\ calls' = [calls EXCEPT ![1].n = @ + n]
  /\ executed' = IF path THEN executed + n ELSE executed
  /\ values' = IF path THEN v ELSE values

\* The mix register is reserved: the test instruction must not read it.
\* Mutant: it is not.
Reserve_Nothing(p, mix) == p
Reserve(p, mix) == [p EXCEPT !.entropy = @ \ {mix}]

\* Does the test instruction leave part of the register it writes alone?
OperandIsRead(o, merging) == o.read \/ (o.written /\ merging)

\* The candidate is chosen, the mix register and the fixed registers are set
\* aside.
BeginTestStep ==
  /\ Calling("basic") /\ Call.schedule # <<>> /\ step = NoStep
  /\ LET dead == Head(Call.schedule).dead
         mix  == Head(Call.schedule).mix
         mine == {c \in ipool : OutputMode(c) = mix[1]}
     IN IF mine = {} \/ dead \in dead_pool.entropy \/ mix \notin dead_pool.entropy
        THEN CheckFails
        ELSE \E c \in mine, use \in BOOLEAN, zero \in BOOLEAN :
               LET fixed == c.fixed_reg
               IN /\ use => c.writemask
                  /\ zero => use
                  /\ use /\ mix[1] = "mask" => zero
                  /\ IF ~(fixed.read \cup fixed.written \subseteq dead_pool.tmp)
                     THEN /\ spc' = "check failed"
                          /\ step' = [at |-> "begin", c |-> c, use |-> use]
                          /\ UNCHANGED <<rpool, ipool, dead_pool, calls, counts, max_body,
                                         first_dead, path, values, executed, updated>>
                     ELSE /\ step' = [at |-> "operands", c |-> c, dead |-> dead, mix |-> mix,
                                      pool |-> [Reserve(dead_pool, mix) EXCEPT
                                                  !.tmp = @ \ (fixed.read \cup fixed.written)],
                                      todo |-> SelectSeq(c.ins.ops, LAMBDA o :
                                                 OperandIsExplicit(o) /\ OperandIsRegister(o)),
                                      needs_init |-> fixed.read, written |-> fixed.written,
                                      reads |-> fixed.read, use |-> use, merging |-> use /\ ~zero,
                                      src |-> mix]
                          /\ UNCHANGED <<spc, rpool, ipool, dead_pool, calls, counts, max_body,
                                         first_dead, path, values, executed, updated>>

\* One explicit operand: what is written goes to a temporary, what is only
\* read comes straight from the entropy.  An unused writemask is k0.
HandleOperand ==
  /\ Calling("basic") /\ step.at = "operands" /\ step.todo # <<>>
  /\ LET o    == Head(step.todo)
         b    == OperandBank(o)
         from == IF o.written THEN Bank(step.pool.tmp, b) ELSE Bank(step.pool.entropy, b)
         rest == [step EXCEPT !.todo = Tail(@)]
     IN CASE o.what = "writemask" /\ ~step.use ->
               /\ step' = rest
               /\ UNCHANGED <<spc, rpool, ipool, dead_pool, calls, counts, max_body,
                              first_dead, path, values, executed, updated>>
          [] from = {} /\ ~(o.what = "writemask" /\ ~step.use) -> CheckFails
          [] OTHER ->
               /\ \E r \in IF o.written THEN PopTmp(from) ELSE from :
                    step' = IF o.written
                            THEN [rest EXCEPT !.pool.tmp = @ \ {r},
                                    !.written = @ \cup {r},
                                    !.needs_init = IF OperandIsRead(o, step.merging)
                                                   THEN @ \cup {r} ELSE @,
                                    !.reads = IF OperandIsRead(o, step.merging)
                                              THEN @ \cup {r} ELSE @]
                            ELSE [rest EXCEPT !.pool.entropy = @ \ {r},
                                              !.reads = @ \cup {r}]
               /\ UNCHANGED <<spc, rpool, ipool, dead_pool, calls, counts, max_body,
                              first_dead, path, values, executed, updated>>

\* A temporary the test instruction reads gets a copy of entropy.
SynthesizeInit ==
  /\ Calling("basic") /\ step.at = "operands" /\ step.todo = <<>> /\ step.needs_init # {}
  /\ \E r \in step.needs_init :
       LET from == Bank(step.pool.entropy, r[1])
       IN IF from = {}
          THEN CheckFails
          ELSE \E e \in from :
                 /\ step' = [step EXCEPT !.needs_init = @ \ {r}, !.pool.entropy = @ \ {e}]
                 /\ EmitCode(1, RegMov(values, e, r))
                 /\ UNCHANGED <<spc, rpool, ipool, dead_pool, counts, max_body, first_dead,
                                path, updated>>

\* Where the results are gathered first: GP and MMX registers are mixed in
\* place, so the mix register is moved to the output.
CollectionStart(v) ==
  IF step.mix[1] \in {"gp", "mmx"} THEN RegMov(v, step.mix, step.dead) ELSE v
CollectionStartSize == IF step.mix[1] \in {"gp", "mmx"} THEN 1 ELSE 0

\* What the test instruction computes is worth collecting even if it read
\* nothing.
TestResult(v) ==
  LET computed == Exec(v, step.reads, step.written)
  IN [r \in DOMAIN v |-> IF r \in step.written /\ (step.reads = {} \/ computed[r] # {})
                         THEN computed[r] \cup {Result} ELSE computed[r]]

\* The test instruction is emitted, the flags saved now and then, and the
\* registers that will be collected must be neither entropy nor temporaries.
EmitTestInstruction ==
  /\ Calling("basic") /\ step.at = "operands" /\ step.todo = <<>> /\ step.needs_init = {}
  /\ \E capture \in BOOLEAN :
       /\ capture => step.c.fixed_reg.flags_written /\ OutputMode(step.c) = "gp"
       /\ IF capture /\ Bank(step.pool.tmp, "gp") = {}
          THEN CheckFails
          ELSE \E saved \in IF capture THEN {{t} : t \in PopTmp(Bank(step.pool.tmp, "gp"))} ELSE {{}} :
                 LET written == step.written \cup saved
                     pool    == [step.pool EXCEPT !.tmp = @ \ saved]
                     flags   == [r \in DOMAIN values |-> IF r \in saved THEN {Result}
                                                        ELSE TestResult(values)[r]]
                 IN IF \/ written = {}
                       \/ written \cap (pool.tmp \cup pool.entropy \cup {step.dead, step.mix}) # {}
                    THEN CheckFails
                    ELSE /\ step' = [step EXCEPT !.at = "collect", !.written = written,
                                                 !.pool = pool]
                         /\ EmitCode(1 + (IF capture THEN FlagSaveSize ELSE 0) + CollectionStartSize,
                                 CollectionStart(flags))
                         /\ UNCHANGED <<spc, rpool, ipool, dead_pool, counts, max_body,
                                        first_dead, path, updated>>

\* One result is folded in.
CollectGP(r) ==
  /\ step.mix[1] = "gp"
  /\ EmitCode(2, GPRegMix(GPRegPermute(values, step.dead), step.mix, r, step.dead))
  /\ step' = [step EXCEPT !.written = @ \ {r}]
  /\ UNCHANGED spc

\* The mix register is free to rotate with; the first time it still is a copy
\* of the output register.
CollectMMX(r) ==
  /\ step.mix[1] = "mmx"
  /\ EmitCode(IF step.src = step.mix THEN 4 ELSE 5,
              MMXRegMix(MMXRegPermute(values, step.dead, step.mix), step.mix, r, step.dead))
  /\ step' = [step EXCEPT !.written = @ \ {r}, !.src = step.dead]
  /\ UNCHANGED spc

\* The permuted copy is a temporary that is given back, the result goes to
\* another one, which is not, or in the end to the output.
IsLast(r) == step.written = {r}
CollectVec(r) ==
  /\ step.mix[1] = "vec"
  /\ LET tmp == Bank(step.pool.tmp, "vec")
     IN IF tmp = {} \/ (~IsLast(r) /\ Cardinality(tmp) < 2)
        THEN CheckFails
        ELSE \E p \in PopTmp(tmp) : \E d \in IF IsLast(r) THEN {step.dead} ELSE PopTmp(tmp \ {p}) :
               /\ EmitCode(2, VecRegMix(VecRegPermute(values, step.src, p), step.mix, r, p, d))
               /\ step' = [step EXCEPT !.written = @ \ {r}, !.src = d, !.pool.tmp = @ \ {d}]
               /\ UNCHANGED spc

\* Rotating a mask takes one more temporary for a moment, and the last
\* intermediate result is given back.
CollectMask(r) ==
  /\ step.mix[1] = "mask"
  /\ LET tmp  == Bank(step.pool.tmp, "mask")
         free == IF step.src = step.mix THEN tmp ELSE tmp \cup {step.src}
     IN IF Cardinality(tmp) < 2
        THEN CheckFails
        ELSE \E p \in PopTmp(tmp) : \E t \in PopTmp(tmp \ {p}) :
             \E d \in IF IsLast(r) THEN {step.dead} ELSE PopTmp(free \ {p}) :
               /\ EmitCode(4, MaskRegMix(MaskRegPermute(values, step.src, p, t),
                                         step.mix, r, p, d))
               /\ step' = [step EXCEPT !.written = @ \ {r}, !.src = d,
                                       !.pool.tmp = (@ \cup free) \ {d}]
               /\ UNCHANGED spc

SynthesizeOutputCollection ==
  /\ Calling("basic") /\ step.at = "collect" /\ step.written # {}
  /\ \E r \in step.written : CollectGP(r) \/ CollectMMX(r) \/ CollectVec(r) \/ CollectMask(r)
  /\ UNCHANGED <<rpool, ipool, dead_pool, counts, max_body, first_dead, path, updated>>

\* The step is over: the mix register is dead now, the dead one holds entropy
\* if it was really computed from the mix register and the results, and
\* nothing can be said of the temporaries.
Retire(v) ==
  [r \in DOMAIN v |->
     CASE r = step.dead -> IF {step.mix, Result} \subseteq v[r] THEN {r} ELSE {}
       [] r = step.mix \/ r \in rpool.tmp -> {}
       [] OTHER -> v[r]]

NextDeadPool(p, dead, mix) == [p EXCEPT !.entropy = (@ \ {mix}) \cup {dead}]

TestStepReturns ==
  /\ Calling("basic") /\ step.at = "collect" /\ step.written = {}
  /\ dead_pool' = NextDeadPool(dead_pool, step.dead, step.mix)
  /\ calls' = [calls EXCEPT ![1].schedule = Tail(@)]
  /\ values' = IF path THEN Retire(values) ELSE values
  /\ updated' = IF path THEN updated \cup {step.dead} ELSE updated
  /\ step' = NoStep
  /\ UNCHANGED <<spc, rpool, ipool, counts, max_body, first_dead, path, executed>>

SynthesisNext ==
  \/ Generate \/ SynthesizeLoopBody \/ LoopCloses
  \/ SynthesizeBasicBlock \/ SynthesizeBranch \/ SecondSide \/ Join
  \/ SynthesizeSplit \/ Sum \/ BasicBlockReturns
  \/ BeginTestStep \/ HandleOperand \/ SynthesizeInit \/ EmitTestInstruction
  \/ SynthesizeOutputCollection \/ TestStepReturns

SynthesisSpec == SynthesisInit /\ [][SynthesisNext]_svars

------------------------------------------------------------------------------
(* Properties. *)

Live == {r \in rpool.entropy : values[r] # {}}

\* On every path through the body the registers that hold entropy are the
\* ones the generator takes for alive, whichever sides of its branches were
\* taken; a path through the whole body has written every entropy register,
\* from the mix register and the test's results, and leaves the same
\* registers dead as at its start, so that the next iteration starts alike.
EntropyCycles ==
  /\ spc = "blocks" /\ step = NoStep /\ path
       /\ (calls # <<>> => Call.op \in {"block", "basic"}) =>
       /\ Live = dead_pool.entropy
       /\ \A r \in Live : values[r] = {r}
  /\ spc = "done" => /\ updated = rpool.entropy
                     /\ Live = rpool.entropy \ first_dead

\* The entropy registers of a bank that the step being synthesized takes: the
\* test instruction pops some, the others are copied to its inputs.
Demand(b) ==
  LET c == step.c
  IN PoppedEntropy(c, b, step.use)
       + Cardinality(Bank(c.fixed_reg.read, b))
       + Cardinality({k \in Explicit(c.ins, b) :
           c.ins.ops[k].written /\ OperandIsRead(c.ins.ops[k], step.merging)})

LeftBeside(b, n) ==
  LET all == Cardinality(Bank(rpool.entropy, b)) IN IF all < n THEN 0 ELSE all - n

\* A failing CHECK is the fault of the candidate at hand, which needs more
\* entropy registers of some bank than there are: while the pool is filled, than
\* are left beside a dead one, in a step, than are left beside a dead one and,
\* in its own bank, a mix register.  As filling the pool does not reserve a mix
\* register, it may let such a candidate in.  And no iteration executes more
\* instructions than the count the iterations were computed from.
SynthesisFits ==
  /\ spc = "check failed" => \E b \in Banks :
       CASE step.at = "none" -> FALSE
         [] step.at = "encode" -> PoppedEntropy(step.c, b, step.c.writemask) > LeftBeside(b, 1)
         [] OTHER -> Demand(b) > LeftBeside(b, IF b = OutputMode(step.c) THEN 2 ELSE 1)
  /\ spc = "done" =>
       /\ executed <= max_body
       /\ IterationCount > 0 =>
            PreambleSize + IterationCount * (executed + 2) <= TargetInstructions

\* SynthesizeLoopBody keeps the entropy alive on every path and stays within
\* its registers and its instruction count.
SynthesisSound == EntropyCycles /\ SynthesisFits
=============================================================================
