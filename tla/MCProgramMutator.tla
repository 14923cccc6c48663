-------------------------- MODULE MCProgramMutator --------------------------
(***************************************************************************)
(* Two ways of making tests, one per behaviour: mutation of programs, on   *)
(* small instances of both back ends, and the synthesis of hash tests.     *)
(*                                                                         *)
(* Displacement fields have two or three bits, so that branches across a   *)
(* few instructions cannot be encoded; x86_64 has branches that become     *)
(* shorter or longer when the encoder canonicalises them.                  *)
(***************************************************************************)
EXTENDS ProgramMutator, HashTestSynthesis

VARIABLE scenario

Enc(a, kind, size, canon, width, field) ==
  [arch |-> a, kind |-> kind, size |-> size, canon |-> canon,
   width |-> width, field |-> field]

X(kind, size, canon, width, field) == Enc("x86_64", kind, size, canon, width, field)
A(kind, width, field) == Enc("aarch64", kind, 4, 4, width, field)

MCInputs ==
  [x86_64 |-> {<<X("insn", 2, 1, 3, -1), X("undecodable", 1, 1, 0, 0),
                 X("insn", 1, 1, 3, 2), X("insn", 2, 2, 0, 0)>>,
               <<X("rejected", 1, 1, 0, 0)>>},
   aarch64 |-> {<<A("insn", 3, 1), A("insn", 2, -1), A("insn", 0, 0)>>}]

MCGenerated ==
  [x86_64 |-> {X("insn", 2, 1, 2, 1), X("insn", 1, 2, 3, 0)},
   aarch64 |-> {A("insn", 2, 1)}]

MCMaxLen == [x86_64 |-> 5, aarch64 |-> 12]

------------------------------------------------------------------------------
(* Register layouts with two to four entropy registers in two to four      *)
(* banks.  Tight has one too few for PDEP once a mix register is set       *)
(* aside, Cramped too few even while the pool is filled.                   *)

Layout(g, v, k, m) ==
  [b \in Banks |-> CASE b = "gp" -> g [] b = "vec" -> v [] b = "mask" -> k [] OTHER -> m]
Roomy    == [entropy |-> Layout({9, 10, 11}, {}, {}, {4, 5}),
             tmp |-> Layout({0, 2, 3}, {}, {}, {0, 1})]
Tight    == [entropy |-> Layout({9, 10, 11}, {}, {}, {4, 5}),
             tmp |-> Layout({0, 1}, {}, {}, {0})]
Cramped  == [entropy |-> Layout({9, 10}, {}, {}, {4, 5}),
             tmp |-> Layout({0}, {}, {}, {0})]
WithVec  == [entropy |-> Layout({9, 10}, {8, 9, 10}, {4, 5}, {4, 5}),
             tmp |-> Layout({0}, {0, 1}, {0, 1, 2}, {0})]
WithMask == [entropy |-> Layout({9, 10}, {}, {4, 5, 6, 7}, {4, 5}),
             tmp |-> Layout({0}, {}, {0, 1, 2}, {0})]
MCChips == {Roomy, Tight, Cramped, WithVec, WithMask}

\* Longer schedules get fewer branches.
MCBudgets(n) == IF n = 5 THEN {0, 1} ELSE {0}

\* All the interleavings of two banks; of more, the banks one after the other
\* and in turn.
InTurn(lens) ==
  LET rounds == [k \in 1 .. 4 |-> SelectSeq(<<"mmx", "vec", "gp", "mask">>,
                                            LAMBDA b : lens[b] >= k)]
  IN FlattenSeq(rounds)
MCInterleavings(lens) ==
  IF lens["vec"] + lens["mask"] = 0 THEN [1 .. lens["gp"] + lens["mmx"] -> {"gp", "mmx"}]
  ELSE {InTurn(lens),
        FlattenSeq([k \in 1 .. 4 |->
          LET b == <<"gp", "vec", "mask", "mmx">>[k] IN [n \in 1 .. lens[b] |-> b]])}

\* Registers of a bank only differ in being fixed operands.  Entropy registers
\* never are, and fixed temporaries are set aside before one is popped: one
\* order and one temporary stand for all.
MCPopOrders(set) == {SetToSortSeq(set, LAMBDA x, y : x[2] < y[2])}
MCPopTmp(set) == {CHOOSE r \in set : \A q \in set : r[2] <= q[2]}

Operand(vis, what, reg, read, written, width) ==
  [vis |-> vis, what |-> what, reg |-> reg, read |-> read, written |-> written, width |-> width]
Rd(bank) == Operand("explicit", bank, 0, TRUE, FALSE, "other")
Wr(bank) == Operand("explicit", bank, 0, FALSE, TRUE, "Y")
RdWr(bank) == Operand("explicit", bank, 0, TRUE, TRUE, "V")
FixedRd(bank, reg) == Operand("suppressed", bank, reg, TRUE, FALSE, "other")
FixedWr(bank, reg) == Operand("suppressed", bank, reg, FALSE, TRUE, "other")
Encodes ==
  [w \in {16, 32, 64} |-> CASE w = 16 -> {"kIFormMismatch"} [] w = 32 -> {"kOK"}
                             [] OTHER -> {"kOK", "kIFormMismatch"}]
Insn(chips, ops) == [valid_for |-> chips, testable |-> TRUE, encode |-> Encodes, ops |-> ops]

\* Named after instructions of their shape.  The last four are not to get into
\* the pool: they touch the stack, memory or two banks, or cannot be encoded.
MCInstructions ==
  {Insn({Roomy}, <<Wr("gp"), Wr("gp"), FixedRd("gp", 2)>>),                         \* MULX
   Insn({Roomy, Tight}, <<RdWr("gp"), Rd("imm"), FixedWr("flags", 0)>>),            \* SHL
   Insn({Tight, Cramped}, <<Wr("gp"), Rd("gp"), Rd("gp")>>),                        \* PDEP
   Insn(MCChips, <<Wr("mmx"), Rd("gp")>>),                                          \* MOVD
   Insn({WithVec}, <<Wr("gp"), Rd("vec")>>),                                        \* VMOVD
   Insn({WithVec}, <<Wr("vec"), Rd("writemask"), Rd("gp")>>),                       \* VPBROADCASTD
   Insn({WithVec}, <<Wr("mask"), Rd("vec")>>),                                      \* VPMOVB2M
   Insn({WithMask}, <<Wr("gp"), Rd("mask")>>),                                      \* KMOVD
   Insn({WithMask}, <<Wr("mask"), Rd("mask"), Rd("mask")>>),                        \* KADD
   Insn({Roomy}, <<Wr("gp"), FixedRd("stack", 4)>>),                                \* POP
   Insn({Roomy}, <<Wr("gp"), Rd("memory")>>),                                       \* MOV
   Insn({Roomy}, <<Wr("gp"), FixedWr("mmx", 4)>>),
   [Insn({Roomy}, <<Wr("gp")>>) EXCEPT !.encode[64] = {"kEncodeError"}]}

------------------------------------------------------------------------------

mcVars == <<scenario, mutatorVars, svars>>

MCInit ==
  /\ scenario \in {"mutate", "synthesize"} /\ MutatorInit /\ SynthesisInit
  /\ scenario = "synthesize" => arch = "aarch64"

MCNext ==
  /\ UNCHANGED scenario
  /\ \/ scenario = "mutate" /\ MutatorNext /\ UNCHANGED svars
     \/ scenario = "synthesize" /\ SynthesisNext /\ UNCHANGED mutatorVars

MCSpec ==
  /\ MCInit /\ [][MCNext]_mcVars
  /\ WF_mutatorVars(scenario = "mutate" /\ MutatorNext)
  /\ SF_mutatorVars(scenario = "mutate" /\ RandomizeEncodable)

\* Making a mutant ends: the retries and the passes that fix displacements up
\* come to an end, whatever can be encoded.
MutatorEnds == scenario = "mutate" => MutationEnds
=============================================================================
