--------------------------- MODULE SnippetTracer ---------------------------
(***************************************************************************)
(* tracing/: a snippet of instructions is run under a tracer, which calls  *)
(* back before the execution, before every instruction and after the       *)
(* execution.  There are two tracers: NativeTracer single-steps a runner   *)
(* process with ptrace, UnicornTracer emulates.  And there are three       *)
(* clients: CaptureTrace records the instructions and the registers,       *)
(* TraceSnippetWithSkip leaves out one instruction (the two make up        *)
(* trace_tool's `analyze'), and the proxies turn what they see into        *)
(* features for the fuzzer, for several inputs in one batch.               *)
(*                                                                         *)
(* The machine is as small as the tracers can tell: a general register, an *)
(* extension register that Unicorn does not read, the alignment of the     *)
(* stack pointer, memory that the partial checksum covers and memory that  *)
(* it does not.  The code is at 0 .. len - 1.                              *)
(***************************************************************************)
EXTENDS Integers, Sequences, FiniteSets

CONSTANTS
    Snippets,    \* [len, code: address -> [size, op, to]]
    Limits,      \* values of max_instructions
    PageBytes,   \* room for code and exit sequence
    Fuel,        \* bound: after as many steps a snippet is in a loop
    MaxInputs,   \* bound: inputs of a batch
    MaxHiccups   \* bound: timeouts, ignored stops and deaths of the runner

ASSUME SnippetTracerAssumption ==
    /\ Limits \subseteq 1 .. Fuel
    /\ {PageBytes, Fuel, MaxInputs, MaxHiccups} \subseteq Nat
    /\ \A p \in Snippets :
           /\ p.len \in Nat
           /\ \A a \in 0 .. p.len - 1 :
                  p.code[a].size \in Nat \ {0} /\ p.code[a].to \in Nat

VARIABLES
    use,       \* what runs: [tool, type, arch, max]
    snippet,
    mach,      \* the machine
    at,        \* "init", "traced", "untraced", "emulated", "returned", "end"
    ts,        \* the tracer's own state
    trace,     \* ExecutionTrace of CaptureTrace
    job,       \* -1 while capturing, or the instruction to leave out
    inject,    \* locals of TraceSnippetWithSkip
    critical,  \* what the fault injection found so far
    proxy,     \* locals of RunInstructions
    gen,       \* ArchFeatureGenerator and the features
    result,    \* the status of Run, "none" before
    hiccups

snippetVars == <<use, snippet, mach, at, ts, trace, job, inject, critical,
                 proxy, gen, result, hiccups>>

-----------------------------------------------------------------------------
(* The machine (external).                                                 *)

Start == [pc |-> 0, r |-> 0, ext |-> 0, sp |-> 0, mem |-> 0, far |-> 0, fault |-> FALSE]

IsInsideCode(p, a) == 0 <= a /\ a < p.len

(* Disassembler::InstructionSize(): 0 for an instruction it does not know. *)
InstructionSize(i) == IF i.op = "???" THEN 0 ELSE i.size

InstructionIsInRange(p, a) == a >= 0 /\ a + InstructionSize(p.code[a]) <= p.len

Flip(b) == 1 - b

MachineStep(p, m) ==
    IF ~IsInsideCode(p, m.pc) \/ p.code[m.pc].op = "bad" THEN [m EXCEPT !.fault = TRUE]
    ELSE LET i == p.code[m.pc]
         IN  [m EXCEPT
                !.pc  = IF i.op = "jmp" \/ (i.op = "jz" /\ m.r = 0) THEN i.to
                                                                  ELSE @ + i.size,
                !.r   = IF i.op \in {"not", "???"} THEN Flip(@) ELSE @,
                !.ext = IF i.op = "vec" THEN Flip(@) ELSE @,
                !.sp  = IF i.op = "push" THEN Flip(@) ELSE @,
                !.mem = IF i.op = "store" THEN m.r ELSE @,
                !.far = IF i.op = "far" THEN 1 ELSE @]

Ended(p, m) == m.fault \/ m.pc = p.len

Advance(p, m) == IF Ended(p, m) THEN m ELSE MachineStep(p, m)

Path(p, m0) ==
    LET f[n \in 0 .. Fuel] ==
            IF n = 0 THEN m0 ELSE CHOOSE m \in {Advance(p, l) : l \in {f[n - 1]}} : TRUE
    IN  f

RunOut(p, m) == Path(p, m)[Fuel]

(* The exit sequence pushes on the stack, which faults if it is misaligned
   on aarch64.                                                             *)
Exits(p, m) == m.pc = p.len /\ ~m.fault /\ (use.arch = "aarch64" => m.sp = 0)

-----------------------------------------------------------------------------
(* InstructionsToSnapshot(): the static filter knows no bad instruction of
   this machine; the code must leave room for the exit sequence.           *)
InstructionsToSnapshot(p) == p.len <= PageBytes - 1

(* MakeRawInstructions(): the end state is recorded and replayed.          *)
MakeRawInstructions(p) == InstructionsToSnapshot(p) /\ Exits(p, RunOut(p, Start))

(* GetRegisters().  The tracee's registers are copied one by one, the
   extension registers are asked for separately.                           *)
DeserializeUserRegsStruct(m) == [pc |-> m.pc, r |-> m.r, sp |-> m.sp]
GetX86XState(m) == [ext |-> m.ext]
WithExtension(regs, x) ==
    [pc |-> regs.pc, r |-> regs.r, sp |-> regs.sp, ext |-> x.ext]
NativeGetRegisters(m) == WithExtension(DeserializeUserRegsStruct(m), GetX86XState(m))

(* Unicorn reads the registers of a list, and clears the extension
   registers.                                                              *)
UnicornX86_64RegValue(m) == [pc |-> m.pc, r |-> m.r, sp |-> m.sp]
UnicornAArch64RegValue(m) == [pc |-> m.pc, r |-> m.r, sp |-> m.sp]
UnicornGetRegisters(m) ==
    WithExtension(IF use.arch = "x86" THEN UnicornX86_64RegValue(m)
                                      ELSE UnicornAArch64RegValue(m),
                  [ext |-> 0])
GetRegisters(m) ==
    IF use.type = "native" THEN NativeGetRegisters(m) ELSE UnicornGetRegisters(m)

(* Registers of a signal handler of the runner.                            *)
HandlerRegisters == [pc |-> -2, r |-> 0, sp |-> 0, ext |-> 0]

(* PartialChecksumOfMutableMemory(): never 0, and blind for far memory.    *)
Checksum(m) == 1 + m.mem

Unset == [pc |-> -3, r |-> 0, sp |-> 0, ext |-> 0]

-----------------------------------------------------------------------------
(* CaptureTrace(): contexts[n] is LastContext() after n instructions.      *)

EmptyTrace == [n |-> 0, contexts |-> <<Unset>>, addresses |-> <<>>,
               checksum |-> 0, out_of_bounds |-> FALSE, died |-> FALSE]

SetContext(t, regs) == [t EXCEPT !.contexts[t.n + 1] = regs]

(* NextInfo() has a CHECK.                                                 *)
NextInfo(t, a) ==
    IF t.n >= use.max THEN [t EXCEPT !.died = TRUE]
    ELSE [t EXCEPT !.n = @ + 1, !.addresses = Append(@, a),
                   !.contexts = Append(@, Unset)]

CaptureBefore(t, m) ==
    LET info == NextInfo(SetContext(t, GetRegisters(m)), m.pc)
    IN  [info EXCEPT !.out_of_bounds = @ \/ ~InstructionIsInRange(snippet, m.pc)]

CaptureAfter(t, regs, m) ==
    [SetContext(t, regs) EXCEPT !.checksum = Checksum(m)]

(* TraceSnippetWithSkip().                                                 *)
NoInjection == [executed |-> 0, ucontext |-> Unset, checksum |-> 0]

Skips == use.tool = "analyze" /\ inject.executed = job

SkipTo(m) == IF Skips THEN m.pc + InstructionSize(snippet.code[m.pc]) ELSE m.pc

SkipBefore(ip) ==
    [inject EXCEPT !.executed = IF IsInsideCode(snippet, ip) THEN @ + 1 ELSE @]

(* The client's callbacks.  Before an instruction it may move the
   instruction pointer and may ask to stop.                                *)
Capturing == use.tool = "analyze" /\ job = -1
Injecting == use.tool = "analyze" /\ job >= 0

-----------------------------------------------------------------------------
(* proxies/unicorn_*.cc and ArchFeatureGenerator.                          *)

Toggles(from, to) ==
    {<<f, from[f], to[f]>> : f \in {g \in DOMAIN from : from[g] # to[g]}}

InstructionID(i) == IF i.op = "???" THEN "invalid" ELSE i.op

BeforeBatch == [prev |-> "invalid", initial |-> Unset, regs |-> Unset, toggles |-> {},
                ops |-> {}, op_toggles |-> {}, features |-> {}]

NoPending == [pending |-> FALSE, id |-> "invalid", in_range |-> TRUE]

(* BeforeInput() and BeforeExecution().  UserFeatures::Reset() rewinds the
   index up to which features are read: what lies behind it is not there.  *)
BeforeInput(g, regs) ==
    [g EXCEPT !.features = {}, !.prev = "invalid", !.initial = regs, !.regs = regs,
              !.toggles = {}, !.ops = {}, !.op_toggles = {}]

AfterInstruction(g, id, regs) ==
    LET changed == Toggles(g.regs, regs)
        known == IF id = "invalid" THEN {} ELSE {id}
    IN  [g EXCEPT
          !.ops = @ \cup known,
          !.op_toggles = @ \cup {<<op, t>> : op \in known, t \in changed},
          !.features = @ \cup {<<"op pair", g.prev, op>> :
                                 op \in IF g.prev = "invalid" THEN {} ELSE known},
          !.toggles = @ \cup changed,
          !.prev = id,
          !.regs = regs]

(* after_instruction: the state before the next instruction is the state
   after the pending one.                                                  *)
Flush(g, p, m) ==
    IF p.pending THEN AfterInstruction(g, p.id, UnicornGetRegisters(m)) ELSE g

ProxyBefore(p, m) ==
    LET i == snippet.code[m.pc]
    IN  [pending |-> TRUE,
         id |-> InstructionID(i),
         in_range |-> p.in_range /\ (use.arch = "x86" /\ InstructionID(i) # "invalid"
                                       => InstructionIsInRange(snippet, m.pc))]

AfterExecution(g, m) ==
    [g EXCEPT !.features =
        @ \cup {<<"toggle", t>> : t \in g.toggles}
          \cup {<<"difference", t[1]>> : t \in Toggles(g.initial, g.regs)}
          \cup {<<"op", op>> : op \in g.ops}
          \cup {<<"op toggle", t[1], t[2]>> : t \in g.op_toggles}
          \cup (IF m.mem = 1 THEN {<<"memory", "r">>} ELSE {})]

Proxying == use.tool = "proxy"

(* What the three clients do before an instruction ...                     *)
BeforeInstruction(m) ==
    /\ trace' = IF Capturing THEN CaptureBefore(trace, m) ELSE trace
    /\ inject' = IF Injecting THEN SkipBefore(SkipTo(m)) ELSE inject
    /\ gen' = IF Proxying THEN Flush(gen, proxy, m) ELSE gen
    /\ proxy' = IF Proxying THEN ProxyBefore(proxy, m) ELSE proxy

StopAsked(m) == Capturing /\ ~InstructionIsInRange(snippet, m.pc)

(* ... and after the execution, given the clients' states so far.          *)
TraceAfter(t, regs, m) == IF Capturing THEN CaptureAfter(t, regs, m) ELSE t
InjectAfter(i, regs, m) ==
    IF Injecting THEN [i EXCEPT !.ucontext = regs, !.checksum = Checksum(m)] ELSE i

-----------------------------------------------------------------------------
(* InitSnippet() of either tracer and the beginning of Run(): a new tracer
   for every run.                                                          *)
NewTracer == [state |-> "kReady", count |-> 0, stop |-> FALSE, limit |-> FALSE,
              err |-> FALSE, timeout |-> FALSE]

(* The aarch64 proxy wants an instruction at least.                        *)
TooShort == use.tool = "proxy" /\ use.arch = "aarch64" /\ snippet.len < 1

InitFails ==
    /\ at = "init"
    /\ TooShort \/ ~IF use.type = "native" THEN MakeRawInstructions(snippet)
                                            ELSE InstructionsToSnapshot(snippet)
    /\ at' = "returned"
    /\ result' = "error"
    /\ UNCHANGED <<use, snippet, mach, ts, trace, job, inject, critical, proxy, gen,
                   hiccups>>

(* Run() of the native tracer: the runner starts, outside of the code.     *)
NativeRun ==
    /\ at = "init"
    /\ use.type = "native" /\ MakeRawInstructions(snippet)
    /\ at' = "traced"
    /\ mach' = [Start EXCEPT !.pc = -1]
    /\ ts' = [NewTracer EXCEPT !.state = "kPreTracing"]
    /\ trace' = IF Capturing THEN EmptyTrace ELSE trace
    /\ inject' = NoInjection
    /\ UNCHANGED <<use, snippet, job, critical, proxy, gen, result, hiccups>>

(* Run() of the Unicorn tracer, with BeforeExecution().                    *)
UnicornRun ==
    /\ at = "init"
    /\ use.type = "unicorn" /\ InstructionsToSnapshot(snippet) /\ ~TooShort
    /\ at' = "emulated"
    /\ mach' = Start
    /\ ts' = NewTracer
    /\ trace' = IF Capturing THEN EmptyTrace ELSE trace
    /\ inject' = NoInjection
    /\ gen' = IF Proxying THEN BeforeInput(gen, UnicornGetRegisters(Start)) ELSE gen
    /\ proxy' = NoPending
    /\ UNCHANGED <<use, snippet, job, critical, result, hiccups>>

-----------------------------------------------------------------------------
(* NativeTracer: the callback of the harness tracer at a single-step stop,
   and the instruction that the tracee executes next.                      *)

(* The runner is still on its way.                                         *)
StopBeforeCode ==
    /\ at = "traced"
    /\ mach.pc = -1
    /\ mach' = [mach EXCEPT !.pc = 0]
    /\ UNCHANGED <<use, snippet, at, ts, trace, job, inject, critical, proxy, gen,
                   result, hiccups>>

(* GetInstructionPointer() after the callback: from the cached registers,
   which SetInstructionPointer keeps up to date.  Mutant: it does not.     *)
NativeGetInstructionPointer_Stale(old, ip) == old

NativeGetInstructionPointer(old, ip) == ip

(* Inside the code and below the limit: BeforeInstruction().               *)
StopInCode ==
    LET ip == SkipTo(mach)
        addr == NativeGetInstructionPointer(mach.pc, ip)
        moved == [mach EXCEPT !.pc = ip]
        finished == ~IsInsideCode(snippet, addr) \/ StopAsked(mach)
    IN  /\ at = "traced" /\ ~mach.fault
        /\ IsInsideCode(snippet, mach.pc)
        /\ ts.count < use.max
        /\ proxy' = proxy /\ gen' = gen
        /\ trace' = IF Capturing
                    THEN LET t == CaptureBefore(trace, mach)
                         IN  IF finished THEN TraceAfter(t, GetRegisters(mach), mach) ELSE t
                    ELSE trace
        /\ inject' = IF Injecting
                     THEN LET i == SkipBefore(ip)
                          IN  IF finished THEN InjectAfter(i, GetRegisters(moved), moved)
                                          ELSE i
                     ELSE inject
        /\ ts' = [ts EXCEPT !.count = @ + 1, !.stop = StopAsked(mach),
                            !.state = IF finished THEN "kFinished" ELSE "kTracing"]
        /\ IF finished THEN at' = "untraced" /\ mach' = moved
                       ELSE UNCHANGED at /\ mach' = MachineStep(snippet, moved)
        /\ UNCHANGED <<use, snippet, job, critical, result, hiccups>>

(* One instruction too many: the tracing stops, AfterExecution() is not
   called.                                                                 *)
StopAtLimit ==
    /\ at = "traced" /\ ~mach.fault
    /\ IsInsideCode(snippet, mach.pc)
    /\ ts.count >= use.max
    /\ ts' = [ts EXCEPT !.count = @ + 1, !.limit = TRUE, !.state = "kTracing"]
    /\ at' = "untraced"
    /\ UNCHANGED <<use, snippet, mach, trace, job, inject, critical, proxy, gen,
                   result, hiccups>>

(* Outside: at the exit sequence, or in a signal handler of the runner.    *)
StopAfterCode ==
    LET regs == IF mach.fault THEN HandlerRegisters ELSE GetRegisters(mach)
    IN  /\ at = "traced"
        /\ mach.fault \/ mach.pc >= snippet.len
        /\ trace' = TraceAfter(trace, regs, mach)
        /\ inject' = InjectAfter(inject, regs, mach)
        /\ ts' = [ts EXCEPT !.state = "kFinished"]
        /\ at' = "untraced"
        /\ UNCHANGED <<use, snippet, mach, job, critical, proxy, gen, result, hiccups>>

(* The end of Run(): the runner has gone on by itself and compared the end
   state with the recorded one.                                            *)
Outcome ==
    LET m == RunOut(snippet, mach)
    IN  IF m = RunOut(snippet, Start) THEN "success"
        ELSE IF Exits(snippet, m) THEN "mismatch"
        ELSE IF m.fault \/ Ended(snippet, m) THEN "kExecutionMisbehave"
        ELSE "kExecutionRunaway"

NativeReturns ==
    /\ at = "untraced"
    /\ result' = CASE Outcome = "mismatch" -> "ok"
                   [] Outcome = "success"  -> IF ts.limit THEN "error" ELSE "ok"
                   [] OTHER                -> "error"
    /\ at' = "returned"
    /\ UNCHANGED <<use, snippet, mach, ts, trace, job, inject, critical, proxy, gen,
                   hiccups>>

Hiccup == hiccups < MaxHiccups /\ hiccups' = hiccups + 1

(* No result of a player.                                                  *)
RunnerDies ==
    /\ at \in {"traced", "untraced"}
    /\ Hiccup
    /\ result' = "error"
    /\ at' = "returned"
    /\ UNCHANGED <<use, snippet, mach, ts, trace, job, inject, critical, proxy, gen>>

-----------------------------------------------------------------------------
(* UnicornTracer: HookCode() and the instruction.                          *)

(* At the limit, or after Stop(): no callback.  Unicorn stops here, or, as a
   hiccup, goes on; count is compared with the limit only, and saturates.  *)
HookStops ==
    /\ at = "emulated" /\ ~Ended(snippet, mach)
    /\ IsInsideCode(snippet, mach.pc)
    /\ ts.count >= use.max \/ ts.stop
    /\ ts' = [ts EXCEPT !.stop = TRUE,
                        !.count = IF @ > use.max THEN @ ELSE @ + 1]
    /\ \/ at' = "stopped" /\ UNCHANGED <<mach, hiccups>>
       \/ at' = at /\ mach' = MachineStep(snippet, mach) /\ Hiccup
    /\ UNCHANGED <<use, snippet, trace, job, inject, critical, proxy, gen, result>>

(* Mutant: one callback too many.                                          *)
HookCode_OneMore ==
    /\ at = "emulated" /\ ~Ended(snippet, mach)
    /\ IsInsideCode(snippet, mach.pc)
    /\ ts.count <= use.max /\ ~ts.stop
    /\ BeforeInstruction(mach)
    /\ ts' = [ts EXCEPT !.count = @ + 1, !.stop = StopAsked(mach)]
    /\ mach' = MachineStep(snippet, mach)
    /\ UNCHANGED <<use, snippet, at, job, critical, result, hiccups>>

(* A write of the instruction pointer takes effect before the instruction,
   which Unicorn fetches again, be it the same one.                        *)
HookCode ==
    /\ at = "emulated" /\ ~Ended(snippet, mach)
    /\ IsInsideCode(snippet, mach.pc)
    /\ ts.count < use.max /\ ~ts.stop
    /\ BeforeInstruction(mach)
    /\ ts' = [ts EXCEPT !.count = @ + 1, !.stop = StopAsked(mach)]
    /\ IF StopAsked(mach)
       THEN \/ at' = "stopped" /\ UNCHANGED <<mach, hiccups>>
            \/ at' = at /\ mach' = MachineStep(snippet, mach) /\ Hiccup
       ELSE /\ mach' = IF Skips THEN [mach EXCEPT !.pc = SkipTo(mach)]
                                ELSE MachineStep(snippet, mach)
            /\ UNCHANGED <<at, hiccups>>
    /\ UNCHANGED <<use, snippet, job, critical, result>>

(* Traps follow the code: a fetch outside fails.                           *)
FetchFails ==
    /\ at = "emulated" /\ ~Ended(snippet, mach)
    /\ ~IsInsideCode(snippet, mach.pc)
    /\ mach' = [mach EXCEPT !.fault = TRUE]
    /\ UNCHANGED <<use, snippet, at, ts, trace, job, inject, critical, proxy, gen,
                   result, hiccups>>

EmulationEnds ==
    /\ at = "emulated" /\ Ended(snippet, mach)
    /\ ts' = [ts EXCEPT !.err = mach.fault]
    /\ at' = "stopped"
    /\ UNCHANGED <<use, snippet, mach, trace, job, inject, critical, proxy, gen,
                   result, hiccups>>

Timeout ==
    /\ at = "emulated"
    /\ Hiccup
    /\ ts' = [ts EXCEPT !.timeout = TRUE]
    /\ at' = "stopped"
    /\ UNCHANGED <<use, snippet, mach, trace, job, inject, critical, proxy, gen, result>>

(* ValidateArchEndState().                                                 *)
ValidateArchEndState(m) == use.arch = "aarch64" => m.sp = 0

(* The end of Run(), after AfterExecution(), which flushes the last
   instruction.                                                            *)
ProxyAfter(m) == AfterExecution(Flush(gen, proxy, m), m)

UnicornStatus ==
    IF \/ ts.err \/ ts.count > use.max \/ ts.timeout
       \/ mach.pc # snippet.len \/ ~ValidateArchEndState(mach)
    THEN "error" ELSE "ok"

UnicornReturns ==
    /\ at = "stopped"
    /\ trace' = TraceAfter(trace, GetRegisters(mach), mach)
    /\ inject' = InjectAfter(inject, GetRegisters(mach), mach)
    /\ gen' = IF Proxying THEN ProxyAfter(mach) ELSE gen
    /\ proxy' = [proxy EXCEPT !.pending = FALSE]
    /\ result' = UnicornStatus
    /\ at' = "returned"
    /\ UNCHANGED <<use, snippet, mach, ts, job, critical, hiccups>>

-----------------------------------------------------------------------------
(* The clients, after Run().                                               *)

CaptureResult == IF result = "ok" /\ trace.out_of_bounds THEN "out of range" ELSE result

(* AnalyzeSnippet(): without a trace there is no fault injection.          *)
AnalyzeCaptured ==
    /\ at = "returned" /\ Capturing
    /\ result' = CaptureResult
    /\ IF CaptureResult = "ok" /\ trace.n > 0 THEN job' = 0 /\ at' = "init"
                                              ELSE at' = "end" /\ UNCHANGED job
    /\ UNCHANGED <<use, snippet, mach, ts, trace, inject, critical, proxy, gen, hiccups>>

(* AnalyzeSnippetWithFaultInjection(): one iteration.                      *)
FaultDetected ==
    \/ result # "ok"
    \/ inject.ucontext # trace.contexts[trace.n + 1]
    \/ inject.checksum # trace.checksum

AnalyzeInjected ==
    /\ at = "returned" /\ Injecting
    /\ critical' = Append(critical,
                          [detected |-> FaultDetected, lost |-> hiccups > 0])
    /\ IF job + 1 < trace.n THEN job' = job + 1 /\ at' = "init"
                            ELSE at' = "end" /\ UNCHANGED job
    /\ UNCHANGED <<use, snippet, mach, ts, trace, inject, proxy, gen, result, hiccups>>

(* LLVMFuzzerTestOneInput() returns 0 or -1; another input may follow.     *)
ProxyReturns ==
    /\ at = "returned" /\ Proxying
    /\ result' = IF proxy.in_range THEN result ELSE "out of range"
    /\ at' = "end"
    /\ UNCHANGED <<use, snippet, mach, ts, trace, job, inject, critical, proxy, gen,
                   hiccups>>

NextInput(p) ==
    /\ at = "end" /\ Proxying
    /\ job + 1 < MaxInputs
    /\ job' = job + 1
    /\ snippet' = p
    /\ result' = "none"
    /\ at' = "init"
    /\ UNCHANGED <<use, mach, ts, trace, inject, critical, proxy, gen, hiccups>>

-----------------------------------------------------------------------------
Uses == {u \in [tool : {"analyze", "proxy"}, type : {"native", "unicorn"},
                arch : {"x86", "aarch64"}, max : Limits] :
            u.tool = "proxy" => u.type = "unicorn"}

(* On aarch64 every instruction has one size and none can be cut off.      *)
Fits(p, u) == u.arch = "aarch64" => \A a \in DOMAIN p.code : a + p.code[a].size <= p.len

SnippetInit ==
    /\ use \in Uses
    /\ snippet \in {p \in Snippets : Fits(p, use)}
    /\ mach = Start
    /\ at = "init"
    /\ ts = NewTracer
    /\ trace = EmptyTrace
    /\ job = IF use.tool = "analyze" THEN -1 ELSE 0
    /\ inject = NoInjection
    /\ critical = <<>>
    /\ proxy = NoPending
    /\ gen = BeforeBatch
    /\ result = "none"
    /\ hiccups = 0

SnippetNext ==
    \/ InitFails
    \/ NativeRun \/ StopBeforeCode \/ StopInCode \/ StopAtLimit \/ StopAfterCode
    \/ NativeReturns \/ RunnerDies
    \/ UnicornRun \/ HookStops \/ HookCode \/ FetchFails \/ EmulationEnds \/ Timeout
    \/ UnicornReturns
    \/ AnalyzeCaptured \/ AnalyzeInjected \/ ProxyReturns
    \/ \E p \in Snippets : Fits(p, use) /\ NextInput(p)

SnippetSpec == SnippetInit /\ [][SnippetNext]_snippetVars

-----------------------------------------------------------------------------
(* The execution that the tracers should see.                              *)

Visible(m) == GetRegisters(m)
Reference == Path(snippet, Start)
Steps(path) == IF Ended(snippet, path[Fuel])
               THEN CHOOSE n \in 0 .. Fuel :
                        /\ Ended(snippet, path[n])
                        /\ \A k \in 0 .. n - 1 : ~Ended(snippet, path[k])
               ELSE Fuel + 1

(* With instruction k skipped, from there on: as far as the disassembler
   says, and for its true size.                                            *)
Skipped(k) ==
    LET m == Reference[k]
    IN  Path(snippet, [m EXCEPT !.pc = @ + InstructionSize(snippet.code[m.pc])])

LeftOut(k) ==
    LET m == Reference[k]
    IN  Path(snippet, [m EXCEPT !.pc = @ + snippet.code[m.pc].size])

(* CaptureTrace records the execution as it is, whichever tracer runs it:
   the contexts and addresses of a prefix, never more than the trace can
   hold (the CHECK of NextInfo), and if it returns OK the whole of it, up to
   the end of the code, with the end state.                                *)
CaptureFaithful ==
    use.tool = "analyze" /\ trace.n > 0 =>
        /\ ~trace.died
        /\ \A i \in 1 .. trace.n :
               /\ trace.addresses[i] = Reference[i - 1].pc
               /\ trace.contexts[i] = Visible(Reference[i - 1])
        /\ job >= 0 => /\ trace.n = Steps(Reference)
                       /\ Exits(snippet, Reference[trace.n])
                       /\ trace.contexts[trace.n + 1] = Visible(Reference[trace.n])

(* An execution ends as the reference does, for all that can be seen.      *)
EndsAlike(path) ==
    LET last == path[Fuel]
    IN  /\ Exits(snippet, last)
        /\ Visible(last) = Visible(Reference[trace.n])
        /\ Checksum(last) = Checksum(Reference[trace.n])

Harmless(k) == EndsAlike(Skipped(k))

LimitLeavesRoom(k) == k + 1 + Steps(Skipped(k)) <= use.max

ReportIsReal(k, detected, lost) ==
    /\ ~Harmless(k) => detected
    /\ Harmless(k) /\ ~lost /\ LimitLeavesRoom(k) => ~detected

(* An instruction is reported as critical if leaving it out changes what
   can be seen of the end state or keeps the snippet from ending; and, if
   no timeout or dying runner interfered and the limit leaves room, only
   then.  One that the disassembler does not know is not left out, though
   analysis.cc says "See if skipping an instruction results in a different
   outcome": unless something interfered or there was no room, it is reported
   as not critical, whatever it does.                                      *)
CriticalIsReal ==
    \A k \in DOMAIN critical :
        LET c == critical[k]
        IN  IF snippet.code[trace.addresses[k]].op # "???"
            THEN /\ ~EndsAlike(LeftOut(k - 1)) => c.detected
                 /\ EndsAlike(LeftOut(k - 1)) /\ ~c.lost /\ LimitLeavesRoom(k - 1)
                        => ~c.detected
            ELSE ~c.lost /\ LimitLeavesRoom(k - 1) => ~c.detected

(* The features of an input that the proxy accepts are those of its own
   execution: every instruction is accounted for once, with the registers
   after it, the last one too, and nothing is left of an earlier input.    *)
FeaturesTrue ==
    Proxying /\ at = "end" /\ result = "ok" =>
        LET n == Steps(Reference)
            id(i) == InstructionID(snippet.code[Reference[i].pc])
            tog(i) == Toggles(Visible(Reference[i]), Visible(Reference[i + 1]))
            known == {i \in 0 .. n - 1 : id(i) # "invalid"}
        IN  /\ Exits(snippet, Reference[Fuel])
            /\ gen.features =
                  {<<"op pair", id(i - 1), id(i)>> :
                        i \in {j \in known : j - 1 \in known}}
                  \cup UNION {{<<"toggle", t>> : t \in tog(i)} : i \in 0 .. n - 1}
                  \cup {<<"difference", t[1]>> :
                            t \in Toggles(Visible(Start), Visible(Reference[n]))}
                  \cup {<<"op", id(i)>> : i \in known}
                  \cup UNION {{<<"op toggle", id(i), t>> : t \in tog(i)} : i \in known}
                  \cup (IF Reference[n].mem = 1 THEN {<<"memory", "r">>} ELSE {})

(* A run comes back, whatever the snippet does.                            *)
TracingEnds == (at = "init") ~> (at = "end")

-----------------------------------------------------------------------------
(* Why analysis is right: an inductive invariant.  While it captures, the
   machine is where the reference execution is after as many instructions as
   the trace has; in a fault injection it goes along the reference up to the
   instruction to leave out, and along Skipped(job) from there on.         *)

Bit == {0, 1}
Machines == [pc : Nat, r : Bit, ext : Bit, sp : Bit, mem : Bit, far : Bit,
             fault : BOOLEAN]
Registers == [pc : Int, r : Bit, sp : Bit, ext : Bit]

(* The runner before it has come to the code.                              *)
OnItsWay == [Start EXCEPT !.pc = -1]

AnalyzeTypeOK ==
    /\ snippet \in Snippets
    /\ mach \in Machines \cup {OnItsWay}
    /\ at \in {"init", "traced", "untraced", "emulated", "stopped", "returned", "end"}
    /\ at \in {"traced", "untraced"} => use.type = "native"
    /\ at \in {"emulated", "stopped"} => use.type = "unicorn" /\ mach # OnItsWay
    /\ ts \in [state : {"kReady", "kPreTracing", "kTracing", "kFinished"},
               count : Nat, stop : BOOLEAN, limit : BOOLEAN, err : BOOLEAN,
               timeout : BOOLEAN]
    /\ trace \in [n : Nat, contexts : Seq(Registers), addresses : Seq(Nat),
                  checksum : Nat, out_of_bounds : BOOLEAN, died : BOOLEAN]
    /\ Len(trace.contexts) = trace.n + 1 /\ Len(trace.addresses) = trace.n
    /\ job \in Nat \cup {-1}
    /\ inject \in [executed : Nat, ucontext : Registers, checksum : Nat]
    /\ hiccups \in Nat

(* What the trace has is true, and was executed.                           *)
TraceInv ==
    /\ ~trace.died /\ trace.n <= use.max
    /\ \A i \in 1 .. trace.n :
           LET m == Reference[i - 1]
           IN  /\ trace.addresses[i] = m.pc /\ trace.contexts[i] = Visible(m)
               /\ ~m.fault /\ IsInsideCode(snippet, m.pc)
               /\ ~trace.out_of_bounds => InstructionIsInRange(snippet, m.pc)

Accepted == IF use.type = "native" THEN MakeRawInstructions(snippet)
                                   ELSE InstructionsToSnapshot(snippet)

(* The trace goes to the end of the execution and has its end state.       *)
TraceWhole ==
    LET m == Reference[trace.n]
    IN  /\ ~trace.out_of_bounds /\ Exits(snippet, m)
        /\ trace.contexts[trace.n + 1] = Visible(m) /\ trace.checksum = Checksum(m)

CaptureTraced ==
    /\ ~ts.limit /\ ~trace.out_of_bounds /\ ts.count = trace.n
    /\ IF mach = OnItsWay THEN trace.n = 0 ELSE mach = Reference[trace.n]

CaptureUntraced ==
    ~trace.out_of_bounds =>
        /\ mach = Reference[trace.n]
        /\ \/ ts.limit
           \/ /\ mach.fault \/ mach.pc >= snippet.len
              /\ ~mach.fault => trace.contexts[trace.n + 1] = Visible(mach)
              /\ trace.checksum = Checksum(mach)

CaptureEmulated ==
    IF ts.stop THEN trace.out_of_bounds \/ ts.count > use.max
    ELSE /\ ~trace.out_of_bounds /\ ts.count = trace.n
         /\ ~mach.fault => mach = Reference[trace.n]

CaptureStopped ==
    /\ mach.fault => ts.err \/ ts.timeout \/ ts.stop
    /\ IF ts.stop THEN trace.out_of_bounds \/ ts.count > use.max
       ELSE ~mach.fault => mach = Reference[trace.n]

CaptureInv ==
    job = -1 =>
        /\ critical = <<>>
        /\ at = "init" => trace = EmptyTrace
        /\ at \in {"traced", "untraced", "emulated", "stopped"} => Accepted
        /\ at = "traced" => CaptureTraced
        /\ at = "untraced" => CaptureUntraced
        /\ at = "emulated" => CaptureEmulated
        /\ at = "stopped" => CaptureStopped
        /\ at = "returned" /\ result = "ok" /\ ~trace.out_of_bounds
               => Accepted /\ TraceWhole

(* The first n states of the execution without instruction job are not its
   last.                                                                   *)
GoesOn(n) == \A k \in 0 .. n - 1 : ~Ended(snippet, Skipped(job)[k])

BeforeSkip == ts.count <= job /\ inject.executed = ts.count

InjectTraced ==
    /\ ~ts.limit /\ ts.count <= use.max /\ inject.ucontext = Unset
    /\ \/ /\ BeforeSkip
          /\ IF mach = OnItsWay THEN ts.count = 0 ELSE mach = Reference[ts.count]
       \/ /\ ts.count > job /\ inject.executed > job
          /\ mach = Skipped(job)[ts.count - job] /\ GoesOn(ts.count - job)

InjectUntraced ==
    IF ts.limit THEN inject.ucontext = Unset /\ GoesOn(use.max - job + 1)
    ELSE /\ \E i \in 0 .. Fuel : mach = Skipped(job)[i]
         /\ mach.fault \/ mach.pc >= snippet.len
         /\ inject.ucontext = IF mach.fault THEN HandlerRegisters ELSE Visible(mach)
         /\ inject.checksum = Checksum(mach)

(* Unicorn calls back once more, as it fetches again after the skip.       *)
InjectEmulated ==
    /\ \/ /\ BeforeSkip
          /\ mach = Reference[ts.count]
       \/ /\ ts.count > job /\ (inject.executed > job \/ Ended(snippet, mach))
          /\ \E i \in 0 .. Fuel :
                /\ mach = Skipped(job)[i] /\ GoesOn(i)
                /\ i = ts.count - job - 1 \/ (mach.fault /\ i = ts.count - job)
    /\ ts.count <= use.max /\ ~ts.timeout

InjectStopped ==
    \/ ts.timeout /\ hiccups > 0
    \/ /\ ~ts.timeout /\ ts.err = mach.fault /\ ts.count <= use.max
       /\ Ended(snippet, mach)
       /\ \E i \in 0 .. Fuel : mach = Skipped(job)[i]

TooLong == ts.count > use.max /\ GoesOn(use.max - job)

InjectInv ==
    job >= 0 =>
        /\ job < trace.n /\ Accepted /\ TraceWhole
        /\ critical \in Seq([detected : BOOLEAN, lost : BOOLEAN])
        /\ Len(critical) = IF at = "end" THEN job + 1 ELSE job
        /\ at = "traced" => InjectTraced
        /\ at = "untraced" => InjectUntraced
        /\ at = "emulated" => IF ts.stop THEN TooLong ELSE InjectEmulated
        /\ at = "stopped" => IF ts.stop THEN TooLong ELSE InjectStopped
        /\ at = "returned" => ReportIsReal(job, FaultDetected, hiccups > 0)

ReportsReal ==
    \A k \in DOMAIN critical :
        ReportIsReal(k - 1, critical[k].detected, critical[k].lost)

AnalyzeInv == AnalyzeTypeOK /\ TraceInv /\ CaptureInv /\ InjectInv /\ ReportsReal

SnippetInv ==
    /\ use \in Uses
    /\ IF use.tool = "analyze" THEN AnalyzeInv ELSE critical = <<>>
=============================================================================
