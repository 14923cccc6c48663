----------------------------- MODULE MCTracing -----------------------------
(***************************************************************************)
(* Four scenarios of tracing, one per behaviour: a traced run with any     *)
(* callback (HarnessTracer), the tracers and their clients                 *)
(* (SnippetTracer), the PMU event proxy (PerfEventFuzzer) and its ring     *)
(* buffer (PerfEventBuffer).                                               *)
(***************************************************************************)
EXTENDS HarnessTracer, SnippetTracer, PerfEventFuzzer, PerfEventBuffer

VARIABLE scenario

mcVars == <<scenario, vars, snippetVars, pmuVars, bufferVars>>

(* The snippets: no code; a register and memory; writes no tracer sees;
   a branch over a bad instruction; loops; instructions that are not known
   and one that is cut off by the end; jumps over it and into the middle of
   another; more code than fits.                                           *)
Insn(size, op, to) == [size |-> size, op |-> op, to |-> to]
Not == Insn(1, "not", 0)
Nop == Insn(1, "nop", 0)
MCSnippets ==
    {[len |-> Len(code), code |-> [a \in 0 .. Len(code) - 1 |-> code[a + 1]]] : code \in
        {<<>>,
         <<Not>>,
         <<Not, Insn(1, "store", 0), Not>>,
         <<Insn(1, "far", 0), Insn(1, "vec", 0), Nop>>,
         <<Insn(1, "jz", 2), Insn(1, "bad", 0), Not, Insn(1, "push", 0)>>,
         <<Not, Insn(1, "jz", 0), Nop>>,
         <<Not, Insn(1, "jmp", 0)>>,
         <<Not, Insn(1, "jz", 3), Insn(2, "???", 0), Insn(1, "jmp", 0)>>,
         <<Insn(1, "???", 0), Nop>>,
         <<Insn(1, "store", 0), Insn(2, "not", 0)>>,
         <<Insn(1, "jmp", 3), Nop, Insn(2, "not", 0)>>,
         <<Insn(2, "jmp", 3), Insn(1, "jmp", 4), Nop, Not>>,
         <<Nop, Nop, Nop, Nop, Nop, Nop>>}}

IdleSnippet ==
    /\ use = [tool |-> "analyze", type |-> "native", arch |-> "x86", max |-> 1]
    /\ snippet = [len |-> 0, code |-> <<>>]
    /\ mach = Start /\ at = "end" /\ ts = NewTracer /\ trace = EmptyTrace /\ job = -1
    /\ inject = NoInjection /\ critical = <<>> /\ proxy = NoPending
    /\ gen = BeforeBatch /\ result = "none" /\ hiccups = 0

MCEvents == <<"a", "a:x", "b", "c">>
MCSourceOf == [e \in {"a", "a:x", "b", "c"} |-> IF e = "a:x" THEN "a" ELSE e]
MCCost == [e \in {"a", "a:x", "b", "c"} |->
              CASE e = "a" -> 2 [] e = "a:x" -> 0 [] e = "b" -> 9 [] OTHER -> 1]

MCInit ==
    /\ scenario \in {"harness", "snippet", "pmu", "buffer"}
    /\ Init /\ PmuInit /\ BufferInit
    /\ scenario # "harness" => mode_ = "kSyscall" /\ arch = "x86_64"
    /\ IF scenario = "snippet" THEN SnippetInit ELSE IdleSnippet

MCNext ==
    /\ UNCHANGED scenario
    /\ \/ scenario = "harness" /\ Next /\ UNCHANGED <<snippetVars, pmuVars, bufferVars>>
       \/ scenario = "snippet" /\ SnippetNext /\ UNCHANGED <<vars, pmuVars, bufferVars>>
       \/ scenario = "pmu" /\ PmuNext /\ UNCHANGED <<vars, snippetVars, bufferVars>>
       \/ scenario = "buffer" /\ BufferNext /\ UNCHANGED <<vars, snippetVars, pmuVars>>

(* The threads of the tracing process get the processor, and a proxy does
   not stop between two steps.                                             *)
MCSpec ==
    /\ MCInit /\ [][MCNext]_mcVars
    /\ WF_vars(scenario = "harness" /\ parent # "dead" /\ Tracer)
    /\ WF_vars(scenario = "harness" /\ parent # "dead" /\ Parent)
    /\ WF_snippetVars(scenario = "snippet" /\ SnippetNext)
    /\ WF_pmuVars(scenario = "pmu" /\ PmuNext)

(* When the tracee is gone both threads that wait for it finish, and a
   tracee that stopped is always resumed or reaped.                        *)
TracerReturns == JoinReturns /\ StoppedIsResumed

(* A proxy gets its answer: tracing a snippet ends, whatever the snippet
   does, and so does measuring, whatever events cannot be opened.          *)
ProxiesReturn == TracingEnds /\ (scenario = "pmu" => FuzzEnds)

(* Tracing and measuring come to an end: the process that traces a runner,
   the tracers of a snippet and the measurement of its events.             *)
TracingReturns == TracerReturns /\ ProxiesReturn

(* What the proxies hand to the fuzzer is true of the snippet: its features
   are those of the executed instructions, the counts of events those of
   undisturbed executions, and no record of the kernel's ring buffer is lost,
   repeated or torn.                                                       *)
ProxyOutputTrue == FeaturesTrue /\ EventsMeasured /\ RecordsInOrder
=============================================================================
