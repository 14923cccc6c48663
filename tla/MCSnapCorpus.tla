---------------------------- MODULE MCSnapCorpus ----------------------------
(***************************************************************************)
(* Corpora of up to two snaps in a memory of six pages of four bytes.      *)
(***************************************************************************)
EXTENDS SnapCorpus

Rx(start, limit) == Mapping(start, limit, {Readable, Executable})
Rw(start, limit) == Mapping(start, limit, {Readable, Writable})

Made(mappings, bytes, end_state) ==
    LET mapped == Seqs!FoldLeft(add_memory_mapping, EmptySnapshot, mappings)
        filled == Seqs!FoldLeft(add_memory_bytes, mapped, bytes)
    IN  add_expected_end_state(
            [filled EXCEPT !.registers = Registers(mappings[1].start, 16)], end_state)

EndAt(address, bytes) ==
    EndState(Instruction(address), Registers(address, 14), bytes, {"skylake"})

(* Code in one page; code whose writable memory holds a copy of the first
   one's page, not page aligned; two mappings that are merged, with an
   undefined end state; one that writes where others have code; one that
   cannot be snapified.                                                    *)
MCSnapshots ==
    {Made(<<Rx(4, 8), Rw(12, 16)>>, <<MemoryBytes(4, <<1, 2>>)>>,
          EndAt(6, <<MemoryBytes(13, <<2>>)>>)),
     Made(<<Rx(8, 12), Rw(12, 16), Rw(16, 24)>>,
          <<MemoryBytes(8, <<2, 2, 1>>), MemoryBytes(16, <<0, 0, 1, 2, 9, 8>>)>>,
          EndAt(10, <<MemoryBytes(12, <<2, 2, 2, 2>>), MemoryBytes(22, <<1>>)>>)),
     Made(<<Rx(4, 8), Rx(8, 12), Rw(12, 16)>>, <<MemoryBytes(6, <<2, 2, 2, 2>>)>>,
          EndState(Instruction(4), <<>>, <<>>, {})),
     Made(<<Rw(8, 16), Rx(4, 8)>>, <<MemoryBytes(4, <<2, 1>>)>>,
          EndAt(6, <<MemoryBytes(8, <<1, 1>>)>>)),
     Made(<<Rx(4, 8)>>, <<MemoryBytes(4, <<1>>)>>, EndAt(7, <<>>))}

MCOptions ==
    {Options(TRUE, TRUE, FALSE, "skylake"), Options(TRUE, FALSE, TRUE, "skylake"),
     Options(FALSE, TRUE, FALSE, "kAny")}

MCSizeOf == [T \in {"SnapCorpus", "pointer", "Snap", "SnapMemoryMapping",
                    "SnapMemoryBytes", "GRegSet", "FPRegSet", "uint64_t", "byte",
                    "char"} |->
                CASE T = "Snap" -> 6
                  [] T \in {"pointer", "uint64_t"} -> 2
                  [] T \in {"byte", "char"} -> 1
                  [] OTHER -> 4]
MCAlignOf == [T \in DOMAIN MCSizeOf |->
                CASE T = "FPRegSet" -> 4
                  [] T \in {"byte", "char"} -> 1
                  [] OTHER -> 2]
MCExitSequence == <<9, 8>>
MCReserved == {[start |-> 0, limit |-> 4]}

vars == <<snap, calls, corpusVars>>

Init == SnapInit /\ calls = 0 /\ CorpusInit
Next == CorpusNext /\ UNCHANGED <<snap, calls>>
Spec == Init /\ [][Next]_vars
=============================================================================
