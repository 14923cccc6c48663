------------------------------ MODULE MCMemory ------------------------------
(***************************************************************************)
(* Snapshot with its proto and the tool, MemoryState, PageTable, each      *)
(* alone from the same empty state: eight addresses in four pages of two   *)
(* bytes, and page tables of two entries, so that the four levels span     *)
(* sixteen pages.                                                          *)
(***************************************************************************)
EXTENDS PageTable

MCMappings ==
    {Mapping(0, 2, {Readable, Executable}),
     Mapping(2, 4, {Readable, Writable}),
     Mapping(2, 6, {Readable}),
     Mapping(2, 6, {Readable, Writable})}

MCBytes == {MemoryBytes(0, <<1>>), MemoryBytes(1, <<2, 2, 1>>)}

(* Runs that fill a page, cross a page boundary and touch one another.     *)
MCWrites ==
    {MemoryBytes(0, <<1, 1>>), MemoryBytes(1, <<2, 2, 1>>),
     MemoryBytes(2, <<1, 2, 2, 1>>)}

MCRegisters == {Registers(0, 4)}

MCEndStates ==
    {EndState(Instruction(1), Registers(2, 4),
              <<MemoryBytes(4, <<2>>), MemoryBytes(3, <<2>>)>>, {"skylake"}),
     EndState(Signal("kSigSegv", "kSegvCantWrite", 4, 1), <<>>, <<>>, {}),
     EndState(Signal("kSigSegv", "kSegvCantRead", 7, 1), <<>>, <<>>, {})}

(* Snapshots made by calls of the Snapshot API.                            *)
Rx == Mapping(0, 2, {Readable, Executable})
Rw == Mapping(2, 4, {Readable, Writable})
MCSnapshots ==
    LET code == add_memory_mapping(EmptySnapshot, Rx)
        data == add_memory_mapping(add_memory_mapping(EmptySnapshot, Rw), Rx)
    IN  {add_memory_bytes(add_negative_memory_mapping(code,
             Mapping(2, 6, {Readable})), MemoryBytes(0, <<1, 2>>)),
         AddNegativeMemoryMappingsFor(
             add_memory_bytes(data, MemoryBytes(1, <<2, 2>>)),
             EndState(Signal("kSigSegv", "kSegvCantWrite", 4, 1), <<>>, <<>>, {})),
         add_memory_bytes(add_memory_mapping(EmptySnapshot,
             Mapping(2, 6, {Readable, Writable})), MemoryBytes(3, <<1, 1>>))}

(* Mappings that share tables of some levels, a bad one, one past the end. *)
MCTableMappings ==
    {Mapping(2, 8, {Readable}), Mapping(4, 6, {Readable, Writable}),
     Mapping(6, 10, {Readable, Executable}), Mapping(14, 18, {Readable, Writable}),
     Mapping(1, 3, {Readable}), Mapping(30, 34, {Readable})}

MCExternals ==
    {External(Mapping(16, 20, {Readable, Executable}), 2),
     External(Mapping(4, 6, {Readable, Writable}), 0)}

MCPlatformIds == [undefined |-> 0, skylake |-> 1]

vars == <<snap, mem, calls, pt, expected, statuses>>

Init == SnapInit /\ MemInit /\ TableInit

Next ==
    \/ calls = 0 /\ pt = <<>> /\ SnapNext /\ UNCHANGED <<mem, calls, tableVars>>
    \/ snap = EmptySnapshot /\ pt = <<>> /\ MemNext /\ UNCHANGED <<snap, tableVars>>
    \/ snap = EmptySnapshot /\ calls = 0 /\ TableNext /\ UNCHANGED <<snap, mem, calls>>

Spec == Init /\ [][Next]_vars
=============================================================================
