----------------------------- MODULE PageTable -----------------------------
(***************************************************************************)
(* proxies/page_table: PageTableCreator, which builds a four-level page    *)
(* table as one block of memory, and MemoryStateImage, which puts a page   *)
(* table and the contents of a MemoryState in one image.  A table has      *)
(* Fanout entries and fills a page (a translation granule of PageSize      *)
(* bytes); an entry is a record of its bit fields, all zero when unset.    *)
(* Physical memory is numbered by entries: a page holds Fanout of them, so *)
(* with Fanout = PageSize an entry takes one address.                      *)
(***************************************************************************)
EXTENDS SnapTool

CONSTANTS
    Fanout,          \* entries in a table
    PageTableAddr,   \* physical address of the L0 table
    TableMappings,   \* mappings to add, aligned or not
    PhysicalStarts,  \* physical addresses to map them to
    Externals,       \* the external mapping of an image
    MaxTableCalls    \* bound: mappings added to one table

ASSUME PageTableAssumption ==
    /\ Fanout \in Nat \ {0, 1}
    /\ Fanout = PageSize
    /\ MaxTableCalls \in Nat

VARIABLES
    pt,        \* <<>>, or <<t>> for a page table creator t
    expected,  \* the pages that should be mapped, and where to
    statuses   \* the result of each call, "ok" or not, with what it should be

AArch64 == "AArch64"
X86_64 == "X86_64"

kNumLevels == 4
Levels == 0 .. kNumLevels - 1
NumPages == Fanout ^ kNumLevels
AddressLimit == PageSize * NumPages

-----------------------------------------------------------------------------
(* Addresses.  A VirtualAddress has a table index for each level.          *)

(* PhysicalAddress::physical_address_msbs(), the number of a page; what the
   field is too narrow for is cut off.                                     *)
physical_address_msbs(pa) == (pa \div PageSize) % NumPages

(* Bytes of the virtual address space behind one entry of a level.         *)
EntrySpan(level) == PageSize * Fanout ^ (kNumLevels - 1 - level)

DecodedVirtualAddress(va) ==
    [entry_index |-> [l \in Levels |-> (va \div EntrySpan(l)) % Fanout],
     starting_interval |->
         [l \in Levels |-> (va \div (EntrySpan(l) * Fanout))
                               * (EntrySpan(l) * Fanout)]]

CheckAlignmentAndSize(v) == v \in 0 .. AddressLimit - 1 /\ v % PageSize = 0

-----------------------------------------------------------------------------
(* Entries.  The same bit means the opposite in some of the fields: on
   AArch64 access is permitted by 1 in a page and by 0 in a table, and
   writing is permitted by 0; on x86-64 it is permitted by 1.              *)

AArch64Page ==
    [valid |-> 0, type |-> 1, unprivileged |-> 1, read_only |-> 1,
     pxn |-> 0, uxn |-> 1, address |-> 0]
AArch64Table ==
    [valid |-> 0, type |-> 1, unprivileged |-> 0, read_only |-> 1,
     pxn |-> 0, uxn |-> 1, address |-> 0]
X86Page ==
    [present |-> 1, read_write |-> 0, user |-> 1, execute_disable |-> 1,
     address |-> 0]
X86Table == X86Page

ZeroEntry(arch) ==
    IF arch = AArch64 THEN [f \in DOMAIN AArch64Page |-> 0]
    ELSE [f \in DOMAIN X86Page |-> 0]

(* CreatePageDescriptor(): the new entry, or <<>> when another mapping of
   the page is there.                                                      *)
UnlessTaken(valid, existing, new) ==
    IF valid = 1 /\ existing # new THEN <<>> ELSE <<new>>

CreatePageDescriptorAArch64(existing, pa, w, x) ==
    UnlessTaken(existing.valid, existing,
        [AArch64Page EXCEPT !.valid = 1,
                            !.address = physical_address_msbs(pa),
                            !.read_only = IF w THEN 0 ELSE @,
                            !.uxn = IF x THEN 0 ELSE @])

CreatePageDescriptorX86(existing, pa, w, x) ==
    UnlessTaken(existing.present, existing,
        [X86Page EXCEPT !.present = 1,
                        !.address = physical_address_msbs(pa),
                        !.read_write = IF w THEN 1 ELSE 0,
                        !.execute_disable = IF x THEN 0 ELSE 1])

CreatePageDescriptor(arch, existing, pa, w, x) ==
    IF arch = AArch64 THEN CreatePageDescriptorAArch64(existing, pa, w, x)
    ELSE CreatePageDescriptorX86(existing, pa, w, x)

(* UpdateTableDescriptor(): the most permissive of all mappings behind it. *)
UpdateTableDescriptorAArch64(existing, next_pa, w, x) ==
    LET entry == IF existing.valid = 1 THEN existing
                 ELSE [AArch64Table EXCEPT !.valid = 1,
                           !.address = physical_address_msbs(next_pa)]
    IN  [entry EXCEPT !.read_only = IF w THEN 0 ELSE @,
                      !.uxn = IF x THEN 0 ELSE @]

UpdateTableDescriptorX86(existing, next_pa, w, x) ==
    LET entry == IF existing.present = 1 THEN existing
                 ELSE [X86Table EXCEPT !.present = 1,
                           !.address = physical_address_msbs(next_pa)]
    IN  [entry EXCEPT !.read_write = IF w THEN 1 ELSE @,
                      !.execute_disable = IF x THEN 0 ELSE @]

UpdateTableDescriptor(arch, existing, next_pa, w, x) ==
    IF arch = AArch64 THEN UpdateTableDescriptorAArch64(existing, next_pa, w, x)
    ELSE UpdateTableDescriptorX86(existing, next_pa, w, x)

(* CheckPageDescriptor() and CheckTableDescriptor(): does the entry let an
   unprivileged access through?                                            *)
CheckPageDescriptorAArch64(e, w, x) ==
    /\ e.valid = 1 /\ e.type = 1 /\ e.unprivileged = 1 /\ e.pxn = 0
    /\ w => e.read_only = 0
    /\ x => e.uxn = 0

CheckTableDescriptorAArch64(e, w, x) ==
    /\ e.valid = 1 /\ e.type = 1 /\ e.pxn = 0 /\ e.unprivileged = 0
    /\ w => e.read_only = 0
    /\ x => e.uxn = 0

CheckPageDescriptorX86(e, w, x) ==
    /\ e.present = 1 /\ e.user = 1
    /\ w => e.read_write = 1
    /\ x => e.execute_disable = 0

CheckTableDescriptorX86(e, w, x) ==
    /\ e.present = 1 /\ e.user = 1
    /\ w => e.read_write = 1
    /\ x => e.execute_disable = 0

CheckDescriptor(arch, level, e, w, x) ==
    CASE arch = AArch64 /\ level = 3 -> CheckPageDescriptorAArch64(e, w, x)
      [] arch = AArch64 /\ level < 3 -> CheckTableDescriptorAArch64(e, w, x)
      [] arch = X86_64 /\ level = 3 -> CheckPageDescriptorX86(e, w, x)
      [] arch = X86_64 /\ level < 3 -> CheckTableDescriptorX86(e, w, x)

-----------------------------------------------------------------------------
(* The creator.  entries holds the tables one after the other, page_tables
   the index of the first entry of the table for an interval of a level.   *)

EmptyTable(arch) == [n \in 1 .. Fanout |-> ZeroEntry(arch)]

PageTableCreator(arch, addr) ==
    [arch |-> arch, addr |-> addr, entries |-> EmptyTable(arch),
     page_tables |-> [l \in Levels |-> IF l = 0 THEN 0 :> 0 ELSE <<>>]]

(* GetPageTableEntryIndex() adds the table when there is none.             *)
WithTable(t, va, level) ==
    LET interval == va.starting_interval[level]
    IN  IF interval \in DOMAIN t.page_tables[level] THEN t
        ELSE [t EXCEPT !.page_tables[level] = (interval :> Len(t.entries)) @@ @,
                       !.entries = @ \o EmptyTable(t.arch)]

GetPageTableEntryIndex(t, va, level) ==
    t.page_tables[level][va.starting_interval[level]] + va.entry_index[level]

(* SetupPageDescriptor(): <<the creator>>, or <<>> for an error.           *)
WithPageDescriptor(t, index, new) ==
    [n \in DOMAIN new |-> [t EXCEPT !.entries[index] = new[n]]]

SetupPageDescriptorAt(t, index, pa, w, x) ==
    WithPageDescriptor(t, index,
                       CreatePageDescriptor(t.arch, t.entries[index], pa, w, x))

SetupPageDescriptorIn(t, va, pa, w, x) ==
    SetupPageDescriptorAt(t, GetPageTableEntryIndex(t, va, 3) + 1, pa, w, x)

SetupPageDescriptor(t, va, pa, w, x) ==
    SetupPageDescriptorIn(WithTable(t, va, 3), va, pa, w, x)

(* Mutant: a valid entry ends the climb, changed or not.                 *)
WithTableDescriptor_StopsAtValid(t, index, new) ==
    IF t.entries[index] # ZeroEntry(t.arch) THEN [t |-> t, stop |-> TRUE]
    ELSE [t |-> [t EXCEPT !.entries[index] = new], stop |-> FALSE]

(* SetupTableDescriptor(2, ...), which calls itself for the level above it
   until an entry stays as it was.                                         *)
WithTableDescriptor(t, index, new) ==
    [t |-> [t EXCEPT !.entries[index] = new], stop |-> t.entries[index] = new]

SetupTableDescriptorAt(t, va, level, index, w, x) ==
    LET next == t.page_tables[level + 1][va.starting_interval[level + 1]]
    IN  WithTableDescriptor(t, index,
            UpdateTableDescriptor(t.arch, t.entries[index], next + t.addr, w, x))

SetupTableDescriptorIn(t, va, level, w, x) ==
    SetupTableDescriptorAt(t, va, level,
                           GetPageTableEntryIndex(t, va, level) + 1, w, x)

SetupTableDescriptor(t0, va, w, x) ==
    Seqs!FoldLeft(LAMBDA acc, level :
                 IF acc.stop THEN acc
                 ELSE SetupTableDescriptorIn(WithTable(acc.t, va, level),
                                             va, level, w, x),
             [t |-> t0, stop |-> FALSE], <<2, 1, 0>>).t

(* AddContiguousMapping(): page after page up to the first that conflicts;
   the pages before it stay mapped.                                        *)
GoodArguments(m, pa) ==
    LET last == m.limit - m.start - PageSize
    IN  /\ CheckAlignmentAndSize(m.start)
        /\ CheckAlignmentAndSize(pa)
        /\ CheckAlignmentAndSize(m.limit - m.start)
        /\ CheckAlignmentAndSize(m.start + last)
        /\ CheckAlignmentAndSize(pa + last)

AddTables(acc, set, va, w, x) ==
    IF set = <<>> THEN [acc EXCEPT !.ok = FALSE]
    ELSE [t |-> SetupTableDescriptor(set[1], va, w, x), ok |-> TRUE]

AddPage(acc, va, pa, w, x) ==
    IF acc.ok THEN AddTables(acc, SetupPageDescriptor(acc.t, va, pa, w, x), va, w, x)
    ELSE acc

AddContiguousMapping(t0, m, pa) ==
    IF ~GoodArguments(m, pa) THEN [t |-> t0, ok |-> FALSE]
    ELSE Seqs!FoldLeft(LAMBDA acc, n :
                 AddPage(acc, DecodedVirtualAddress(m.start + n * PageSize),
                         pa + n * PageSize, Writable \in m.perms,
                         Executable \in m.perms),
             [t |-> t0, ok |-> TRUE],
             [n \in 1 .. (m.limit - m.start) \div PageSize |-> n - 1])

(* TranslateVirtualAddress(): the walk, as hardware does it, of a table
   that was loaded at its address; <<>> is a fault.                        *)
NextTable(arch, level, e, w, x) ==
    IF CheckDescriptor(arch, level, e, w, x) THEN <<e.address>> ELSE <<>>

InPage(page, va) == [n \in DOMAIN page |-> page[n] * PageSize + (va % PageSize)]

TranslateVirtualAddress(arch, entries, addr, va, w, x) ==
    LET index == DecodedVirtualAddress(va).entry_index
    IN  InPage(Seqs!FoldLeft(LAMBDA table, level :
                   IF table = <<>> THEN <<>>
                   ELSE NextTable(arch, level,
                            entries[table[1] * PageSize - addr + index[level] + 1],
                            w, x),
               <<addr \div PageSize>>, <<0, 1, 2, 3>>), va)

-----------------------------------------------------------------------------
(* MemoryStateImage.  External mappings have a physical start of their own
   and no contents in the image.                                           *)

External(m, pa) == [mapping |-> m, physical_start |-> pa]

(* LayoutPageTable(): an error does not end the loop, and is returned at
   its end.  data collects the bytes that the second pass copies.          *)
AfterRegion(acc, r, i, ms) ==
    [t |-> r.t, ok |-> acc.ok /\ r.ok,
     offset |-> acc.offset + (i.limit - i.start),
     data |-> acc.data \o [n \in 1 .. i.limit - i.start |->
                              ByteAt(ms, i.start + n - 1)]]

AfterExternal(acc, r) == [acc EXCEPT !.t = r.t, !.ok = @ /\ r.ok]

LayoutPageTable(arch, ms, addr, externals, data_offset) ==
    LET Region(acc, i) ==
            AfterRegion(acc,
                AddContiguousMapping(acc.t,
                    Mapping(i.start, i.limit, i.value \ {Mapped}), addr + acc.offset),
                i, ms)
        Ext(acc, e) ==
            AfterExternal(acc, AddContiguousMapping(acc.t, e.mapping, e.physical_start))
    IN  Seqs!FoldLeft(Ext,
            Seqs!FoldLeft(Region,
                [t |-> PageTableCreator(arch, addr), ok |-> TRUE,
                 offset |-> data_offset, data |-> <<>>], ms.mapped),
            externals)

(* Build(): once for the size of the table, and again with the contents
   behind it.  The result is an error, a failed CHECK, or an image.        *)
BuildFrom(laid, size, written) ==
    IF Len(laid.data) > written THEN [result |-> "CHECK"]
    ELSE IF ~laid.ok THEN [result |-> "error"]
    ELSE IF Len(laid.data) # written \/ Len(laid.t.entries) # size
         THEN [result |-> "CHECK"]
    ELSE [result |-> "image", image |-> laid.t.entries \o laid.data]

BuildMeasured(measure, arch, ms, addr, externals) ==
    LET size == Len(measure.t.entries)
    IN  IF ~measure.ok THEN [result |-> "error"]
        ELSE BuildFrom(LayoutPageTable(arch, ms, addr, externals, size), size,
                       Cardinality(BytesSet!Keys(ms.written)))

Build(arch, ms, addr, externals) ==
    BuildMeasured(LayoutPageTable(arch, ms, addr, externals, 0),
                  arch, ms, addr, externals)

-----------------------------------------------------------------------------
(* The actions: a new creator, and mappings added to it.                   *)

TableInit == pt = <<>> /\ expected = <<>> /\ statuses = <<>>

NewPageTable ==
    \E arch \in {AArch64, X86_64} :
        /\ pt = <<>>
        /\ pt' = <<PageTableCreator(arch, PageTableAddr)>>
        /\ UNCHANGED <<expected, statuses>>

(* What the documentation promises of a mapping: pages by number.          *)
PageOf(m, pa, n) ==
    [pa |-> pa + n * PageSize, w |-> Writable \in m.perms,
     x |-> Executable \in m.perms]
Wanted(m, pa) ==
    LET first == m.start \div PageSize
    IN  [p \in first .. (m.limit \div PageSize) - 1 |-> PageOf(m, pa, p - first)]
Conflicts(map, want) ==
    {p \in DOMAIN map \cap DOMAIN want : map[p] # want[p]}
Added(map, want) ==
    LET bad == Conflicts(map, want)
        kept == {p \in DOMAIN want : \A b \in bad : p < b}
    IN  [p \in DOMAIN map \cup kept |-> IF p \in DOMAIN map THEN map[p] ELSE want[p]]

AddMapping ==
    \E m \in TableMappings, pa \in PhysicalStarts :
        LET good == GoodArguments(m, pa)
            want == Wanted(m, pa)
        IN  /\ pt # <<>> /\ Len(statuses) < MaxTableCalls
            /\ expected' = IF good THEN Added(expected, want) ELSE expected
            /\ \E r \in {AddContiguousMapping(pt[1], m, pa)} :
                   /\ pt' = <<r.t>>
                   /\ statuses' = Append(statuses,
                          [got |-> r.ok,
                           want |-> good /\ Conflicts(expected, want) = {}])

TableNext == NewPageTable \/ AddMapping

tableVars == <<pt, expected, statuses>>

-----------------------------------------------------------------------------
(* Walking the table that was built gives, for every page and every kind of
   access, the mapping that was added for the page and its permissions, and
   a fault where there is none: whatever tables the mappings share, whatever
   mapping needed a permission first, and after calls that failed half way.
   A call fails when an argument is bad or a page has another mapping; and
   the block holds no table that no mapping needs.                         *)
PageTableTranslates ==
    pt # <<>> =>
        LET t == pt[1]
            pages == DOMAIN expected
            Needed(l) == {DecodedVirtualAddress(p * PageSize).starting_interval[l] :
                              p \in pages}
        IN  /\ \A p \in 0 .. NumPages - 1, off \in 0 .. PageSize - 1,
                  w, x \in BOOLEAN :
                   TranslateVirtualAddress(t.arch, t.entries, t.addr,
                                           p * PageSize + off, w, x)
                       = IF p \in pages /\ (w => expected[p].w) /\ (x => expected[p].x)
                         THEN <<expected[p].pa + off>> ELSE <<>>
            /\ \A l \in 1 .. 3 : DOMAIN t.page_tables[l] = Needed(l)
            /\ Len(t.entries) = Fanout *
                   (1 + Cardinality(Needed(1)) + Cardinality(Needed(2))
                      + Cardinality(Needed(3)))
            /\ \A n \in DOMAIN statuses : statuses[n].got = statuses[n].want

(* Image b leads every address to its byte, or nowhere.                    *)
LeadsToMemory(arch, b, ext) ==
    LET Inside(a) == a \in ext.mapping.start .. ext.mapping.limit - 1
        Perms(a) == IF Inside(a) THEN ext.mapping.perms \cup {Mapped}
                    ELSE PermsAt(mem.mapped, a)
        Leads(a, to) ==
            IF Inside(a) THEN to = a - ext.mapping.start + ext.physical_start
            ELSE b.image[to - PageTableAddr + 1] = ByteAt(mem, a)
        Right(a, perms, w, x, to) ==
            IF perms # {} /\ (w => Writable \in perms) /\ (x => Executable \in perms)
            THEN to # <<>> /\ Leads(a, to[1])
            ELSE to = <<>>
    IN  IF Overlaps(mem.mapped, ext.mapping.start, ext.mapping.limit)
        THEN b.result = "error"
        ELSE /\ b.result = "image"
             /\ \A a \in 0 .. AddressLimit - 1, w, x \in BOOLEAN :
                    Right(a, Perms(a), w, x,
                          TranslateVirtualAddress(arch, b.image, PageTableAddr, a, w, x))

(* For every memory state that calls made, the empty one included, of which
   all mapped bytes are known, on both architectures: the image that
   MemoryStateImage::Build makes, once it is loaded, has every mapped byte
   where the page table in it leads the address, with the permissions of the
   address and nothing more; the external mapping leads to its physical page,
   and no other address leads anywhere.  Build fails only for an external mapping of a page that the
   memory state maps too.                                                  *)
ImageHoldsMemory ==
    calls > 0 /\ PermsMap!Keys(mem.mapped) = BytesMap!Keys(mem.bytes) =>
        \A arch \in {AArch64, X86_64}, ext \in Externals :
            LeadsToMemory(arch, Build(arch, mem, PageTableAddr, <<ext>>), ext)

(* The proxy's view of memory is the snapshot's: an address leads to its byte
   with its permissions or faults, through the tables and in the image that
   is written out, with or without an external mapping.                    *)
TranslationRight == PageTableTranslates /\ ImageHoldsMemory
=============================================================================
