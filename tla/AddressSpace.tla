---------------------------- MODULE AddressSpace ----------------------------
(***************************************************************************)
(* What MemoryState (common/memory_state) promises to keep track of, byte  *)
(* by byte: the permissions of each address of a process that plays        *)
(* snapshots, and the value of each byte that was written.                 *)
(***************************************************************************)
EXTENDS Integers, FiniteSets, TLC

CONSTANTS
    Addresses,  \* a set of numbers
    All,        \* the permissions
    Mapped,     \* the bit an address has when it is mapped at all
    Unknown,    \* the value of a byte that was not written
    Protections,\* [lo, hi, perms] a caller asks for
    Writes,     \* functions from addresses to bytes
    Images      \* the snapshots: their permissions, denied permissions
                \* and bytes by address

VARIABLES perms, bytes

InRange(lo, hi) == {a \in Addresses : lo <= a /\ a < hi}

Init ==
    /\ perms = [a \in Addresses |-> {}]
    /\ bytes = [a \in Addresses |-> Unknown]

(* Existing permissions are replaced, bytes stay.                          *)
Protect(p) ==
    /\ perms' = [a \in Addresses |->
           IF a \in InRange(p.lo, p.hi) THEN p.perms \cup {Mapped} ELSE perms[a]]
    /\ UNCHANGED bytes

Unmap(S) ==
    /\ perms' = [a \in Addresses |-> IF a \in S THEN {} ELSE perms[a]]
    /\ bytes' = [a \in Addresses |-> IF a \in S THEN Unknown ELSE bytes[a]]

(* Addresses that are not in S stay mapped but cannot be accessed.         *)
Seal(S) ==
    /\ perms' = [a \in Addresses |-> IF a \in S THEN perms[a] ELSE perms[a] \ All]
    /\ UNCHANGED bytes

Write(f) ==
    /\ \A a \in DOMAIN f : Mapped \in perms[a]
    /\ bytes' = f @@ bytes
    /\ UNCHANGED perms

Forget(S) ==
    /\ bytes' = [a \in Addresses |-> IF a \in S THEN Unknown ELSE bytes[a]]
    /\ UNCHANGED perms

(* A snapshot is loaded into what is there: its own mappings replace what
   they overlap, mappings outside lose what it denies; memory that was not
   mapped before is zero where the snapshot says nothing else.             *)
Load(image, zero) ==
    /\ perms' = [a \in Addresses |->
           IF image.perms[a] # {} THEN image.perms[a] \cup {Mapped}
           ELSE perms[a] \ image.denied[a]]
    /\ bytes' = [a \in Addresses |->
           IF image.bytes[a] # Unknown THEN image.bytes[a]
           ELSE IF zero /\ image.perms[a] # {} /\ perms[a] = {} THEN 0
           ELSE bytes[a]]

MappedBy(image) == {a \in Addresses : image.perms[a] # {}}

Next ==
    \/ \E p \in Protections :
           \/ Protect(p)
           \/ Unmap(InRange(p.lo, p.hi))
           \/ Forget(InRange(p.lo, p.hi))
           \/ Write([a \in InRange(p.lo, p.hi) |-> 0])
    \/ \E f \in Writes : Write(f)
    \/ \E image \in Images :
           \/ Unmap(Addresses \ MappedBy(image))
           \/ Seal(MappedBy(image))
           \/ \E zero \in BOOLEAN : Load(image, zero)

Spec == Init /\ [][Next]_<<perms, bytes>>
=============================================================================
