------------------------------- MODULE Paging -------------------------------
(***************************************************************************)
(* Address translation: src/src/cpu/paging.c, and the accesses of cpu.c    *)
(* and a_extension.c that go through it, over a RAM of 64-bit words.       *)
(*                                                                         *)
(* A page table has Entries entries of 8 bytes (512 in the code) and fills *)
(* one page; virtual and physical addresses are split accordingly.  Every  *)
(* word of RAM is seen as the page table entry it would be:                *)
(*   rsv    whether one of the bits 63:54 is 1                             *)
(*   ppn    the physical page number, bits 53:10                           *)
(*   flags  the names of the low bits that are 1                           *)
(* so that data and page tables share one memory and a store may hit both. *)
(* The hart is the record of module Hart (its CSRs, privilege and traps);  *)
(* the reservation and what a store does to it are those of Reservation.   *)
(* Page tables in device registers are left out: only RAM holds a table.   *)
(***************************************************************************)
EXTENDS Reservation

CONSTANTS Entries,       \* entries of a page table
          Upper,         \* values of the bits of an address above the VPNs
          MaxPpn2,       \* values of the top part of a PPN
          VAddrs,        \* virtual addresses of the guests
          Guests,        \* the programs: records of type GuestType
          StoreValues    \* words a store may leave behind

VARIABLES guest,    \* the program that runs
          cpu,      \* cpu_t: privilege and CSRs
          root,     \* the PPN field of satp
          mem,      \* RAM, by the address of a word
          seen,     \* history: the word the last lr read
          crossed   \* history: the last access went over the end of a page

pagingVars == <<reservation, sc, linked, broken, guest, cpu, root, mem, seen, crossed>>

H == INSTANCE Hart WITH WordSize <- AddrSize, JumpTargets <- {}, CsrInstrs <- {}

---------------------------------------------------------------------------
(* Pages, words and page table entries.                                    *)

PageSize == 8 * Entries
Level    == 0..2
Span(i)  == IF i = 0 THEN 1 ELSE IF i = 1 THEN Entries ELSE Entries * Entries
PPN      == 0..(MaxPpn2 * Entries * Entries - 1)
RamWord  == {w \in RAM_BASE..(RAM_BASE + RAM_SIZE - 8) : w % 8 = 0}

Marks == {"A", "D"}
Flag  == {"V", "R", "W", "X", "U"} \cup Marks
Entry == [rsv : BOOLEAN, ppn : PPN, flags : SUBSET Flag]
Zero  == [rsv |-> FALSE, ppn |-> 0, flags |-> {}]

\* What a program starts with in RAM, the <<address, size>> of its accesses,
\* and the contexts it runs in: <<hart, root>>, with their CSRs and the PPN
\* field of satp.
GuestType == [image : [RamWord -> Entry], reads : SUBSET VAddrs,
              stores : SUBSET (VAddrs \X {1, 2, 4, 8}),
              atomics : SUBSET (VAddrs \X {4, 8}),
              contexts : SUBSET (H!CpuType \X PPN)]

ASSUME PagingAssumption ==
    /\ Entries \in Nat /\ Entries >= 2 /\ Entries % 2 = 0
    /\ Upper \in Nat /\ Upper >= 2
    /\ MaxPpn2 \in Nat /\ MaxPpn2 >= 1
    /\ AddrSize = Upper * Entries * Entries * Entries * PageSize
    /\ MaxPpn2 * Entries * Entries * PageSize <= AddrSize
    /\ RAM_BASE % PageSize = 0 /\ RAM_SIZE % PageSize = 0
    /\ VAddrs \subseteq Targets
    /\ \A ppn \in PPN, va \in VAddrs : ppn * PageSize + (va % PageSize) \in Targets
    /\ Guests \subseteq GuestType
    /\ StoreValues \subseteq Entry

\* bus->read64 of an aligned word; outside RAM it reads as 0.
read64(m, addr) == IF addr \in RamWord THEN m[addr] ELSE Zero

\* bus->write64 of the walk.
write64(m, addr, v) == [w \in RamWord |-> IF w = addr THEN v ELSE m[w]]

\* Mutant: one byte too many is written.
TouchedOneMore(pa, size) == {w \in RamWord : Bytes(pa, size + 1) \cap Bytes(w, 8) # {}}

\* What a store can leave in RAM: the words it touches hold new values.
Touched(pa, size) == {w \in RamWord : Bytes(pa, size) \cap Bytes(w, 8) # {}}
Written(m, pa, size) ==
    IF ChangesRam(pa, size)
    THEN {[w \in RamWord |-> IF w \in Touched(pa, size) THEN f[w] ELSE m[w]] :
             f \in [Touched(pa, size) -> StoreValues]}
    ELSE {m}

---------------------------------------------------------------------------
(* sv39 *)

vpn(va, i) == (va \div (PageSize * Span(i))) % Entries

\* Bits 63:39 repeat bit 38, the top bit of vpn[2].
check_upper_bits(va) ==
    va \div (PageSize * Entries * Entries * Entries)
        = IF vpn(va, 2) >= Entries \div 2 THEN Upper - 1 ELSE 0

\* Mutant: supervisor accesses to user pages do not ask for SUM.
SumIgnored(c, priv, flags, access) ==
    /\ priv = H!U_MODE => "U" \in flags
    /\ priv = H!S_MODE /\ "U" \in flags => access # "fetch"

check_priviledge(c, priv, flags, access) ==
    /\ priv = H!U_MODE => "U" \in flags
    /\ priv = H!S_MODE /\ "U" \in flags =>
          access # "fetch" /\ H!SUM \in c.bits[H!CSR_MSTATUS]

\* The permission bits let the access through.
AccessBits(c, flags, access) ==
    CASE access = "store" -> "W" \in flags
      [] access = "load"  -> \/ "R" \in flags
                             \/ H!MXR \in c.bits[H!CSR_MSTATUS] /\ "X" \in flags
      [] access = "fetch" -> "X" \in flags

\* The loop: the leaf the walk of va ends at, level -1 when it faults before.
NoLeaf == [level |-> -1, addr |-> 0, pte |-> Zero]
walk(m, table, va) ==
    LET at[i \in Level] ==
            [t \in PPN |->
                LET pte_addr == t * PageSize + vpn(va, i) * 8
                    pte == read64(m, pte_addr)
                IN  IF \/ pte.rsv
                       \/ "V" \notin pte.flags
                       \/ "W" \in pte.flags /\ "R" \notin pte.flags
                    THEN NoLeaf
                    ELSE IF pte.flags \cap {"R", "X"} = {}
                    THEN IF i = 0 THEN NoLeaf ELSE at[i - 1][pte.ppn]
                    ELSE [level |-> i, addr |-> pte_addr, pte |-> pte]]
    IN  at[2][table]

\* The parts of the PPN below the level of the leaf come from the address.
get_physical_address(pte, va, level) ==
    LET part(i) == IF i < level THEN vpn(va, i)
                   ELSE (pte.ppn \div Span(i)) % (IF i = 2 THEN MaxPpn2 ELSE Entries)
    IN  (part(2) * Span(2) + part(1) * Span(1) + part(0)) * PageSize + (va % PageSize)

Fault(m) == [ok |-> FALSE, pa |-> 0, mem |-> m]

\* Mutant: a store sets bit 8 instead of bit 7.
MarkOffByOne(access) == IF access = "store" THEN {"A", "RSW"} ELSE {"A"}
\* Mutant: a store does not set D.
StoreLeavesClean(access) == {"A"}
\* The bits the walk sets in the leaf.
Marking(access) == IF access = "store" THEN {"A", "D"} ELSE {"A"}

\* Mutant: A is set before the permission bits are looked at.
MarksBeforeCheck(m, c, table, va, access, priv) ==
    LET leaf == walk(m, table, va)
        marked == [leaf.pte EXCEPT !.flags = @ \cup Marking(access)]
    IN  IF \/ ~check_upper_bits(va)
           \/ leaf.level = -1
           \/ leaf.pte.ppn % Span(leaf.level) # 0
        THEN Fault(m)
        ELSE IF \/ ~check_priviledge(c, priv, leaf.pte.flags, access)
                \/ ~AccessBits(c, leaf.pte.flags, access)
        THEN Fault(write64(m, leaf.addr, marked))
        ELSE [ok |-> TRUE,
              pa |-> get_physical_address(leaf.pte, va, leaf.level),
              mem |-> write64(m, leaf.addr, marked)]

sv39(m, c, table, va, access, priv) ==
    LET leaf == walk(m, table, va)
    IN  IF \/ ~check_upper_bits(va)
           \/ leaf.level = -1
           \/ leaf.pte.ppn % Span(leaf.level) # 0     \* misaligned superpage
           \/ ~check_priviledge(c, priv, leaf.pte.flags, access)
           \/ ~AccessBits(c, leaf.pte.flags, access)
        THEN Fault(m)
        ELSE [ok |-> TRUE,
              pa |-> get_physical_address(leaf.pte, va, leaf.level),
              mem |-> write64(m, leaf.addr, [leaf.pte EXCEPT !.flags = @ \cup Marking(access)])]

translate_address(m, c, table, va, access) ==
    IF H!Bare(c, access) THEN [ok |-> TRUE, pa |-> va, mem |-> m]
    ELSE IF c.satp = 8 THEN sv39(m, c, table, va, access, H!effective_priv(c, access))
    ELSE Fault(m)

---------------------------------------------------------------------------
(* The accesses.                                                           *)

T(va, access) == translate_address(mem, cpu, root, va, access)

Crosses(va, size) == (va % PageSize) + size > PageSize

\* What translation reads of a hart; where the trap went and why is left to
\* module Hart.
Context(c) == [c EXCEPT !.pc = RAM_BASE, !.trap_taken = FALSE,
                        !.word = H!cpu_reset.word, !.cause = H!cpu_reset.cause]

\* raise_exception, at the page fault or the alignment check of an access.
Raise(code) ==
    /\ cpu' = Context(H!raise_exception(cpu, code))
    /\ crossed' = FALSE
    /\ UNCHANGED <<guest, root, seen, resVars>>

PageFaultCode(access) == CASE access = "fetch" -> H!EXC_INSTR_PAGE_FAULT
                           [] access = "load"  -> H!EXC_LOAD_PAGE_FAULT
                           [] access = "store" -> H!EXC_STORE_PAGE_FAULT

PageFault(va, access) ==
    /\ LET t == T(va, access) IN ~t.ok /\ mem' = t.mem
    /\ Raise(PageFaultCode(access))

\* lr, sc and amo check the alignment of va before they translate it, which
\* Amo, Lr and Sc below repeat for its physical address: pages are aligned.
Misaligned(va, size) ==
    /\ va % size # 0
    /\ \/ Raise(H!EXC_LOAD_ADDR_MISALIGNED)
       \/ Raise(H!EXC_STORE_ADDR_MISALIGNED)
    /\ UNCHANGED mem

\* cpu_fetch and cpu_load8/16/32/64: the value read is left out.
Read(va, access) ==
    /\ LET t == T(va, access) IN t.ok /\ mem' = t.mem
    /\ crossed' = FALSE
    /\ UNCHANGED <<guest, cpu, root, seen, resVars>>

\* cpu_store8/16/32/64: only the first byte is translated.
StoreInstr(va, size) ==
    LET t == T(va, "store")
    IN  /\ t.ok
        /\ Store(t.pa, size)
        /\ mem' \in Written(t.mem, t.pa, size)
        /\ crossed' = Crosses(va, size)
        /\ UNCHANGED <<guest, cpu, root, seen>>

\* amo_w, amo_d
AmoInstr(va, size) ==
    LET t == T(va, "store")
    IN  /\ t.ok
        /\ Amo(t.pa, size)
        /\ mem' \in Written(t.mem, t.pa, size)
        /\ crossed' = FALSE
        /\ UNCHANGED <<guest, cpu, root, seen>>

\* lr_w, lr_d
LrInstr(va, size) ==
    LET t == T(va, "load")
    IN  /\ t.ok
        /\ Lr(t.pa, size)
        /\ mem' = t.mem
        /\ seen' = read64(t.mem, t.pa - (t.pa % 8))
        /\ crossed' = FALSE
        /\ UNCHANGED <<guest, cpu, root>>

\* sc_w, sc_d: the walk marks the page dirty even when the store is not done.
ScInstr(va, size) ==
    LET t == T(va, "store")
    IN  /\ t.ok
        /\ Sc(t.pa, size)
        /\ mem' \in IF sc' = "success" THEN Written(t.mem, t.pa, size) ELSE {t.mem}
        /\ crossed' = FALSE
        /\ UNCHANGED <<guest, cpu, root, seen>>

\* Everything else the hart does, seen from here: CSR writes, traps and
\* returns (module Hart) that bring it into another context.
SwitchContext ==
    /\ \E context \in guest.contexts : cpu' = context[1] /\ root' = context[2]
    /\ crossed' = FALSE
    /\ UNCHANGED <<guest, mem, seen, resVars>>

\* cpu_reset, from the debugger: RAM and the reservation stay.
Reset ==
    /\ cpu' = H!cpu_reset
    /\ root' = 0
    /\ crossed' = FALSE
    /\ UNCHANGED <<guest, mem, seen, resVars>>

PagingInit ==
    /\ ResInit
    /\ guest \in Guests
    /\ cpu = H!cpu_reset
    /\ root = 0
    /\ mem = guest.image
    /\ seen = Zero
    /\ crossed = FALSE

PagingNext ==
    \/ SwitchContext
    \/ Reset
    \/ \E va \in guest.reads, access \in {"fetch", "load"} :
          PageFault(va, access) \/ Read(va, access)
    \/ \E s \in guest.stores :
          PageFault(s[1], "store") \/ StoreInstr(s[1], s[2])
    \/ \E s \in guest.atomics :
          \/ Misaligned(s[1], s[2])
          \/ AmoInstr(s[1], s[2])
          \/ LrInstr(s[1], s[2])
          \/ ScInstr(s[1], s[2])
          \/ \E access \in {"load", "store"} : s[1] % s[2] = 0 /\ PageFault(s[1], access)

PagingSpec == PagingInit /\ [][PagingNext]_pagingVars

---------------------------------------------------------------------------
(* Sv39 as the architecture defines it, to compare the walk with.          *)

ReadEntry(m, table, va, i) == read64(m, table * PageSize + vpn(va, i) * 8)

\* The entries of va, each read in the table the one above it points to.
Path(m, table, va) ==
    LET e2 == ReadEntry(m, table, va, 2)
        e1 == ReadEntry(m, e2.ppn, va, 1)
        e0 == ReadEntry(m, e1.ppn, va, 0)
    IN  [i \in Level |-> IF i = 2 THEN e2 ELSE IF i = 1 THEN e1 ELSE e0]

Proper(e)    == ~e.rsv /\ "V" \in e.flags /\ ("W" \in e.flags => "R" \in e.flags)
IsPointer(e) == Proper(e) /\ "R" \notin e.flags /\ "X" \notin e.flags
IsLeaf(e)    == Proper(e) /\ ~IsPointer(e)

\* The accesses a leaf with these flags grants in a privilege level.
Rights(flags, priv, status) ==
    LET granted == (IF "R" \in flags THEN {"load"} ELSE {})
                   \cup (IF "W" \in flags THEN {"store"} ELSE {})
                   \cup (IF "X" \in flags THEN {"fetch"} ELSE {})
                   \cup (IF "X" \in flags /\ H!MXR \in status THEN {"load"} ELSE {})
    IN  CASE priv = H!U_MODE -> IF "U" \in flags THEN granted ELSE {}
          [] priv = H!S_MODE -> IF "U" \notin flags THEN granted
                                ELSE IF H!SUM \in status THEN granted \ {"fetch"} ELSE {}
          [] OTHER -> granted

\* The physical addresses an access to va may reach: one, or none.
Reach(m, c, table, va, access) ==
    IF H!Bare(c, access) THEN {va}
    ELSE LET path == Path(m, table, va)
             low  == (Entries * Entries * Entries * PageSize) \div 2
             ends == {i \in Level : /\ c.satp = 8
                                    /\ va < low \/ va >= AddrSize - low
                                    /\ IsLeaf(path[i])
                                    /\ \A j \in Level : j > i => IsPointer(path[j])
                                    /\ path[i].ppn % Span(i) = 0
                                    /\ access \in Rights(path[i].flags,
                                                         H!effective_priv(c, access),
                                                         c.bits[H!CSR_MSTATUS])}
         IN  {path[i].ppn * PageSize + (va % (PageSize * Span(i))) : i \in ends}

---------------------------------------------------------------------------
(* Properties.                                                             *)

\* The hart, the root and every word of RAM keep their type: whatever the walk
\* and the stores leave in a word is an entry again.
PagingTypeOK ==
    /\ cpu \in H!CpuType
    /\ root \in PPN
    /\ mem \in [RamWord -> Entry]
    /\ seen \in Entry
    /\ crossed \in BOOLEAN

\* translate_address succeeds exactly where the architecture lets the access
\* through, and at its address: three levels, superpages, canonical addresses,
\* U, SUM, MXR and MPRV, on tables that A and D marks and stores have changed.
TranslationCorrect ==
    \A va \in VAddrs, access \in {"fetch", "load", "store"} :
        LET t == T(va, access)
        IN  Reach(mem, cpu, root, va, access) = IF t.ok THEN {t.pa} ELSE {}

\* An access that traps has changed no memory: neither its data nor the
\* marks of the entry its walk ended at.
FaultLeavesMemory == [][cpu' # cpu => mem' = mem]_pagingVars

\* A word up to its A and D bits.
Unmarked(e) == [e EXCEPT !.flags = @ \ Marks]
Overwritten == {w \in RamWord : Unmarked(mem'[w]) # Unmarked(mem[w])}

\* The virtual words through which a store reaches word w.
WordVAddr == {va \in Addr : va % 8 = 0}
Windows(w) == {va \in WordVAddr : w \in Reach(mem, cpu, root, va, "store")}

\* A store that stays in its page only changes words that a virtual address
\* open to stores maps to; loads, fetches and walks change A and D at most.
StoresStayMapped ==
    [][~crossed' => \A w \in Overwritten : Windows(w) # {}]_pagingVars

\* Under translation, a page is not written before one of the leaves that map
\* it is marked dirty, or replaced by the store itself, in the word it changes
\* or the one beside it: what the operating system relies on to find the pages
\* it must write back.
WrittenPagesDirty ==
    [][~crossed' /\ ~H!Bare(cpu, "store") =>
          \A w \in Overwritten :
              \E va \in Windows(w) :
                  LET leaf == walk(mem, root, va).addr
                  IN  \/ leaf \in Overwritten \cup {w - 8, w + 8}
                      \/ Marks \subseteq mem'[leaf].flags]_pagingVars

\* An sc.d succeeds only while its word is the one lr.d read, up to the A and D
\* bits, which a walk may set in a reserved entry without dropping the
\* reservation.
ScSeesReservedWord ==
    [][linked /\ ~linked' /\ sc' = "success" /\ reservation.size = 8 =>
          Unmarked(read64(mem, reservation.phys_addr)) = Unmarked(seen)]_pagingVars

---------------------------------------------------------------------------
(* What the documentation says and the code does not do.                   *)

\* Every byte a store changes has passed address translation, also when the
\* store runs over the end of a page.
EveryByteTranslated ==
    [][\A w \in Overwritten : Windows(w) # {}]_pagingVars
=============================================================================
