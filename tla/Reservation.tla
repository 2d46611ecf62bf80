---------------------------- MODULE Reservation ----------------------------
(***************************************************************************)
(* Load-reserved / store-conditional: the reservation of cpu_t, set and    *)
(* tested in dispatchers/a_extension.c and dropped by                      *)
(* cpu_invalidate_reservation (cpu.c) on every store.  Addresses are       *)
(* physical byte addresses and wrap at AddrSize (2^64 in the code); the    *)
(* values in memory are left out, only which bytes a store changes counts. *)
(***************************************************************************)
EXTENDS Integers

CONSTANTS AddrSize,
          RAM_BASE, RAM_SIZE,
          Targets     \* addresses the guest may access

ASSUME AddressAssumption ==
    /\ AddrSize \in Nat
    /\ RAM_BASE \in Nat
    /\ RAM_SIZE \in Nat
    /\ RAM_SIZE >= 8
    /\ RAM_BASE + RAM_SIZE + 8 <= AddrSize
    /\ Targets \subseteq 0..(AddrSize - 1)

VARIABLES reservation,   \* cpu->reservation
          sc,            \* outcome of the last sc: "none", "success", "failure"
          linked,        \* history: an lr was executed, and no sc since
          broken         \* history: a byte it read was overwritten since

resVars == <<reservation, sc, linked, broken>>

Addr == 0..(AddrSize - 1)

ReservationType == [valid : BOOLEAN, phys_addr : Addr, size : {0, 4, 8}]

\* The bytes of an access, as the memory sees them.
Bytes(addr, size) == addr..(addr + size - 1)

\* bus.c routes by the first byte; memory.c drops an access that does not
\* fit in RAM as a whole.  Other stores change no memory.
ChangesRam(addr, size) ==
    addr >= RAM_BASE /\ addr + size <= RAM_BASE + RAM_SIZE

\* The bytes the current reservation covers.
Reserved == Bytes(reservation.phys_addr, reservation.size)

---------------------------------------------------------------------------

\* Mutant: only the first byte of the store is compared.
FirstByteOnly(r, addr, size) ==
    LET reservation_end == (r.phys_addr + r.size) % AddrSize
    IN  [r EXCEPT !.valid = @ /\ ~(addr < reservation_end /\ addr >= r.phys_addr)]

\* Mutant: a store that ends where the reservation starts drops it.
TouchingStoreCounts(r, addr, size) ==
    LET store_end       == (addr + size) % AddrSize
        reservation_end == (r.phys_addr + r.size) % AddrSize
    IN  [r EXCEPT !.valid = @ /\ ~(addr < reservation_end /\ store_end >= r.phys_addr)]

cpu_invalidate_reservation(r, addr, size) ==
    LET store_end       == (addr + size) % AddrSize
        reservation_end == (r.phys_addr + r.size) % AddrSize
    IN  [r EXCEPT !.valid = @ /\ ~(addr < reservation_end /\ store_end > r.phys_addr)]

\* History: the bytes the last lr read are changed by a store to addr.
Overwrites(addr, size) ==
    ChangesRam(addr, size) /\ Bytes(addr, size) \cap Reserved # {}

\* cpu_store8/16/32/64 after their translation.
Store(addr, size) ==
    /\ reservation' = cpu_invalidate_reservation(reservation, addr, size)
    /\ broken' = (broken \/ Overwrites(addr, size))
    /\ UNCHANGED <<sc, linked>>

\* amo_w and amo_d: a store of their own size, after the alignment check.
Amo(addr, size) ==
    /\ size \in {4, 8}
    /\ addr % size = 0
    /\ Store(addr, size)

\* Mutant: lr does not check the alignment.
LrMisaligned(addr, size) ==
    /\ reservation' = [valid |-> TRUE, phys_addr |-> addr, size |-> size]
    /\ linked' = TRUE
    /\ broken' = FALSE
    /\ UNCHANGED sc

\* lr_w and lr_d.
Lr(addr, size) ==
    /\ addr % size = 0
    /\ reservation' = [valid |-> TRUE, phys_addr |-> addr, size |-> size]
    /\ linked' = TRUE
    /\ broken' = FALSE
    /\ UNCHANGED sc

\* Mutant: sc keeps the reservation.
ScKeepsReservation(addr, size) ==
    /\ addr % size = 0
    /\ sc' = IF /\ reservation.phys_addr = addr
                /\ reservation.valid
                /\ reservation.size = size
             THEN "success" ELSE "failure"
    /\ linked' = FALSE
    /\ UNCHANGED <<reservation, broken>>

\* sc_w and sc_d: the reservation is dropped whether the store happens or not.
Sc(addr, size) ==
    /\ addr % size = 0
    /\ sc' = IF /\ reservation.phys_addr = addr
                /\ reservation.valid
                /\ reservation.size = size
             THEN "success" ELSE "failure"
    /\ reservation' = [reservation EXCEPT !.valid = FALSE]
    /\ linked' = FALSE
    /\ UNCHANGED broken

\* A misaligned or faulting lr, sc or amo traps before it touches anything,
\* and neither traps nor returns drop the reservation.
\* The page-table walk may also write memory: sv39 sets the accessed and dirty
\* bits of a PTE through the bus, past cpu_invalidate_reservation.  These
\* writes are not store instructions and the histories here leave them out.

---------------------------------------------------------------------------

ResInit == /\ reservation = [valid |-> FALSE, phys_addr |-> 0, size |-> 0]
           /\ sc = "none"
           /\ linked = FALSE
           /\ broken = FALSE

ResNext == \E addr \in Targets :
              \/ \E size \in {1, 2, 4, 8} : Store(addr, size)
              \/ \E size \in {4, 8} : Amo(addr, size) \/ Lr(addr, size) \/ Sc(addr, size)

ResSpec == ResInit /\ [][ResNext]_resVars

---------------------------------------------------------------------------
(* Properties.                                                             *)

\* The reservation has the type of reservation_t; a valid one is aligned to
\* its size, 4 or 8.
ResTypeOK ==
    /\ reservation \in ReservationType
    /\ sc \in {"none", "success", "failure"}
    /\ linked \in BOOLEAN
    /\ broken \in BOOLEAN
    /\ reservation.valid => /\ reservation.size \in {4, 8}
                            /\ reservation.phys_addr % reservation.size = 0

\* A reservation that is still valid is one whose lr is still unpaired and
\* none of whose bytes in RAM was overwritten since, by a store of any width
\* at any overlapping address.
ReservationSound == reservation.valid => linked /\ ~broken

\* What software relies on: sc succeeds only if it pairs with the last lr,
\* and nothing that lr read was overwritten in between.
AnySc == \E addr \in Targets, size \in {4, 8} : Sc(addr, size)
ScAtomic == [][AnySc /\ sc' = "success" => linked /\ ~broken]_resVars

\* A store that touches none of the reserved bytes keeps the reservation,
\* so that an lr/sc loop makes progress beside unrelated stores.
NoSpuriousLoss ==
    reservation.valid =>
        \A addr \in Targets, size \in {1, 2, 4, 8} :
            Bytes(addr, size) \cap Reserved = {} =>
                cpu_invalidate_reservation(reservation, addr, size).valid
=============================================================================
