---------------------------- MODULE PagingProofs ----------------------------
(***************************************************************************)
(* Proofs about module Paging, for every table size, every address space   *)
(* and every set of programs that satisfy PagingAssumption:                *)
(*   0. the reservation alone, which Paging refines                        *)
(*   1. the arithmetic of addresses: an address is its digits              *)
(*   2. the loop of sv39 ends where the architecture's walk ends           *)
(*   3. translate_address is the translation the architecture defines      *)
(*   4. the types, the accesses that trap, and the reservation             *)
(*   5. the reserved word: what an sc.d that succeeds finds in memory      *)
(*   6. the words a store changes are mapped, and through a dirty leaf     *)
(***************************************************************************)
EXTENDS Paging, TLAPS

---------------------------------------------------------------------------
(* 0. The reservation alone: module Reservation, for every address space   *)
(* and RAM that satisfy AddressAssumption.                                 *)

\* The overlap test of cpu_invalidate_reservation finds every store that
\* changes a reserved byte of RAM, although its two ends may wrap.
LEMMA OverlapFound ==
    ASSUME NEW addr \in Addr, NEW size \in {1, 2, 4, 8},
           reservation \in ReservationType,
           Overwrites(addr, size)
    PROVE  cpu_invalidate_reservation(reservation, addr, size).valid = FALSE
<1> DEFINE start == reservation.phys_addr
           len   == reservation.size
<1>1. PICK b \in Int : b \in Bytes(addr, size) /\ b \in Bytes(start, len)
  BY DEF Overwrites, Reserved, Bytes, ReservationType, Addr
<1>2. /\ start \in Int /\ len \in {0, 4, 8} /\ addr \in Int
      /\ addr <= b /\ b < addr + size /\ start <= b /\ b < start + len
  BY <1>1, AddressAssumption DEF Bytes, ReservationType, Addr
<1>3. addr + size <= RAM_BASE + RAM_SIZE /\ 0 <= addr /\ 0 <= start
  BY AddressAssumption DEF Overwrites, ChangesRam, Addr, ReservationType
<1>4. addr + size < AddrSize /\ start + len < AddrSize
  BY <1>2, <1>3, AddressAssumption
<1>5. (addr + size) % AddrSize = addr + size /\ (start + len) % AddrSize = start + len
  BY <1>2, <1>3, <1>4, AddressAssumption
<1>6. addr < start + len /\ addr + size > start
  BY <1>2
<1> QED
  BY <1>5, <1>6 DEF cpu_invalidate_reservation, ReservationType

\* Dropping the reservation changes nothing but the valid flag.
LEMMA InvalidateFields ==
    ASSUME NEW addr, NEW size, reservation \in ReservationType
    PROVE  LET r == cpu_invalidate_reservation(reservation, addr, size)
           IN  /\ r \in ReservationType
               /\ r.phys_addr = reservation.phys_addr
               /\ r.size = reservation.size
               /\ r.valid => reservation.valid
BY DEF cpu_invalidate_reservation, ReservationType

---------------------------------------------------------------------------

IInv == ResTypeOK /\ ReservationSound

\* Stores, and the atomics that are stores, preserve the invariant.
LEMMA StorePreserves ==
    ASSUME IInv, NEW addr \in Targets, NEW size \in {1, 2, 4, 8}, Store(addr, size)
    PROVE  IInv'
<1>0. addr \in Addr
  BY AddressAssumption DEF Addr
<1>1. ResTypeOK'
  BY InvalidateFields DEF IInv, ResTypeOK, Store
<1>2. ReservationSound'
  <2> SUFFICES ASSUME reservation'.valid
               PROVE  linked' /\ ~broken'
    BY DEF ReservationSound
  <2>1. linked /\ ~broken
    BY InvalidateFields DEF IInv, ResTypeOK, ReservationSound, Store
  <2>2. ~Overwrites(addr, size)
    BY <1>0, OverlapFound DEF IInv, ResTypeOK, Store
  <2> QED
    BY <2>1, <2>2 DEF Store
<1> QED
  BY <1>1, <1>2 DEF IInv

\* Every step preserves the invariant.
LEMMA StepPreserves ==
    ASSUME IInv, [ResNext]_resVars
    PROVE  IInv'
<1>1. CASE UNCHANGED resVars
  BY <1>1 DEF IInv, ResTypeOK, ReservationSound, resVars
<1>2. ASSUME NEW addr \in Targets, NEW size \in {1, 2, 4, 8}, Store(addr, size)
      PROVE  IInv'
  BY <1>2, StorePreserves
<1>3. ASSUME NEW addr \in Targets, NEW size \in {4, 8}, Amo(addr, size)
      PROVE  IInv'
  BY <1>3, StorePreserves DEF Amo
<1>4. ASSUME NEW addr \in Targets, NEW size \in {4, 8}, Lr(addr, size)
      PROVE  IInv'
  BY <1>4, AddressAssumption
     DEF IInv, ResTypeOK, ReservationSound, ReservationType, Addr, Lr
<1>5. ASSUME NEW addr \in Targets, NEW size \in {4, 8}, Sc(addr, size)
      PROVE  IInv'
  BY <1>5 DEF IInv, ResTypeOK, ReservationSound, ReservationType, Sc
<1> QED
  BY <1>1, <1>2, <1>3, <1>4, <1>5 DEF ResNext

\* The initial state satisfies the invariant.
LEMMA InitHolds == ResInit => IInv
<1>1. 0 \in Addr
  BY AddressAssumption DEF Addr
<1> SUFFICES ASSUME ResInit
             PROVE  IInv
  OBVIOUS
<1>2. reservation \in ReservationType
  BY <1>1 DEF ResInit, ReservationType
<1>3. ~reservation.valid
  BY DEF ResInit
<1> QED
  BY <1>2, <1>3 DEF ResInit, IInv, ResTypeOK, ReservationSound

\* The reservation keeps its type, and a valid one is aligned.
THEOREM ReservationTypeCorrect == ResSpec => []ResTypeOK
<1>1. IInv => ResTypeOK
  BY DEF IInv
<1> QED
  BY <1>1, InitHolds, StepPreserves, PTL DEF ResSpec

\* A valid reservation pairs with the last lr and was not overwritten.
THEOREM ReservationIsSound == ResSpec => []ReservationSound
<1>1. IInv => ReservationSound
  BY DEF IInv
<1> QED
  BY <1>1, InitHolds, StepPreserves, PTL DEF ResSpec

\* sc succeeds only over bytes nothing has overwritten since the last lr.
THEOREM ScIsAtomic == ResSpec => ScAtomic
<1>1. ASSUME IInv, [ResNext]_resVars
      PROVE  [AnySc /\ sc' = "success" => linked /\ ~broken]_resVars
  BY <1>1 DEF IInv, ReservationSound, AnySc, Sc
<1> QED
  BY <1>1, InitHolds, StepPreserves, PTL DEF ResSpec, ScAtomic

\* The overlap test drops nothing a store does not touch, wrapped ends
\* included: a wrapped end only makes it miss accesses beyond the RAM.
LEMMA DisjointKeeps ==
    ASSUME NEW addr \in Addr, NEW size \in {1, 2, 4, 8},
           reservation \in ReservationType, reservation.valid,
           reservation.size \in {4, 8},
           Bytes(addr, size) \cap Reserved = {}
    PROVE  cpu_invalidate_reservation(reservation, addr, size).valid
<1> DEFINE start == reservation.phys_addr
           len   == reservation.size
           store_end       == (addr + size) % AddrSize
           reservation_end == (start + len) % AddrSize
<1>1. /\ addr \in Nat /\ start \in Nat /\ AddrSize \in Nat /\ AddrSize > 8
      /\ addr < AddrSize /\ start < AddrSize
  BY AddressAssumption DEF Addr, ReservationType
<1>2. store_end <= addr + size /\ reservation_end <= start + len
  BY <1>1
<1>3. ~(addr < start + len /\ start < addr + size)
  <2> SUFFICES ASSUME addr < start + len, start < addr + size
               PROVE  FALSE
    OBVIOUS
  <2>1. CASE addr <= start
    <3>1. start \in Bytes(addr, size) /\ start \in Reserved
      BY <1>1, <2>1 DEF Bytes, Reserved
    <3> QED
      BY <3>1
  <2>2. CASE start < addr
    <3>1. addr \in Bytes(addr, size) /\ addr \in Reserved
      BY <1>1, <2>2 DEF Bytes, Reserved
    <3> QED
      BY <3>1
  <2> QED
    BY <1>1, <2>1, <2>2
<1>4. ~(addr < reservation_end /\ store_end > start)
  BY <1>1, <1>2, <1>3
<1> QED
  BY <1>4 DEF cpu_invalidate_reservation, ReservationType

\* A store beside the reserved bytes keeps the reservation, for every RAM size
\* and address width: cpu_invalidate_reservation is exact on this side.
THEOREM UnrelatedStoresKeepReservation == ResSpec => []NoSpuriousLoss
<1>1. IInv => NoSpuriousLoss
  <2> SUFFICES ASSUME IInv, reservation.valid,
                      NEW addr \in Targets, NEW size \in {1, 2, 4, 8},
                      Bytes(addr, size) \cap Reserved = {}
               PROVE  cpu_invalidate_reservation(reservation, addr, size).valid
    BY DEF NoSpuriousLoss
  <2>1. addr \in Addr
    BY AddressAssumption DEF Addr
  <2> QED
    BY <2>1, DisjointKeeps DEF IInv, ResTypeOK
<1> QED
  BY <1>1, InitHolds, StepPreserves, PTL DEF ResSpec

---------------------------------------------------------------------------
(* 1. Addresses.                                                           *)

\* Products are monotone.
LEMMA Monotone ==
    ASSUME NEW a \in Int, NEW b \in Int, NEW c \in Nat, a <= b
    PROVE  a * c <= b * c
OBVIOUS

\* Division with remainder.
LEMMA DivMod ==
    ASSUME NEW a \in Nat, NEW b \in Nat, b > 0
    PROVE  /\ a \div b \in Nat /\ a % b \in 0..(b - 1)
           /\ a = b * (a \div b) + (a % b)
OBVIOUS

\* Quotient and remainder are unique.
LEMMA DivUnique ==
    ASSUME NEW a \in Nat, NEW b \in Nat, b > 0,
           NEW q \in Nat, NEW r \in 0..(b - 1), a = b * q + r
    PROVE  a \div b = q /\ a % b = r
<1> DEFINE p == a \div b
           s == a % b
<1>1. p \in Nat /\ s \in 0..(b - 1) /\ a = b * p + s
  BY DivMod
<1> HIDE DEF p, s
<1>2. ~(p < q)
  <2> SUFFICES ASSUME p + 1 <= q PROVE FALSE
    BY <1>1
  <2>1. (p + 1) * b <= q * b
    BY <1>1, Monotone
  <2> QED
    BY <1>1, <2>1
<1>3. ~(q < p)
  <2> SUFFICES ASSUME q + 1 <= p PROVE FALSE
    BY <1>1
  <2>1. (q + 1) * b <= p * b
    BY <1>1, Monotone
  <2> QED
    BY <1>1, <2>1
<1>4. p = q
  BY <1>1, <1>2, <1>3
<1> QED
  BY <1>1, <1>4 DEF p, s

\* Splitting off the low digits first or all at once is the same.
LEMMA DivDiv ==
    ASSUME NEW a \in Nat, NEW b \in Nat, NEW c \in Nat, b > 0, c > 0
    PROVE  /\ a \div (b * c) = (a \div b) \div c
           /\ a % (b * c) = b * ((a \div b) % c) + (a % b)
<1> DEFINE p == a \div b
           r == a % b
           q == p \div c
           s == p % c
<1>1. p \in Nat /\ r \in 0..(b - 1) /\ a = b * p + r
  BY DivMod
<1>2. q \in Nat /\ s \in 0..(c - 1) /\ p = c * q + s
  BY <1>1, DivMod
<1> HIDE DEF p, r, q, s
<1>3. a = (b * c) * q + (b * s + r)
  BY <1>1, <1>2
<1>4. b * c \in Nat /\ b * c > 0 /\ b * s + r \in 0..(b * c - 1)
  <2>1. b * c \in Nat /\ b * c > 0
    OBVIOUS
  <2>2. (s + 1) * b <= c * b
    BY <1>2, Monotone
  <2>3. b * s \in Nat
    BY <1>2
  <2> QED
    BY <1>1, <1>2, <2>1, <2>2, <2>3
<1> QED
  BY <1>2, <1>3, <1>4, DivUnique DEF p, q, r, s

\* Sizes: everything the split of an address divides by is positive.
LEMMA Sizes ==
    /\ Entries \in Nat /\ Entries >= 2 /\ Entries > 0
    /\ PageSize \in Nat /\ PageSize > 0
    /\ MaxPpn2 \in Nat /\ MaxPpn2 > 0
    /\ Entries * Entries \in Nat /\ Entries * Entries > 0
    /\ MaxPpn2 * Entries * Entries \in Nat /\ MaxPpn2 * Entries * Entries > 0
    /\ \A i \in Level : Span(i) \in Nat /\ Span(i) > 0
<1>1. /\ Entries \in Nat /\ Entries >= 2 /\ Entries > 0
      /\ MaxPpn2 \in Nat /\ MaxPpn2 > 0
  BY PagingAssumption
<1>2. PageSize \in Nat /\ PageSize > 0
  BY <1>1 DEF PageSize
<1>3. Entries * Entries \in Nat /\ Entries * Entries > 0
  BY <1>1
<1>4. MaxPpn2 * Entries * Entries \in Nat /\ MaxPpn2 * Entries * Entries > 0
  BY <1>1, <1>3
<1> QED
  BY <1>1, <1>2, <1>3, <1>4 DEF Level, Span

\* The three parts of a PPN.
LEMMA PpnParts ==
    ASSUME NEW n \in PPN
    PROVE  LET p2 == (n \div Span(2)) % MaxPpn2
               p1 == (n \div Span(1)) % Entries
               p0 == (n \div Span(0)) % Entries
           IN  /\ p2 \in 0..(MaxPpn2 - 1) /\ p1 \in 0..(Entries - 1) /\ p0 \in 0..(Entries - 1)
               /\ n = p2 * Span(2) + p1 * Span(1) + p0
               /\ n % Span(1) = p0
               /\ n % Span(2) = p1 * Span(1) + p0
<1> DEFINE E  == Entries
           q1 == n \div E
           q2 == n \div (E * E)
           p1 == q1 % E
           p0 == n % E
           r  == q1 \div E
<1>0. Span(0) = 1 /\ Span(1) = E /\ Span(2) = E * E
  BY DEF Span
<1>1. n \in Nat /\ n < MaxPpn2 * E * E
  BY Sizes DEF PPN
<1>2. q1 \in Nat /\ p0 \in 0..(E - 1) /\ n = E * q1 + p0
  BY <1>1, Sizes, DivMod
<1>3. q2 = q1 \div E /\ n % (E * E) = E * p1 + p0
  BY <1>1, Sizes, DivDiv
<1>4. q2 \in Nat /\ p1 \in 0..(E - 1) /\ q1 = E * q2 + p1
  <2>1. E \in Nat /\ E > 0
    BY Sizes
  <2>2. r \in Nat /\ p1 \in 0..(E - 1) /\ q1 = E * r + p1
    BY <1>2, <2>1, DivMod, Zenon
  <2> QED
    BY <1>3, <2>2, Zenon
<1>8. (n \div 1) % E = p0
  BY <1>1
<1>9. n \div Span(2) = q2 /\ (n \div Span(1)) % E = p1 /\ (n \div Span(0)) % E = p0
      /\ n % Span(1) = p0 /\ n % Span(2) = E * p1 + p0
  BY <1>0, <1>3, <1>8
<1> HIDE DEF q1, q2, p1, p0
<1>5. n = q2 * (E * E) + p1 * E + p0
  <2>1. E * q1 = E * (E * q2) + E * p1
    BY <1>4, Sizes
  <2>2. E * (E * q2) = q2 * (E * E) /\ E * p1 = p1 * E
    BY <1>4, Sizes
  <2> QED
    BY <1>2, <2>1, <2>2
<1>6. q2 < MaxPpn2
  <2> SUFFICES ASSUME MaxPpn2 <= q2 PROVE FALSE
    BY <1>4, Sizes
  <2>1. MaxPpn2 * (E * E) <= q2 * (E * E)
    BY <1>4, Sizes, Monotone
  <2>2. p1 * E >= 0
    BY <1>4, Sizes
  <2> QED
    BY <1>1, <1>2, <1>4, <1>5, <2>1, <2>2, Sizes
<1>7. q2 % MaxPpn2 = q2
  BY <1>4, <1>6, Sizes
<1>10. E * p1 = p1 * E
  BY <1>4, Sizes
<1>11. q2 \in 0..(MaxPpn2 - 1)
  BY <1>4, <1>6, Sizes
<1> QED
  BY <1>0, <1>2, <1>4, <1>5, <1>7, <1>9, <1>10, <1>11, Zenon

\* Any three parts make a PPN.
LEMMA PartsMakePpn ==
    ASSUME NEW p2 \in 0..(MaxPpn2 - 1), NEW p1 \in 0..(Entries - 1), NEW p0 \in 0..(Entries - 1)
    PROVE  p2 * Span(2) + p1 * Span(1) + p0 \in PPN
<1> DEFINE E == Entries
<1>0. Span(1) = E /\ Span(2) = E * E
  BY DEF Span
<1>1. (p2 + 1) * (E * E) <= MaxPpn2 * (E * E)
  BY Sizes, Monotone
<1>2. (p1 + 1) * E <= E * E
  BY Sizes, Monotone
<1>3. p2 * (E * E) \in Nat /\ p1 * E \in Nat
  BY Sizes
<1>4. p2 * (E * E) + p1 * E + p0 <= MaxPpn2 * E * E - 1
  BY <1>1, <1>2, <1>3, Sizes
<1> QED
  BY <1>0, <1>3, <1>4, Sizes DEF PPN

\* The low digits of a virtual address.
LEMMA AddressParts ==
    ASSUME NEW va \in Nat
    PROVE  /\ \A i \in Level : vpn(va, i) \in 0..(Entries - 1)
           /\ va % PageSize \in 0..(PageSize - 1)
           /\ va % (PageSize * Span(0)) = va % PageSize
           /\ va % (PageSize * Span(1)) = PageSize * vpn(va, 0) + (va % PageSize)
           /\ va % (PageSize * Span(2))
                = PageSize * (Entries * vpn(va, 1) + vpn(va, 0)) + (va % PageSize)
<1> DEFINE E == Entries
           P == PageSize
<1>0. Span(0) = 1 /\ Span(1) = E /\ Span(2) = E * E
  BY DEF Span
<1>1. P * E \in Nat /\ P * E > 0 /\ P * 1 = P
  BY Sizes
<1>2. \A s \in Nat : s > 0 => P * s \in Nat /\ P * s > 0
  BY Sizes
<1>3. ASSUME NEW i \in Level
      PROVE  vpn(va, i) \in 0..(E - 1)
  <2>1. P * Span(i) \in Nat /\ P * Span(i) > 0
    BY <1>2, Sizes
  <2>2. va \div (P * Span(i)) \in Nat
    BY <2>1, DivMod
  <2> QED
    BY <2>2, Sizes, DivMod DEF vpn
<1>4. va % P \in 0..(P - 1)
  BY Sizes, DivMod
<1>5. va % (P * E) = P * ((va \div P) % E) + (va % P)
  BY Sizes, DivDiv, Zenon
<1>6. va % ((P * E) * E) = (P * E) * ((va \div (P * E)) % E) + (va % (P * E))
  BY <1>1, Sizes, DivDiv, Zenon
<1>7. vpn(va, 0) = (va \div P) % E /\ vpn(va, 1) = (va \div (P * E)) % E
  BY <1>0, <1>1 DEF vpn
<1>8. (P * E) * E = P * (E * E)
  BY Sizes
<1>9. 0 \in Level /\ 1 \in Level
  BY DEF Level
<1>10. vpn(va, 0) \in Nat /\ vpn(va, 1) \in Nat
  BY <1>3, <1>9, Sizes
<1>11. (P * E) * vpn(va, 1) + P * vpn(va, 0) = P * (E * vpn(va, 1) + vpn(va, 0))
  BY <1>10, Sizes
<1>12. va % (P * (E * E)) = (P * E) * vpn(va, 1) + (P * vpn(va, 0) + (va % P))
  BY <1>5, <1>6, <1>7, <1>8
<1>13. P * vpn(va, 0) \in Nat /\ (P * E) * vpn(va, 1) \in Nat /\ va % P \in Nat
  BY <1>1, <1>4, <1>10, Sizes
<1>14. va % (P * (E * E)) = P * (E * vpn(va, 1) + vpn(va, 0)) + (va % P)
  BY <1>11, <1>12, <1>13
<1> QED
  BY <1>0, <1>1, <1>3, <1>4, <1>5, <1>7, <1>14

---------------------------------------------------------------------------
(* 2. The walk.                                                            *)

\* What the loop makes of entry e at level i: no leaf, the leaf, or whatever
\* the table it points to holds.
Verdict(i, addr, e, deeper) ==
    IF e.rsv \/ "V" \notin e.flags \/ ("W" \in e.flags /\ "R" \notin e.flags)
    THEN NoLeaf
    ELSE IF e.flags \cap {"R", "X"} = {}
    THEN IF i = 0 THEN NoLeaf ELSE deeper
    ELSE [level |-> i, addr |-> addr, pte |-> e]

EntryAddr(t, va, i) == t * PageSize + vpn(va, i) * 8

\* One round of the loop at level i, for every table, given the round below.
Round(m, va, i, below) ==
    [t \in PPN |-> Verdict(i, EntryAddr(t, va, i), ReadEntry(m, t, va, i),
                           below[ReadEntry(m, t, va, i).ppn])]

Round0(m, va) == Round(m, va, 0, <<>>)
Round1(m, va) == Round(m, va, 1, Round0(m, va))
Round2(m, va) == Round(m, va, 2, Round1(m, va))

\* The last round looks at no table below it.
LEMMA LastRound ==
    ASSUME NEW m, NEW va, NEW below
    PROVE  Round(m, va, 0, below) = Round0(m, va)
BY DEF Round0, Round, Verdict

\* The loop of sv39 is its three rounds: the recursive function of walk is the
\* only one that satisfies its equation.
LEMMA WalkRounds ==
    ASSUME NEW m, NEW va, NEW table
    PROVE  walk(m, table, va) = Round2(m, va)[table]
<1> DEFINE Loop(f) == [i \in Level |-> Round(m, va, i, f[i - 1])]
           at == CHOOSE f : f = Loop(f)
           w == [i \in Level |-> IF i = 0 THEN Round0(m, va)
                                 ELSE IF i = 1 THEN Round1(m, va) ELSE Round2(m, va)]
<1>1. walk(m, table, va) = at[2][table]
  BY DEF walk, Round, Verdict, EntryAddr, ReadEntry
<1>2. w = Loop(w)
  <2>1. \A i \in Level : w[i] = Round(m, va, i, w[i - 1])
    <3> SUFFICES ASSUME NEW i \in Level PROVE w[i] = Round(m, va, i, w[i - 1])
      OBVIOUS
    <3>1. CASE i = 0
      BY <3>1, LastRound DEF Level
    <3>2. CASE i = 1
      BY <3>2 DEF Level, Round1
    <3>3. CASE i = 2
      BY <3>3 DEF Level, Round2
    <3> QED
      BY <3>1, <3>2, <3>3 DEF Level
  <2> HIDE DEF w
  <2>2. w = [i \in Level |-> w[i]]
    BY DEF w
  <2> QED
    BY <2>1, <2>2
<1> HIDE DEF w
<1>3. at = Loop(at)
  BY <1>2
<1> HIDE DEF at
<1>4. \A i \in Level : at[i] = Round(m, va, i, at[i - 1])
  BY <1>3
<1>5. at[0] = Round0(m, va)
  BY <1>4, LastRound DEF Level
<1>6. at[1] = Round1(m, va)
  BY <1>4, <1>5 DEF Level, Round1
<1>7. at[2] = Round2(m, va)
  BY <1>4, <1>6 DEF Level, Round2
<1> QED
  BY <1>1, <1>7

\* Every word the bus returns is an entry.
LEMMA EntryRead ==
    ASSUME NEW m \in [RamWord -> Entry], NEW addr
    PROVE  read64(m, addr) \in Entry
<1>1. Zero \in Entry
  BY Sizes DEF Zero, Entry, PPN
<1> QED
  BY <1>1 DEF read64

\* The leaf the walk reports when it ends at entry e of level i.
LeafAt(m, table, va, i, e) ==
    \E t \in PPN : /\ e = ReadEntry(m, t, va, i)
                   /\ walk(m, table, va) =
                        [level |-> i, addr |-> EntryAddr(t, va, i), pte |-> e]

\* Where the architecture's walk along a path ends.
EndsAt(path, i) == IsLeaf(path[i]) /\ \A j \in Level : j > i => IsPointer(path[j])

\* The verdict, in the words of the architecture.
LEMMA VerdictCases ==
    ASSUME NEW i, NEW addr, NEW e \in Entry, NEW deeper
    PROVE  LET r == Verdict(i, addr, e, deeper)
           IN  /\ IsLeaf(e) => r = [level |-> i, addr |-> addr, pte |-> e]
               /\ IsPointer(e) => r = IF i = 0 THEN NoLeaf ELSE deeper
               /\ ~IsLeaf(e) /\ ~IsPointer(e) => r = NoLeaf
<1> DEFINE bad == e.rsv \/ "V" \notin e.flags \/ ("W" \in e.flags /\ "R" \notin e.flags)
<1>1. e.flags \cap {"R", "X"} = {} <=> "R" \notin e.flags /\ "X" \notin e.flags
  OBVIOUS
<1>2. Proper(e) <=> ~bad
  BY Zenon DEF Proper
<1>3. Verdict(i, addr, e, deeper) =
        IF bad THEN NoLeaf
        ELSE IF e.flags \cap {"R", "X"} = {}
        THEN IF i = 0 THEN NoLeaf ELSE deeper
        ELSE [level |-> i, addr |-> addr, pte |-> e]
  BY Zenon DEF Verdict
<1> HIDE DEF bad
<1> QED
  BY <1>1, <1>2, <1>3, Zenon DEF IsLeaf, IsPointer

\* What one round does with the entry of its table.
LEMMA RoundCases ==
    ASSUME NEW m \in [RamWord -> Entry], NEW va, NEW i, NEW below, NEW t \in PPN
    PROVE  LET e == ReadEntry(m, t, va, i)
               r == Round(m, va, i, below)[t]
           IN  /\ IsLeaf(e) => r = [level |-> i, addr |-> EntryAddr(t, va, i), pte |-> e]
               /\ IsPointer(e) => r = IF i = 0 THEN NoLeaf ELSE below[e.ppn]
               /\ ~IsLeaf(e) /\ ~IsPointer(e) => r = NoLeaf
<1> DEFINE e == ReadEntry(m, t, va, i)
<1>1. Round(m, va, i, below)[t] = Verdict(i, EntryAddr(t, va, i), e, below[e.ppn])
  BY DEF Round
<1>2. e \in Entry
  BY EntryRead DEF ReadEntry
<1> DEFINE r == Round(m, va, i, below)[t]
           a == EntryAddr(t, va, i)
           d == below[e.ppn]
<1> HIDE DEF e, r, a, d
<1>3. r = Verdict(i, a, e, d)
  BY <1>1 DEF r, a, d
<1>4. /\ IsLeaf(e) => r = [level |-> i, addr |-> a, pte |-> e]
      /\ IsPointer(e) => r = IF i = 0 THEN NoLeaf ELSE d
      /\ ~IsLeaf(e) /\ ~IsPointer(e) => r = NoLeaf
  BY <1>2, <1>3, VerdictCases
<1> QED
  BY <1>4 DEF e, r, a, d

\* The walk ends where the architecture's does, or reports no leaf.
LEMMA WalkEnds ==
    ASSUME NEW m \in [RamWord -> Entry], NEW va, NEW table \in PPN
    PROVE  LET path == Path(m, table, va)
           IN  /\ \A i \in Level : path[i] \in Entry
               /\ \A i \in Level : EndsAt(path, i) => LeafAt(m, table, va, i, path[i])
               /\ (\A i \in Level : ~EndsAt(path, i)) => walk(m, table, va) = NoLeaf
<1> DEFINE e2 == ReadEntry(m, table, va, 2)
           e1 == ReadEntry(m, e2.ppn, va, 1)
           e0 == ReadEntry(m, e1.ppn, va, 0)
           path == Path(m, table, va)
           w  == walk(m, table, va)
           A(i, t) == EntryAddr(t, va, i)
<1>1. /\ e2 \in Entry /\ e1 \in Entry /\ e0 \in Entry
      /\ e2.ppn \in PPN /\ e1.ppn \in PPN
  <2>1. \A t, i : ReadEntry(m, t, va, i) \in Entry
    BY EntryRead DEF ReadEntry
  <2>2. \A e \in Entry : e.ppn \in PPN
    BY DEF Entry
  <2> QED
    BY <2>1, <2>2, Zenon
<1>2. path[2] = e2 /\ path[1] = e1 /\ path[0] = e0
  BY DEF Path, Level
<1>3. w = Round2(m, va)[table]
  BY WalkRounds
<1>4. /\ IsLeaf(e2) => w = [level |-> 2, addr |-> A(2, table), pte |-> e2]
      /\ IsPointer(e2) => w = Round1(m, va)[e2.ppn]
      /\ ~IsLeaf(e2) /\ ~IsPointer(e2) => w = NoLeaf
  BY <1>3, RoundCases DEF Round2
<1>5. LET r == Round1(m, va)[e2.ppn]
      IN  /\ IsLeaf(e1) => r = [level |-> 1, addr |-> A(1, e2.ppn), pte |-> e1]
          /\ IsPointer(e1) => r = Round0(m, va)[e1.ppn]
          /\ ~IsLeaf(e1) /\ ~IsPointer(e1) => r = NoLeaf
  <2> HIDE DEF e2
  <2> QED
    BY <1>1, RoundCases DEF Round1
<1>6. LET r == Round0(m, va)[e1.ppn]
      IN  /\ IsLeaf(e0) => r = [level |-> 0, addr |-> A(0, e1.ppn), pte |-> e0]
          /\ ~IsLeaf(e0) => r = NoLeaf
  <2> HIDE DEF e1
  <2> QED
    BY <1>1, RoundCases DEF Round0
<1>7. /\ EndsAt(path, 2) <=> IsLeaf(e2)
      /\ EndsAt(path, 1) <=> IsLeaf(e1) /\ IsPointer(e2)
      /\ EndsAt(path, 0) <=> IsLeaf(e0) /\ IsPointer(e1) /\ IsPointer(e2)
  <2> HIDE DEF path, e0, e1, e2
  <2> QED
    BY <1>2 DEF EndsAt, Level
<1>8. \A e : IsLeaf(e) => ~IsPointer(e)
  BY DEF IsLeaf
<1> HIDE DEF e0, e1, e2, w, path, A
<1>9. /\ EndsAt(path, 2) => w = [level |-> 2, addr |-> A(2, table), pte |-> e2]
      /\ EndsAt(path, 1) => w = [level |-> 1, addr |-> A(1, e2.ppn), pte |-> e1]
      /\ EndsAt(path, 0) => w = [level |-> 0, addr |-> A(0, e1.ppn), pte |-> e0]
  BY <1>4, <1>5, <1>6, <1>7, Zenon
<1>10. (~EndsAt(path, 2) /\ ~EndsAt(path, 1) /\ ~EndsAt(path, 0)) => w = NoLeaf
  BY <1>4, <1>5, <1>6, <1>7, Zenon
<1>11. \A i \in Level : i = 0 \/ i = 1 \/ i = 2
  BY DEF Level
<1>12. \A i \in Level : path[i] \in Entry
  BY <1>1, <1>2, <1>11, Zenon
<1>13. ASSUME NEW i \in Level, EndsAt(path, i)
       PROVE  LeafAt(m, table, va, i, path[i])
  BY <1>1, <1>2, <1>9, <1>11, <1>13, Zenon DEF LeafAt, w, A, e0, e1, e2
<1>14. (\A i \in Level : ~EndsAt(path, i)) => w = NoLeaf
  BY <1>10 DEF Level
<1> QED
  BY <1>12, <1>13, <1>14, Zenon DEF path, w

---------------------------------------------------------------------------
(* 3. Translation.                                                         *)

\* get_physical_address of a leaf: an address in its page, and for an aligned
\* leaf the one the architecture defines.
LEMMA PhysicalAddress ==
    ASSUME NEW pte \in Entry, NEW va \in Nat, NEW level \in Level
    PROVE  /\ \E ppn \in PPN : get_physical_address(pte, va, level)
                                  = ppn * PageSize + (va % PageSize)
           /\ pte.ppn % Span(level) = 0 =>
                get_physical_address(pte, va, level)
                    = pte.ppn * PageSize + (va % (PageSize * Span(level)))
<1> DEFINE n  == pte.ppn
           S2 == Span(2)
           S1 == Span(1)
           P  == PageSize
           o  == va % PageSize
           v0 == vpn(va, 0)
           v1 == vpn(va, 1)
           p2 == (n \div Span(2)) % MaxPpn2
           p1 == (n \div Span(1)) % Entries
           p0 == (n \div Span(0)) % Entries
           a  == get_physical_address(pte, va, level)
<1>0. n \in PPN
  BY DEF Entry
<1>1. /\ p2 \in 0..(MaxPpn2 - 1) /\ p1 \in 0..(Entries - 1) /\ p0 \in 0..(Entries - 1)
      /\ n = p2 * S2 + p1 * S1 + p0
      /\ n % S1 = p0
      /\ n % S2 = p1 * S1 + p0
  BY <1>0, PpnParts, Zenon
<1>2. v0 \in 0..(Entries - 1) /\ v1 \in 0..(Entries - 1) /\ o \in 0..(P - 1)
  BY AddressParts DEF Level
<1>3. /\ va % (P * Span(0)) = o
      /\ va % (P * S1) = P * v0 + o
      /\ va % (P * S2) = P * (Entries * v1 + v0) + o
  BY AddressParts, Zenon
<1>4. a = ((p2 * S2)
           + (IF 1 < level THEN v1 ELSE p1) * S1
           + (IF 0 < level THEN v0 ELSE p0)) * P + o
  BY DEF get_physical_address, Level
<1>5. S1 = Entries /\ S2 \in Nat /\ S1 \in Nat /\ P \in Nat /\ MaxPpn2 \in Nat
  BY Sizes DEF Span, Level
<1> HIDE DEF n, S2, S1, P, o, v0, v1, p2, p1, p0, a
<1>6. CASE level = 0
  <2>1. a = (p2 * S2 + p1 * S1 + p0) * P + o
    BY <1>4, <1>6
  <2>2. a = n * P + o
    BY <1>1, <2>1, Zenon
  <2> QED
    BY <1>0, <1>3, <1>6, <2>2 DEF a, n, P, o
<1>7. CASE level = 1
  <2>1. a = (p2 * S2 + p1 * S1 + v0) * P + o
    BY <1>4, <1>7
  <2>2. p2 * S2 + p1 * S1 + v0 \in PPN
    BY <1>1, <1>2, PartsMakePpn, Zenon DEF S1, S2
  <2>3. ASSUME n % S1 = 0
        PROVE  a = n * P + (P * v0 + o)
    <3>1. p0 = 0
      BY <1>1, <2>3
    <3>2. p2 * S2 \in Nat /\ p1 * S1 \in Nat
      BY <1>1, <1>5
    <3>3. n = p2 * S2 + p1 * S1 /\ n \in Nat
      BY <1>1, <3>1, <3>2
    <3>4. a = (n + v0) * P + o
      BY <2>1, <3>3
    <3>5. (n + v0) * P = n * P + P * v0
      BY <1>2, <1>5, <3>3
    <3>6. n * P \in Nat /\ P * v0 \in Nat /\ o \in Nat
      BY <1>2, <1>5, <3>3
    <3> QED
      BY <3>4, <3>5, <3>6
  <2> QED
    BY <1>3, <1>7, <2>1, <2>2, <2>3 DEF a, n, P, o, S1
<1>8. CASE level = 2
  <2>1. a = (p2 * S2 + v1 * S1 + v0) * P + o
    BY <1>4, <1>8
  <2>2. p2 * S2 + v1 * S1 + v0 \in PPN
    BY <1>1, <1>2, PartsMakePpn, Zenon DEF S1, S2
  <2>3. ASSUME n % S2 = 0
        PROVE  a = n * P + (P * (Entries * v1 + v0) + o)
    <3>1. p1 * S1 + p0 = 0
      BY <1>1, <2>3, Zenon
    <3>2. p2 * S2 \in Nat /\ p1 * S1 \in Nat /\ v1 * S1 \in Nat
      BY <1>1, <1>2, <1>5
    <3>3. n = p2 * S2 /\ n \in Nat
      BY <1>1, <3>1, <3>2
    <3>4. v1 * S1 = Entries * v1 /\ Entries * v1 \in Nat
      BY <1>2, <1>5, Sizes
    <3>5. a = (n + (Entries * v1 + v0)) * P + o
      BY <1>2, <2>1, <3>2, <3>3, <3>4
    <3>6. Entries * v1 + v0 \in Nat
      BY <1>2, <3>4, Sizes
    <3>7. \A x \in Nat : (n + x) * P = n * P + P * x /\ P * x \in Nat /\ n * P \in Nat
      BY <1>5, <3>3
    <3>8. (n + (Entries * v1 + v0)) * P = n * P + P * (Entries * v1 + v0)
          /\ P * (Entries * v1 + v0) \in Nat /\ n * P \in Nat
      BY <3>6, <3>7
    <3> QED
      BY <1>2, <3>5, <3>8
  <2> QED
    BY <1>3, <1>8, <2>1, <2>2, <2>3 DEF a, n, P, o, S2
<1> QED
  BY <1>6, <1>7, <1>8 DEF Level

\* check_upper_bits accepts the lowest and the highest half of an address
\* range that repeats its top bit.
LEMMA CanonicalAddress ==
    ASSUME NEW va \in Addr
    PROVE  LET low == (Entries * Entries * Entries * PageSize) \div 2
           IN  check_upper_bits(va) <=> (va < low \/ va >= AddrSize - low)
<1> DEFINE E  == Entries
           P  == PageSize
           B  == P * (E * E)
           h  == E \div 2
           L  == h * B
           C  == B * E
           v2 == vpn(va, 2)
           s  == va % B
           r  == va % C
           u  == va \div C
<1>1. va \in Nat /\ va < AddrSize
  BY AddressAssumption DEF Addr
<1>2. /\ E \in Nat /\ E > 0 /\ h \in Nat /\ h > 0 /\ E = 2 * h
      /\ Upper \in Nat /\ Upper >= 2
  BY PagingAssumption
<1>3. B \in Nat /\ B > 0
  BY Sizes
<1>4. C \in Nat /\ C > 0
  BY <1>2, <1>3
<1>5. P * E * E * E = C /\ E * E * E * P = C /\ Upper * E * E * E * P = Upper * C
  BY <1>2, Sizes
<1>6. v2 = (va \div B) % E
  BY DEF vpn, Span
<1>7. r = B * v2 + s
  <2> HIDE DEF B, E, v2
  <2>1. va % (B * E) = B * ((va \div B) % E) + (va % B)
    BY <1>1, <1>2, <1>3, DivDiv, Zenon
  <2> QED
    BY <1>6, <2>1, Zenon
<1>8. v2 \in 0..(E - 1) /\ s \in 0..(B - 1)
  <2>1. va \div B \in Nat /\ s \in 0..(B - 1)
    BY <1>1, <1>3, DivMod, Zenon
  <2> QED
    BY <1>2, <1>6, <2>1, DivMod, Zenon
<1>9. u \in Nat /\ r \in 0..(C - 1) /\ va = C * u + r
  BY <1>1, <1>4, DivMod, Zenon
<1>10. AddrSize = Upper * C
  BY <1>5, PagingAssumption
<1>11. check_upper_bits(va) <=> u = IF v2 >= h THEN Upper - 1 ELSE 0
  BY <1>5 DEF check_upper_bits
<1> HIDE DEF E, P, B, h, C, v2, s, r, u
<1>12. C = 2 * L /\ L \in Nat /\ L > 0
  BY <1>2, <1>3 DEF C
<1> HIDE DEF L
<1>13. C \div 2 = L
  BY <1>12
<1>14. v2 >= h <=> r >= L
  <2>1. ASSUME v2 >= h PROVE r >= L
    <3>1. h * B <= v2 * B
      BY <1>2, <1>3, <1>8, <2>1, Monotone
    <3>2. v2 * B = B * v2 /\ B * v2 \in Nat
      BY <1>2, <1>3, <1>8
    <3> QED
      BY <1>2, <1>3, <1>7, <1>8, <1>9, <3>1, <3>2 DEF L
  <2>2. ASSUME v2 < h PROVE r < L
    <3>1. (v2 + 1) * B <= h * B
      BY <1>2, <1>3, <1>8, <2>2, Monotone
    <3>2. (v2 + 1) * B = B * v2 + B /\ B * v2 \in Nat
      BY <1>2, <1>3, <1>8
    <3> QED
      BY <1>2, <1>3, <1>7, <1>8, <1>9, <3>1, <3>2 DEF L
  <2> QED
    BY <1>2, <1>8, <1>9, <1>12, <2>1, <2>2
<1>15. va < L <=> u = 0 /\ r < L
  <2>1. CASE u = 0
    BY <1>4, <1>9, <2>1
  <2>2. CASE 1 <= u
    <3>1. 1 * C <= u * C
      BY <1>4, <1>9, <2>2, Monotone
    <3>2. 1 * C = C /\ u * C = C * u
      BY <1>4, <1>9
    <3> QED
      BY <1>9, <1>12, <2>2, <3>1, <3>2
  <2> QED
    BY <1>9, <2>1, <2>2
<1>16. va >= AddrSize - L <=> u = Upper - 1 /\ r >= L
  <2>0. (Upper - 1) * C = Upper * C - C /\ Upper * C \in Nat
    BY <1>2, <1>4
  <2>1. CASE u = Upper - 1
    <3>1. C * u = Upper * C - C
      BY <1>4, <1>9, <2>0, <2>1
    <3> QED
      BY <1>4, <1>9, <1>10, <1>12, <2>0, <2>1, <3>1
  <2>2. CASE u + 1 <= Upper - 1
    <3>1. (u + 1) * C <= (Upper - 1) * C
      BY <1>2, <1>4, <1>9, <2>2, Monotone
    <3>2. (u + 1) * C = C * u + C
      BY <1>4, <1>9
    <3> QED
      BY <1>2, <1>9, <1>10, <1>12, <2>0, <2>2, <3>1, <3>2
  <2>3. ~(Upper <= u)
    <3> SUFFICES ASSUME Upper <= u PROVE FALSE
      OBVIOUS
    <3>1. Upper * C <= u * C
      BY <1>2, <1>4, <1>9, Monotone
    <3>2. u * C = C * u
      BY <1>4, <1>9
    <3> QED
      BY <1>1, <1>2, <1>4, <1>9, <1>10, <2>0, <3>1, <3>2
  <2> QED
    BY <1>2, <1>9, <2>1, <2>2, <2>3
<1>17. check_upper_bits(va) <=> va < L \/ va >= AddrSize - L
  <2>1. CASE r >= L
    BY <1>2, <1>9, <1>11, <1>12, <1>14, <1>15, <1>16, <2>1
  <2>2. CASE ~(r >= L)
    <3>1. r < L
      BY <1>9, <1>12, <2>2
    <3> QED
      BY <1>11, <1>14, <1>15, <1>16, <2>2, <3>1, Zenon
  <2> QED
    BY <2>1, <2>2
<1> QED
  BY <1>5, <1>13, <1>17 DEF E, P

\* The checks of check_priviledge and of the permission bits grant what the
\* architecture grants.
LEMMA RightsGranted ==
    ASSUME NEW c, NEW priv, NEW flags, NEW access \in {"fetch", "load", "store"}
    PROVE  access \in Rights(flags, priv, c.bits[H!CSR_MSTATUS])
             <=> check_priviledge(c, priv, flags, access) /\ AccessBits(c, flags, access)
<1> DEFINE status == c.bits[H!CSR_MSTATUS]
           granted == (IF "R" \in flags THEN {"load"} ELSE {})
                      \cup (IF "W" \in flags THEN {"store"} ELSE {})
                      \cup (IF "X" \in flags THEN {"fetch"} ELSE {})
                      \cup (IF "X" \in flags /\ H!MXR \in status THEN {"load"} ELSE {})
<1>0. H!U_MODE # H!S_MODE
  BY DEF H!U_MODE, H!S_MODE
<1>1. access \in granted <=> AccessBits(c, flags, access)
  BY DEF AccessBits
<1>2. Rights(flags, priv, status) =
        CASE priv = H!U_MODE -> IF "U" \in flags THEN granted ELSE {}
          [] priv = H!S_MODE -> IF "U" \notin flags THEN granted
                                ELSE IF H!SUM \in status THEN granted \ {"fetch"} ELSE {}
          [] OTHER -> granted
  BY DEF Rights
<1> HIDE DEF granted, status
<1>3. CASE priv = H!U_MODE
  BY <1>0, <1>1, <1>2, <1>3 DEF check_priviledge, status
<1>4. CASE priv = H!S_MODE
  BY <1>0, <1>1, <1>2, <1>4 DEF check_priviledge, status
<1>5. CASE priv # H!U_MODE /\ priv # H!S_MODE
  BY <1>0, <1>1, <1>2, <1>5 DEF check_priviledge, status
<1> QED
  BY <1>3, <1>4, <1>5

\* The walk reports no leaf, or a leaf of the path.
LEMMA WalkType ==
    ASSUME NEW m \in [RamWord -> Entry], NEW va, NEW table \in PPN
    PROVE  LET w == walk(m, table, va)
           IN  \/ w = NoLeaf /\ w.level = -1
               \/ /\ w.level \in Level /\ w.pte \in Entry
                  /\ w.pte = read64(m, w.addr) /\ IsLeaf(w.pte)
<1> DEFINE path == Path(m, table, va)
<1>1. NoLeaf.level = -1
  BY DEF NoLeaf
<1>2. CASE \A i \in Level : ~EndsAt(path, i)
  BY <1>1, <1>2, WalkEnds
<1>3. ASSUME NEW i \in Level, EndsAt(path, i)
      PROVE  LET w == walk(m, table, va)
             IN  /\ w.level \in Level /\ w.pte \in Entry
                 /\ w.pte = read64(m, w.addr) /\ IsLeaf(w.pte)
  <2>1. path[i] \in Entry /\ LeafAt(m, table, va, i, path[i]) /\ IsLeaf(path[i])
    BY <1>3, WalkEnds DEF EndsAt
  <2> QED
    BY <2>1 DEF LeafAt, ReadEntry, EntryAddr
<1> QED
  BY <1>2, <1>3

\* sv39 lets an access through exactly where the architecture does.
LEMMA Sv39Exact ==
    ASSUME NEW m \in [RamWord -> Entry], NEW c, c.satp = 8, NEW table \in PPN,
           NEW va \in Addr, NEW access \in {"fetch", "load", "store"},
           ~H!Bare(c, access)
    PROVE  LET t == sv39(m, c, table, va, access, H!effective_priv(c, access))
           IN  Reach(m, c, table, va, access) = IF t.ok THEN {t.pa} ELSE {}
<1> DEFINE path == Path(m, table, va)
           priv == H!effective_priv(c, access)
           low  == (Entries * Entries * Entries * PageSize) \div 2
           leaf == walk(m, table, va)
           t    == sv39(m, c, table, va, access, priv)
           Granted(i) == /\ check_upper_bits(va)
                         /\ path[i].ppn % Span(i) = 0
                         /\ check_priviledge(c, priv, path[i].flags, access)
                         /\ AccessBits(c, path[i].flags, access)
           ends == {i \in Level : EndsAt(path, i) /\ Granted(i)}
           Target(i) == path[i].ppn * PageSize + (va % (PageSize * Span(i)))
<1>0. va \in Nat
  BY AddressAssumption DEF Addr
<1>1. check_upper_bits(va) <=> (va < low \/ va >= AddrSize - low)
  BY CanonicalAddress
<1>2. Reach(m, c, table, va, access) = {Target(i) : i \in ends}
  <2>1. \A i \in Level :
           access \in Rights(path[i].flags, priv, c.bits[H!CSR_MSTATUS])
             <=> /\ check_priviledge(c, priv, path[i].flags, access)
                 /\ AccessBits(c, path[i].flags, access)
    BY RightsGranted
  <2> DEFINE reached == {i \in Level : /\ c.satp = 8
                                       /\ va < low \/ va >= AddrSize - low
                                       /\ IsLeaf(path[i])
                                       /\ \A j \in Level : j > i => IsPointer(path[j])
                                       /\ path[i].ppn % Span(i) = 0
                                       /\ access \in Rights(path[i].flags, priv,
                                                            c.bits[H!CSR_MSTATUS])}
  <2>2. Reach(m, c, table, va, access) = {Target(i) : i \in reached}
    BY Zenon DEF Reach
  <2> HIDE DEF path, priv, low
  <2>3. reached = ends
    BY <1>1, <2>1, Zenon DEF EndsAt
  <2> QED
    BY <2>2, <2>3, Zenon
<1>3. CASE \A i \in Level : ~EndsAt(path, i)
  <2>1. leaf.level = -1
    BY <1>3, WalkEnds DEF NoLeaf
  <2>2. t = Fault(m)
    BY <2>1 DEF sv39
  <2>3. ~t.ok
    BY <2>2 DEF Fault
  <2> QED
    BY <1>2, <1>3, <2>3
<1>4. ASSUME NEW i \in Level, EndsAt(path, i)
      PROVE  Reach(m, c, table, va, access) = IF t.ok THEN {t.pa} ELSE {}
  <2>1. path[i] \in Entry /\ leaf.level = i /\ leaf.pte = path[i]
    BY <1>4, WalkEnds DEF LeafAt
  <2>2. \A j \in Level : EndsAt(path, j) => j = i
    <3> SUFFICES ASSUME NEW j \in Level, EndsAt(path, j)
                 PROVE  j = i
      OBVIOUS
    <3>1. leaf.level = j
      BY WalkEnds DEF LeafAt
    <3> QED
      BY <2>1, <3>1
  <2>3. i # -1
    BY DEF Level
  <2> HIDE DEF path, priv, leaf, low
  <2>4. CASE ~Granted(i)
    <3>1. t = Fault(m)
      BY <2>1, <2>4 DEF sv39, leaf
    <3>2. ~t.ok
      BY <3>1 DEF Fault
    <3>3. ends = {}
      BY <2>2, <2>4
    <3> QED
      BY <1>2, <3>2, <3>3
  <2>5. CASE Granted(i)
    <3>1. t.ok /\ t.pa = get_physical_address(leaf.pte, va, leaf.level)
      BY <2>1, <2>3, <2>5 DEF sv39, leaf
    <3>2. t.pa = Target(i)
      BY <1>0, <2>1, <2>5, <3>1, PhysicalAddress
    <3>3. ends = {i}
      BY <1>4, <2>2, <2>5
    <3> HIDE DEF ends, Target, t
    <3>4. {Target(j) : j \in ends} = {Target(i)}
      BY <3>3
    <3> QED
      BY <1>2, <3>1, <3>2, <3>4 DEF t, priv, Target, ends
  <2> QED
    BY <2>4, <2>5
<1> QED
  BY <1>3, <1>4

\* translate_address against the architecture, for every table in RAM.
LEMMA TranslationExact ==
    ASSUME NEW m \in [RamWord -> Entry], NEW c, NEW table \in PPN,
           NEW va \in Addr, NEW access \in {"fetch", "load", "store"}
    PROVE  LET t == translate_address(m, c, table, va, access)
           IN  Reach(m, c, table, va, access) = IF t.ok THEN {t.pa} ELSE {}
<1>1. CASE H!Bare(c, access)
  BY <1>1 DEF translate_address, Reach
<1>2. CASE ~H!Bare(c, access) /\ c.satp = 8
  BY <1>2, Sv39Exact DEF translate_address
<1>3. CASE ~H!Bare(c, access) /\ c.satp # 8
  <2>1. ~translate_address(m, c, table, va, access).ok
    BY <1>3 DEF translate_address, Fault
  <2>2. Reach(m, c, table, va, access) = {}
    BY <1>3 DEF Reach
  <2> QED
    BY <2>1, <2>2
<1> QED
  BY <1>1, <1>2, <1>3

---------------------------------------------------------------------------
(* 4. The accesses.                                                        *)

\* The states the model can be in: one of the programs, and the types.
PagingInv == guest \in Guests /\ PagingTypeOK

\* The reset state of the hart, without the other fields of module Hart.
LEMMA ResetContext == H!cpu_reset \in H!CpuType
<1>1. RAM_BASE \in H!Word /\ 0 \in H!Word
  BY AddressAssumption DEF H!Word
<1>2. /\ H!M_MODE \in H!Privilege /\ H!ResetCause \in H!Cause
      /\ {H!MPP0, H!MPP1} \in SUBSET H!Bit
  BY DEF H!M_MODE, H!Privilege, H!ResetCause, H!Cause, H!Bit, H!MPP0, H!MPP1
<1> QED
  BY <1>1, <1>2 DEF H!cpu_reset, H!CpuType

\* set_bit works on the bits of a CSR.
LEMMA PagingSetBit ==
    ASSUME NEW s \in SUBSET H!Bit, NEW bit \in H!Bit, NEW on
    PROVE  H!set_bit(s, bit, on) \in SUBSET H!Bit
BY DEF H!set_bit

\* Entering a trap keeps the hart well typed.
LEMMA EnterKeepsType ==
    ASSUME NEW c \in H!CpuType
    PROVE  H!enter_m_trap(c) \in H!CpuType /\ H!enter_s_trap(c) \in H!CpuType
<1> DEFINE s  == c.bits[H!CSR_MSTATUS]
           m1 == H!set_bit(s, H!MPIE, H!MIE \in s)
           m2 == H!set_bit(m1, H!MIE, FALSE)
           m3 == H!set_bit(m2, H!MPP0, H!LowBit(c.priv))
           m4 == H!set_bit(m3, H!MPP1, H!HighBit(c.priv))
           s1 == H!set_bit(s, H!SPP, H!LowBit(c.priv))
           s2 == H!set_bit(s1, H!SPIE, H!SIE \in s)
           s3 == H!set_bit(s2, H!SIE, FALSE)
<1>1. /\ H!MPIE \in H!Bit /\ H!MIE \in H!Bit /\ H!MPP0 \in H!Bit /\ H!MPP1 \in H!Bit
      /\ H!SPP \in H!Bit /\ H!SPIE \in H!Bit /\ H!SIE \in H!Bit
  BY DEF H!MPIE, H!MIE, H!MPP0, H!MPP1, H!SPP, H!SPIE, H!SIE, H!Bit
<1>2. s \in SUBSET H!Bit
  BY DEF H!CpuType, H!BitCsr
<1>3. m4 \in SUBSET H!Bit
  <2> HIDE DEF s
  <2>1. m1 \in SUBSET H!Bit
    BY <1>1, <1>2, PagingSetBit
  <2> HIDE DEF m1
  <2>2. m2 \in SUBSET H!Bit
    BY <1>1, <2>1, PagingSetBit
  <2> HIDE DEF m2
  <2>3. m3 \in SUBSET H!Bit
    BY <1>1, <2>2, PagingSetBit
  <2> HIDE DEF m3
  <2> QED
    BY <1>1, <2>3, PagingSetBit
<1>4. s3 \in SUBSET H!Bit
  <2> HIDE DEF s
  <2>1. s1 \in SUBSET H!Bit
    BY <1>1, <1>2, PagingSetBit
  <2> HIDE DEF s1
  <2>2. s2 \in SUBSET H!Bit
    BY <1>1, <2>1, PagingSetBit
  <2> HIDE DEF s2
  <2> QED
    BY <1>1, <2>2, PagingSetBit
<1>5. /\ H!Aligned(c.word[H!CSR_MTVEC]) \in H!Word
      /\ H!Aligned(c.word[H!CSR_STVEC]) \in H!Word
  <2>1. \A v \in H!Word : H!Aligned(v) \in H!Word
    BY AddressAssumption DEF H!Aligned, H!Word
  <2> QED
    BY <2>1 DEF H!CpuType, H!WordCsr
<1>6. H!M_MODE \in H!Privilege /\ H!S_MODE \in H!Privilege
  BY DEF H!M_MODE, H!S_MODE, H!Privilege
<1>7. H!enter_m_trap(c) = [c EXCEPT !.bits[H!CSR_MSTATUS] = m4, !.priv = H!M_MODE,
                                    !.pc = H!Aligned(c.word[H!CSR_MTVEC]),
                                    !.trap_taken = TRUE]
  BY DEF H!enter_m_trap
<1>8. H!enter_s_trap(c) = [c EXCEPT !.bits[H!CSR_MSTATUS] = s3, !.priv = H!S_MODE,
                                    !.pc = H!Aligned(c.word[H!CSR_STVEC]),
                                    !.trap_taken = TRUE]
  BY DEF H!enter_s_trap
<1> HIDE DEF m4, s3
<1>9. /\ [c.bits EXCEPT ![H!CSR_MSTATUS] = m4] \in [H!BitCsr -> SUBSET H!Bit]
      /\ [c.bits EXCEPT ![H!CSR_MSTATUS] = s3] \in [H!BitCsr -> SUBSET H!Bit]
  BY <1>3, <1>4 DEF H!CpuType
<1> QED
  BY <1>5, <1>6, <1>7, <1>8, <1>9 DEF H!CpuType

\* A trap keeps the context well typed.
LEMMA TrapKeepsContext ==
    ASSUME NEW c \in H!CpuType, NEW code \in H!Bit
    PROVE  Context(H!raise_exception(c, code)) \in H!CpuType
<1> DEFINE cause == [interrupt |-> FALSE, code |-> code]
           M == [c EXCEPT !.word[H!CSR_MEPC] = c.pc, !.cause[H!CSR_MCAUSE] = cause]
           S == [c EXCEPT !.word[H!CSR_SEPC] = c.pc, !.cause[H!CSR_SCAUSE] = cause]
<1>1. cause \in H!Cause
  BY DEF H!Cause
<1> HIDE DEF cause
<1>2. M \in H!CpuType /\ S \in H!CpuType
  BY <1>1 DEF H!CpuType
<1>3. H!raise_exception(c, code) \in {H!enter_m_trap(M), H!enter_s_trap(S)}
  BY DEF H!raise_exception, H!RaiseTrap, cause
<1> HIDE DEF M, S
<1>4. H!raise_exception(c, code) \in H!CpuType
  BY <1>2, <1>3, EnterKeepsType
<1>5. \A d \in H!CpuType : Context(d) \in H!CpuType
  <2>1. /\ RAM_BASE \in H!Word
        /\ H!cpu_reset.word \in [H!WordCsr -> H!Word]
        /\ H!cpu_reset.cause \in [H!CauseCsr -> H!Cause]
    BY AddressAssumption, ResetContext DEF H!CpuType, H!Word
  <2> QED
    BY <2>1 DEF Context, H!CpuType
<1> QED
  BY <1>4, <1>5

\* A translation leaves entries in RAM, none changed when it fails, and when
\* it succeeds an address the guest may access.
LEMMA TranslationType ==
    ASSUME NEW m \in [RamWord -> Entry], NEW c, NEW table \in PPN,
           NEW va \in VAddrs, NEW access \in {"fetch", "load", "store"}
    PROVE  LET t == translate_address(m, c, table, va, access)
           IN  /\ t.ok \in BOOLEAN
               /\ t.mem \in [RamWord -> Entry]
               /\ ~t.ok => t.mem = m
               /\ t.ok => t.pa \in Targets
<1> DEFINE leaf == walk(m, table, va)
           t == translate_address(m, c, table, va, access)
<1>0. va \in Targets /\ va \in Nat
  BY PagingAssumption, AddressAssumption
<1>1. Fault(m).ok = FALSE /\ Fault(m).mem = m
  BY DEF Fault
<1>2. CASE H!Bare(c, access)
  BY <1>0, <1>2 DEF translate_address
<1>3. CASE t = Fault(m)
  BY <1>1, <1>3
<1>4. CASE /\ leaf.level \in Level /\ leaf.pte \in Entry
           /\ t = [ok |-> TRUE,
                   pa |-> get_physical_address(leaf.pte, va, leaf.level),
                   mem |-> write64(m, leaf.addr,
                              [leaf.pte EXCEPT !.flags = @ \cup Marking(access)])]
  <2>1. Marking(access) \subseteq Flag
    BY DEF Marking, Flag, Marks
  <2>2. [leaf.pte EXCEPT !.flags = @ \cup Marking(access)] \in Entry
    BY <1>4, <2>1 DEF Entry
  <2>3. t.mem \in [RamWord -> Entry]
    BY <1>4, <2>2 DEF write64
  <2>4. t.pa \in Targets
    <3>1. PICK ppn \in PPN : t.pa = ppn * PageSize + (va % PageSize)
      BY <1>0, <1>4, PhysicalAddress
    <3> QED
      BY <3>1, PagingAssumption
  <2> QED
    BY <1>4, <2>3, <2>4
<1> QED
  <2>1. \/ leaf = NoLeaf /\ leaf.level = -1
        \/ leaf.level \in Level /\ leaf.pte \in Entry
    BY WalkType
  <2>2. -1 \notin Level
    BY DEF Level
  <2> DEFINE priv == H!effective_priv(c, access)
             passed == [ok |-> TRUE,
                        pa |-> get_physical_address(leaf.pte, va, leaf.level),
                        mem |-> write64(m, leaf.addr,
                                  [leaf.pte EXCEPT !.flags = @ \cup Marking(access)])]
  <2>3. \/ sv39(m, c, table, va, access, priv) = Fault(m)
        \/ leaf.level # -1 /\ sv39(m, c, table, va, access, priv) = passed
    BY DEF sv39
  <2>4. \/ H!Bare(c, access)
        \/ t = sv39(m, c, table, va, access, priv)
        \/ t = Fault(m)
    BY DEF translate_address
  <2> HIDE DEF t, leaf, priv
  <2> QED
    BY <1>2, <1>3, <1>4, <2>1, <2>2, <2>3, <2>4 DEF t

\* The accesses of a program are those GuestType allows.
LEMMA GuestAccess ==
    ASSUME guest \in Guests
    PROVE  /\ guest.reads \subseteq VAddrs
           /\ \A s \in guest.stores : s[1] \in VAddrs /\ s[2] \in {1, 2, 4, 8}
           /\ \A s \in guest.atomics : s[1] \in VAddrs /\ s[2] \in {4, 8}
           /\ \A x \in guest.contexts : x[1] \in H!CpuType /\ x[2] \in PPN
           /\ guest.image \in [RamWord -> Entry]
BY PagingAssumption DEF GuestType

\* What a store leaves behind are entries.
LEMMA WrittenType ==
    ASSUME NEW m \in [RamWord -> Entry], NEW pa, NEW size, NEW n \in Written(m, pa, size)
    PROVE  n \in [RamWord -> Entry]
<1>1. CASE n = m
  BY <1>1
<1>2. ASSUME NEW f \in [Touched(pa, size) -> StoreValues],
             n = [w \in RamWord |-> IF w \in Touched(pa, size) THEN f[w] ELSE m[w]]
      PROVE  n \in [RamWord -> Entry]
  BY <1>2, PagingAssumption
<1> QED
  BY <1>1, <1>2 DEF Written

\* The page fault and the misalignment exceptions of an access.
LEMMA RaiseType ==
    ASSUME PagingInv, NEW code \in H!Bit, Raise(code)
    PROVE  /\ cpu' \in H!CpuType /\ root' = root /\ guest' = guest
           /\ seen' = seen /\ crossed' = FALSE
BY TrapKeepsContext DEF PagingInv, PagingTypeOK, Raise

\* What every access through T leaves of the types.
LEMMA AccessType ==
    ASSUME PagingInv, NEW va \in VAddrs, NEW access \in {"fetch", "load", "store"}
    PROVE  LET t == T(va, access)
           IN  /\ t.ok \in BOOLEAN
               /\ t.mem \in [RamWord -> Entry]
               /\ ~t.ok => t.mem = mem
               /\ t.ok => t.pa \in Targets
BY TranslationType DEF PagingInv, PagingTypeOK, T

\* The exception codes are bit numbers of medeleg.
LEMMA FaultCodes ==
    /\ \A access \in {"fetch", "load", "store"} : PageFaultCode(access) \in H!Bit
    /\ H!EXC_LOAD_ADDR_MISALIGNED \in H!Bit /\ H!EXC_STORE_ADDR_MISALIGNED \in H!Bit
BY DEF PageFaultCode, H!EXC_INSTR_PAGE_FAULT, H!EXC_LOAD_PAGE_FAULT, H!EXC_STORE_PAGE_FAULT,
       H!EXC_LOAD_ADDR_MISALIGNED, H!EXC_STORE_ADDR_MISALIGNED, H!Bit

\* An access that traps.
LEMMA PageFaultStep ==
    ASSUME PagingInv, NEW va \in VAddrs, NEW access \in {"fetch", "load", "store"},
           PageFault(va, access)
    PROVE  PagingInv' /\ UNCHANGED <<mem, seen, resVars>>
<1>1. mem' = mem
  BY AccessType DEF PageFault
<1>2. Raise(PageFaultCode(access)) /\ PageFaultCode(access) \in H!Bit
  BY FaultCodes DEF PageFault
<1>3. UNCHANGED <<seen, resVars>>
  BY <1>2 DEF Raise
<1>4. PagingInv'
  BY <1>1, <1>2, RaiseType DEF PagingInv, PagingTypeOK
<1> QED
  BY <1>1, <1>3, <1>4

\* An lr, sc or amo that is not aligned.
LEMMA MisalignedStep ==
    ASSUME PagingInv, NEW va, NEW size, Misaligned(va, size)
    PROVE  PagingInv' /\ UNCHANGED <<mem, seen, resVars>>
<1>1. PICK code \in H!Bit : Raise(code)
  BY FaultCodes DEF Misaligned
<1>2. UNCHANGED <<mem, seen, resVars>>
  BY <1>1 DEF Raise, Misaligned
<1> QED
  BY <1>1, <1>2, RaiseType DEF PagingInv, PagingTypeOK

\* A fetch or load that goes through.
LEMMA ReadStep ==
    ASSUME PagingInv, NEW va \in VAddrs, NEW access \in {"fetch", "load"}, Read(va, access)
    PROVE  PagingInv' /\ UNCHANGED <<cpu, resVars>>
BY AccessType DEF Read, PagingInv, PagingTypeOK

\* A store, amo or sc, whose data is written or not.
LEMMA StoreStep ==
    ASSUME PagingInv, NEW va \in VAddrs, NEW size,
           StoreInstr(va, size) \/ AmoInstr(va, size) \/ ScInstr(va, size)
    PROVE  PagingInv' /\ UNCHANGED cpu /\ T(va, "store").pa \in Targets
<1> DEFINE t == T(va, "store")
<1>1. t.mem \in [RamWord -> Entry] /\ t.pa \in Targets
  BY AccessType DEF StoreInstr, AmoInstr, ScInstr
<1>2. mem' \in Written(t.mem, t.pa, size) \/ mem' = t.mem
  BY DEF StoreInstr, AmoInstr, ScInstr
<1>3. mem' \in [RamWord -> Entry]
  BY <1>1, <1>2, WrittenType
<1>4. UNCHANGED <<guest, cpu, root, seen>>
  BY DEF StoreInstr, AmoInstr, ScInstr
<1>5. Crosses(va, size) \in BOOLEAN
  BY DEF Crosses
<1>6. crossed' \in BOOLEAN
  BY <1>5, Zenon DEF StoreInstr, AmoInstr, ScInstr
<1> QED
  BY <1>1, <1>3, <1>4, <1>6 DEF PagingInv, PagingTypeOK

\* lr_w and lr_d.
LEMMA LrStep ==
    ASSUME PagingInv, NEW va \in VAddrs, NEW size, LrInstr(va, size)
    PROVE  PagingInv' /\ UNCHANGED cpu /\ T(va, "load").pa \in Targets
<1> DEFINE t == T(va, "load")
<1>1. t.mem \in [RamWord -> Entry] /\ t.pa \in Targets
  BY AccessType DEF LrInstr
<1>2. seen' \in Entry
  BY <1>1, EntryRead DEF LrInstr
<1> QED
  BY <1>1, <1>2 DEF LrInstr, PagingInv, PagingTypeOK

\* The context switch and the reset.
LEMMA SwitchStep ==
    ASSUME PagingInv, SwitchContext \/ Reset
    PROVE  PagingInv' /\ UNCHANGED <<mem, seen, resVars>>
<1>1. 0 \in PPN
  BY Sizes DEF PPN
<1> QED
  BY <1>1, GuestAccess, ResetContext DEF SwitchContext, Reset, PagingInv, PagingTypeOK

\* What a step of the machine is: a step that keeps memory and reservation, a
\* read, or an access of the program that goes through.
Quiet == UNCHANGED <<mem, seen, resVars>>
ReadDone == \E va \in guest.reads, access \in {"fetch", "load"} : Read(va, access)
StoreDone(s) == s \in guest.stores /\ StoreInstr(s[1], s[2])
AtomicDone(s) == /\ s \in guest.atomics
                 /\ \/ AmoInstr(s[1], s[2])
                    \/ LrInstr(s[1], s[2])
                    \/ ScInstr(s[1], s[2])

\* Every step is one of these.
LEMMA PagingCases ==
    ASSUME PagingInv, [PagingNext]_pagingVars
    PROVE  \/ PagingInv' /\ Quiet
           \/ ReadDone
           \/ \E s : StoreDone(s) \/ AtomicDone(s)
<1>0. guest \in Guests
  BY DEF PagingInv
<1>1. CASE SwitchContext \/ Reset
  BY <1>1, SwitchStep DEF Quiet
<1>2. ASSUME NEW va \in guest.reads, NEW access \in {"fetch", "load"}, PageFault(va, access)
      PROVE  PagingInv' /\ Quiet
  BY <1>0, <1>2, GuestAccess, PageFaultStep DEF Quiet
<1>3. ASSUME NEW s \in guest.stores, PageFault(s[1], "store")
      PROVE  PagingInv' /\ Quiet
  BY <1>0, <1>3, GuestAccess, PageFaultStep DEF Quiet
<1>4. ASSUME NEW s \in guest.atomics, NEW access \in {"load", "store"},
             PageFault(s[1], access)
      PROVE  PagingInv' /\ Quiet
  BY <1>0, <1>4, GuestAccess, PageFaultStep DEF Quiet
<1>5. ASSUME NEW s \in guest.atomics, Misaligned(s[1], s[2])
      PROVE  PagingInv' /\ Quiet
  BY <1>5, MisalignedStep DEF Quiet
<1>6. CASE UNCHANGED pagingVars
  BY <1>6 DEF pagingVars, resVars, Quiet, PagingInv, PagingTypeOK
<1> QED
  BY <1>1, <1>2, <1>3, <1>4, <1>5, <1>6 DEF PagingNext, ReadDone, StoreDone, AtomicDone

\* Every step keeps the invariant.
LEMMA PagingInvStep ==
    ASSUME PagingInv, [PagingNext]_pagingVars
    PROVE  PagingInv'
<1>0. guest \in Guests
  BY DEF PagingInv
<1>1. CASE ReadDone
  BY <1>0, <1>1, GuestAccess, ReadStep DEF ReadDone
<1>2. ASSUME NEW s, StoreDone(s)
      PROVE  PagingInv'
  BY <1>0, <1>2, GuestAccess, StoreStep DEF StoreDone
<1>3. ASSUME NEW s, AtomicDone(s)
      PROVE  PagingInv'
  BY <1>0, <1>3, GuestAccess, StoreStep, LrStep DEF AtomicDone
<1> QED
  BY <1>1, <1>2, <1>3, PagingCases

\* The programs start in it.
LEMMA PagingInitially == PagingInit => PagingInv
<1>1. 0 \in PPN
  BY Sizes DEF PPN
<1>2. Zero \in Entry
  BY <1>1 DEF Zero, Entry
<1> SUFFICES ASSUME PagingInit
             PROVE  PagingInv
  OBVIOUS
<1> QED
  BY <1>1, <1>2, GuestAccess, ResetContext DEF PagingInit, PagingInv, PagingTypeOK

\* Every reachable state is well typed and runs one of the programs.
LEMMA PagingInvariant == PagingSpec => []PagingInv
BY PagingInitially, PagingInvStep, PTL DEF PagingSpec

\* Whatever walks and stores leave in RAM, every word of it is a page table
\* entry again, and the hart and the root of the tables keep their types.
THEOREM PagingTypeCorrect == PagingSpec => []PagingTypeOK
<1>1. PagingInv => PagingTypeOK
  BY DEF PagingInv
<1> QED
  BY <1>1, PagingInvariant, PTL

\* translate_address succeeds exactly where the architecture lets the access
\* through and at its address, for every size of table and of address, on
\* whatever tables the programs, their stores and the walks have left in RAM.
THEOREM TranslationIsCorrect == PagingSpec => []TranslationCorrect
<1>1. PagingInv => TranslationCorrect
  <2> SUFFICES ASSUME PagingInv, NEW va \in VAddrs, NEW access \in {"fetch", "load", "store"}
               PROVE  LET t == T(va, access)
                      IN  Reach(mem, cpu, root, va, access) = IF t.ok THEN {t.pa} ELSE {}
    BY DEF TranslationCorrect
  <2>1. va \in Addr
    BY PagingAssumption, AddressAssumption DEF Addr
  <2> QED
    BY <2>1, TranslationExact DEF PagingInv, PagingTypeOK, T
<1> QED
  BY <1>1, PagingInvariant, PTL

\* No access that ends in a trap has changed RAM, not even an A or D bit.
THEOREM FaultsLeaveMemory == PagingSpec => FaultLeavesMemory
<1>1. ASSUME PagingInv, [PagingNext]_pagingVars
      PROVE  [cpu' # cpu => mem' = mem]_pagingVars
  <2>0. guest \in Guests
    BY <1>1 DEF PagingInv
  <2>1. CASE ReadDone
    BY <2>1 DEF ReadDone, Read
  <2>2. ASSUME NEW s, StoreDone(s) \/ AtomicDone(s)
        PROVE  cpu' = cpu
    BY <2>2 DEF StoreDone, AtomicDone, StoreInstr, AmoInstr, LrInstr, ScInstr
  <2> QED
    BY <1>1, <2>1, <2>2, PagingCases DEF Quiet
<1> QED
  BY <1>1, PagingInvariant, PTL DEF PagingSpec, FaultLeavesMemory

\* Seen from the reservation, every step is a store, an lr or an sc at a
\* physical address of the guest, or no step at all.
LEMMA PagingResStep ==
    ASSUME PagingInv, [PagingNext]_pagingVars
    PROVE  [ResNext]_resVars
<1>0. guest \in Guests
  BY DEF PagingInv
<1>1. CASE ReadDone
  BY <1>1 DEF ReadDone, Read
<1>2. ASSUME NEW s, StoreDone(s)
      PROVE  ResNext
  <2>1. s[1] \in VAddrs /\ s[2] \in {1, 2, 4, 8}
    BY <1>0, <1>2, GuestAccess DEF StoreDone
  <2>2. T(s[1], "store").pa \in Targets
    BY <1>2, <2>1, StoreStep DEF StoreDone
  <2> QED
    BY <1>2, <2>1, <2>2 DEF StoreDone, StoreInstr, ResNext
<1>3. ASSUME NEW s, AtomicDone(s)
      PROVE  ResNext
  <2>1. s[1] \in VAddrs /\ s[2] \in {4, 8}
    BY <1>0, <1>3, GuestAccess DEF AtomicDone
  <2>2. CASE AmoInstr(s[1], s[2]) \/ ScInstr(s[1], s[2])
    <3>1. T(s[1], "store").pa \in Targets
      BY <2>1, <2>2, StoreStep
    <3> QED
      BY <2>1, <2>2, <3>1 DEF AmoInstr, ScInstr, ResNext
  <2>3. CASE LrInstr(s[1], s[2])
    <3>1. T(s[1], "load").pa \in Targets
      BY <2>1, <2>3, LrStep
    <3> QED
      BY <2>1, <2>3, <3>1 DEF LrInstr, ResNext
  <2> QED
    BY <1>3, <2>2, <2>3 DEF AtomicDone
<1> QED
  BY <1>1, <1>2, <1>3, PagingCases DEF Quiet

\* Behind address translation the reservation is the one of module Reservation:
\* what is proved there of physical addresses holds of virtual ones.
THEOREM PagingImplementsReservation == PagingSpec => ResSpec
<1>1. PagingInit => ResInit
  BY DEF PagingInit
<1> QED
  BY <1>1, PagingInvariant, PagingResStep, PTL DEF PagingSpec, ResSpec

---------------------------------------------------------------------------
(* 5. The reserved word.                                                   *)

\* What the walk leaves of the leaf, and the result of a translation that ends
\* at it.
Marked(e, access) == [e EXCEPT !.flags = @ \cup Marking(access)]
Passed(m, va, access, leaf) ==
    [ok |-> TRUE,
     pa |-> get_physical_address(leaf.pte, va, leaf.level),
     mem |-> write64(m, leaf.addr, Marked(leaf.pte, access))]

\* Setting A or D leaves a word the same up to its marks.
LEMMA MarkedEntry ==
    ASSUME NEW e \in Entry, NEW access
    PROVE  Unmarked(Marked(e, access)) = Unmarked(e)
<1>1. Marking(access) \subseteq Marks
  BY DEF Marking, Marks
<1>2. (e.flags \cup Marking(access)) \ Marks = e.flags \ Marks
  BY <1>1
<1> QED
  BY <1>2 DEF Unmarked, Marked, Entry

\* What a translation through a page table that succeeds has found and done.
FoundLeaf(m, c, table, va, access) ==
    LET t == translate_address(m, c, table, va, access)
        leaf == walk(m, table, va)
    IN  /\ c.satp = 8
        /\ leaf.level \in Level /\ leaf.pte \in Entry
        /\ leaf.addr \in RamWord /\ leaf.pte = m[leaf.addr]
        /\ t = sv39(m, c, table, va, access, H!effective_priv(c, access))
        /\ t = Passed(m, va, access, leaf)

\* Every translation that succeeds where it is not the identity is one.
LEMMA Translated ==
    ASSUME NEW m \in [RamWord -> Entry], NEW c, NEW table \in PPN, NEW va,
           NEW access \in {"fetch", "load", "store"},
           translate_address(m, c, table, va, access).ok, ~H!Bare(c, access)
    PROVE  FoundLeaf(m, c, table, va, access)
<1> DEFINE t == translate_address(m, c, table, va, access)
           leaf == walk(m, table, va)
           priv == H!effective_priv(c, access)
           passed == Passed(m, va, access, leaf)
<1>1. Fault(m).ok = FALSE
  BY DEF Fault
<1>2. c.satp = 8 /\ t = sv39(m, c, table, va, access, priv)
  BY <1>1 DEF translate_address
<1>3. \/ sv39(m, c, table, va, access, priv) = Fault(m)
      \/ leaf.level # -1 /\ sv39(m, c, table, va, access, priv) = passed
  BY DEF sv39, Passed, Marked
<1>4. leaf.level # -1 /\ t = passed
  <2> HIDE DEF leaf, priv, passed
  <2> QED
    BY <1>1, <1>2, <1>3
<1>5. /\ leaf.level \in Level /\ leaf.pte \in Entry
      /\ leaf.pte = read64(m, leaf.addr) /\ IsLeaf(leaf.pte)
  BY <1>4, WalkType
<1>6. leaf.addr \in RamWord /\ leaf.pte = m[leaf.addr]
  <2>1. "V" \notin Zero.flags
    BY DEF Zero
  <2>2. leaf.pte # Zero
    BY <1>5, <2>1 DEF IsLeaf, Proper
  <2> HIDE DEF leaf
  <2> QED
    BY <1>5, <2>2 DEF read64
<1> QED
  BY <1>2, <1>4, <1>5, <1>6, Zenon DEF FoundLeaf

\* A translation changes A and D bits at most.
LEMMA MarksOnly ==
    ASSUME NEW m \in [RamWord -> Entry], NEW c, NEW table \in PPN,
           NEW va \in VAddrs, NEW access \in {"fetch", "load", "store"}
    PROVE  LET t == translate_address(m, c, table, va, access)
           IN  \A w \in RamWord : Unmarked(t.mem[w]) = Unmarked(m[w])
<1> DEFINE t == translate_address(m, c, table, va, access)
           leaf == walk(m, table, va)
<1>1. CASE ~t.ok
  <2>1. t.mem = m
    BY <1>1, TranslationType, Zenon
  <2> QED
    BY <2>1, Zenon
<1>2. CASE H!Bare(c, access)
  BY <1>2 DEF translate_address
<1>3. CASE t.ok /\ ~H!Bare(c, access)
  <2> DEFINE marked == Marked(leaf.pte, access)
  <2>1. /\ leaf.pte \in Entry /\ leaf.addr \in RamWord /\ leaf.pte = m[leaf.addr]
        /\ t = Passed(m, va, access, leaf)
    <3>1. FoundLeaf(m, c, table, va, access)
      BY <1>3, Translated
    <3> QED
      BY <3>1, Zenon DEF FoundLeaf
  <2> HIDE DEF leaf, marked, t
  <2>2. Unmarked(marked) = Unmarked(leaf.pte)
    BY <2>1, MarkedEntry DEF marked
  <2>3. t.mem = write64(m, leaf.addr, marked)
    BY <2>1 DEF Passed, marked
  <2>4. SUFFICES ASSUME NEW w \in RamWord
                 PROVE  Unmarked(t.mem[w]) = Unmarked(m[w])
    BY DEF t
  <2>5. t.mem[w] = IF w = leaf.addr THEN marked ELSE m[w]
    BY <2>3 DEF write64
  <2> QED
    BY <2>1, <2>2, <2>5
<1> QED
  BY <1>1, <1>2, <1>3

\* The reserved word of an lr.d is the one it read, up to the marks.
SeenInv ==
    reservation.valid /\ reservation.size = 8 =>
        Unmarked(read64(mem, reservation.phys_addr)) = Unmarked(seen)

\* Words that differ in their marks only read the same up to the marks.
LEMMA ReadUnmarked ==
    ASSUME NEW m, NEW n, NEW addr,
           addr \in RamWord => Unmarked(n[addr]) = Unmarked(m[addr])
    PROVE  Unmarked(read64(n, addr)) = Unmarked(read64(m, addr))
BY DEF read64

\* The translation of an access leaves every word the same up to the marks.
LEMMA AccessMarks ==
    ASSUME PagingInv, NEW va \in VAddrs, NEW access \in {"fetch", "load", "store"}
    PROVE  \A w \in RamWord : Unmarked(T(va, access).mem[w]) = Unmarked(mem[w])
BY MarksOnly DEF PagingInv, PagingTypeOK, T

\* A store that leaves the reservation valid has not touched its word.
LEMMA StoreMissesReserved ==
    ASSUME IInv, NEW pa \in Targets, NEW size \in {1, 2, 4, 8}, Store(pa, size),
           reservation'.valid, reservation.size = 8,
           NEW m, NEW n \in Written(m, pa, size)
    PROVE  /\ reservation.valid
           /\ reservation'.phys_addr = reservation.phys_addr
           /\ reservation.phys_addr \in RamWord =>
                n[reservation.phys_addr] = m[reservation.phys_addr]
<1> DEFINE a == reservation.phys_addr
<1>0. pa \in Addr
  BY AddressAssumption DEF Addr
<1>1. reservation.valid /\ reservation'.phys_addr = a
  BY InvalidateFields DEF IInv, ResTypeOK, Store
<1>2. ~Overwrites(pa, size)
  BY <1>0, OverlapFound DEF IInv, ResTypeOK, Store
<1>3. CASE ~ChangesRam(pa, size)
  BY <1>1, <1>3 DEF Written
<1>4. CASE ChangesRam(pa, size)
  <2>1. a \notin Touched(pa, size)
    BY <1>2, <1>4 DEF Overwrites, Reserved, Touched
  <2>2. PICK f : n = [w \in RamWord |-> IF w \in Touched(pa, size) THEN f[w] ELSE m[w]]
    BY <1>4 DEF Written
  <2> QED
    BY <1>1, <2>1, <2>2
<1> QED
  BY <1>3, <1>4

\* A store or amo keeps it.
LEMMA StoreKeepsSeen ==
    ASSUME PagingInv, IInv, SeenInv, NEW va \in VAddrs, NEW size \in {1, 2, 4, 8},
           StoreInstr(va, size) \/ AmoInstr(va, size)
    PROVE  SeenInv'
<1> DEFINE t == T(va, "store")
           a == reservation.phys_addr
<1>1. t.ok /\ Store(t.pa, size) /\ mem' \in Written(t.mem, t.pa, size) /\ seen' = seen
  BY DEF StoreInstr, AmoInstr, Amo
<1>2. t.pa \in Targets
  BY <1>1, AccessType
<1>3. \A w \in RamWord : Unmarked(t.mem[w]) = Unmarked(mem[w])
  BY AccessMarks
<1> HIDE DEF t
<1> SUFFICES ASSUME reservation'.valid, reservation'.size = 8
             PROVE  Unmarked(read64(mem', reservation'.phys_addr)) = Unmarked(seen')
  BY DEF SeenInv
<1>4. reservation.size = 8
  BY <1>1, InvalidateFields DEF IInv, ResTypeOK, Store
<1>5. /\ reservation.valid /\ reservation'.phys_addr = a
      /\ a \in RamWord => mem'[a] = t.mem[a]
  BY <1>1, <1>2, <1>4, StoreMissesReserved
<1>6. Unmarked(read64(mem', a)) = Unmarked(read64(mem, a))
  BY <1>3, <1>5, ReadUnmarked
<1> QED
  BY <1>1, <1>4, <1>5, <1>6 DEF SeenInv

\* lr_w and lr_d establish it.
LEMMA LrSees ==
    ASSUME PagingInv, NEW va \in VAddrs, NEW size \in {4, 8}, LrInstr(va, size)
    PROVE  SeenInv'
<1> DEFINE t == T(va, "load")
<1>1. /\ t.ok /\ t.pa % size = 0 /\ mem' = t.mem
      /\ reservation' = [valid |-> TRUE, phys_addr |-> t.pa, size |-> size]
      /\ seen' = read64(t.mem, t.pa - (t.pa % 8))
  BY DEF LrInstr, Lr
<1>2. t.pa \in Nat
  <2>1. t.pa \in Targets
    BY <1>1, AccessType
  <2>2. \A x \in Targets : x \in Nat
    BY AddressAssumption
  <2> QED
    BY <2>1, <2>2
<1> HIDE DEF t
<1>3. size = 8 => t.pa - (t.pa % 8) = t.pa
  BY <1>1, <1>2
<1> QED
  BY <1>1, <1>3 DEF SeenInv

\* Every step keeps it.
LEMMA SeenStep ==
    ASSUME PagingInv, IInv, SeenInv, [PagingNext]_pagingVars
    PROVE  SeenInv'
<1>0. guest \in Guests
  BY DEF PagingInv
<1>1. CASE Quiet
  BY <1>1 DEF Quiet, resVars, SeenInv
<1>2. ASSUME NEW va \in guest.reads, NEW access \in {"fetch", "load"}, Read(va, access)
      PROVE  SeenInv'
  <2>1. va \in VAddrs
    BY <1>0, GuestAccess
  <2>2. \A w \in RamWord : Unmarked(mem'[w]) = Unmarked(mem[w])
    BY <1>2, <2>1, AccessMarks DEF Read
  <2>3. Unmarked(read64(mem', reservation.phys_addr)) = Unmarked(read64(mem, reservation.phys_addr))
    BY <2>2, ReadUnmarked
  <2> QED
    BY <1>2, <2>3 DEF Read, resVars, SeenInv
<1>3. ASSUME NEW s, StoreDone(s)
      PROVE  SeenInv'
  BY <1>0, <1>3, GuestAccess, StoreKeepsSeen DEF StoreDone
<1>4. ASSUME NEW s, AtomicDone(s)
      PROVE  SeenInv'
  <2>1. s[1] \in VAddrs /\ s[2] \in {4, 8}
    BY <1>0, <1>4, GuestAccess DEF AtomicDone
  <2>2. CASE AmoInstr(s[1], s[2])
    BY <2>1, <2>2, StoreKeepsSeen
  <2>3. CASE LrInstr(s[1], s[2])
    BY <2>1, <2>3, LrSees
  <2>4. CASE ScInstr(s[1], s[2])
    <3>1. reservation' = [reservation EXCEPT !.valid = FALSE]
      BY <2>4 DEF ScInstr, Sc
    <3>2. ~reservation'.valid
      BY <3>1 DEF IInv, ResTypeOK, ReservationType
    <3> QED
      BY <3>2 DEF SeenInv
  <2> QED
    BY <1>4, <2>2, <2>3, <2>4 DEF AtomicDone
<1> QED
  BY <1>1, <1>2, <1>3, <1>4, PagingCases DEF ReadDone

\* The lr/sc pair, behind address translation: an sc.d that succeeds finds in
\* its doubleword what the lr.d read there, whatever stores, amos and walks ran
\* in between through whatever mapping; only A and D bits can differ.
THEOREM ScSeesTheReservedWord == PagingSpec => ScSeesReservedWord
<1>1. PagingInit => SeenInv
  BY DEF PagingInit, ResInit, SeenInv
<1>2. ASSUME PagingInv, SeenInv, [PagingNext]_pagingVars
      PROVE  [linked /\ ~linked' /\ sc' = "success" /\ reservation.size = 8 =>
                Unmarked(read64(mem, reservation.phys_addr)) = Unmarked(seen)]_pagingVars
  <2> SUFFICES ASSUME linked, ~linked', sc' = "success", reservation.size = 8
               PROVE  reservation.valid
    BY <1>2 DEF SeenInv
  <2>1. [ResNext]_resVars
    BY <1>2, PagingResStep
  <2> QED
    BY <2>1 DEF ResNext, resVars, Store, Amo, Lr, Sc
<1>3. PagingInv /\ IInv /\ SeenInv /\ [PagingNext]_pagingVars => SeenInv'
  BY SeenStep
<1>4. PagingInit => ResInit
  BY DEF PagingInit
<1>5. ResInit => IInv
  BY InitHolds
<1>6. PagingInv /\ IInv /\ [PagingNext]_pagingVars => IInv'
  BY PagingResStep, StepPreserves
<1> QED
  BY <1>1, <1>2, <1>3, <1>4, <1>5, <1>6, PagingInvariant, PTL
     DEF PagingSpec, ScSeesReservedWord

---------------------------------------------------------------------------
(* 6. The words a store changes.                                           *)

\* Two addresses of one page have the same page numbers, and both or neither
\* are canonical.
LEMMA PageNumbers ==
    ASSUME NEW va \in Nat, NEW vb \in Nat, va \div PageSize = vb \div PageSize
    PROVE  /\ \A i \in Level : vpn(va, i) = vpn(vb, i)
           /\ check_upper_bits(va) <=> check_upper_bits(vb)
<1> DEFINE E == Entries
           P == PageSize
<1>1. \A s \in Nat : s > 0 => va \div (P * s) = vb \div (P * s)
  <2> SUFFICES ASSUME NEW s \in Nat, s > 0
               PROVE  va \div (P * s) = vb \div (P * s)
    OBVIOUS
  <2>0. P \in Nat /\ P > 0
    BY Sizes
  <2> HIDE DEF P
  <2>1. va \div (P * s) = (va \div P) \div s
    BY <2>0, DivDiv, Zenon
  <2>2. vb \div (P * s) = (vb \div P) \div s
    BY <2>0, DivDiv, Zenon
  <2> QED
    BY <2>1, <2>2 DEF P
<1>2. \A i \in Level : vpn(va, i) = vpn(vb, i)
  BY <1>1, Sizes DEF vpn
<1>3. P * E * E * E = P * (E * E * E) /\ E * E * E \in Nat /\ E * E * E > 0
  BY Sizes
<1>4. va \div (P * E * E * E) = vb \div (P * E * E * E)
  BY <1>1, <1>3
<1>5. 2 \in Level
  BY DEF Level
<1> QED
  BY <1>2, <1>4, <1>5 DEF check_upper_bits

\* The walk looks at the page numbers only.
LEMMA SameWalk ==
    ASSUME NEW m, NEW table, NEW va, NEW vb, \A i \in Level : vpn(va, i) = vpn(vb, i)
    PROVE  walk(m, table, va) = walk(m, table, vb)
<1>1. \A i \in Level : \A t : /\ EntryAddr(t, va, i) = EntryAddr(t, vb, i)
                              /\ ReadEntry(m, t, va, i) = ReadEntry(m, t, vb, i)
  BY DEF EntryAddr, ReadEntry
<1>2. \A i \in Level : \A below : Round(m, va, i, below) = Round(m, vb, i, below)
  BY <1>1 DEF Round
<1>3. Round2(m, va) = Round2(m, vb)
  BY <1>2 DEF Round0, Round1, Round2, Level
<1> QED
  BY <1>3, WalkRounds

\* Two addresses of one page: the offset is all that differs.
LEMMA SameFrame ==
    ASSUME NEW pte \in Entry, NEW level \in Level, NEW va \in Nat, NEW vb \in Nat,
           \A i \in Level : vpn(va, i) = vpn(vb, i)
    PROVE  \E ppn \in PPN :
              /\ get_physical_address(pte, va, level) = ppn * PageSize + (va % PageSize)
              /\ get_physical_address(pte, vb, level) = ppn * PageSize + (vb % PageSize)
<1> DEFINE Part(v, i) == IF i < level THEN vpn(v, i)
                         ELSE (pte.ppn \div Span(i)) % (IF i = 2 THEN MaxPpn2 ELSE Entries)
           Frame(v) == Part(v, 2) * Span(2) + Part(v, 1) * Span(1) + Part(v, 0)
<1>1. \A v : get_physical_address(pte, v, level) = Frame(v) * PageSize + (v % PageSize)
  BY DEF get_physical_address
<1>2. Part(va, 2) = Part(vb, 2) /\ Part(va, 1) = Part(vb, 1) /\ Part(va, 0) = Part(vb, 0)
  BY DEF Level
<1>3. Frame(va) = Frame(vb)
  <2> HIDE DEF Part
  <2> QED
    BY <1>2
<1>4. PICK ppn \in PPN : get_physical_address(pte, va, level) = ppn * PageSize + (va % PageSize)
  BY PhysicalAddress
<1>5. Frame(va) \in Int
  <2>1. /\ \A i \in Level : Part(va, i) \in Int
        /\ Span(2) \in Int /\ Span(1) \in Int
    <3>1. \A i \in Level : vpn(va, i) \in Int
      BY AddressParts, Sizes
    <3>2. pte.ppn \in Nat
      BY Sizes DEF Entry, PPN
    <3>3. \A i \in Level : (pte.ppn \div Span(i)) % (IF i = 2 THEN MaxPpn2 ELSE Entries) \in Int
      <4> SUFFICES ASSUME NEW i \in Level
                   PROVE  (pte.ppn \div Span(i)) % (IF i = 2 THEN MaxPpn2 ELSE Entries) \in Int
        OBVIOUS
      <4>1. pte.ppn \div Span(i) \in Nat
        BY <3>2, Sizes, DivMod
      <4> QED
        BY <4>1, Sizes
    <3> QED
      BY <3>1, <3>3, Sizes DEF Level
  <2> HIDE DEF Part
  <2>2. Part(va, 2) \in Int /\ Part(va, 1) \in Int /\ Part(va, 0) \in Int
    BY <2>1 DEF Level
  <2> QED
    BY <2>1, <2>2
<1>6. ppn \in Int /\ va % PageSize \in Int /\ PageSize \in Int
  BY AddressParts, Sizes DEF PPN
<1> HIDE DEF Frame
<1>7. Frame(va) * PageSize \in Int /\ ppn * PageSize \in Int
  BY <1>5, <1>6
<1>8. Frame(va) * PageSize = ppn * PageSize
  BY <1>1, <1>4, <1>6, <1>7
<1> QED
  BY <1>1, <1>3, <1>4, <1>8

\* The address vb passes translation as va does: to the same frame, through
\* the same leaf.
PassesLike(m, c, table, access, va, vb) ==
    LET ta == translate_address(m, c, table, va, access)
        tb == translate_address(m, c, table, vb, access)
    IN  /\ tb.ok
        /\ walk(m, table, vb) = walk(m, table, va)
        /\ \E ppn \in PPN : /\ ta.pa = ppn * PageSize + (va % PageSize)
                            /\ tb.pa = ppn * PageSize + (vb % PageSize)

\* If one address of a page passes translation, so does every other.
LEMMA SamePage ==
    ASSUME NEW m \in [RamWord -> Entry], NEW c, NEW table \in PPN,
           NEW access \in {"fetch", "load", "store"},
           NEW va \in Nat, NEW vb \in Nat, va \div PageSize = vb \div PageSize,
           translate_address(m, c, table, va, access).ok, ~H!Bare(c, access)
    PROVE  PassesLike(m, c, table, access, va, vb)
<1> DEFINE ta == translate_address(m, c, table, va, access)
           tb == translate_address(m, c, table, vb, access)
           leaf == walk(m, table, va)
           priv == H!effective_priv(c, access)
<1>1. /\ c.satp = 8 /\ leaf.level \in Level /\ leaf.pte \in Entry
      /\ ta = sv39(m, c, table, va, access, priv)
      /\ ta = Passed(m, va, access, leaf)
  <2>1. FoundLeaf(m, c, table, va, access)
    BY Translated
  <2> QED
    BY <2>1, Zenon DEF FoundLeaf
<1>2. /\ \A i \in Level : vpn(va, i) = vpn(vb, i)
      /\ check_upper_bits(va) <=> check_upper_bits(vb)
  BY PageNumbers
<1>3. walk(m, table, vb) = leaf
  BY <1>2, SameWalk
<1>4. tb = sv39(m, c, table, vb, access, priv)
  BY <1>1 DEF translate_address
<1>5. tb = Passed(m, vb, access, leaf)
  <2> DEFINE refused == \/ ~check_upper_bits(va)
                        \/ leaf.level = -1
                        \/ leaf.pte.ppn % Span(leaf.level) # 0
                        \/ ~check_priviledge(c, priv, leaf.pte.flags, access)
                        \/ ~AccessBits(c, leaf.pte.flags, access)
  <2>1. ta = IF refused THEN Fault(m) ELSE Passed(m, va, access, leaf)
    BY <1>1 DEF sv39, Passed, Marked
  <2>2. tb = IF refused THEN Fault(m) ELSE Passed(m, vb, access, leaf)
    BY <1>2, <1>3, <1>4 DEF sv39, Passed, Marked
  <2>3. Fault(m).ok = FALSE
    BY DEF Fault
  <2>4. ta.ok
    OBVIOUS
  <2> HIDE DEF refused, ta, tb
  <2> QED
    BY <2>1, <2>2, <2>3, <2>4
<1>6. \E ppn \in PPN :
         /\ get_physical_address(leaf.pte, va, leaf.level) = ppn * PageSize + (va % PageSize)
         /\ get_physical_address(leaf.pte, vb, leaf.level) = ppn * PageSize + (vb % PageSize)
  <2> HIDE DEF leaf
  <2> QED
    BY <1>1, <1>2, SameFrame
<1>7. /\ ta.pa = get_physical_address(leaf.pte, va, leaf.level)
      /\ tb.pa = get_physical_address(leaf.pte, vb, leaf.level)
      /\ tb.ok
  <2> HIDE DEF ta, tb, leaf
  <2> QED
    BY <1>1, <1>5 DEF Passed
<1> HIDE DEF ta, tb, leaf
<1>8. \E ppn \in PPN : /\ ta.pa = ppn * PageSize + (va % PageSize)
                       /\ tb.pa = ppn * PageSize + (vb % PageSize)
  BY <1>6, <1>7
<1> QED
  BY <1>3, <1>7, <1>8, Zenon DEF ta, tb, leaf, PassesLike

\* An aligned access does not run over the end of a page.
LEMMA AlignedStays ==
    ASSUME NEW ppn \in PPN, NEW o \in 0..(PageSize - 1), NEW size \in {4, 8},
           (ppn * PageSize + o) % size = 0
    PROVE  o + size <= PageSize
<1> DEFINE k == ppn * Entries
<1>1. k \in Nat /\ ppn * PageSize = 8 * k /\ PageSize = 8 * Entries /\ Entries \in Nat
  BY Sizes DEF PPN, PageSize
<1> HIDE DEF k
<1>2. o \in Nat /\ o < 8 * Entries /\ (8 * k + o) % size = 0
  BY <1>1
<1>3. CASE size = 8
  <2>1. o % 8 = 0
    BY <1>1, <1>2, <1>3
  <2> QED
    BY <1>1, <1>2, <1>3, <2>1
<1>4. CASE size = 4
  <2>1. o % 4 = 0
    BY <1>1, <1>2, <1>4
  <2> QED
    BY <1>1, <1>2, <1>4, <2>1
<1> QED
  BY <1>3, <1>4

\* An access that stays in its page touches words of that page only.
LEMMA TouchedInPage ==
    ASSUME NEW ppn \in PPN, NEW o \in 0..(PageSize - 1), NEW size \in {1, 2, 4, 8},
           o + size <= PageSize, NEW w \in Touched(ppn * PageSize + o, size)
    PROVE  w - ppn * PageSize \in 0..(PageSize - 1)
<1> DEFINE k == ppn * Entries
           pa == ppn * PageSize + o
<1>1. k \in Nat /\ ppn * PageSize = 8 * k /\ PageSize = 8 * Entries /\ Entries \in Nat
  BY Sizes DEF PPN, PageSize
<1>2. w \in RamWord /\ Bytes(pa, size) \cap Bytes(w, 8) # {}
  BY DEF Touched
<1> HIDE DEF k
<1>3. w \in Nat /\ w % 8 = 0
  BY <1>2, AddressAssumption DEF RamWord
<1>4. pa \in Nat /\ pa = 8 * k + o
  BY <1>1
<1> HIDE DEF pa
<1>5. PICK b \in Int : pa <= b /\ b < pa + size /\ w <= b /\ b < w + 8
  BY <1>2, <1>3, <1>4 DEF Bytes
<1>6. w > 8 * k - 8 /\ w < 8 * k + 8 * Entries
  BY <1>1, <1>3, <1>4, <1>5
<1>7. w >= 8 * k
  BY <1>1, <1>3, <1>6
<1> QED
  BY <1>1, <1>3, <1>6, <1>7

\* The virtual word through which a store reaches a word of its page.
LEMMA WindowFound ==
    ASSUME NEW va \in Addr, NEW ppn \in PPN, NEW w \in RamWord,
           w - ppn * PageSize \in 0..(PageSize - 1)
    PROVE  \E vb \in WordVAddr : /\ vb \div PageSize = va \div PageSize
                                 /\ ppn * PageSize + (vb % PageSize) = w
<1> DEFINE P == PageSize
           q == va \div P
           N == Upper * Entries * Entries * Entries
           k == ppn * Entries
           j == q * Entries
           o == w - ppn * P
           vb == P * q + o
<1>0. o \in 0..(P - 1)
  OBVIOUS
<1>1. P \in Nat /\ P > 0 /\ va \in Nat /\ va < AddrSize /\ AddrSize = N * P
  BY Sizes, AddressAssumption, PagingAssumption DEF Addr
<1>2. N \in Nat
  BY Sizes, PagingAssumption
<1>3. q \in Nat /\ va % P \in 0..(P - 1) /\ va = P * q + (va % P)
  BY <1>1, DivMod
<1>4. k \in Nat /\ ppn * P = 8 * k
  BY Sizes DEF PPN, PageSize
<1>5. w \in Nat /\ w % 8 = 0
  BY AddressAssumption DEF RamWord
<1>6. P * q = 8 * j /\ j \in Nat
  <2> HIDE DEF q
  <2> QED
    BY <1>3, Sizes DEF PageSize
<1> HIDE DEF N, k, j
<1>7. vb \div P = q /\ vb % P = o
  <2>1. vb \in Nat /\ o \in 0..(P - 1)
    BY <1>4, <1>5, <1>6
  <2> HIDE DEF q, o, P
  <2> QED
    BY <1>1, <1>3, <2>1, DivUnique
<1>8. vb \in Nat /\ vb % 8 = 0
  BY <1>4, <1>5, <1>6
<1>9. vb < AddrSize
  <2> DEFINE r == va % P
  <2> HIDE DEF q, r, P
  <2>1. ~(N <= q)
    <3> SUFFICES ASSUME N <= q PROVE FALSE
      OBVIOUS
    <3>1. N * P <= q * P
      BY <1>1, <1>2, <1>3, Monotone
    <3>2. q * P = P * q /\ P * q \in Nat
      BY <1>1, <1>3
    <3> QED
      BY <1>1, <1>3, <3>1, <3>2 DEF r
  <2>2. (q + 1) * P <= N * P
    BY <1>1, <1>2, <1>3, <2>1, Monotone
  <2>3. (q + 1) * P = P * q + P /\ P * q \in Nat
    BY <1>1, <1>3
  <2> HIDE DEF o
  <2> QED
    BY <1>0, <1>1, <2>2, <2>3
<1>10. ppn * P + o = w
  BY <1>4, <1>5
<1>11. vb \in WordVAddr
  BY <1>8, <1>9, AddressAssumption DEF WordVAddr, Addr
<1> QED
  BY <1>7, <1>10, <1>11

\* The word w is written by a store, amo or sc at va that stays in its page.
WrittenBy(w, va, size) ==
    /\ va \in VAddrs /\ size \in {1, 2, 4, 8}
    /\ T(va, "store").ok
    /\ w \in Touched(T(va, "store").pa, size)
    /\ mem' \in Written(T(va, "store").mem, T(va, "store").pa, size)
    /\ ~H!Bare(cpu, "store") => (va % PageSize) + size <= PageSize

\* The addresses of the programs.
LEMMA ProgramAddress ==
    ASSUME NEW va \in VAddrs
    PROVE  va \in Addr /\ va \in Nat /\ va % PageSize \in 0..(PageSize - 1)
<1>1. va \in Addr /\ va \in Nat
  BY PagingAssumption, AddressAssumption DEF Addr
<1> QED
  BY <1>1, AddressParts

\* Where a translation ends in the page of its address.
LEMMA TranslatedOffset ==
    ASSUME PagingInv, NEW va \in VAddrs, T(va, "store").ok, ~H!Bare(cpu, "store")
    PROVE  \E ppn \in PPN : T(va, "store").pa = ppn * PageSize + (va % PageSize)
<1>1. va \in Nat
  BY ProgramAddress
<1>2. mem \in [RamWord -> Entry] /\ root \in PPN
  BY DEF PagingInv, PagingTypeOK
<1>3. translate_address(mem, cpu, root, va, "store").ok
  BY DEF T
<1>4. PassesLike(mem, cpu, root, "store", va, va)
  BY <1>1, <1>2, <1>3, SamePage
<1> QED
  BY <1>4 DEF PassesLike, T

\* A word that a store leaves different is one it touches.
LEMMA DifferentIsTouched ==
    ASSUME PagingInv, NEW va \in VAddrs, NEW size,
           mem' \in Written(T(va, "store").mem, T(va, "store").pa, size),
           NEW w \in Overwritten
    PROVE  w \in Touched(T(va, "store").pa, size)
<1> DEFINE t == T(va, "store")
<1>1. w \in RamWord /\ Unmarked(mem'[w]) # Unmarked(mem[w])
  BY DEF Overwritten
<1>2. mem'[w] # t.mem[w]
  BY <1>1, AccessMarks
<1> HIDE DEF t
<1>3. mem' \in Written(t.mem, t.pa, size)
  BY DEF t
<1>4. w \in Touched(t.pa, size)
  BY <1>1, <1>2, <1>3 DEF Written
<1> QED
  BY <1>4 DEF t

\* An amo or sc is aligned, and so stays in its page.
LEMMA AtomicStays ==
    ASSUME PagingInv, NEW va \in VAddrs, NEW size \in {4, 8}, T(va, "store").ok,
           T(va, "store").pa % size = 0, ~H!Bare(cpu, "store")
    PROVE  (va % PageSize) + size <= PageSize
<1>1. PICK ppn \in PPN : T(va, "store").pa = ppn * PageSize + (va % PageSize)
  BY TranslatedOffset
<1>2. va % PageSize \in 0..(PageSize - 1)
  BY ProgramAddress
<1> QED
  BY <1>1, <1>2, AlignedStays

\* Only stores, amos and successful scs change a word by more than its marks.
LEMMA OverwrittenBy ==
    ASSUME PagingInv, [PagingNext]_pagingVars, ~crossed', NEW w \in Overwritten
    PROVE  \E va, size : WrittenBy(w, va, size)
<1>0. guest \in Guests
  BY DEF PagingInv
<1>1. w \in RamWord /\ Unmarked(mem'[w]) # Unmarked(mem[w])
  BY DEF Overwritten
<1>2. ~Quiet
  BY <1>1 DEF Quiet
<1>3. ~ReadDone
  <2> SUFFICES ASSUME NEW va \in guest.reads, NEW access \in {"fetch", "load"}, Read(va, access)
               PROVE  FALSE
    BY DEF ReadDone
  <2>1. va \in VAddrs
    BY <1>0, GuestAccess
  <2> QED
    BY <1>1, <2>1, AccessMarks DEF Read
<1>4. ASSUME NEW s, StoreDone(s)
      PROVE  WrittenBy(w, s[1], s[2])
  <2>1. s[1] \in VAddrs /\ s[2] \in {1, 2, 4, 8}
    BY <1>0, <1>4, GuestAccess DEF StoreDone
  <2>2. /\ T(s[1], "store").ok
        /\ mem' \in Written(T(s[1], "store").mem, T(s[1], "store").pa, s[2])
        /\ ~Crosses(s[1], s[2])
    BY <1>4 DEF StoreDone, StoreInstr
  <2>3. (s[1] % PageSize) + s[2] <= PageSize
    <3>1. s[1] % PageSize \in 0..(PageSize - 1) /\ PageSize \in Nat
      BY <2>1, Sizes, ProgramAddress
    <3> QED
      BY <2>1, <2>2, <3>1 DEF Crosses
  <2> QED
    BY <2>1, <2>2, <2>3, DifferentIsTouched DEF WrittenBy
<1>5. ASSUME NEW s, AtomicDone(s)
      PROVE  WrittenBy(w, s[1], s[2])
  <2>1. s[1] \in VAddrs /\ s[2] \in {4, 8}
    BY <1>0, <1>5, GuestAccess DEF AtomicDone
  <2>2. ~LrInstr(s[1], s[2])
    BY <1>1, <2>1, AccessMarks DEF LrInstr
  <2>3. /\ T(s[1], "store").ok
        /\ T(s[1], "store").pa % s[2] = 0
        /\ \/ mem' \in Written(T(s[1], "store").mem, T(s[1], "store").pa, s[2])
           \/ mem' = T(s[1], "store").mem
    BY <1>5, <2>2 DEF AtomicDone, AmoInstr, ScInstr, Amo, Sc
  <2>4. mem' # T(s[1], "store").mem
    BY <1>1, <2>1, AccessMarks
  <2>5. ~H!Bare(cpu, "store") => (s[1] % PageSize) + s[2] <= PageSize
    BY <2>1, <2>3, AtomicStays
  <2> QED
    BY <2>1, <2>3, <2>4, <2>5, DifferentIsTouched DEF WrittenBy
<1> QED
  BY <1>2, <1>3, <1>4, <1>5, PagingCases

\* Under translation, the written word has a window, seen through the leaf of
\* the store.
LEMMA WindowOfStore ==
    ASSUME PagingInv, NEW w, NEW va, NEW size, WrittenBy(w, va, size),
           ~H!Bare(cpu, "store")
    PROVE  \E vb \in Windows(w) : walk(mem, root, vb) = walk(mem, root, va)
<1> DEFINE t == T(va, "store")
<1>1. /\ va \in VAddrs /\ size \in {1, 2, 4, 8} /\ t.ok
      /\ w \in Touched(t.pa, size) /\ (va % PageSize) + size <= PageSize
  BY DEF WrittenBy
<1>2. PICK ppn \in PPN : t.pa = ppn * PageSize + (va % PageSize)
  BY <1>1, TranslatedOffset
<1>3. va \in Addr /\ va \in Nat /\ va % PageSize \in 0..(PageSize - 1)
  BY <1>1, ProgramAddress
<1>4. w \in RamWord
  BY <1>1 DEF Touched
<1>5. w - ppn * PageSize \in 0..(PageSize - 1)
  BY <1>1, <1>2, <1>3, TouchedInPage
<1>6. PICK vb \in WordVAddr : /\ vb \div PageSize = va \div PageSize
                              /\ ppn * PageSize + (vb % PageSize) = w
  BY <1>3, <1>4, <1>5, WindowFound
<1>7. vb \in Addr /\ vb \in Nat
  BY AddressAssumption DEF WordVAddr, Addr
<1>8. mem \in [RamWord -> Entry] /\ root \in PPN
  BY DEF PagingInv, PagingTypeOK
<1> DEFINE tb == translate_address(mem, cpu, root, vb, "store")
<1>9. /\ tb.ok /\ walk(mem, root, vb) = walk(mem, root, va)
      /\ \E p \in PPN : /\ t.pa = p * PageSize + (va % PageSize)
                        /\ tb.pa = p * PageSize + (vb % PageSize)
  <2>1. t = translate_address(mem, cpu, root, va, "store")
    BY DEF T
  <2> HIDE DEF t
  <2>2. translate_address(mem, cpu, root, va, "store").ok
    BY <1>1, <2>1
  <2>4. va \div PageSize = vb \div PageSize /\ "store" \in {"fetch", "load", "store"}
    BY <1>6
  <2>3. PassesLike(mem, cpu, root, "store", va, vb)
    BY <1>3, <1>7, <1>8, <2>2, <2>4, SamePage
  <2> QED
    BY <2>1, <2>3, Zenon DEF PassesLike
<1>10. Reach(mem, cpu, root, vb, "store") = IF tb.ok THEN {tb.pa} ELSE {}
  BY <1>7, <1>8, TranslationExact
<1> HIDE DEF t, tb
<1>11. tb.pa = w
  <2>1. PICK p \in PPN : /\ t.pa = p * PageSize + (va % PageSize)
                         /\ tb.pa = p * PageSize + (vb % PageSize)
    BY <1>9
  <2>2. /\ p * PageSize \in Nat /\ ppn * PageSize \in Nat
        /\ va % PageSize \in Nat
    BY <1>3, Sizes DEF PPN
  <2>3. p * PageSize = ppn * PageSize
    BY <1>2, <2>1, <2>2
  <2> QED
    BY <1>6, <2>1, <2>3
<1>12. w \in Reach(mem, cpu, root, vb, "store")
  BY <1>9, <1>10, <1>11
<1> QED
  BY <1>6, <1>9, <1>12 DEF Windows

\* A store that does not run over the end of a page changes only words that a
\* virtual address open to stores maps to, for every page table in RAM.
THEOREM StoresStayInMappedPages == PagingSpec => StoresStayMapped
<1>1. ASSUME PagingInv, [PagingNext]_pagingVars
      PROVE  [~crossed' => \A w \in Overwritten : Windows(w) # {}]_pagingVars
  <2> SUFFICES ASSUME ~crossed', NEW w \in Overwritten
               PROVE  Windows(w) # {}
    OBVIOUS
  <2>1. PICK va, size : WrittenBy(w, va, size)
    BY <1>1, OverwrittenBy
  <2>2. CASE ~H!Bare(cpu, "store")
    BY <1>1, <2>1, <2>2, WindowOfStore
  <2>3. CASE H!Bare(cpu, "store")
    <3>1. w \in WordVAddr
      BY AddressAssumption DEF Overwritten, RamWord, WordVAddr, Addr
    <3>2. w \in Reach(mem, cpu, root, w, "store")
      BY <2>3 DEF Reach
    <3> QED
      BY <3>1, <3>2 DEF Windows
  <2> QED
    BY <2>2, <2>3
<1> QED
  BY <1>1, PagingInvariant, PTL DEF PagingSpec, StoresStayMapped

\* Two words that one store touches are the same or neighbours.
LEMMA Neighbours ==
    ASSUME NEW pa \in Nat, NEW size \in {1, 2, 4, 8},
           NEW v \in Touched(pa, size), NEW w \in Touched(pa, size)
    PROVE  v = w \/ v = w - 8 \/ v = w + 8
<1>1. /\ v \in Nat /\ v % 8 = 0 /\ w \in Nat /\ w % 8 = 0
  BY AddressAssumption DEF Touched, RamWord
<1>2. PICK b \in Int : pa <= b /\ b < pa + size /\ w <= b /\ b < w + 8
  BY <1>1 DEF Touched, Bytes
<1>3. PICK d \in Int : pa <= d /\ d < pa + size /\ v <= d /\ d < v + 8
  BY <1>1 DEF Touched, Bytes
<1>4. v < w + 16 /\ w < v + 16
  BY <1>1, <1>2, <1>3
<1> QED
  BY <1>1, <1>4

\* The walk of a store marks its leaf.
LEMMA LeafMarked ==
    ASSUME PagingInv, NEW va \in VAddrs, T(va, "store").ok, ~H!Bare(cpu, "store")
    PROVE  LET leaf == walk(mem, root, va).addr
           IN  leaf \in RamWord /\ Marks \subseteq T(va, "store").mem[leaf].flags
<1> DEFINE t == T(va, "store")
           leaf == walk(mem, root, va)
<1>1. mem \in [RamWord -> Entry] /\ root \in PPN
  BY DEF PagingInv, PagingTypeOK
<1>2. /\ leaf.pte \in Entry /\ leaf.addr \in RamWord
      /\ t = Passed(mem, va, "store", leaf)
  <2>1. t = translate_address(mem, cpu, root, va, "store")
    BY DEF T
  <2>2. FoundLeaf(mem, cpu, root, va, "store")
    BY <1>1, <2>1, Translated
  <2> QED
    BY <2>1, <2>2, Zenon DEF FoundLeaf
<1> HIDE DEF t, leaf
<1>3. t.mem[leaf.addr] = Marked(leaf.pte, "store")
  BY <1>2 DEF Passed, write64
<1>4. Marks \subseteq Marked(leaf.pte, "store").flags
  BY <1>2 DEF Marked, Marking, Marks, Entry
<1> QED
  BY <1>2, <1>3, <1>4 DEF t, leaf

\* Under translation no page is written without a dirty leaf to show for it,
\* unless the store replaces that leaf.
THEOREM WrittenPagesAreDirty == PagingSpec => WrittenPagesDirty
<1>1. ASSUME PagingInv, [PagingNext]_pagingVars
      PROVE  [~crossed' /\ ~H!Bare(cpu, "store") =>
                \A w \in Overwritten :
                    \E va \in Windows(w) :
                        LET leaf == walk(mem, root, va).addr
                        IN  \/ leaf \in Overwritten \cup {w - 8, w + 8}
                            \/ Marks \subseteq mem'[leaf].flags]_pagingVars
  <2> SUFFICES ASSUME ~crossed', ~H!Bare(cpu, "store"), NEW w \in Overwritten
               PROVE  \E va \in Windows(w) :
                        LET leaf == walk(mem, root, va).addr
                        IN  \/ leaf \in Overwritten \cup {w - 8, w + 8}
                            \/ Marks \subseteq mem'[leaf].flags
    OBVIOUS
  <2>1. PICK va, size : WrittenBy(w, va, size)
    BY <1>1, OverwrittenBy
  <2>2. PICK vb \in Windows(w) : walk(mem, root, vb) = walk(mem, root, va)
    BY <1>1, <2>1, WindowOfStore
  <2> DEFINE t == T(va, "store")
             leaf == walk(mem, root, va).addr
  <2>3. /\ va \in VAddrs /\ size \in {1, 2, 4, 8} /\ t.ok
        /\ w \in Touched(t.pa, size) /\ mem' \in Written(t.mem, t.pa, size)
    BY <2>1 DEF WrittenBy
  <2>4. leaf \in RamWord /\ Marks \subseteq t.mem[leaf].flags
    BY <1>1, <2>3, LeafMarked
  <2>5. t.pa \in Nat
    <3>1. t.pa \in Targets
      BY <1>1, <2>3, AccessType
    <3>2. \A x \in Targets : x \in Nat
      BY AddressAssumption
    <3> QED
      BY <3>1, <3>2
  <2> HIDE DEF t, leaf
  <2>6. CASE leaf \in Touched(t.pa, size)
    <3>1. leaf = w \/ leaf = w - 8 \/ leaf = w + 8
      BY <2>3, <2>5, <2>6, Neighbours
    <3> QED
      BY <2>2, <3>1 DEF leaf
  <2>7. CASE leaf \notin Touched(t.pa, size)
    <3>1. mem'[leaf] = t.mem[leaf]
      BY <2>3, <2>4, <2>7 DEF Written
    <3> QED
      BY <2>2, <2>4, <3>1 DEF leaf
  <2> QED
    BY <2>6, <2>7
<1> QED
  BY <1>1, PagingInvariant, PTL DEF PagingSpec, WrittenPagesDirty
=============================================================================
