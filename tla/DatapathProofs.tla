---------------------------- MODULE DatapathProofs ----------------------------
(***************************************************************************)
(* The properties of module Datapath hold of every instruction word, every *)
(* value of the registers and of memory, every memory map and every width  *)
(* of a byte that the assumptions of Datapath allow.                       *)
(*                                                                         *)
(* The inductive invariant is TypeInv: the widths, the requests to the     *)
(* devices, and the case that runs.  The other theorems are about single   *)
(* steps from a state that satisfies it: the opcode picks the dispatcher,  *)
(* ArithmeticProofs has its value, and ComputeCases what is written.       *)
(***************************************************************************)
EXTENDS ArithmeticProofs, SequenceTheorems

---------------------------------------------------------------------------
(* Bytes, RAM and the bus.                                                 *)

\* The bytes f[0] .. f[m - 1], added up with their weights, and what that sum is.
Weighed(f, n) == [k \in 0..(n - 1) |-> f[k] * 2 ^ (k * ByteBits)]

SumFacts(x, f, m) ==
    /\ x \in Nat /\ x < 2 ^ (m * ByteBits)
    /\ \A j \in 0..(m * ByteBits - 1) : Digit(x, j) = Digit(f[j \div ByteBits], j % ByteBits)

\* The numbers that a byte holds.
LEMMA ByteNat == \A x \in Byte : x \in Nat /\ x < 2 ^ ByteBits
<1>1. 2 ^ ByteBits \in Nat
  BY Widths, PowPos
<1> DEFINE m == 2 ^ ByteBits
<1>2. Byte = 0..(m - 1) /\ m \in Nat
  BY <1>1 DEF Byte
<1> HIDE DEF m
<1>3. \A x \in Byte : x \in Nat /\ x < m
  BY <1>2
<1> QED
  BY <1>3 DEF m

\* One byte more, above those already read: the step of the induction.
LEMMA SumFactsStep ==
    ASSUME NEW m \in Nat, NEW f, NEW x, SumFacts(x, f, m), f[m] \in Byte
    PROVE  SumFacts(f[m] * 2 ^ (m * ByteBits) + x, f, m + 1)
<1> DEFINE B == ByteBits
           mb == m * B
           p == 2 ^ mb
           q == 2 ^ B
           c == f[m]
           y == c * p + x
<1>1. B \in Nat /\ B >= 1 /\ mb \in Nat /\ (m + 1) * B = mb + B
  BY Widths
<1>2. p \in Nat /\ p >= 1 /\ q \in Nat /\ q >= 1 /\ 2 ^ (mb + B) = p * q
  BY <1>1, PowPos, PowAdd
<1>3. c \in Nat /\ c < q
  BY ByteNat
<1>4. x \in Nat /\ x < p
  BY DEF SumFacts
<1>5. y \in Nat /\ y < p * q
  <2> HIDE DEF p, q, c
  <2>1. c <= q - 1
    BY <1>2, <1>3
  <2>2. c * p <= (q - 1) * p
    BY <1>2, <1>3, <2>1
  <2>3. (q - 1) * p = p * q - p
    BY <1>2
  <2>4. c * p \in Nat /\ p * q \in Nat
    BY <1>2, <1>3
  <2>5. c * p <= p * q - p
    BY <2>2, <2>3
  <2> DEFINE cp == c * p
             pq == p * q
  <2>6. cp \in Nat /\ pq \in Nat /\ cp <= pq - p
    BY <2>4, <2>5
  <2> HIDE DEF cp, pq
  <2>7. cp + x \in Nat /\ cp + x < pq
    BY <2>6, <1>2, <1>4
  <2> QED
    BY <2>7 DEF cp, pq
<1>6. y % p = x /\ y \div p = c
  <2> HIDE DEF p, q, c
  <2>1. y = p * c + x /\ y \in Int
    BY <1>2, <1>3, <1>4
  <2> HIDE DEF y
  <2> QED
    BY <2>1, <1>2, <1>3, <1>4, DivModUnique
<1>7. ASSUME NEW j \in 0..((m + 1) * B - 1)
      PROVE  Digit(y, j) = Digit(f[j \div B], j % B)
  <2>0. j \in Nat /\ j < mb + B
    <3> HIDE DEF mb, B
    <3> QED
      BY <1>1, <1>7
  <2>1. CASE j < mb
    <3>1. j \in 0..(m * B - 1)
      BY <2>0, <2>1, <1>1
    <3>2. Digit(x, j) = Digit(f[j \div B], j % B)
      BY <3>1 DEF SumFacts
    <3>3. Digit(y % p, j) = Digit(y, j)
      <4>1. y \in Int
        BY <1>5
      <4> HIDE DEF y, mb
      <4> QED
        BY <4>1, <2>0, <2>1, <1>1, DigitTrunc
    <3> QED
      BY <3>2, <3>3, <1>6
  <2>2. CASE j >= mb
    <3> DEFINE d == j - mb
    <3>1. d \in Nat /\ d < B /\ j = d + mb
      BY <2>0, <2>2, <1>1
    <3>2. j = B * m + d
      BY <3>1, <1>1
    <3>3. j \div B = m /\ j % B = d
      <4> HIDE DEF d, mb, B
      <4> QED
        BY <2>0, <3>1, <3>2, <1>1, DivModUnique
    <3>4. Digit(y \div p, d) = Digit(y, d + mb)
      <4>1. y \in Int
        BY <1>5
      <4> HIDE DEF y, mb, d
      <4> QED
        BY <4>1, <3>1, <1>1, DigitShr
    <3> QED
      BY <3>1, <3>3, <3>4, <1>6
  <2> QED
    BY <2>0, <2>1, <2>2, <1>1
<1>8. y < 2 ^ ((m + 1) * B)
  BY <1>1, <1>2, <1>5
<1> QED
  BY <1>5, <1>7, <1>8 DEF SumFacts

\* The number that n bytes stand for, the first byte lowest: it is below
\* 2^(n * ByteBits) and its digits are theirs.
LEMMA ByteSum ==
    ASSUME NEW n \in Nat, NEW f, \A k \in 0..(n - 1) : f[k] \in Byte
    PROVE  SumFacts(SumFunction(Weighed(f, n)), f, n)
<1> DEFINE t == Weighed(f, n)
           D == 0..(n - 1)
           F(m) == SumFunctionOnSet(t, 0..(m - 1))
           Good == {m \in Nat : m <= n => SumFacts(F(m), f, m)}
<1>1. t \in [D -> Int] /\ DOMAIN t = D /\ \A k \in D : t[k] = f[k] * 2 ^ (k * ByteBits)
  <2>1. \A k \in D : k * ByteBits \in Nat
    BY Widths
  <2>2. \A k \in D : f[k] * 2 ^ (k * ByteBits) \in Int
    BY <2>1, PowPos, ByteNat
  <2> QED
    BY <2>2 DEF Weighed
<1>2. SumSplits(D, t)
  <2> HIDE DEF D, t
  <2> QED
    BY <1>1, SumSplit
<1>3. 0 \in Good
  <2>1. 0..(0 - 1) = {}
    OBVIOUS
  <2>2. F(0) = 0
    BY <2>1, SumEmpty
  <2>3. 0 * ByteBits = 0
    BY Widths
  <2>5. 0 < 2 ^ (0 * ByteBits) /\ 0..(0 * ByteBits - 1) = {}
    <3> DEFINE z == 0 * ByteBits
    <3>1. z \in Nat /\ z = 0
      BY <2>3
    <3> HIDE DEF z
    <3>2. 2 ^ z \in Nat /\ 2 ^ z >= 1
      BY <3>1, PowPos
    <3> DEFINE p == 2 ^ z
    <3>3. p \in Nat /\ p >= 1
      BY <3>2
    <3> HIDE DEF p
    <3>4. 0 < p /\ 0..(z - 1) = {}
      BY <3>1, <3>3
    <3> QED
      BY <3>4 DEF z, p
  <2>6. SumFacts(0, f, 0)
    BY <2>5 DEF SumFacts
  <2> QED
    BY <2>2, <2>6
<1>4. ASSUME NEW m \in Nat, m \in Good PROVE m + 1 \in Good
  <2> SUFFICES ASSUME m + 1 <= n PROVE SumFacts(F(m + 1), f, m + 1)
    OBVIOUS
  <2>1. SumFacts(F(m), f, m)
    BY <1>4
  <2>2. 0..((m + 1) - 1) = 0..m /\ 0..m \in SUBSET D /\ m \in 0..m /\ (0..m) \ {m} = 0..(m - 1)
    OBVIOUS
  <2>3. IsFiniteSet(0..m)
    BY FS_Interval
  <2>4. F(m + 1) = t[m] + F(m)
    <3>1. SumFunctionOnSet(t, 0..m) = t[m] + SumFunctionOnSet(t, (0..m) \ {m})
      <4> HIDE DEF t, D
      <4> QED
        BY <2>2, <2>3, <1>2 DEF SumSplits
    <3> QED
      BY <2>2, <3>1, Zenon
  <2>5. m \in D
    OBVIOUS
  <2>6. t[m] = f[m] * 2 ^ (m * ByteBits) /\ f[m] \in Byte
    BY <1>1, <2>5
  <2> DEFINE x == F(m)
  <2> HIDE DEF F, t, x
  <2>7. SumFacts(f[m] * 2 ^ (m * ByteBits) + x, f, m + 1)
    BY <2>1, <2>6, SumFactsStep, Zenon DEF x
  <2> QED
    BY <2>4, <2>6, <2>7, Zenon DEF x
<1>5. \A m \in Nat : m \in Good
  <2> HIDE DEF Good
  <2> QED
    BY <1>3, <1>4, SetInduction
<1>6. SumFacts(F(n), f, n)
  BY <1>5
<1> QED
  BY <1>1, <1>6, Zenon DEF SumFunction

\* The sizes of an access, in bytes.
Sizes == {1, 2, 4, 8}

\* The windows of the memory map are numbers.
LEMMA MapFacts ==
    /\ RAM_BASE \in Nat /\ RAM_SIZE \in Nat /\ RAM_SIZE >= 8
    /\ UART_BASE \in Nat /\ UART_SIZE \in Nat
    /\ TIMER_BASE \in Nat /\ TIMER_SIZE \in Nat
BY DatapathAssumption, WordFacts

\* Every access fits a register.
LEMMA SizeFacts ==
    ASSUME NEW size \in Sizes
    PROVE  /\ size \in Nat /\ size >= 1 /\ size * ByteBits \in Nat /\ size * ByteBits >= 1
           /\ size * ByteBits <= XLEN
BY Widths DEF Sizes

\* valid_access is right about the last place an access fits in.
LEMMA ValidAccess ==
    ASSUME NEW addr \in Nat, NEW size \in Sizes
    PROVE  /\ valid_access(addr, size) <=> InRam(addr, size)
           /\ InRam(addr, size) => /\ \A k \in 0..(size - 1) : addr + k \in RamAddr
                                   /\ addr \in RamAddr
<1>1. size \in Nat /\ size >= 1 /\ size <= 8
  BY DEF Sizes
<1>2. addr \in addr..(addr + size - 1) /\ addr + size - 1 \in addr..(addr + size - 1)
  BY <1>1
<1>3. InRam(addr, size) => addr \in RamAddr /\ addr + size - 1 \in RamAddr
  BY <1>2 DEF InRam
<1>4. valid_access(addr, size) => InRam(addr, size)
  BY <1>1, MapFacts DEF valid_access, InRam, RamAddr
<1>5. InRam(addr, size) => valid_access(addr, size)
  BY <1>1, <1>3, MapFacts DEF valid_access, RamAddr
<1>6. InRam(addr, size) => \A k \in 0..(size - 1) : addr + k \in RamAddr
  BY <1>1 DEF InRam
<1> QED
  BY <1>3, <1>4, <1>5, <1>6

\* Where bit k of an access is: in which byte, and which bit of it.
LEMMA BitPlace ==
    ASSUME NEW size \in Nat, NEW k \in 0..(size * ByteBits - 1)
    PROVE  /\ k \in Nat /\ k \div ByteBits \in 0..(size - 1)
           /\ k % ByteBits \in 0..(ByteBits - 1)
           /\ (k % ByteBits) + (k \div ByteBits) * ByteBits = k
<1> DEFINE B == ByteBits
           q == k \div B
           r == k % B
           sb == size * B
<1>0. B \in Nat /\ B >= 1 /\ sb \in Nat
  BY Widths
<1>1. k \in Nat /\ k < sb
  <2>1. k \in 0..(sb - 1)
    OBVIOUS
  <2> HIDE DEF sb
  <2> QED
    BY <1>0, <2>1
<1>2. q \in Int /\ r \in Nat /\ r < B /\ k = B * q + r
  BY <1>0, <1>1, DivMod
<1> HIDE DEF q, r, B
<1>3. q >= 0
  <2>1. CASE q <= -1
    <3>1. B * q <= -B
      BY <2>1, <1>0, <1>2
    <3> QED
      BY <3>1, <1>0, <1>1, <1>2
  <2> QED
    BY <2>1, <1>2
<1>4. q < size
  <2>1. CASE q >= size
    <3>1. B * q >= B * size
      BY <2>1, <1>0, <1>2
    <3>2. B * size = sb
      BY <1>0
    <3> QED
      BY <3>1, <3>2, <1>0, <1>1, <1>2
  <2> QED
    BY <2>1, <1>2
<1>5. q \in 0..(size - 1) /\ r \in 0..(B - 1) /\ r + q * B = k
  BY <1>0, <1>1, <1>2, <1>3, <1>4
<1> QED
  BY <1>1, <1>5 DEF q, r, B

\* The number that a read of RAM gives.
LEMMA ReadFacts ==
    ASSUME mem \in [RamAddr -> Byte], NEW addr \in Nat, NEW size \in Sizes
    PROVE  /\ mem_read(addr, size) \in Nat
           /\ mem_read(addr, size) < 2 ^ (size * ByteBits)
           /\ InRam(addr, size) => Bits(mem_read(addr, size), size * ByteBits) = BytesAt(mem, addr, size)
           /\ ~InRam(addr, size) => mem_read(addr, size) = 0
<1>1. size \in Nat /\ size >= 1 /\ size * ByteBits \in Nat
  BY SizeFacts
<1>2. CASE ~InRam(addr, size)
  <2>1. mem_read(addr, size) = 0
    BY <1>2, ValidAccess DEF mem_read
  <2>2. 2 ^ (size * ByteBits) \in Nat /\ 2 ^ (size * ByteBits) >= 1
    BY <1>1, PowPos
  <2> DEFINE p == 2 ^ (size * ByteBits)
  <2>3. p \in Nat /\ p >= 1
    BY <2>2
  <2> HIDE DEF p
  <2>4. 0 < p
    BY <2>3
  <2> QED
    BY <1>2, <2>1, <2>4 DEF p
<1>3. CASE InRam(addr, size)
  <2> DEFINE f == [k \in 0..(size - 1) |-> mem[addr + k]]
  <2>1. \A k \in 0..(size - 1) : f[k] \in Byte /\ f[k] = mem[addr + k]
    BY <1>3, ValidAccess
  <2>2. [k \in 0..(size - 1) |-> mem[addr + k] * 2 ^ (k * ByteBits)] = Weighed(f, size)
    BY <2>1 DEF Weighed
  <2>3. mem_read(addr, size) = SumFunction(Weighed(f, size))
    BY <1>3, <2>2, ValidAccess DEF mem_read
  <2> DEFINE x == mem_read(addr, size)
  <2>4. SumFacts(x, f, size)
    <3> HIDE DEF f
    <3> QED
      BY <2>1, <2>3, <1>1, ByteSum
  <2>5. \A k \in 0..(size * ByteBits - 1) :
           Digit(x, k) = Digit(mem[addr + (k \div ByteBits)], k % ByteBits)
    <3> SUFFICES ASSUME NEW k \in 0..(size * ByteBits - 1)
                 PROVE  Digit(x, k) = Digit(mem[addr + (k \div ByteBits)], k % ByteBits)
      OBVIOUS
    <3>1. k \div ByteBits \in 0..(size - 1)
      BY <1>1, BitPlace
    <3>2. Digit(x, k) = Digit(f[k \div ByteBits], k % ByteBits)
      BY <2>4 DEF SumFacts
    <3> HIDE DEF f, x
    <3> QED
      BY <2>1, <3>1, <3>2
  <2>6. Bits(x, size * ByteBits) = BytesAt(mem, addr, size)
    <3> HIDE DEF x, f
    <3> QED
      BY <2>5 DEF Bits, BytesAt
  <2> QED
    BY <1>3, <2>4, <2>6 DEF SumFacts
<1> QED
  BY <1>2, <1>3

\* What a write leaves in RAM.
LEMMA WriteFacts ==
    ASSUME mem \in [RamAddr -> Byte], NEW addr \in Nat, NEW size \in Sizes, NEW v \in Nat
    PROVE  /\ mem_write(addr, size, v) \in [RamAddr -> Byte]
           /\ ~InRam(addr, size) => mem_write(addr, size, v) = mem
           /\ InRam(addr, size) =>
                 BytesAt(mem_write(addr, size, v), addr, size) = Bits(v, size * ByteBits)
           /\ \A a \in RamAddr : a < addr \/ a >= addr + size => mem_write(addr, size, v)[a] = mem[a]
<1> DEFINE new == mem_write(addr, size, v)
           B == ByteBits
           byte(d) == Trunc(v \div 2 ^ (d * B), B)
<1>1. size \in Nat /\ size >= 1 /\ size * B \in Nat /\ B \in Nat
  BY SizeFacts, Widths
<1>2. CASE ~InRam(addr, size)
  <2>1. new = mem
    BY <1>2, ValidAccess DEF mem_write
  <2> QED
    BY <1>2, <2>1
<1>3. CASE InRam(addr, size)
  <2>1. new = [a \in RamAddr |-> IF addr <= a /\ a < addr + size THEN byte(a - addr) ELSE mem[a]]
    BY <1>3, ValidAccess DEF mem_write
  <2>2. \A a \in RamAddr : a \in Nat
    BY MapFacts DEF RamAddr
  <2>3. ASSUME NEW d \in Nat
        PROVE  /\ byte(d) \in Byte
               /\ \A k \in 0..(B - 1) : Digit(byte(d), k) = Digit(v, k + d * B)
    <3>1. d * B \in Nat
      BY <1>1
    <3>2. 2 ^ (d * B) \in Nat /\ 2 ^ (d * B) >= 1
      BY <3>1, PowPos
    <3> DEFINE db == d * B
               y == v \div 2 ^ db
    <3>3. y \in Int
      BY <3>2, DivMod
    <3>4. Trunc(y, B) \in Byte
      BY <3>3, <1>1, TruncType DEF Byte
    <3>5. ASSUME NEW k \in 0..(B - 1) PROVE Digit(Trunc(y, B), k) = Digit(v, k + db)
      <4>1. k \in Nat /\ k < B
        BY <1>1
      <4>2. Digit(Trunc(y, B), k) = Digit(y, k)
        <5> HIDE DEF y, B
        <5> QED
          BY <4>1, <3>3, <1>1, DigitTrunc DEF Trunc
      <4>3. Digit(y, k) = Digit(v, k + db)
        <5>1. v \in Int
          OBVIOUS
        <5> HIDE DEF db
        <5> QED
          BY <5>1, <4>1, <3>1, DigitShr DEF db
      <4> QED
        BY <4>2, <4>3
    <3> QED
      BY <3>4, <3>5
  <2>4. new \in [RamAddr -> Byte]
    <3> SUFFICES ASSUME NEW a \in RamAddr
                 PROVE  (IF addr <= a /\ a < addr + size THEN byte(a - addr) ELSE mem[a]) \in Byte
      BY <2>1
    <3> HIDE DEF byte
    <3> QED
      BY <2>2, <2>3
  <2>5. ASSUME NEW a \in RamAddr, a < addr \/ a >= addr + size PROVE new[a] = mem[a]
    <3> HIDE DEF byte, new
    <3> QED
      BY <2>1, <2>2, <2>5, <1>1
  <2>6. ASSUME NEW k \in 0..(size * B - 1)
        PROVE  Digit(new[addr + (k \div B)], k % B) = Digit(v, k)
    <3> DEFINE d == k \div B
               r == k % B
    <3>1. d \in 0..(size - 1) /\ r \in 0..(B - 1) /\ r + d * B = k
      BY <1>1, BitPlace
    <3> HIDE DEF d, r
    <3>2. addr + d \in RamAddr
      BY <1>3, <3>1, ValidAccess
    <3>3. new[addr + d] = byte(d)
      <4>1. addr <= addr + d /\ addr + d < addr + size /\ (addr + d) - addr = d
        BY <1>1, <3>1
      <4> HIDE DEF byte, new
      <4> QED
        BY <2>1, <3>2, <4>1
    <3>4. Digit(byte(d), r) = Digit(v, r + d * B)
      <4> HIDE DEF byte
      <4> QED
        BY <2>3, <3>1
    <3>5. Digit(byte(d), r) = Digit(v, k)
      BY <3>1, <3>4
    <3> HIDE DEF byte, new
    <3> QED
      BY <3>3, <3>5 DEF d, r
  <2>7. BytesAt(new, addr, size) = Bits(v, size * B)
    <3> HIDE DEF new
    <3> QED
      BY <2>6 DEF BytesAt, Bits
  <2> QED
    BY <1>3, <2>4, <2>5, <2>7
<1> QED
  BY <1>2, <1>3

\* A request that lies inside the window of the device it goes to.
Requests == {q \in [kind : {"read", "write"}, to : {"uart", "timer"}, offset : Nat, size : Sizes] :
                q.offset < (IF q.to = "uart" THEN UART_SIZE ELSE TIMER_SIZE)}

\* The window an address is in contains it.
LEMMA RegionFacts ==
    ASSUME NEW addr \in Nat
    PROVE  /\ Region(addr) \in {"ram", "uart", "timer", "none"}
           /\ Region(addr) = "ram" <=> addr \in RamAddr
           /\ Region(addr) = "uart" => addr >= UART_BASE /\ addr - UART_BASE < UART_SIZE
           /\ Region(addr) = "timer" => addr >= TIMER_BASE /\ addr - TIMER_BASE < TIMER_SIZE
<1>1. addr_in_range(addr, RAM_BASE, RAM_SIZE) <=> addr \in RamAddr
  BY MapFacts DEF addr_in_range, RamAddr
<1>2. addr_in_range(addr, UART_BASE, UART_SIZE) <=> addr >= UART_BASE /\ addr - UART_BASE < UART_SIZE
  BY DEF addr_in_range
<1>3. addr_in_range(addr, TIMER_BASE, TIMER_SIZE) <=> addr >= TIMER_BASE /\ addr - TIMER_BASE < TIMER_SIZE
  BY DEF addr_in_range
<1>4. CASE addr \in RamAddr
  <2>1. Region(addr) = "ram"
    BY <1>1, <1>4 DEF Region
  <2> QED
    BY <2>1, <1>4
<1>5. CASE addr \notin RamAddr /\ addr_in_range(addr, UART_BASE, UART_SIZE)
  <2>1. Region(addr) = "uart"
    BY <1>1, <1>5 DEF Region
  <2> QED
    BY <2>1, <1>2, <1>5
<1>6. CASE addr \notin RamAddr /\ ~addr_in_range(addr, UART_BASE, UART_SIZE)
           /\ addr_in_range(addr, TIMER_BASE, TIMER_SIZE)
  <2>1. Region(addr) = "timer"
    BY <1>1, <1>6 DEF Region
  <2> QED
    BY <2>1, <1>3, <1>6
<1>7. CASE addr \notin RamAddr /\ ~addr_in_range(addr, UART_BASE, UART_SIZE)
           /\ ~addr_in_range(addr, TIMER_BASE, TIMER_SIZE)
  <2>1. Region(addr) = "none"
    BY <1>1, <1>7 DEF Region
  <2> QED
    BY <2>1, <1>7
<1> QED
  BY <1>4, <1>5, <1>6, <1>7

\* A request that the bus forwards is for an offset inside the device.
LEMMA RequestFacts ==
    ASSUME NEW addr \in Nat, NEW size \in Sizes, NEW kind \in {"read", "write"}
    PROVE  /\ Request(kind, addr, size) \in Seq(Requests)
           /\ Forwarded(addr, size) => Len(Request(kind, addr, size)) = 1
           /\ ~Forwarded(addr, size) => Request(kind, addr, size) = <<>>
<1>1. CASE ~Forwarded(addr, size)
  BY <1>1, EmptySeq DEF Request
<1>2. CASE Forwarded(addr, size)
  <2> DEFINE q == [kind |-> kind, to |-> Region(addr), offset |-> addr - Base(addr), size |-> size]
  <2>1. Region(addr) \in {"uart", "timer"}
    BY <1>2 DEF Forwarded
  <2>2. addr - Base(addr) \in Nat
        /\ addr - Base(addr) < (IF Region(addr) = "uart" THEN UART_SIZE ELSE TIMER_SIZE)
    BY <2>1, MapFacts, RegionFacts DEF Base
  <2>3. q \in Requests
    BY <2>1, <2>2 DEF Requests
  <2>4. Request(kind, addr, size) = <<q>>
    BY <1>2 DEF Request
  <2> HIDE DEF q
  <2>5. <<q>> \in Seq(Requests) /\ Len(<<q>>) = 1
    BY <2>3
  <2> QED
    BY <1>2, <2>4, <2>5
<1> QED
  BY <1>1, <1>2

\* The values the bus reads have the width of the access.
LEMMA BusRead ==
    ASSUME mem \in [RamAddr -> Byte], NEW addr \in Nat, NEW size \in Sizes,
           NEW v \in bus_read(addr, size)
    PROVE  /\ v \in Nat /\ v < 2 ^ (size * ByteBits) /\ v \in Word
           /\ addr \in RamAddr => v = mem_read(addr, size)
           /\ addr \notin RamAddr /\ ~Forwarded(addr, size) => v = 0
<1> DEFINE n == size * ByteBits
           p == 2 ^ n
           m == 2 ^ XLEN
<1>1. n \in Nat /\ n >= 1 /\ n <= XLEN /\ XLEN \in Nat
  BY SizeFacts, Widths
<1>2. p \in Nat /\ p >= 1 /\ p <= m /\ m \in Nat
  <2> HIDE DEF n
  <2> QED
    BY <1>1, PowPos, PowSplit
<1>3. v \in Nat /\ v < p /\ (addr \in RamAddr => v = mem_read(addr, size))
      /\ (addr \notin RamAddr /\ ~Forwarded(addr, size) => v = 0)
  <2>1. CASE Region(addr) = "ram"
    <3>1. v = mem_read(addr, size)
      BY <2>1 DEF bus_read, Forwarded
    <3>2. mem_read(addr, size) \in Nat /\ mem_read(addr, size) < p
      BY ReadFacts
    <3>3. addr \in RamAddr
      BY <2>1, RegionFacts
    <3> HIDE DEF p
    <3> QED
      BY <3>1, <3>2, <3>3
  <2>2. CASE Region(addr) # "ram" /\ Forwarded(addr, size)
    <3>1. PICK d \in DeviceWords : v = Trunc(d, n)
      BY <2>2 DEF bus_read
    <3>2. d \in Int
      BY DatapathAssumption, WordFacts
    <3>3. v \in Nat /\ v < p
      <4> HIDE DEF n
      <4> QED
        BY <3>1, <3>2, <1>1, TruncType
    <3> QED
      BY <3>3, <2>2, RegionFacts
  <2>3. CASE Region(addr) # "ram" /\ ~Forwarded(addr, size)
    <3>1. v = 0
      BY <2>3 DEF bus_read
    <3> HIDE DEF p
    <3> QED
      BY <3>1, <1>2, <2>3, RegionFacts
  <2> QED
    BY <2>1, <2>2, <2>3
<1>4. v < m
  <2> HIDE DEF p, m
  <2> QED
    BY <1>2, <1>3
<1> QED
  BY <1>3, <1>4, WordFacts

\* A write through the bus leaves bytes in RAM.
LEMMA BusWrite ==
    ASSUME mem \in [RamAddr -> Byte], NEW addr \in Nat, NEW size \in Sizes, NEW v \in Nat
    PROVE  /\ bus_write(addr, size, v) \in [RamAddr -> Byte]
           /\ InRam(addr, size) => bus_write(addr, size, v) = mem_write(addr, size, v)
           /\ ~InRam(addr, size) => bus_write(addr, size, v) = mem
BY WriteFacts, RegionFacts, ValidAccess DEF bus_write

\* The result of an amo is a number.
LEMMA AmoNat ==
    ASSUME NEW op, op \in AmoOps, NEW old \in Nat, NEW rhs \in Nat, NEW n \in Nat
    PROVE  AmoResult(op, old, rhs, n) \in Nat
<1>1. Trunc(old + rhs, n) \in Nat
  BY TruncType
<1>2. BitXor(old, rhs) \in Nat /\ BitAnd(old, rhs) \in Nat /\ BitOr(old, rhs) \in Nat
  BY BitOps, WordFacts
<1>3. CASE op \in {AMOSWAP, AMOADD, AMOXOR, AMOAND, AMOOR}
  BY <1>1, <1>2, <1>3
     DEF AmoResult, AMOADD, AMOSWAP, AMOXOR, AMOOR, AMOAND, AMOMIN, AMOMAX, AMOMINU, AMOMAXU
<1>4. CASE op \in {AMOMIN, AMOMAX, AMOMINU, AMOMAXU}
  BY <1>4
     DEF AmoResult, AMOADD, AMOSWAP, AMOXOR, AMOOR, AMOAND, AMOMIN, AMOMAX, AMOMINU, AMOMAXU
<1> QED
  BY <1>3, <1>4 DEF AmoOps

---------------------------------------------------------------------------
(* The type invariant.                                                     *)

\* cpu_read_reg gives a register's value.
LEMMA ReadReg ==
    ASSUME regs \in [0..31 -> Word], NEW n \in 0..31
    PROVE  cpu_read_reg(n) \in Word /\ cpu_read_reg(n) \in Nat
BY WordFacts DEF cpu_read_reg

\* cpu_write_reg changes the register named and no other, and never x0.
LEMMA WriteReg ==
    ASSUME regs \in [0..31 -> Word], NEW n \in 0..31, NEW v \in Word, cpu_write_reg(n, v)
    PROVE  /\ regs' \in [0..31 -> Word]
           /\ n # 0 => regs'[n] = v
           /\ \A k \in 0..31 : k # n \/ n = 0 => regs'[k] = regs[k]
BY DEF cpu_write_reg

\* The state of the program: what one instruction finds and what it leaves.
StateOK ==
    /\ regs \in [0..31 -> Word]
    /\ pc \in Word
    /\ mem \in [RamAddr -> Byte]
    /\ device \in Seq(Requests)

TypeInv ==
    /\ phase \in {"ready", "done", "trap"}
    /\ StateOK
    /\ case \in DOMAIN Cases
    /\ raw \in InstructionWord

\* The strengthened invariant implies the type invariant that TLC checks.
LEMMA TypeInvOK == TypeInv => DatapathTypeOK
<1> SUFFICES ASSUME TypeInv PROVE DatapathTypeOK
  OBVIOUS
<1>1. ASSUME NEW k \in DOMAIN device PROVE device[k] \in Requests
  <2>1. device \in Seq(Requests)
    BY DEF TypeInv, StateOK
  <2>2. DOMAIN device = 1..Len(device)
    BY <2>1, LenProperties
  <2> QED
    BY <2>1, <2>2, ElementOfSeq
<1>2. \A k \in DOMAIN device :
          device[k].offset < (IF device[k].to = "uart" THEN UART_SIZE ELSE TIMER_SIZE)
  BY <1>1 DEF Requests
<1> QED
  BY <1>2 DEF TypeInv, StateOK, DatapathTypeOK

\* increment_pc gives an address.
LEMMA NextPc ==
    ASSUME pc \in Word, increment_pc
    PROVE  pc' \in Word /\ pc' = Trunc(pc + 4, XLEN)
BY TruncWord, WordFacts DEF increment_pc

\* raise_exception leaves the state as it was.
LEMMA RaiseOK == ASSUME StateOK, Raise PROVE StateOK' /\ phase' = "trap"
BY DEF StateOK, Raise

\* An instruction that computes a value, none, or raises an exception.
LEMMA ComputeOK ==
    ASSUME StateOK, NEW i, NEW r \in Word \cup {NoWrite, Illegal}, Compute(i, r)
    PROVE  StateOK' /\ phase' \in {"done", "trap"}
<1>1. CASE r = Illegal
  BY <1>1, RaiseOK DEF Compute
<1>2. CASE r = NoWrite
  BY <1>2, NextPc DEF Compute, StateOK, NoWrite, Illegal
<1>3. CASE r \in Word
  <2>1. r # NoWrite /\ r # Illegal
    BY <1>3, WordFacts
  <2>2. cpu_write_reg(rd(i), r) /\ increment_pc /\ UNCHANGED <<mem, device>> /\ phase' = "done"
    BY <2>1 DEF Compute
  <2>3. regs' \in [0..31 -> Word]
    BY <2>2, <1>3, FieldTypes, WriteReg DEF StateOK
  <2> QED
    BY <2>2, <2>3, NextPc DEF StateOK
<1> QED
  BY <1>1, <1>2, <1>3

\* The sizes that the funct3 of a load names.
LEMMA LoadSize == ASSUME NEW f \in 0..7 PROVE 2 ^ (f % 4) \in Sizes
<1>1. f % 4 \in {0, 1, 2, 3}
  OBVIOUS
<1>2. 2 ^ 0 = 1 /\ 2 ^ 1 = 2 /\ 2 ^ 2 = 4 /\ 2 ^ 3 = 8
  OBVIOUS
<1> DEFINE d == f % 4
<1>3. d \in {0, 1, 2, 3}
  BY <1>1
<1> HIDE DEF d
<1>4. 2 ^ d \in {2 ^ 0, 2 ^ 1, 2 ^ 2, 2 ^ 3}
  BY <1>3
<1>5. 2 ^ d \in Sizes
  BY <1>2, <1>4 DEF Sizes
<1> QED
  BY <1>5 DEF d

\* The sizes that the funct3 of a store or an amo names.
LEMMA StoreSize == ASSUME NEW f \in 0..3 PROVE 2 ^ f \in Sizes /\ f % 4 = f
<1>1. f % 4 = f /\ f \in 0..7
  OBVIOUS
<1>2. 2 ^ (f % 4) \in Sizes
  BY <1>1, LoadSize
<1> QED
  BY <1>1, <1>2

\* The operands of an instruction.
LEMMA OperandsOK ==
    ASSUME StateOK, NEW i
    PROVE  /\ cpu_read_reg(rs1(i)) \in Word /\ cpu_read_reg(rs1(i)) \in Nat
           /\ cpu_read_reg(rs2(i)) \in Word /\ cpu_read_reg(rs2(i)) \in Nat
           /\ pc \in Nat
BY FieldTypes, ReadReg, WordFacts DEF StateOK

\* The arithmetic dispatchers keep the widths.
LEMMA ArithmeticOK ==
    ASSUME StateOK, NEW i, executeR(i) \/ OpImm(i) \/ MiscMem(i) \/ executeU(i)
    PROVE  StateOK' /\ phase' \in {"done", "trap"}
<1> DEFINE a == cpu_read_reg(rs1(i))
           b == cpu_read_reg(rs2(i))
           Good == Word \cup {NoWrite, Illegal}
<1>1. a \in Word /\ b \in Word /\ pc \in Nat
  BY OperandsOK
<1>2. \A r \in Good : Compute(i, r) => StateOK' /\ phase' \in {"done", "trap"}
  BY ComputeOK
<1>3. /\ dispatch_m_op(i, a, b) \in Good /\ dispatch_op(i, a, b) \in Good
      /\ dispatch_m_op_32(i, a, b) \in Good /\ dispatch_op_32(i, a, b) \in Good
      /\ dispatch_op_imm(i, a) \in Good /\ dispatch_op_imm_32(i, a) \in Good
  <2> HIDE DEF a, b
  <2> QED
    BY <1>1, ResultMop, ResultOp, ResultMop32, ResultOp32, ResultOpImm, ResultOpImm32
<1>4. Trunc(immU(i), XLEN) \in Good /\ Trunc(pc + immU(i), XLEN) \in Good
  <2>1. immU(i) \in Int /\ pc + immU(i) \in Int
    BY <1>1, ImmediateTypes
  <2> QED
    BY <2>1, TruncWord
<1>5. \E r \in Good : Compute(i, r)
  <2>1. CASE executeR(i)
    <3> HIDE DEF Good
    <3> QED
      BY <1>3, <2>1, Zenon DEF executeR
  <2>2. CASE OpImm(i)
    <3> HIDE DEF Good
    <3> QED
      BY <1>3, <2>2, Zenon DEF OpImm
  <2>3. CASE MiscMem(i)
    BY <2>3 DEF MiscMem
  <2>4. CASE executeU(i)
    <3> HIDE DEF Good
    <3> QED
      BY <1>4, <2>4, Zenon DEF executeU
  <2> QED
    BY <2>1, <2>2, <2>3, <2>4
<1> QED
  BY <1>2, <1>5

\* So do jal and jalr,
LEMMA JumpOK ==
    ASSUME StateOK, NEW i, Jump(i)
    PROVE  StateOK' /\ phase' = "done"
<1> DEFINE a == cpu_read_reg(rs1(i))
<1>1. a \in Nat /\ pc \in Nat
  BY OperandsOK
<1>2. ASSUME NEW t \in Word, GoTo(t, i) PROVE StateOK' /\ phase' = "done"
  <2>1. Trunc(pc + 4, XLEN) \in Word
    BY <1>1, TruncWord
  <2>2. regs' \in [0..31 -> Word]
    BY <1>2, <2>1, FieldTypes, WriteReg DEF GoTo, StateOK
  <2> QED
    BY <1>2, <2>2 DEF GoTo, StateOK
<1>3. Trunc(pc + immJ(i), XLEN) \in Word /\ Trunc(immI(i) + a, XLEN) \in Word
  <2> HIDE DEF a
  <2>1. pc + immJ(i) \in Int /\ immI(i) + a \in Int
    BY <1>1, ImmediateTypes
  <2> QED
    BY <2>1, TruncWord
<1>4. \A t \in Word : t - (t % 2) \in Word
  <2> SUFFICES ASSUME NEW t \in Word PROVE t - (t % 2) \in Word
    OBVIOUS
  <2> DEFINE m == 2 ^ XLEN
             u == t - (t % 2)
  <2>1. t \in Nat /\ t < m /\ m \in Nat
    BY WordFacts, Widths
  <2> HIDE DEF m
  <2>2. u \in Nat /\ u < m
    BY <2>1
  <2> HIDE DEF u
  <2>3. u \in Word
    BY <2>2, WordFacts DEF m
  <2> QED
    BY <2>3 DEF u
<1> QED
  BY <1>2, <1>3, <1>4 DEF Jump

\* and the branches.
LEMMA BranchOK ==
    ASSUME StateOK, NEW i, dispatch_branch(i)
    PROVE  StateOK' /\ phase' \in {"done", "trap"}
<1>1. Trunc(pc + immB(i), XLEN) \in Word
  <2>1. pc + immB(i) \in Int
    BY OperandsOK, ImmediateTypes
  <2> QED
    BY <2>1, TruncWord
<1>2. CASE funct3(i) \in {2, 3}
  BY <1>2, RaiseOK DEF dispatch_branch
<1>3. CASE funct3(i) \notin {2, 3}
  <2>1. UNCHANGED <<regs, mem, device>> /\ phase' = "done"
        /\ (pc' = Trunc(pc + immB(i), XLEN) \/ increment_pc)
    BY <1>3, Zenon DEF dispatch_branch
  <2> QED
    BY <1>1, <2>1, NextPc DEF StateOK
<1> QED
  BY <1>2, <1>3

\* The requests that the bus has forwarded stay inside their devices.
LEMMA DeviceOK ==
    ASSUME device \in Seq(Requests), NEW s \in Seq(Requests)
    PROVE  device \o s \in Seq(Requests) /\ Len(device \o s) = Len(device) + Len(s)
           /\ Len(device) \in Nat /\ Len(s) \in Nat
BY ConcatProperties, LenProperties

\* A load writes a register's value, whatever RAM or a device answers.
LEMMA LoadOK ==
    ASSUME StateOK, NEW i, dispatch_load(i)
    PROVE  StateOK' /\ phase' \in {"done", "trap"}
<1> DEFINE addr == Trunc(immI(i) + cpu_read_reg(rs1(i)), XLEN)
           size == 2 ^ (funct3(i) % 4)
<1>1. addr \in Nat
  BY OperandsOK, ImmediateTypes, TruncWord, WordFacts
<1>2. size \in Sizes
  BY FieldTypes, LoadSize
<1>3. CASE funct3(i) = 7
  BY <1>3, RaiseOK DEF dispatch_load
<1>4. CASE funct3(i) # 7
  <2>1. /\ phase' = "done" /\ increment_pc /\ UNCHANGED mem
        /\ device' = device \o Request("read", addr, size)
    BY <1>4 DEF dispatch_load
  <2>2. PICK v \in bus_read(addr, size) :
              cpu_write_reg(rd(i), IF funct3(i) < 3 THEN Extend(v, size * ByteBits) ELSE v)
    BY <1>4 DEF dispatch_load
  <2> HIDE DEF addr, size
  <2>3. v \in Nat /\ v \in Word
    BY <1>1, <1>2, BusRead DEF StateOK
  <2>4. Extend(v, size * ByteBits) \in Word
    <3> DEFINE n == size * ByteBits
    <3>1. n \in Nat /\ n >= 1
      BY <1>2, SizeFacts
    <3> HIDE DEF n
    <3>2. v \in Int
      BY <2>3
    <3>3. Extend(v, n) \in Word
      BY <3>1, <3>2, ExtendWord
    <3> QED
      BY <3>3 DEF n
  <2> DEFINE w == IF funct3(i) < 3 THEN Extend(v, size * ByteBits) ELSE v
  <2>5. w \in Word
    BY <2>3, <2>4
  <2>6. cpu_write_reg(rd(i), w)
    BY <2>2
  <2> HIDE DEF w
  <2>7. regs' \in [0..31 -> Word]
    BY <2>5, <2>6, FieldTypes, WriteReg DEF StateOK
  <2>8. device' \in Seq(Requests)
    BY <1>1, <1>2, <2>1, RequestFacts, DeviceOK DEF StateOK
  <2> QED
    BY <2>1, <2>7, <2>8, NextPc DEF StateOK
<1> QED
  BY <1>3, <1>4

\* A store leaves bytes in RAM.
LEMMA StoreOK ==
    ASSUME StateOK, NEW i, dispatch_store(i)
    PROVE  StateOK' /\ phase' \in {"done", "trap"}
<1> DEFINE addr == Trunc(cpu_read_reg(rs1(i)) + immS(i), XLEN)
           size == 2 ^ funct3(i)
           value == Trunc(cpu_read_reg(rs2(i)), size * ByteBits)
<1>1. addr \in Nat
  BY OperandsOK, ImmediateTypes, TruncWord, WordFacts
<1>2. CASE funct3(i) > 3
  BY <1>2, FieldTypes, RaiseOK DEF dispatch_store
<1>3. CASE funct3(i) <= 3
  <2>1. /\ phase' = "done" /\ increment_pc /\ UNCHANGED regs
        /\ mem' = bus_write(addr, size, value)
        /\ device' = device \o Request("write", addr, size)
    <3>1. ~(funct3(i) > 3)
      BY <1>3, FieldTypes
    <3> QED
      BY <3>1, Zenon DEF dispatch_store
  <2>2. size \in Sizes
    <3>1. funct3(i) \in 0..3
      BY <1>3, FieldTypes
    <3> QED
      BY <3>1, StoreSize
  <2>3. value \in Nat
    <3> DEFINE n == size * ByteBits
    <3>1. n \in Nat
      BY <2>2, SizeFacts
    <3> HIDE DEF n, size
    <3>2. cpu_read_reg(rs2(i)) \in Int
      BY OperandsOK
    <3>3. Trunc(cpu_read_reg(rs2(i)), n) \in Nat
      BY <3>1, <3>2, TruncType
    <3> QED
      BY <3>3 DEF n
  <2> HIDE DEF addr, size, value
  <2>4. mem' \in [RamAddr -> Byte]
    BY <1>1, <2>1, <2>2, <2>3, BusWrite DEF StateOK
  <2>5. device' \in Seq(Requests)
    BY <1>1, <2>1, <2>2, RequestFacts, DeviceOK DEF StateOK
  <2> QED
    BY <2>1, <2>4, <2>5, NextPc DEF StateOK
<1> QED
  BY <1>2, <1>3, FieldTypes

\* An amo does both.
LEMMA AmoOK ==
    ASSUME StateOK, NEW i, dispatch_a_extension(i)
    PROVE  StateOK' /\ phase' \in {"done", "trap"}
<1> DEFINE addr == cpu_read_reg(rs1(i))
           size == 2 ^ funct3(i)
           n    == size * ByteBits
           rhs  == Trunc(cpu_read_reg(rs2(i)), n)
<1>1. addr \in Nat
  BY OperandsOK
<1>2. CASE Raise
  BY <1>2, RaiseOK
<1>3. CASE funct5(i) \in AmoOps /\ funct3(i) \in {2, 3} /\ ~Raise
  <2>0. Amo(i)
    BY <1>3 DEF dispatch_a_extension
  <2>1. PICK old \in bus_read(addr, size) :
                 /\ mem' = bus_write(addr, size, AmoResult(funct5(i), old, rhs, n))
                 /\ cpu_write_reg(rd(i), Extend(old, n))
    BY <2>0, <1>3, Zenon DEF Amo
  <2>2. /\ phase' = "done" /\ increment_pc
        /\ device' = device \o Request("read", addr, size) \o Request("write", addr, size)
    BY <2>0, <1>3, Zenon DEF Amo
  <2>3. size \in Sizes
    <3>1. funct3(i) \in 0..3
      BY <1>3
    <3> QED
      BY <3>1, StoreSize
  <2>4. n \in Nat /\ n >= 1
    BY <2>3, SizeFacts
  <2> HIDE DEF n, size
  <2>5. rhs \in Nat
    <3>1. cpu_read_reg(rs2(i)) \in Int
      BY OperandsOK
    <3> QED
      BY <3>1, <2>4, TruncType
  <2> HIDE DEF addr, rhs
  <2>6. old \in Nat
    BY <1>1, <2>1, <2>3, BusRead DEF StateOK
  <2>7. AmoResult(funct5(i), old, rhs, n) \in Nat
    BY <1>3, <2>4, <2>5, <2>6, AmoNat
  <2>8. mem' \in [RamAddr -> Byte]
    BY <1>1, <2>1, <2>3, <2>7, BusWrite DEF StateOK
  <2>9. Extend(old, n) \in Word
    BY <2>4, <2>6, ExtendWord
  <2>10. regs' \in [0..31 -> Word]
    BY <2>1, <2>9, FieldTypes, WriteReg DEF StateOK
  <2>11. device' \in Seq(Requests)
    <3>1. Request("read", addr, size) \in Seq(Requests) /\ Request("write", addr, size) \in Seq(Requests)
      BY <1>1, <2>3, RequestFacts
    <3> QED
      BY <2>2, <3>1, ConcatProperties DEF StateOK
  <2> QED
    BY <2>2, <2>8, <2>10, <2>11, NextPc DEF StateOK
<1> QED
  BY <1>2, <1>3, Zenon DEF dispatch_a_extension

\* Every instruction keeps the widths.
LEMMA InsnOK ==
    ASSUME StateOK, NEW i, dispatch_instruction(i)
    PROVE  StateOK' /\ phase' \in {"done", "trap"} /\ raw' = i /\ case' = case
<1>1. raw' = i /\ case' = case
  BY DEF dispatch_instruction
<1>2. \/ executeR(i) \/ OpImm(i) \/ MiscMem(i) \/ executeU(i) \/ Jump(i)
      \/ dispatch_branch(i) \/ dispatch_load(i) \/ dispatch_store(i)
      \/ dispatch_a_extension(i) \/ IllegalOpcode(i)
  BY Zenon DEF dispatch_instruction
<1>3. IllegalOpcode(i) => Raise
  BY DEF IllegalOpcode
<1> QED
  BY <1>1, <1>2, <1>3, ArithmeticOK, JumpOK, BranchOK, LoadOK, StoreOK, AmoOK, RaiseOK

\* So do the states a program begins in,
LEMMA InitOK == Init => TypeInv
<1> SUFFICES ASSUME Init PROVE TypeInv
  OBVIOUS
<1>1. case \in DOMAIN Cases /\ phase = "ready" /\ raw = {} /\ device = <<>>
  BY DEF Init
<1>2. /\ Cases[case].x1 \cup Cases[case].x2 \cup Cases[case].pc \subseteq Word
      /\ Cases[case].ram \subseteq [RamAddr -> Byte]
  BY <1>1, DatapathAssumption
<1>3. PICK a \in Cases[case].x1, b \in Cases[case].x2 :
          regs = [n \in 0..31 |-> IF n = 1 THEN a ELSE IF n = 2 THEN b ELSE 0]
  BY DEF Init
<1>4. a \in Word /\ b \in Word /\ 0 \in Word
  BY <1>2, WordFacts
<1>5. regs \in [0..31 -> Word]
  BY <1>3, <1>4
<1>6. pc \in Word /\ mem \in [RamAddr -> Byte]
  BY <1>2 DEF Init
<1>7. device \in Seq(Requests)
  BY <1>1, EmptySeq
<1> QED
  BY <1>1, <1>5, <1>6, <1>7 DEF TypeInv, StateOK, InstructionWord

\* and every step.
LEMMA NextOK == TypeInv /\ [Next]_vars => TypeInv'
<1> SUFFICES ASSUME TypeInv, [Next]_vars PROVE TypeInv'
  OBVIOUS
<1>1. CASE Next
  <2>1. PICK i \in Cases[case].insns : dispatch_instruction(i)
    BY <1>1 DEF Next
  <2>2. i \in InstructionWord
    BY DatapathAssumption DEF TypeInv
  <2>3. StateOK' /\ phase' \in {"done", "trap"} /\ raw' = i /\ case' = case
    BY <2>1, InsnOK DEF TypeInv
  <2> QED
    BY <2>2, <2>3 DEF TypeInv
<1>2. CASE UNCHANGED vars
  BY <1>2 DEF vars, TypeInv, StateOK
<1> QED
  BY <1>1, <1>2

\* The registers and the pc keep their width, memory its bytes, the requests to
\* the devices their offsets, and the case that runs is one of the cases: the
\* inductive invariant, kept by every dispatcher of
\* src/src/cpu/instructions/dispatchers whatever the instruction word is.
THEOREM TypeInvariant == Spec => []TypeInv
<1> QED
  BY InitOK, NextOK, PTL DEF Spec

\* DatapathTypeOK holds in every state: no carry, sign or device answer leaves
\* the register or the byte it belongs to, at any width of a byte.
THEOREM DatapathTypes == Spec => []DatapathTypeOK
BY TypeInvariant, TypeInvOK, PTL

\* The immediates that decodeI, decodeS, decodeB, decodeU and decodeJ assemble
\* are those of the instruction formats, for every 32-bit instruction word.
THEOREM ImmediatesAsDefined == Spec => []ImmediatesExact
<1>1. TypeInv => ImmediatesExact
  BY Immediates DEF TypeInv, ImmediatesExact
<1> QED
  BY <1>1, TypeInvariant, PTL

---------------------------------------------------------------------------
(* What an instruction leaves alone.                                       *)

\* The opcode decides which part of the dispatcher runs.
LEMMA ByOpcode ==
    ASSUME NEW i, dispatch_instruction(i)
    PROVE  /\ opcode(i) \in {OP, OP_32} => executeR(i)
           /\ opcode(i) \in {OP_IMM, OP_IMM_32} => OpImm(i)
           /\ opcode(i) = MISC_MEM => MiscMem(i)
           /\ opcode(i) \in {LUI, AUIPC} => executeU(i)
           /\ opcode(i) \in {JAL, JALR} => Jump(i)
           /\ opcode(i) = BRANCH => dispatch_branch(i)
           /\ opcode(i) = LOAD => dispatch_load(i)
           /\ opcode(i) = STORE => dispatch_store(i)
           /\ opcode(i) = AMO => dispatch_a_extension(i)
           /\ opcode(i) \notin Opcodes => IllegalOpcode(i)
           /\ opcode(i) # SYSTEM
<1> DEFINE op == opcode(i)
<1>1. /\ executeR(i) => op \in {OP, OP_32}
      /\ OpImm(i) => op \in {OP_IMM, OP_IMM_32}
      /\ MiscMem(i) => op = MISC_MEM
      /\ executeU(i) => op \in {LUI, AUIPC}
      /\ Jump(i) => op \in {JAL, JALR}
      /\ dispatch_branch(i) => op = BRANCH
      /\ dispatch_load(i) => op = LOAD
      /\ dispatch_store(i) => op = STORE
      /\ dispatch_a_extension(i) => op = AMO
      /\ IllegalOpcode(i) => op \notin Opcodes
  BY Zenon DEF executeR, OpImm, MiscMem, executeU, Jump, dispatch_branch, dispatch_load,
               dispatch_store, dispatch_a_extension, IllegalOpcode
<1>2. \/ executeR(i) \/ OpImm(i) \/ MiscMem(i) \/ executeU(i) \/ Jump(i)
      \/ dispatch_branch(i) \/ dispatch_load(i) \/ dispatch_store(i)
      \/ dispatch_a_extension(i) \/ IllegalOpcode(i)
  BY Zenon DEF dispatch_instruction
<1>3. op # SYSTEM
  BY Zenon DEF dispatch_instruction, Elsewhere
<1> HIDE DEF op
<1>4. /\ op \in {OP, OP_32} => executeR(i)
      /\ op \in {OP_IMM, OP_IMM_32} => OpImm(i)
      /\ op = MISC_MEM => MiscMem(i)
      /\ op \in {LUI, AUIPC} => executeU(i)
      /\ op \in {JAL, JALR} => Jump(i)
      /\ op = BRANCH => dispatch_branch(i)
      /\ op = LOAD => dispatch_load(i)
      /\ op = STORE => dispatch_store(i)
      /\ op = AMO => dispatch_a_extension(i)
      /\ op \notin Opcodes => IllegalOpcode(i)
  BY <1>1, <1>2 DEF Opcodes, LOAD, MISC_MEM, OP_IMM, AUIPC, OP_IMM_32, STORE, AMO, OP, LUI,
                    OP_32, BRANCH, JALR, JAL, SYSTEM
<1> QED
  BY <1>3, <1>4 DEF op

\* The opcodes are numbers that differ.
LEMMA OpcodesDiffer ==
    ASSUME NEW i
    PROVE  /\ opcode(i) \in {OP, OP_32, OP_IMM, OP_IMM_32, LUI, AUIPC, JAL, JALR, LOAD, AMO} =>
                 opcode(i) \notin {BRANCH, STORE, MISC_MEM}
           /\ opcode(i) \in {OP, OP_32, OP_IMM, OP_IMM_32, MISC_MEM, LUI, AUIPC, LOAD, STORE, AMO} =>
                 opcode(i) \notin {BRANCH, JAL, JALR}
           /\ {JAL, JALR} \cap {BRANCH} = {} /\ JAL # JALR
           /\ {OP, OP_32} \cap {OP_IMM, OP_IMM_32} = {} /\ OP # OP_32 /\ OP_IMM # OP_IMM_32
           /\ LOAD # STORE
           /\ OP # OP_IMM_32 /\ OP # OP_IMM /\ OP_32 # OP_IMM /\ OP_32 # OP_IMM_32
BY DEF LOAD, MISC_MEM, OP_IMM, AUIPC, OP_IMM_32, STORE, AMO, OP, LUI, OP_32, BRANCH, JALR, JAL

\* What an instruction that traps leaves alone, and what one that does not.
Trapped == phase' = "trap" /\ UNCHANGED <<regs, pc, mem, device>>

Wrote(i) == phase' = "done" /\ \A n \in 0..31 : regs'[n] # regs[n] => n = rd(i) /\ n # 0

\* A write to rd changes rd at most.
LEMMA WriteWrote ==
    ASSUME StateOK, NEW i, NEW v \in Word, phase' = "done", cpu_write_reg(rd(i), v)
    PROVE  Wrote(i)
<1> DEFINE d == rd(i)
<1>1. d \in 0..31 /\ cpu_write_reg(d, v) /\ regs \in [0..31 -> Word]
  BY FieldTypes DEF StateOK
<1> HIDE DEF d
<1>2. \A k \in 0..31 : k # d \/ d = 0 => regs'[k] = regs[k]
  BY <1>1, WriteReg
<1>3. \A n \in 0..31 : regs'[n] # regs[n] => n = d /\ n # 0
  BY <1>2
<1> QED
  BY <1>3 DEF Wrote, d

\* The three outcomes of an instruction that computes a value.
LEMMA ComputeCases ==
    ASSUME StateOK, NEW i, NEW r \in Word \cup {NoWrite, Illegal}, Compute(i, r)
    PROVE  /\ r = Illegal => Trapped
           /\ r # Illegal => /\ Wrote(i) /\ pc' = Trunc(pc + 4, XLEN)
                             /\ UNCHANGED <<mem, device>>
           /\ r = NoWrite => UNCHANGED regs
           /\ r \in Word /\ rd(i) # 0 => regs'[rd(i)] = r
<1>1. CASE r = Illegal
  <2>1. Trapped
    BY <1>1 DEF Compute, Raise, Trapped
  <2>2. r \notin Word /\ r # NoWrite
    BY <1>1, WordFacts DEF NoWrite, Illegal
  <2> QED
    BY <1>1, <2>1, <2>2
<1>2. CASE r = NoWrite
  <2>1. r \notin Word /\ r # Illegal
    BY <1>2, WordFacts DEF NoWrite, Illegal
  <2>2. UNCHANGED <<regs, mem, device>> /\ increment_pc /\ phase' = "done"
    BY <1>2, <2>1 DEF Compute
  <2> QED
    BY <1>2, <2>1, <2>2, NextPc DEF Wrote, StateOK
<1>3. CASE r \in Word
  <2>1. r # NoWrite /\ r # Illegal
    BY <1>3, WordFacts
  <2>2. cpu_write_reg(rd(i), r) /\ increment_pc /\ UNCHANGED <<mem, device>> /\ phase' = "done"
    BY <2>1 DEF Compute
  <2>3. rd(i) # 0 => regs'[rd(i)] = r
    BY <2>2, <1>3, FieldTypes, WriteReg DEF StateOK
  <2>4. Wrote(i)
    BY <2>2, <1>3, WriteWrote
  <2> QED
    BY <2>1, <2>2, <2>3, <2>4, NextPc DEF StateOK
<1> QED
  BY <1>1, <1>2, <1>3

\* The instruction's value: one of those the dispatchers return.
LEMMA ArithmeticValue ==
    ASSUME StateOK, NEW i, executeR(i) \/ OpImm(i) \/ MiscMem(i) \/ executeU(i)
    PROVE  \E r \in Word \cup {NoWrite, Illegal} :
              Compute(i, r) /\ (MiscMem(i) => r \in {NoWrite, Illegal})
<1> DEFINE a == cpu_read_reg(rs1(i))
           b == cpu_read_reg(rs2(i))
           Good == Word \cup {NoWrite, Illegal}
<1>1. a \in Word /\ b \in Word /\ pc \in Nat
  BY OperandsOK
<1>3. /\ dispatch_m_op(i, a, b) \in Good /\ dispatch_op(i, a, b) \in Good
      /\ dispatch_m_op_32(i, a, b) \in Good /\ dispatch_op_32(i, a, b) \in Good
      /\ dispatch_op_imm(i, a) \in Good /\ dispatch_op_imm_32(i, a) \in Good
  <2> HIDE DEF a, b
  <2> QED
    BY <1>1, ResultMop, ResultOp, ResultMop32, ResultOp32, ResultOpImm, ResultOpImm32
<1>4. Trunc(immU(i), XLEN) \in Good /\ Trunc(pc + immU(i), XLEN) \in Good
  <2>1. immU(i) \in Int /\ pc + immU(i) \in Int
    BY <1>1, ImmediateTypes
  <2> QED
    BY <2>1, TruncWord
<1>5. CASE MiscMem(i)
  BY <1>5 DEF MiscMem
<1>6. CASE ~MiscMem(i)
  <2> HIDE DEF Good
  <2>1. \E r \in Good : Compute(i, r)
    BY <1>3, <1>4, <1>6, Zenon DEF executeR, OpImm, executeU
  <2> QED
    BY <2>1, <1>6, Zenon DEF Good
<1> QED
  BY <1>5, <1>6

\* An exception changes nothing.
LEMMA RaiseTrapped == Raise => Trapped
BY DEF Raise, Trapped

\* What every instruction leaves alone.
LEMMA InsnFrame ==
    ASSUME StateOK, NEW i, dispatch_instruction(i)
    PROVE  /\ Trapped \/ Wrote(i)
           /\ opcode(i) \in {BRANCH, STORE, MISC_MEM} => UNCHANGED regs
<1>1. CASE opcode(i) \in {OP, OP_32, OP_IMM, OP_IMM_32, MISC_MEM, LUI, AUIPC}
  <2>0. executeR(i) \/ OpImm(i) \/ MiscMem(i) \/ executeU(i)
    BY <1>1, ByOpcode
  <2>1. PICK r \in Word \cup {NoWrite, Illegal} :
              Compute(i, r) /\ (MiscMem(i) => r \in {NoWrite, Illegal})
    BY <2>0, ArithmeticValue
  <2>2. Trapped \/ Wrote(i)
    BY <2>1, ComputeCases
  <2>3. r \in {NoWrite, Illegal} => UNCHANGED regs
    BY <2>1, ComputeCases DEF Trapped
  <2>4. opcode(i) = MISC_MEM => MiscMem(i)
    BY ByOpcode
  <2>5. opcode(i) \in {BRANCH, STORE} => FALSE
    BY <1>1, OpcodesDiffer DEF MISC_MEM, BRANCH, STORE
  <2> QED
    BY <2>1, <2>2, <2>3, <2>4, <2>5
<1>2. CASE opcode(i) \in {JAL, JALR}
  <2>1. Jump(i)
    BY <1>2, ByOpcode
  <2>2. Trunc(pc + 4, XLEN) \in Word
    BY OperandsOK, TruncWord
  <2>3. phase' = "done" /\ cpu_write_reg(rd(i), Trunc(pc + 4, XLEN))
    BY <2>1, Zenon DEF Jump, GoTo
  <2>4. Wrote(i)
    BY <2>2, <2>3, WriteWrote
  <2> QED
    BY <1>2, <2>4, OpcodesDiffer
<1>3. CASE opcode(i) = BRANCH
  <2>1. dispatch_branch(i)
    BY <1>3, ByOpcode
  <2>2. Raise \/ (phase' = "done" /\ UNCHANGED regs)
    BY <2>1, Zenon DEF dispatch_branch
  <2> QED
    BY <2>2, RaiseTrapped DEF Trapped, Wrote
<1>4. CASE opcode(i) = LOAD
  <2> DEFINE addr == Trunc(immI(i) + cpu_read_reg(rs1(i)), XLEN)
             size == 2 ^ (funct3(i) % 4)
  <2>0. dispatch_load(i)
    BY <1>4, ByOpcode
  <2>1. CASE Raise
    BY <1>4, <2>1, RaiseTrapped, OpcodesDiffer
  <2>2. CASE ~Raise
    <3>1. PICK v \in bus_read(addr, size) :
              cpu_write_reg(rd(i), IF funct3(i) < 3 THEN Extend(v, size * ByteBits) ELSE v)
      BY <2>0, <2>2, Zenon DEF dispatch_load
    <3>2. phase' = "done"
      BY <2>0, <2>2, Zenon DEF dispatch_load
    <3>3. addr \in Nat
      <4>1. immI(i) + cpu_read_reg(rs1(i)) \in Int
        BY OperandsOK, ImmediateTypes
      <4> QED
        BY <4>1, TruncWord, WordFacts
    <3>4. size \in Sizes
      BY FieldTypes, LoadSize
    <3> HIDE DEF addr, size
    <3>5. v \in Nat /\ v \in Word
      BY <3>3, <3>4, BusRead DEF StateOK
    <3> DEFINE n == size * ByteBits
               w == IF funct3(i) < 3 THEN Extend(v, n) ELSE v
    <3>6. n \in Nat /\ n >= 1 /\ v \in Int
      BY <3>4, <3>5, SizeFacts
    <3>7. cpu_write_reg(rd(i), w)
      BY <3>1
    <3> HIDE DEF n
    <3>8. w \in Word
      BY <3>5, <3>6, ExtendWord
    <3> HIDE DEF w
    <3> QED
      BY <1>4, <3>2, <3>7, <3>8, WriteWrote, OpcodesDiffer
  <2> QED
    BY <2>1, <2>2
<1>5. CASE opcode(i) = STORE
  <2>1. dispatch_store(i)
    BY <1>5, ByOpcode
  <2>2. Raise \/ (phase' = "done" /\ UNCHANGED regs)
    BY <2>1, Zenon DEF dispatch_store
  <2> QED
    BY <2>2, RaiseTrapped DEF Trapped, Wrote
<1>6. CASE opcode(i) = AMO
  <2> DEFINE addr == cpu_read_reg(rs1(i))
             size == 2 ^ funct3(i)
  <2>0. dispatch_a_extension(i)
    BY <1>6, ByOpcode
  <2>1. CASE Raise
    BY <1>6, <2>1, RaiseTrapped, OpcodesDiffer
  <2>2. CASE ~Raise
    <3>0. Amo(i) /\ funct3(i) \in {2, 3}
      BY <2>0, <2>2, Zenon DEF dispatch_a_extension
    <3>1. PICK v \in bus_read(addr, size) : cpu_write_reg(rd(i), Extend(v, size * ByteBits))
      BY <3>0, <2>2, Zenon DEF Amo
    <3>2. phase' = "done"
      BY <3>0, <2>2, Zenon DEF Amo
    <3>3. addr \in Nat
      BY OperandsOK
    <3>4. size \in Sizes
      <4>1. funct3(i) \in 0..3
        BY <3>0
      <4> QED
        BY <4>1, StoreSize
    <3> HIDE DEF addr, size
    <3>5. v \in Nat
      BY <3>3, <3>4, BusRead DEF StateOK
    <3> DEFINE n == size * ByteBits
               w == Extend(v, n)
    <3>6. n \in Nat /\ n >= 1 /\ v \in Int
      BY <3>4, <3>5, SizeFacts
    <3>7. cpu_write_reg(rd(i), w)
      BY <3>1
    <3> HIDE DEF n
    <3>8. w \in Word
      BY <3>6, ExtendWord
    <3> HIDE DEF w
    <3> QED
      BY <1>6, <3>2, <3>7, <3>8, WriteWrote, OpcodesDiffer
  <2> QED
    BY <2>1, <2>2
<1>7. CASE opcode(i) \notin Opcodes
  <2>1. Raise
    BY <1>7, ByOpcode DEF IllegalOpcode
  <2> QED
    BY <2>1, RaiseTrapped DEF Trapped
<1> QED
  BY <1>1, <1>2, <1>3, <1>4, <1>5, <1>6, <1>7, ByOpcode DEF Opcodes

\* A step is one instruction of the case that runs.
LEMMA NextInsn ==
    ASSUME TypeInv, Next
    PROVE  StateOK /\ \E i \in InstructionWord : dispatch_instruction(i) /\ raw' = i
<1>1. PICK i \in Cases[case].insns : dispatch_instruction(i)
  BY DEF Next
<1>2. i \in InstructionWord
  BY DatapathAssumption DEF TypeInv
<1>3. raw' = i
  BY <1>1 DEF dispatch_instruction
<1> QED
  BY <1>1, <1>2, <1>3 DEF TypeInv

\* No dispatcher changes a register other than rd, none changes x0, branches,
\* stores and fences change none, and one that calls raise_exception has changed
\* neither registers nor memory nor a device.
THEOREM OnlyRdIsWritten == Spec => OnlyRd
<1> DEFINE Keeps == /\ \A n \in 0..31 : regs'[n] # regs[n] =>
                          n = rd(raw') /\ n # 0 /\ opcode(raw') \notin {BRANCH, STORE, MISC_MEM}
                    /\ phase' = "trap" => <<regs, mem, device>>' = <<regs, mem, device>>
<1>1. TypeInv /\ Next => Keeps
  <2> SUFFICES ASSUME TypeInv, Next PROVE Keeps
    OBVIOUS
  <2>1. PICK i \in InstructionWord : dispatch_instruction(i) /\ raw' = i
    BY NextInsn
  <2>2. /\ Trapped \/ Wrote(i)
        /\ opcode(i) \in {BRANCH, STORE, MISC_MEM} => UNCHANGED regs
    BY <2>1, NextInsn, InsnFrame
  <2> QED
    BY <2>1, <2>2 DEF Trapped, Wrote
<1>2. TypeInv /\ [Next]_vars => [Keeps]_vars
  BY <1>1
<1> QED
  BY <1>2, TypeInvariant, PTL DEF Spec, OnlyRd

---------------------------------------------------------------------------
(* Branches and jumps.                                                     *)

\* A value cut to n bits is congruent to what it was.
LEMMA TruncCongruent ==
    ASSUME NEW x \in Int, NEW n \in Nat
    PROVE  Congruent(Trunc(x, n), x, n)
<1> DEFINE m == 2 ^ n
           t == x % m
<1>1. m \in Nat /\ m >= 1
  BY PowPos
<1> HIDE DEF m
<1>2. t \in Nat /\ t < m
  BY <1>1, DivMod
<1>3. t % m = t
  <2> HIDE DEF t
  <2> QED
    BY <1>1, <1>2, ModSmall
<1>4. (t - x) % m = 0
  <2>1. t % m = x % m /\ t \in Int
    BY <1>2, <1>3
  <2> HIDE DEF t
  <2> QED
    BY <1>1, <2>1, ModEqual
<1> QED
  BY <1>4 DEF Congruent, Trunc, t, m

\* Every other instruction goes on to the next word.
LEMMA FallThrough ==
    ASSUME StateOK, NEW i, dispatch_instruction(i), opcode(i) \notin {BRANCH, JAL, JALR},
           phase' = "done"
    PROVE  Congruent(pc', pc + 4, XLEN)
<1>0. ~Raise /\ ~Trapped
  BY DEF Raise, Trapped
<1>1. pc' = Trunc(pc + 4, XLEN)
  <2>1. CASE opcode(i) \in {OP, OP_32, OP_IMM, OP_IMM_32, MISC_MEM, LUI, AUIPC}
    <3>0. executeR(i) \/ OpImm(i) \/ MiscMem(i) \/ executeU(i)
      BY <2>1, ByOpcode
    <3>1. PICK r \in Word \cup {NoWrite, Illegal} : Compute(i, r)
      BY <3>0, ArithmeticValue
    <3> QED
      BY <1>0, <3>1, ComputeCases
  <2>2. CASE opcode(i) \in {LOAD, STORE, AMO}
    <3>1. dispatch_load(i) \/ dispatch_store(i) \/ dispatch_a_extension(i)
      BY <2>2, ByOpcode
    <3>2. increment_pc
      BY <1>0, <3>1, Zenon DEF dispatch_load, dispatch_store, dispatch_a_extension, Amo
    <3> QED
      BY <3>2 DEF increment_pc
  <2>3. CASE opcode(i) \notin Opcodes
    BY <1>0, <2>3, ByOpcode DEF IllegalOpcode
  <2> QED
    BY <2>1, <2>2, <2>3, ByOpcode DEF Opcodes
<1>2. pc + 4 \in Int
  BY OperandsOK
<1> QED
  BY <1>1, <1>2, TruncCongruent, Widths

\* What ControlFlow says of a branch.
BranchFacts(i) ==
    LET a == cpu_read_reg(rs1(i))
        b == cpu_read_reg(rs2(i))
        order == IF funct3(i) \in {4, 5} THEN Value(a, XLEN) - Value(b, XLEN) ELSE a - b
        holds == IF funct3(i) < 4 THEN order = 0 ELSE order < 0
        taken == holds = (funct3(i) % 2 = 0)
    IN  /\ Congruent(pc', pc + (IF taken THEN immB(i) ELSE 4), XLEN)
        /\ regs' = regs

\* The comparison of a branch is the one its funct3 names.
LEMMA TakenIs ==
    ASSUME NEW a \in Nat, NEW b \in Nat, NEW f \in {0, 1, 4, 5, 6, 7}
    PROVE  LET order == IF f \in {4, 5} THEN Value(a, XLEN) - Value(b, XLEN) ELSE a - b
               holds == IF f < 4 THEN order = 0 ELSE order < 0
           IN  Taken(f, a, b) <=> (holds = (f % 2 = 0))
<1> DEFINE sa == Signed(a, XLEN)
           sb == Signed(b, XLEN)
<1>1. Value(a, XLEN) = sa /\ Value(b, XLEN) = sb /\ sa \in Int /\ sb \in Int
  <2>1. a \in Int /\ b \in Int /\ XLEN \in Nat /\ XLEN >= 1
    BY Widths
  <2> QED
    BY <2>1, ValueSigned, SignedInt
<1> HIDE DEF sa, sb
<1>2. CASE f = 0
  <2>1. Taken(f, a, b) <=> a = b
    BY <1>2 DEF Taken
  <2> QED
    BY <1>1, <1>2, <2>1
<1>3. CASE f = 1
  <2>1. Taken(f, a, b) <=> a # b
    BY <1>3 DEF Taken
  <2> QED
    BY <1>1, <1>3, <2>1
<1>4. CASE f = 4
  <2>1. Taken(f, a, b) <=> sa < sb
    BY <1>4 DEF Taken, sa, sb
  <2> QED
    BY <1>1, <1>4, <2>1
<1>5. CASE f = 5
  <2>1. Taken(f, a, b) <=> sa >= sb
    BY <1>5 DEF Taken, sa, sb
  <2> QED
    BY <1>1, <1>5, <2>1
<1>6. CASE f = 6
  <2>1. Taken(f, a, b) <=> a < b
    BY <1>6 DEF Taken
  <2> QED
    BY <1>1, <1>6, <2>1
<1>7. CASE f = 7
  <2>1. Taken(f, a, b) <=> a >= b
    BY <1>7 DEF Taken
  <2> QED
    BY <1>1, <1>7, <2>1
<1> QED
  BY <1>2, <1>3, <1>4, <1>5, <1>6, <1>7

\* dispatch_branch does what ControlFlow says.
LEMMA Branches ==
    ASSUME StateOK, NEW i, dispatch_instruction(i), opcode(i) = BRANCH, phase' = "done"
    PROVE  BranchFacts(i)
<1> DEFINE a == cpu_read_reg(rs1(i))
           b == cpu_read_reg(rs2(i))
           f == funct3(i)
           order == IF f \in {4, 5} THEN Value(a, XLEN) - Value(b, XLEN) ELSE a - b
           holds == IF f < 4 THEN order = 0 ELSE order < 0
           taken == holds = (f % 2 = 0)
<1>1. dispatch_branch(i) /\ ~Raise
  BY ByOpcode DEF Raise
<1>2. f \notin {2, 3} /\ UNCHANGED regs
      /\ (IF Taken(f, a, b) THEN pc' = Trunc(pc + immB(i), XLEN) ELSE increment_pc)
  BY <1>1, Zenon DEF dispatch_branch
<1>3. f \in {0, 1, 4, 5, 6, 7}
  <2>1. f \in 0..7
    BY FieldTypes
  <2> QED
    BY <1>2, <2>1
<1>4. a \in Nat /\ b \in Nat /\ pc \in Nat
  BY OperandsOK
<1>5. Taken(f, a, b) <=> taken
  <2> HIDE DEF a, b, f
  <2> QED
    BY <1>3, <1>4, TakenIs
<1>6. /\ Congruent(Trunc(pc + immB(i), XLEN), pc + immB(i), XLEN)
      /\ Congruent(Trunc(pc + 4, XLEN), pc + 4, XLEN)
  <2>1. pc + immB(i) \in Int /\ pc + 4 \in Int /\ XLEN \in Nat
    BY <1>4, ImmediateTypes, Widths
  <2> QED
    BY <2>1, TruncCongruent
<1> HIDE DEF taken
<1>7. Congruent(pc', pc + (IF taken THEN immB(i) ELSE 4), XLEN)
  <2>1. CASE taken
    BY <2>1, <1>2, <1>5, <1>6
  <2>2. CASE ~taken
    BY <2>2, <1>2, <1>5, <1>6 DEF increment_pc
  <2> QED
    BY <2>1, <2>2
<1> QED
  BY <1>2, <1>7, Zenon DEF BranchFacts, taken

\* What ControlFlow says of jal and jalr.
JumpFacts(i) ==
    /\ rd(i) # 0 => Congruent(regs'[rd(i)], pc + 4, XLEN)
    /\ IF opcode(i) = JAL THEN Congruent(pc', pc + immJ(i), XLEN)
       ELSE /\ pc' % 2 = 0
            /\ LET sum == cpu_read_reg(rs1(i)) + immI(i)
               IN  Congruent(pc', sum, XLEN) \/ Congruent(pc', sum - 1, XLEN)

\* jalr clears the lowest bit.
LEMMA EvenTarget ==
    ASSUME NEW sum \in Int, NEW t \in Nat, Congruent(t, sum, XLEN)
    PROVE  LET u == t - (t % 2)
           IN  u % 2 = 0 /\ (Congruent(u, sum, XLEN) \/ Congruent(u, sum - 1, XLEN))
<1> DEFINE u == t - (t % 2)
           m == 2 ^ XLEN
<1>1. u % 2 = 0 /\ (u = t \/ u = t - 1)
  OBVIOUS
<1>2. (t - 1) - (sum - 1) = t - sum
  OBVIOUS
<1>3. (t - sum) % m = 0
  BY DEF Congruent
<1> HIDE DEF u, m
<1>4. (u - sum) % m = 0 \/ (u - (sum - 1)) % m = 0
  BY <1>1, <1>2, <1>3
<1> QED
  BY <1>1, <1>4 DEF Congruent, u, m

\* Jump does what ControlFlow says.
LEMMA Jumps ==
    ASSUME StateOK, NEW i, dispatch_instruction(i), opcode(i) \in {JAL, JALR}
    PROVE  JumpFacts(i)
<1> DEFINE a == cpu_read_reg(rs1(i))
           sum == a + immI(i)
           t == Trunc(sum, XLEN)
<1>1. Jump(i)
  BY ByOpcode
<1>2. cpu_write_reg(rd(i), Trunc(pc + 4, XLEN))
  BY <1>1, Zenon DEF Jump, GoTo
<1>3. a \in Nat /\ pc \in Nat /\ XLEN \in Nat
  BY OperandsOK, Widths
<1>4. Trunc(pc + 4, XLEN) \in Word /\ Congruent(Trunc(pc + 4, XLEN), pc + 4, XLEN)
  BY <1>3, TruncWord, TruncCongruent
<1>5. rd(i) # 0 => Congruent(regs'[rd(i)], pc + 4, XLEN)
  <2> DEFINE d == rd(i)
             v == Trunc(pc + 4, XLEN)
  <2>1. d \in 0..31 /\ cpu_write_reg(d, v) /\ regs \in [0..31 -> Word] /\ v \in Word
    BY <1>2, <1>4, FieldTypes DEF StateOK
  <2> HIDE DEF d, v
  <2>2. d # 0 => regs'[d] = v
    BY <2>1, WriteReg
  <2> QED
    BY <2>2, <1>4 DEF d, v
<1>6. CASE opcode(i) = JAL
  <2>1. pc' = Trunc(pc + immJ(i), XLEN)
    <3>1. opcode(i) # JALR
      BY <1>6 DEF JAL, JALR
    <3> QED
      BY <1>1, <3>1, Zenon DEF Jump, GoTo
  <2>2. pc + immJ(i) \in Int
    BY <1>3, ImmediateTypes
  <2>3. Congruent(pc', pc + immJ(i), XLEN)
    BY <2>1, <2>2, <1>3, TruncCongruent
  <2> QED
    BY <1>5, <1>6, <2>3 DEF JumpFacts
<1>7. CASE opcode(i) = JALR
  <2>0. opcode(i) # JAL
    BY <1>7 DEF JAL, JALR
  <2>1. sum \in Int /\ sum = immI(i) + a
    BY <1>3, ImmediateTypes
  <2>2. pc' = Trunc(immI(i) + a, XLEN) - (Trunc(immI(i) + a, XLEN) % 2)
    BY <1>1, <2>0, Zenon DEF Jump, GoTo
  <2>3. pc' = t - (t % 2)
    BY <2>1, <2>2
  <2> HIDE DEF sum
  <2>4. t \in Nat /\ Congruent(t, sum, XLEN)
    BY <1>3, <2>1, TruncType, TruncCongruent
  <2> HIDE DEF t
  <2>5. pc' % 2 = 0 /\ (Congruent(pc', sum, XLEN) \/ Congruent(pc', sum - 1, XLEN))
    BY <2>1, <2>3, <2>4, EvenTarget
  <2> QED
    BY <1>5, <2>0, <2>5 DEF JumpFacts, sum
<1> QED
  BY <1>6, <1>7

\* Branches of branch.c compare as they say and go where they say, jal and jalr
\* link and jump as defined, also when rd is rs1, and every other instruction
\* goes on to pc + 4, all modulo 2^XLEN.
THEOREM ControlFlowCorrect == Spec => ControlFlow
<1> DEFINE Flow == /\ opcode(raw') = BRANCH /\ phase' = "done" => BranchFacts(raw')
                   /\ opcode(raw') \in {JAL, JALR} => JumpFacts(raw')
                   /\ opcode(raw') \notin {BRANCH, JAL, JALR} /\ phase' = "done" =>
                         Congruent(pc', pc + 4, XLEN)
<1>1. TypeInv /\ Next => Flow
  <2> SUFFICES ASSUME TypeInv, Next PROVE Flow
    OBVIOUS
  <2>1. PICK i \in InstructionWord : dispatch_instruction(i) /\ raw' = i
    BY NextInsn
  <2>2. StateOK
    BY NextInsn
  <2> QED
    BY <2>1, <2>2, Branches, Jumps, FallThrough
<1>2. TypeInv /\ [Next]_vars => [Flow]_vars
  BY <1>1
<1>3. ControlFlow <=> [][Flow]_vars
  BY DEF ControlFlow, BranchFacts, JumpFacts, Result
<1> QED
  BY <1>2, <1>3, TypeInvariant, PTL DEF Spec

---------------------------------------------------------------------------
(* Loads and stores.                                                       *)

\* What a load puts in its register.
LoadedValue(i, v, n) == IF funct3(i) < 3 THEN Extend(v, n) ELSE v

\* The bits that a load leaves in rd: those it read, then the sign or 0.
LEMMA LoadedBits ==
    ASSUME NEW i, NEW size, size = 2 ^ (funct3(i) % 4), NEW n, n = size * ByteBits,
           funct3(i) # 7, NEW v \in Nat, v < 2 ^ n
    PROVE  LET read == Bits(LoadedValue(i, v, n), XLEN)
           IN  /\ read \cap 0..(n - 1) = Bits(v, n)
               /\ \A k \in n..(XLEN - 1) : k \in read <=> funct3(i) < 4 /\ n - 1 \in read
<1> DEFINE w == LoadedValue(i, v, n)
           f == funct3(i)
<1>1. size \in Sizes
  BY FieldTypes, LoadSize
<1>2. n \in Nat /\ n >= 1 /\ n <= XLEN /\ XLEN \in Nat /\ f \in 0..7
  BY <1>1, SizeFacts, Widths, FieldTypes
<1>3. f = 3 => n = XLEN
  <2>1. 3 % 4 = 3 /\ 2 ^ 3 = 8
    OBVIOUS
  <2>2. f = 3 => size = 8
    BY <2>1
  <2> QED
    BY <2>2, Widths
<1> HIDE DEF f
<1>4. CASE f < 3
  <2>1. w = Extend(v, n)
    BY <1>4 DEF LoadedValue, f
  <2>2. \A k \in 0..(XLEN - 1) : Digit(w, k) = IF k < n THEN Digit(v, k) ELSE Digit(v, n - 1)
    <3>1. v \in Int
      OBVIOUS
    <3> QED
      BY <1>2, <2>1, <3>1, ExtendDigit
  <2> HIDE DEF w
  <2>3. Bits(w, XLEN) \cap 0..(n - 1) = Bits(v, n)
    BY <1>2, <2>2 DEF Bits
  <2>4. \A k \in n..(XLEN - 1) : k \in Bits(w, XLEN) <=> n - 1 \in Bits(w, XLEN)
    BY <1>2, <2>2 DEF Bits
  <2> QED
    BY <1>2, <1>4, <2>3, <2>4 DEF w, f
<1>5. CASE f >= 3
  <2>1. w = v
    BY <1>2, <1>5 DEF LoadedValue, f
  <2>2. \A k \in n..(XLEN - 1) : Digit(v, k) = 0
    <3> SUFFICES ASSUME NEW k \in n..(XLEN - 1) PROVE Digit(v, k) = 0
      OBVIOUS
    <3>1. k \in Nat /\ k >= n
      BY <1>2
    <3> QED
      BY <1>2, <3>1, DigitSmall
  <2>3. Bits(v, XLEN) \cap 0..(n - 1) = Bits(v, n)
    BY <1>2 DEF Bits
  <2>4. \A k \in n..(XLEN - 1) : k \notin Bits(v, XLEN)
    BY <2>2 DEF Bits
  <2>5. f < 4 => n..(XLEN - 1) = {}
    BY <1>2, <1>3, <1>5
  <2> HIDE DEF w
  <2>6. \A k \in n..(XLEN - 1) : k \in Bits(w, XLEN) <=> f < 4 /\ n - 1 \in Bits(w, XLEN)
    BY <2>1, <2>4, <2>5
  <2> QED
    BY <2>1, <2>3, <2>6 DEF w, f
<1> QED
  BY <1>2, <1>4, <1>5

\* The bus forwards what RAM does not answer, and nothing that RAM does.
LEMMA DeviceGrows ==
    ASSUME StateOK, NEW addr \in Nat, NEW size \in Sizes, NEW kind \in {"read", "write"}
    PROVE  /\ device \o Request(kind, addr, size) = device <=> ~Forwarded(addr, size)
           /\ addr \in RamAddr => ~Forwarded(addr, size) /\ Request(kind, addr, size) = <<>>
<1> DEFINE r == Request(kind, addr, size)
<1>0. device \in Seq(Requests) /\ r \in Seq(Requests)
  BY RequestFacts DEF StateOK
<1>1. CASE Forwarded(addr, size)
  <2>1. Len(r) = 1
    BY <1>1, RequestFacts
  <2> HIDE DEF r
  <2>2. Len(device \o r) = Len(device) + 1 /\ Len(device) \in Nat
    BY <1>0, <2>1, DeviceOK
  <2>3. device \o r # device
    BY <2>2
  <2>4. Region(addr) # "ram"
    BY <1>1 DEF Forwarded
  <2> QED
    BY <1>1, <2>3, <2>4, RegionFacts DEF r
<1>2. CASE ~Forwarded(addr, size)
  <2>1. r = <<>>
    BY <1>2, RequestFacts
  <2>2. device \o <<>> = device
    BY <1>0, ConcatEmptySeq
  <2> QED
    BY <1>2, <2>1, <2>2
<1> QED
  BY <1>1, <1>2

\* What LoadsStoresCorrect says of a load.
LoadFacts(i) ==
    LET size == 2 ^ (funct3(i) % 4)
        addr == Trunc(cpu_read_reg(rs1(i)) + immI(i), XLEN)
        read == Bits(regs'[rd(i)], XLEN)
        top  == size * ByteBits - 1
    IN  /\ rd(i) # 0 /\ InRam(addr, size) =>
              /\ read \cap 0..top = BytesAt(mem, addr, size)
              /\ \A k \in (top + 1)..(XLEN - 1) : k \in read <=> funct3(i) < 4 /\ top \in read
        /\ rd(i) # 0 /\ ~InRam(addr, size) /\ device' = device => regs'[rd(i)] = 0
        /\ mem' = mem
        /\ addr \in RamAddr => device' = device

\* dispatch_load does what LoadsStoresCorrect says.
LEMMA Loads ==
    ASSUME StateOK, NEW i, dispatch_instruction(i), opcode(i) = LOAD, phase' = "done"
    PROVE  LoadFacts(i)
<1> DEFINE size == 2 ^ (funct3(i) % 4)
           sum  == immI(i) + cpu_read_reg(rs1(i))
           addr == Trunc(sum, XLEN)
           n    == size * ByteBits
           d    == rd(i)
<1>1. dispatch_load(i) /\ ~Raise
  BY ByOpcode DEF Raise
<1>2. /\ UNCHANGED mem
      /\ device' = device \o Request("read", addr, size)
      /\ funct3(i) # 7
  BY <1>1, Zenon DEF dispatch_load
<1>3. PICK v \in bus_read(addr, size) : cpu_write_reg(d, LoadedValue(i, v, n))
  BY <1>1, Zenon DEF dispatch_load, LoadedValue
<1>4. sum \in Int /\ cpu_read_reg(rs1(i)) + immI(i) = sum
  BY OperandsOK, ImmediateTypes
<1>5. addr \in Nat
  BY <1>4, TruncWord, WordFacts
<1>6. size \in Sizes
  BY FieldTypes, LoadSize
<1>7. mem \in [RamAddr -> Byte] /\ regs \in [0..31 -> Word] /\ d \in 0..31
  BY FieldTypes DEF StateOK
<1>8. n \in Nat /\ n >= 1
  BY <1>6, SizeFacts
<1>9. v \in Nat /\ v < 2 ^ n /\ v \in Word
      /\ (addr \in RamAddr => v = mem_read(addr, size))
      /\ (addr \notin RamAddr /\ ~Forwarded(addr, size) => v = 0)
  <2> HIDE DEF addr, size
  <2> QED
    BY <1>3, <1>5, <1>6, <1>7, BusRead
<1> DEFINE w == LoadedValue(i, v, n)
<1>10. w \in Word
  <2>1. v \in Int
    BY <1>9
  <2> HIDE DEF n
  <2>2. Extend(v, n) \in Word
    BY <2>1, <1>8, ExtendWord
  <2> QED
    BY <1>9, <2>2 DEF LoadedValue
<1>11. d # 0 => regs'[d] = w
  <2> HIDE DEF w, d
  <2> QED
    BY <1>3, <1>7, <1>10, WriteReg DEF w
<1>12. ASSUME d # 0, InRam(addr, size)
       PROVE  /\ Bits(w, XLEN) \cap 0..(n - 1) = BytesAt(mem, addr, size)
              /\ \A k \in n..(XLEN - 1) : k \in Bits(w, XLEN) <=> funct3(i) < 4 /\ n - 1 \in Bits(w, XLEN)
  <2>1. addr \in RamAddr
    <3> HIDE DEF addr, size
    <3> QED
      BY <1>5, <1>6, <1>12, ValidAccess
  <2>2. v = mem_read(addr, size)
    BY <2>1, <1>9
  <2>3. Bits(v, n) = BytesAt(mem, addr, size)
    <3> HIDE DEF addr, size
    <3> QED
      BY <2>2, <1>5, <1>6, <1>7, <1>12, ReadFacts DEF n
  <2>4. /\ Bits(w, XLEN) \cap 0..(n - 1) = Bits(v, n)
        /\ \A k \in n..(XLEN - 1) : k \in Bits(w, XLEN) <=> funct3(i) < 4 /\ n - 1 \in Bits(w, XLEN)
    <3>1. size = 2 ^ (funct3(i) % 4) /\ n = size * ByteBits
      OBVIOUS
    <3> HIDE DEF size, n
    <3> QED
      BY <3>1, <1>2, <1>9, LoadedBits
  <2> QED
    BY <2>3, <2>4
<1>13. ASSUME d # 0, ~InRam(addr, size), device' = device PROVE w = 0
  <2>1. ~Forwarded(addr, size)
    <3> HIDE DEF addr, size
    <3> QED
      BY <1>2, <1>5, <1>6, <1>13, DeviceGrows
  <2>2. v = 0
    <3>1. CASE addr \in RamAddr
      <4> HIDE DEF addr, size
      <4> QED
        BY <3>1, <1>5, <1>6, <1>7, <1>9, <1>13, ReadFacts
    <3>2. CASE addr \notin RamAddr
      BY <3>2, <2>1, <1>9
    <3> QED
      BY <3>1, <3>2
  <2>3. Extend(0, n) = 0
    <3> HIDE DEF n
    <3> QED
      BY <1>8, ExtendZero
  <2> QED
    BY <2>2, <2>3 DEF LoadedValue
<1>14. addr \in RamAddr => device' = device
  <2> HIDE DEF addr, size
  <2> QED
    BY <1>2, <1>5, <1>6, DeviceGrows
<1>15. addr = Trunc(cpu_read_reg(rs1(i)) + immI(i), XLEN)
  BY <1>4
<1>16. (n - 1) + 1 = n
  BY <1>8
<1> DEFINE top == n - 1
<1>17. /\ d # 0 /\ InRam(addr, size) =>
             /\ Bits(regs'[d], XLEN) \cap 0..top = BytesAt(mem, addr, size)
             /\ \A k \in (top + 1)..(XLEN - 1) :
                   k \in Bits(regs'[d], XLEN) <=> funct3(i) < 4 /\ top \in Bits(regs'[d], XLEN)
       /\ d # 0 /\ ~InRam(addr, size) /\ device' = device => regs'[d] = 0
       /\ mem' = mem
       /\ addr \in RamAddr => device' = device
  <2> HIDE DEF addr, size, n, w, d
  <2> QED
    BY <1>2, <1>11, <1>12, <1>13, <1>14, <1>16
<1> HIDE DEF addr
<1> QED
  BY <1>15, <1>17, Zenon DEF LoadFacts

\* What LoadsStoresCorrect says of a store.
StoreFacts(i) ==
    LET size == 2 ^ (funct3(i) % 4)
        addr == Trunc(cpu_read_reg(rs1(i)) + immS(i), XLEN)
    IN  /\ InRam(addr, size) =>
              /\ BytesAt(mem', addr, size) = Bits(cpu_read_reg(rs2(i)), size * ByteBits)
              /\ \A a \in RamAddr : a < addr \/ a >= addr + size => mem'[a] = mem[a]
        /\ ~InRam(addr, size) => mem' = mem
        /\ addr \in RamAddr => device' = device

\* dispatch_store does what LoadsStoresCorrect says.
LEMMA Stores ==
    ASSUME StateOK, NEW i, dispatch_instruction(i), opcode(i) = STORE, phase' = "done"
    PROVE  StoreFacts(i)
<1> DEFINE size == 2 ^ (funct3(i) % 4)
           addr == Trunc(cpu_read_reg(rs1(i)) + immS(i), XLEN)
           n    == size * ByteBits
           x    == cpu_read_reg(rs2(i))
           v    == Trunc(x, n)
<1>1. dispatch_store(i) /\ ~Raise
  BY ByOpcode DEF Raise
<1>2. funct3(i) <= 3
  BY <1>1, Zenon DEF dispatch_store
<1>3. funct3(i) \in 0..3
  BY <1>2, FieldTypes
<1>4. 2 ^ funct3(i) = size /\ size \in Sizes
  <2>1. funct3(i) % 4 = funct3(i)
    BY <1>3, StoreSize
  <2>2. 2 ^ funct3(i) \in Sizes
    BY <1>3, StoreSize
  <2> QED
    BY <2>1, <2>2
<1>5. /\ mem' = bus_write(addr, 2 ^ funct3(i), Trunc(x, 2 ^ funct3(i) * ByteBits))
      /\ device' = device \o Request("write", addr, 2 ^ funct3(i))
  BY <1>1, Zenon DEF dispatch_store
<1>6. mem' = bus_write(addr, size, v) /\ device' = device \o Request("write", addr, size)
  BY <1>4, <1>5
<1>7. addr \in Nat /\ x \in Int
  <2>1. cpu_read_reg(rs1(i)) + immS(i) \in Int /\ x \in Int
    BY OperandsOK, ImmediateTypes
  <2> QED
    BY <2>1, TruncWord, WordFacts
<1>8. n \in Nat
  BY <1>4, SizeFacts
<1>9. mem \in [RamAddr -> Byte]
  BY DEF StateOK
<1> HIDE DEF size, addr, x
<1>10. v \in Nat
  <2> HIDE DEF n
  <2> QED
    BY <1>7, <1>8, TruncType
<1>11. Bits(v, n) = Bits(x, n)
  <2> HIDE DEF n
  <2>1. \A k \in 0..(n - 1) : k \in Nat /\ k < n
    BY <1>8
  <2>2. \A k \in 0..(n - 1) : Digit(v, k) = Digit(x, k)
    BY <1>7, <1>8, <2>1, DigitOf
  <2> HIDE DEF v
  <2> QED
    BY <2>2 DEF Bits
<1> HIDE DEF v
<1>12. /\ InRam(addr, size) => mem' = mem_write(addr, size, v)
       /\ ~InRam(addr, size) => mem' = mem
  BY <1>4, <1>6, <1>7, <1>9, <1>10, BusWrite
<1>13. /\ InRam(addr, size) => BytesAt(mem_write(addr, size, v), addr, size) = Bits(v, n)
       /\ \A a \in RamAddr : a < addr \/ a >= addr + size => mem_write(addr, size, v)[a] = mem[a]
  BY <1>4, <1>7, <1>9, <1>10, WriteFacts DEF n
<1>14. addr \in RamAddr => device' = device
  BY <1>4, <1>6, <1>7, DeviceGrows
<1>15. /\ InRam(addr, size) =>
             /\ BytesAt(mem', addr, size) = Bits(x, n)
             /\ \A a \in RamAddr : a < addr \/ a >= addr + size => mem'[a] = mem[a]
       /\ ~InRam(addr, size) => mem' = mem
       /\ addr \in RamAddr => device' = device
  <2> HIDE DEF n
  <2> QED
    BY <1>11, <1>12, <1>13, <1>14
<1> QED
  BY <1>15, Zenon DEF StoreFacts, size, addr, x, n

\* load.c and store.c with bus.c and memory.c below them: a load gives the bytes
\* at its address, extended as named, a store puts the bytes of rs2 there and
\* nowhere else, an access that runs over the end of RAM reads 0 and writes
\* nothing, and none that begins in RAM reaches a device.
THEOREM LoadsAndStoresCorrect == Spec => LoadsStoresCorrect
<1> DEFINE Facts(i) ==
          LET loads == opcode(i) = LOAD
              size == 2 ^ (funct3(i) % 4)
              addr == Trunc(cpu_read_reg(rs1(i))
                              + (IF loads THEN immI(i) ELSE immS(i)), XLEN)
              read == Bits(regs'[rd(i)], XLEN)
              top  == size * ByteBits - 1
          IN  /\ loads /\ rd(i) # 0 /\ InRam(addr, size) =>
                    /\ read \cap 0..top = BytesAt(mem, addr, size)
                    /\ \A k \in (top + 1)..(XLEN - 1) :
                          k \in read <=> funct3(i) < 4 /\ top \in read
              /\ loads /\ rd(i) # 0 /\ ~InRam(addr, size) /\ device' = device => regs'[rd(i)] = 0
              /\ ~loads /\ InRam(addr, size) =>
                    /\ BytesAt(mem', addr, size) = Bits(cpu_read_reg(rs2(i)), size * ByteBits)
                    /\ \A a \in RamAddr : a < addr \/ a >= addr + size => mem'[a] = mem[a]
              /\ loads \/ ~InRam(addr, size) => mem' = mem
              /\ addr \in RamAddr => device' = device
           Right == opcode(raw') \in {LOAD, STORE} /\ phase' = "done" => Facts(raw')
<1>1. ASSUME NEW i, opcode(i) = LOAD, LoadFacts(i) PROVE Facts(i)
  BY <1>1, Zenon DEF LoadFacts
<1>2. ASSUME NEW i, opcode(i) = STORE, StoreFacts(i) PROVE Facts(i)
  <2>1. opcode(i) # LOAD
    BY <1>2 DEF LOAD, STORE
  <2> QED
    BY <1>2, <2>1, Zenon DEF StoreFacts
<1>3. LoadsStoresCorrect <=> [][Right]_vars
  BY DEF LoadsStoresCorrect, Result
<1> HIDE DEF Facts
<1>4. TypeInv /\ Next => Right
  <2> SUFFICES ASSUME TypeInv, Next, opcode(raw') \in {LOAD, STORE}, phase' = "done"
               PROVE  Facts(raw')
    OBVIOUS
  <2>1. PICK i \in InstructionWord : dispatch_instruction(i) /\ raw' = i
    BY NextInsn
  <2>2. StateOK
    BY NextInsn
  <2>3. CASE opcode(i) = LOAD
    BY <2>1, <2>2, <2>3, <1>1, Loads
  <2>4. CASE opcode(i) = STORE
    BY <2>1, <2>2, <2>4, <1>2, Stores
  <2> QED
    BY <2>1, <2>3, <2>4
<1>5. TypeInv /\ [Next]_vars => [Right]_vars
  BY <1>4
<1> QED
  BY <1>3, <1>5, TypeInvariant, PTL DEF Spec

---------------------------------------------------------------------------
(* Amos.                                                                   *)

\* What AmoCorrect says of the value in memory.
AmoFacts(op, old, rhs, new, n) ==
    LET Key(x) == IF op < AMOMINU THEN Value(x, n) ELSE x
    IN  CASE op = AMOSWAP -> new = rhs
          [] op = AMOADD  -> Congruent(new, old + rhs, n)
          [] op = AMOXOR  -> IntegerResult(4, FALSE, old, rhs, new, n)
          [] op = AMOOR   -> IntegerResult(6, FALSE, old, rhs, new, n)
          [] op = AMOAND  -> IntegerResult(7, FALSE, old, rhs, new, n)
          [] OTHER ->
                /\ new \in {old, rhs}
                /\ \A x \in {old, rhs} : IF op \in {AMOMIN, AMOMINU}
                                         THEN Key(new) <= Key(x)
                                         ELSE Key(new) >= Key(x)

\* The branches of AmoFacts.
LEMMA AmoBranches ==
    ASSUME NEW op, NEW old, NEW rhs, NEW new, NEW n
    PROVE  /\ op = AMOXOR /\ IntegerResult(4, FALSE, old, rhs, new, n) => AmoFacts(op, old, rhs, new, n)
           /\ op = AMOOR /\ IntegerResult(6, FALSE, old, rhs, new, n) => AmoFacts(op, old, rhs, new, n)
           /\ op = AMOAND /\ IntegerResult(7, FALSE, old, rhs, new, n) => AmoFacts(op, old, rhs, new, n)
           /\ /\ op \in {AMOMIN, AMOMAX} /\ new \in {old, rhs}
              /\ \A x \in {old, rhs} : IF op = AMOMIN THEN Value(new, n) <= Value(x, n)
                                                      ELSE Value(new, n) >= Value(x, n)
              => AmoFacts(op, old, rhs, new, n)
           /\ /\ op \in {AMOMINU, AMOMAXU} /\ new \in {old, rhs}
              /\ \A x \in {old, rhs} : IF op = AMOMINU THEN new <= x ELSE new >= x
              => AmoFacts(op, old, rhs, new, n)
<1>1. /\ op = AMOXOR => op \notin {AMOSWAP, AMOADD, AMOOR, AMOAND}
      /\ op = AMOOR => op \notin {AMOSWAP, AMOADD, AMOXOR, AMOAND}
      /\ op = AMOAND => op \notin {AMOSWAP, AMOADD, AMOXOR, AMOOR}
      /\ op \in {AMOMIN, AMOMAX} =>
            /\ op \notin {AMOSWAP, AMOADD, AMOXOR, AMOOR, AMOAND, AMOMINU}
            /\ op < AMOMINU
            /\ AMOMIN # AMOMAX
      /\ op \in {AMOMINU, AMOMAXU} =>
            /\ op \notin {AMOSWAP, AMOADD, AMOXOR, AMOOR, AMOAND, AMOMIN}
            /\ ~(op < AMOMINU)
            /\ AMOMINU # AMOMAXU
  BY DEF AMOADD, AMOSWAP, AMOXOR, AMOOR, AMOAND, AMOMIN, AMOMAX, AMOMINU, AMOMAXU
<1>2. CASE op = AMOXOR
  BY <1>1, <1>2, Zenon DEF AmoFacts
<1>3. CASE op = AMOOR
  BY <1>1, <1>3, Zenon DEF AmoFacts
<1>4. CASE op = AMOAND
  BY <1>1, <1>4, Zenon DEF AmoFacts
<1>5. CASE op \in {AMOMIN, AMOMAX}
  <2>1. ASSUME new \in {old, rhs},
               \A x \in {old, rhs} : IF op = AMOMIN THEN Value(new, n) <= Value(x, n)
                                                    ELSE Value(new, n) >= Value(x, n)
        PROVE  AmoFacts(op, old, rhs, new, n)
    BY <1>1, <1>5, <2>1, Zenon DEF AmoFacts
  <2>2. op \notin {AMOXOR, AMOOR, AMOAND, AMOMINU, AMOMAXU}
    BY <1>5 DEF AMOXOR, AMOOR, AMOAND, AMOMIN, AMOMAX, AMOMINU, AMOMAXU
  <2> QED
    BY <2>1, <2>2, Zenon
<1>6. CASE op \in {AMOMINU, AMOMAXU}
  <2>1. ASSUME new \in {old, rhs},
               \A x \in {old, rhs} : IF op = AMOMINU THEN new <= x ELSE new >= x
        PROVE  AmoFacts(op, old, rhs, new, n)
    BY <1>1, <1>6, <2>1, Zenon DEF AmoFacts
  <2>2. op \notin {AMOXOR, AMOOR, AMOAND, AMOMIN, AMOMAX}
    BY <1>6 DEF AMOXOR, AMOOR, AMOAND, AMOMIN, AMOMAX, AMOMINU, AMOMAXU
  <2> QED
    BY <2>1, <2>2, Zenon
<1> QED
  BY <1>2, <1>3, <1>4, <1>5, <1>6, Zenon

\* AmoResult is the operation that funct5 names.
LEMMA AmoArithmetic ==
    ASSUME NEW op \in AmoOps, NEW n \in Nat, n >= 1, n <= XLEN,
           NEW old \in Nat, old < 2 ^ n, NEW rhs \in Nat, rhs < 2 ^ n
    PROVE  AmoFacts(op, old, rhs, Trunc(AmoResult(op, old, rhs, n), n), n)
<1> DEFINE res == AmoResult(op, old, rhs, n)
           new == Trunc(res, n)
           so == Signed(old, n)
           sr == Signed(rhs, n)
<1> USE DEF AMOADD, AMOSWAP, AMOXOR, AMOOR, AMOAND, AMOMIN, AMOMAX, AMOMINU, AMOMAXU
<1>1. Trunc(old, n) = old /\ Trunc(rhs, n) = rhs
  BY TruncSmall
<1>2. old \in Int /\ rhs \in Int /\ Value(old, n) = so /\ Value(rhs, n) = sr /\ so \in Int /\ sr \in Int
  <2>1. old \in Int /\ rhs \in Int
    OBVIOUS
  <2> QED
    BY <2>1, ValueSigned, SignedInt
<1>3. CASE op = AMOSWAP
  <2>1. res = rhs
    BY <1>3 DEF AmoResult
  <2> HIDE DEF res
  <2>2. new = rhs
    BY <1>1, <2>1
  <2> HIDE DEF new
  <2> QED
    BY <1>3, <2>2 DEF AmoFacts, new, res
<1>4. CASE op = AMOADD
  <2>1. res = Trunc(old + rhs, n)
    BY <1>4 DEF AmoResult
  <2> HIDE DEF res
  <2>2. old + rhs \in Int
    OBVIOUS
  <2>3. new = Trunc(old + rhs, n)
    BY <2>1, <2>2, TruncTrunc
  <2>4. Congruent(new, old + rhs, n)
    BY <2>2, <2>3, TruncCongruent
  <2> HIDE DEF new
  <2>5. AmoFacts(op, old, rhs, new, n)
    BY <1>4, <2>4 DEF AmoFacts
  <2> QED
    BY <2>5 DEF new, res
<1>5. CASE op \in {AMOXOR, AMOOR, AMOAND}
  <2>0. res \in Int
    BY <1>5, AmoNat
  <2>1. Bits(new, n) = Bits(res, n)
    <3> HIDE DEF res
    <3> QED
      BY <2>0, TruncBits
  <2>2. CASE op = AMOXOR
    <3>1. res = BitXor(old, rhs)
      BY <2>2 DEF AmoResult
    <3> HIDE DEF res
    <3>2. Bits(res, n) = (Bits(old, n) \cup Bits(rhs, n)) \ (Bits(old, n) \cap Bits(rhs, n))
      BY <3>1, <1>2, BitwiseResult
    <3> HIDE DEF new
    <3>3. IntegerResult(4, FALSE, old, rhs, new, n)
      BY <2>1, <3>2 DEF IntegerResult
    <3>4. AmoFacts(op, old, rhs, new, n)
      BY <2>2, <3>3, AmoBranches, Zenon
    <3> QED
      BY <3>4 DEF new, res
  <2>3. CASE op = AMOOR
    <3>1. res = BitOr(old, rhs)
      BY <2>3 DEF AmoResult
    <3> HIDE DEF res
    <3>2. Bits(res, n) = Bits(old, n) \cup Bits(rhs, n)
      BY <3>1, <1>2, BitwiseResult
    <3> HIDE DEF new
    <3>3. IntegerResult(6, FALSE, old, rhs, new, n)
      BY <2>1, <3>2 DEF IntegerResult
    <3>4. AmoFacts(op, old, rhs, new, n)
      BY <2>3, <3>3, AmoBranches, Zenon
    <3> QED
      BY <3>4 DEF new, res
  <2>4. CASE op = AMOAND
    <3>1. res = BitAnd(old, rhs)
      BY <2>4 DEF AmoResult
    <3> HIDE DEF res
    <3>2. Bits(res, n) = Bits(old, n) \cap Bits(rhs, n)
      BY <3>1, <1>2, BitwiseResult
    <3> HIDE DEF new
    <3>3. IntegerResult(7, FALSE, old, rhs, new, n)
      BY <2>1, <3>2 DEF IntegerResult
    <3>4. AmoFacts(op, old, rhs, new, n)
      BY <2>4, <3>3, AmoBranches, Zenon
    <3> QED
      BY <3>4 DEF new, res
  <2> QED
    BY <1>5, <2>2, <2>3, <2>4
<1>6. CASE op \in {AMOMIN, AMOMAX, AMOMINU, AMOMAXU}
  <2>1. res \in {old, rhs}
    BY <1>6 DEF AmoResult
  <2>2. new = res
    <3> HIDE DEF res
    <3> QED
      BY <1>1, <2>1
  <2>3. CASE op \in {AMOMIN, AMOMAX}
    <3>1. res = IF op = AMOMIN THEN (IF so < sr THEN old ELSE rhs) ELSE (IF so > sr THEN old ELSE rhs)
      BY <2>3 DEF AmoResult
    <3> HIDE DEF res, so, sr, new
    <3>2. new \in {old, rhs}
          /\ \A y \in {old, rhs} : IF op = AMOMIN THEN Value(new, n) <= Value(y, n)
                                                  ELSE Value(new, n) >= Value(y, n)
      BY <1>2, <2>1, <2>2, <3>1
    <3>3. AmoFacts(op, old, rhs, new, n)
      BY <2>3, <3>2, AmoBranches, Zenon
    <3> QED
      BY <3>3 DEF new, res
  <2>4. CASE op \in {AMOMINU, AMOMAXU}
    <3>1. res = IF op = AMOMINU THEN (IF old < rhs THEN old ELSE rhs) ELSE (IF old > rhs THEN old ELSE rhs)
      BY <2>4 DEF AmoResult
    <3> HIDE DEF res, so, sr, new
    <3>2. new \in {old, rhs}
          /\ \A y \in {old, rhs} : IF op = AMOMINU THEN new <= y ELSE new >= y
      BY <2>1, <2>2, <3>1
    <3>3. AmoFacts(op, old, rhs, new, n)
      BY <2>4, <3>2, AmoBranches, Zenon
    <3> QED
      BY <3>3 DEF new, res
  <2> QED
    BY <1>6, <2>3, <2>4
<1> QED
  BY <1>3, <1>4, <1>5, <1>6 DEF AmoOps

\* What AmoCorrect says of an amo.
AtomicFacts(i) ==
    LET addr == cpu_read_reg(rs1(i))
        size == 2 ^ funct3(i)
        n == size * ByteBits
        old == Number(BytesAt(mem, addr, size))
        new == Number(BytesAt(mem', addr, size))
        rhs == Trunc(cpu_read_reg(rs2(i)), n)
    IN  InRam(addr, size) =>
           /\ rd(i) # 0 => Trunc(regs'[rd(i)], n) = old /\ SignFilled(regs'[rd(i)], n)
           /\ \A a \in RamAddr : a < addr \/ a >= addr + size => mem'[a] = mem[a]
           /\ AmoFacts(funct5(i), old, rhs, new, n)

\* Amo does what AmoCorrect says.
LEMMA Amos ==
    ASSUME StateOK, NEW i, dispatch_instruction(i), opcode(i) = AMO, phase' = "done"
    PROVE  AtomicFacts(i)
<1> DEFINE addr == cpu_read_reg(rs1(i))
           size == 2 ^ funct3(i)
           n    == size * ByteBits
           x    == cpu_read_reg(rs2(i))
           rhs  == Trunc(x, n)
           op   == funct5(i)
           d    == rd(i)
           old  == Number(BytesAt(mem, addr, size))
           new  == Number(BytesAt(mem', addr, size))
<1>1. dispatch_a_extension(i) /\ ~Raise
  BY ByOpcode DEF Raise
<1>2. op \in AmoOps /\ funct3(i) \in {2, 3} /\ Amo(i)
  BY <1>1, Zenon DEF dispatch_a_extension
<1>3. PICK v \in bus_read(addr, size) : /\ mem' = bus_write(addr, size, AmoResult(op, v, rhs, n))
                                        /\ cpu_write_reg(d, Extend(v, n))
  BY <1>1, <1>2, Zenon DEF Amo
<1>4. size \in Sizes
  <2>1. funct3(i) \in 0..3
    BY <1>2
  <2> QED
    BY <2>1, StoreSize
<1>5. n \in Nat /\ n >= 1 /\ n <= XLEN
  BY <1>4, SizeFacts
<1>6. addr \in Nat /\ x \in Int
  BY OperandsOK
<1>7. mem \in [RamAddr -> Byte] /\ regs \in [0..31 -> Word] /\ d \in 0..31
  BY FieldTypes DEF StateOK
<1> SUFFICES ASSUME InRam(addr, size)
             PROVE  /\ d # 0 => Trunc(regs'[d], n) = old /\ SignFilled(regs'[d], n)
                    /\ \A a \in RamAddr : a < addr \/ a >= addr + size => mem'[a] = mem[a]
                    /\ AmoFacts(op, old, rhs, new, n)
  BY Zenon DEF AtomicFacts
<1> HIDE DEF addr, size, x, op, d
<1>8. v \in Nat /\ v < 2 ^ n /\ v = mem_read(addr, size)
  BY <1>4, <1>6, <1>7, <1>3, ValidAccess, BusRead
<1>9. Bits(v, n) = BytesAt(mem, addr, size)
  BY <1>4, <1>6, <1>7, <1>8, ReadFacts
<1> HIDE DEF n
<1>10. old = v
  <2>1. Number(Bits(v, n)) = v % 2 ^ n
    <3>1. v \in Int
      BY <1>8
    <3> QED
      BY <3>1, <1>5, NumberBits
  <2>2. Trunc(v, n) = v
    BY <1>5, <1>8, TruncSmall
  <2> QED
    BY <1>9, <2>1, <2>2 DEF Trunc
<1>11. rhs \in Nat /\ rhs < 2 ^ n
  BY <1>5, <1>6, TruncType
<1> HIDE DEF rhs, old
<1> DEFINE res == AmoResult(op, v, rhs, n)
<1>12. res \in Nat
  BY <1>2, <1>5, <1>8, <1>11, AmoNat
<1>13. mem' = mem_write(addr, size, res)
  <2> HIDE DEF res
  <2> QED
    BY <1>3, <1>4, <1>6, <1>7, <1>12, BusWrite DEF res
<1>14. /\ BytesAt(mem', addr, size) = Bits(res, n)
       /\ \A a \in RamAddr : a < addr \/ a >= addr + size => mem'[a] = mem[a]
  <2> HIDE DEF res
  <2>1. /\ BytesAt(mem_write(addr, size, res), addr, size) = Bits(res, size * ByteBits)
        /\ \A a \in RamAddr : a < addr \/ a >= addr + size => mem_write(addr, size, res)[a] = mem[a]
    BY <1>4, <1>6, <1>7, <1>12, WriteFacts
  <2> QED
    BY <1>13, <2>1 DEF n
<1>15. new = Trunc(res, n)
  <2> HIDE DEF res
  <2>1. res \in Int
    BY <1>12
  <2>2. Number(Bits(res, n)) = res % 2 ^ n
    BY <2>1, <1>5, NumberBits
  <2> QED
    BY <1>14, <2>2 DEF Trunc
<1>16. AmoFacts(op, old, rhs, new, n)
  <2>1. AmoFacts(op, v, rhs, Trunc(res, n), n)
    BY <1>2, <1>5, <1>8, <1>11, AmoArithmetic
  <2> HIDE DEF res, new
  <2> QED
    BY <1>10, <1>15, <2>1
<1>17. d # 0 => Trunc(regs'[d], n) = old /\ SignFilled(regs'[d], n)
  <2> DEFINE w == Extend(v, n)
  <2>1. v \in Int
    BY <1>8
  <2>2. Delivers(w, v, n)
    BY <1>5, <2>1, ExtendDelivers
  <2>3. w \in Word /\ Trunc(w, n) = Trunc(v, n) /\ SignFilled(w, n)
    BY <2>2 DEF Delivers
  <2>4. Trunc(v, n) = v
    BY <1>5, <1>8, TruncSmall
  <2> HIDE DEF w
  <2>5. d # 0 => regs'[d] = w
    BY <1>3, <1>7, <2>3, WriteReg DEF w
  <2> QED
    BY <1>10, <2>3, <2>4, <2>5
<1> QED
  BY <1>14, <1>16, <1>17

\* The amos of a_extension.c leave the result of their operation in memory and
\* the old value, extended, in rd, also when rd is an operand.
THEOREM AmosCorrect == Spec => AmoCorrect
<1> DEFINE Right == opcode(raw') = AMO /\ phase' = "done" => AtomicFacts(raw')
<1>1. TypeInv /\ Next => Right
  <2> SUFFICES ASSUME TypeInv, Next PROVE Right
    OBVIOUS
  <2>1. PICK i \in InstructionWord : dispatch_instruction(i) /\ raw' = i
    BY NextInsn
  <2>2. StateOK
    BY NextInsn
  <2> QED
    BY <2>1, <2>2, Amos
<1>2. TypeInv /\ [Next]_vars => [Right]_vars
  BY <1>1
<1>3. AmoCorrect <=> [][Right]_vars
  BY DEF AmoCorrect, AtomicFacts, AmoFacts, Result
<1> QED
  BY <1>2, <1>3, TypeInvariant, PTL DEF Spec

---------------------------------------------------------------------------
(* Integer instructions.                                                   *)

\* The second operand and the width of an instruction.
SecondOf(i) == IF opcode(i) \in {OP, OP_32} THEN cpu_read_reg(rs2(i)) ELSE Trunc(immI(i), XLEN)

WidthOf(i)  == IF opcode(i) \in {OP, OP_IMM} THEN XLEN ELSE W

\* Which dispatcher computes the value of an arithmetic instruction.
LEMMA RunsR ==
    ASSUME StateOK, NEW i, dispatch_instruction(i)
    PROVE  LET a == cpu_read_reg(rs1(i))
               b == cpu_read_reg(rs2(i))
           IN  /\ opcode(i) = OP => Compute(i, IF funct7(i) = 1 THEN dispatch_m_op(i, a, b)
                                                                ELSE dispatch_op(i, a, b))
               /\ opcode(i) = OP_32 => Compute(i, IF funct7(i) = 1 THEN dispatch_m_op_32(i, a, b)
                                                                   ELSE dispatch_op_32(i, a, b))
               /\ opcode(i) = OP_IMM => Compute(i, dispatch_op_imm(i, a))
               /\ opcode(i) = OP_IMM_32 => Compute(i, dispatch_op_imm_32(i, a))
<1>1. /\ opcode(i) \in {OP, OP_32} => executeR(i)
      /\ opcode(i) \in {OP_IMM, OP_IMM_32} => OpImm(i)
  BY ByOpcode
<1>2. OP # OP_32 /\ OP_IMM # OP_IMM_32
  BY OpcodesDiffer
<1>3. OP_32 # OP /\ OP_IMM_32 # OP_IMM
  BY <1>2
<1> QED
  BY <1>1, <1>2, <1>3, Zenon DEF executeR, OpImm

\* The second operand and the width, opcode by opcode.
LEMMA OpcodeSets ==
    ASSUME NEW i
    PROVE  /\ opcode(i) = OP => SecondOf(i) = cpu_read_reg(rs2(i)) /\ WidthOf(i) = XLEN
           /\ opcode(i) = OP_32 => SecondOf(i) = cpu_read_reg(rs2(i)) /\ WidthOf(i) = W
           /\ opcode(i) = OP_IMM => /\ SecondOf(i) = Trunc(immI(i), XLEN) /\ WidthOf(i) = XLEN
                                    /\ opcode(i) \notin {OP, OP_32}
           /\ opcode(i) = OP_IMM_32 => /\ SecondOf(i) = Trunc(immI(i), XLEN) /\ WidthOf(i) = W
                                       /\ opcode(i) \notin {OP, OP_32}
<1>1. /\ OP # OP_32 /\ OP_IMM # OP_IMM_32
      /\ OP # OP_IMM_32 /\ OP # OP_IMM /\ OP_32 # OP_IMM /\ OP_32 # OP_IMM_32
  BY OpcodesDiffer
<1> QED
  BY <1>1 DEF SecondOf, WidthOf

\* An integer instruction computes a value as the instruction set defines it.
LEMMA IntegerValue ==
    ASSUME StateOK, NEW i, dispatch_instruction(i), IntegerInsn(i), ~Sraw(i)
    PROVE  \E r \in Word : /\ Compute(i, r)
                           /\ IntOK(funct3(i), Alternate(i), cpu_read_reg(rs1(i)), SecondOf(i),
                                    r, WidthOf(i))
<1> DEFINE a == cpu_read_reg(rs1(i))
           b == cpu_read_reg(rs2(i))
           alt == Alternate(i)
           Goal(r) == Compute(i, r) /\ IntOK(funct3(i), alt, a, SecondOf(i), r, WidthOf(i))
<1>1. a \in Word /\ b \in Word
  BY OperandsOK
<1>2. alt \in BOOLEAN
  BY DEF Alternate
<1>3. SUFFICES \E r : Goal(r)
  <2>1. \A r : Goal(r) => r \in Word
    BY DEF IntOK
  <2> QED
    BY <2>1, <1>3
<1>4. CASE opcode(i) = OP
  <2>1. funct7(i) = 0 \/ (funct7(i) = 32 /\ funct3(i) \in {0, 5})
    BY <1>4, OpcodesDiffer DEF IntegerInsn
  <2>2. alt <=> funct7(i) = 32
    BY <1>4 DEF Alternate
  <2>3. funct7(i) # 1
    BY <2>1
  <2>4. Compute(i, dispatch_op(i, a, b))
    BY <1>4, <2>3, RunsR
  <2> HIDE DEF a, b, alt
  <2>5. IntOK(funct3(i), alt, a, b, dispatch_op(i, a, b), XLEN)
    BY <1>1, <1>2, <2>1, <2>2, OpValue
  <2>6. Goal(dispatch_op(i, a, b))
    BY <1>4, <2>4, <2>5, OpcodeSets DEF b
  <2> QED
    BY <2>6
<1>5. CASE opcode(i) = OP_32
  <2>1. funct3(i) \in {0, 1, 5} /\ (funct7(i) = 0 \/ (funct7(i) = 32 /\ funct3(i) \in {0, 5}))
    BY <1>5, OpcodesDiffer DEF IntegerInsn
  <2>2. alt <=> funct7(i) = 32
    BY <1>5 DEF Alternate
  <2>3. funct7(i) # 1 /\ (funct7(i) = 0 \/ (funct7(i) = 32 /\ funct3(i) = 0))
    BY <1>5, <2>1 DEF Sraw
  <2>4. Compute(i, dispatch_op_32(i, a, b))
    BY <1>5, <2>3, RunsR
  <2> HIDE DEF a, b, alt
  <2>5. IntOK(funct3(i), alt, a, b, dispatch_op_32(i, a, b), W)
    BY <1>1, <1>2, <2>1, <2>2, <2>3, Op32Value
  <2>6. Goal(dispatch_op_32(i, a, b))
    BY <1>5, <2>4, <2>5, OpcodeSets DEF b
  <2> QED
    BY <2>6
<1>6. CASE opcode(i) = OP_IMM
  <2>0. opcode(i) \notin {OP, OP_32}
    BY <1>6, OpcodeSets
  <2>1. funct3(i) = 5 => funct7(i) \in {0, 1, 32, 33}
    BY <1>6, OpcodesDiffer DEF IntegerInsn, Shift
  <2>2. alt <=> funct3(i) = 5 /\ funct7(i) \in {32, 33}
    BY <2>0 DEF Alternate
  <2>4. Compute(i, dispatch_op_imm(i, a))
    BY <1>6, RunsR
  <2> HIDE DEF a, alt
  <2>5. IntOK(funct3(i), alt, a, Trunc(immI(i), XLEN), dispatch_op_imm(i, a), XLEN)
    BY <1>1, <1>2, <2>1, <2>2, OpImmValue
  <2>6. Goal(dispatch_op_imm(i, a))
    BY <1>6, <2>4, <2>5, OpcodeSets
  <2> QED
    BY <2>6
<1>7. CASE opcode(i) = OP_IMM_32
  <2>0. opcode(i) \notin {OP, OP_32}
    BY <1>7, OpcodeSets
  <2>1. \/ funct3(i) = 0
        \/ funct3(i) \in {1, 5} /\ funct7(i) = 0
        \/ funct3(i) = 5 /\ funct7(i) = 32
    BY <1>7, OpcodesDiffer DEF IntegerInsn, Shift
  <2>2. alt <=> funct3(i) = 5 /\ funct7(i) \in {32, 33}
    BY <2>0 DEF Alternate
  <2>4. Compute(i, dispatch_op_imm_32(i, a))
    BY <1>7, RunsR
  <2> HIDE DEF a, alt
  <2>5. IntOK(funct3(i), alt, a, Trunc(immI(i), XLEN), dispatch_op_imm_32(i, a), W)
    BY <1>1, <1>2, <2>1, <2>2, OpImm32Value
  <2>6. Goal(dispatch_op_imm_32(i, a))
    BY <1>7, <2>4, <2>5, OpcodeSets
  <2> QED
    BY <2>6
<1> QED
  BY <1>4, <1>5, <1>6, <1>7 DEF IntegerInsn

\* The instructions of op.c, op_32.c, op_imm.c and op_imm_32.c, sraw apart, give
\* the results that the instruction set defines, for all operands: wrap-around,
\* both orders, every shift amount, and the sign extension of word results.
THEOREM IntegersCorrect == Spec => IntegerOpsCorrect
<1> DEFINE i == raw'
           Right == IntegerInsn(i) /\ ~Sraw(i) =>
                       /\ phase' = "done"
                       /\ rd(i) # 0 =>
                             /\ IntegerResult(funct3(i), Alternate(i),
                                              Trunc(cpu_read_reg(rs1(i)), WidthOf(i)),
                                              Trunc(SecondOf(i), WidthOf(i)),
                                              Trunc(regs'[rd(i)], WidthOf(i)), WidthOf(i))
                             /\ SignFilled(regs'[rd(i)], WidthOf(i))
<1>1. TypeInv /\ Next => Right
  <2> SUFFICES ASSUME TypeInv, Next, IntegerInsn(i), ~Sraw(i) PROVE Right
    OBVIOUS
  <2>1. StateOK /\ dispatch_instruction(i)
    BY NextInsn
  <2>2. PICK r \in Word : /\ Compute(i, r)
                          /\ IntOK(funct3(i), Alternate(i), cpu_read_reg(rs1(i)), SecondOf(i),
                                   r, WidthOf(i))
    BY <2>1, IntegerValue
  <2>3. r # Illegal
    BY WordFacts
  <2>4. Wrote(i) /\ (rd(i) # 0 => regs'[rd(i)] = r)
    BY <2>1, <2>2, <2>3, ComputeCases
  <2> HIDE DEF i
  <2> QED
    BY <2>2, <2>4 DEF IntOK, Wrote
<1>2. TypeInv /\ [Next]_vars => [Right]_vars
  BY <1>1
<1>3. IntegerOpsCorrect <=> [][Right]_vars
  BY DEF IntegerOpsCorrect, IntegerSpec, SecondOf, WidthOf, Operand2, Width, Result
<1> QED
  BY <1>2, <1>3, TypeInvariant, PTL DEF Spec

---------------------------------------------------------------------------
(* Products and quotients.                                                 *)

\* The instructions that MulDivCorrect is about.
MulDivInsn(i) == /\ opcode(i) \in {OP, OP_32} /\ funct7(i) = 1
                 /\ opcode(i) = OP_32 => funct3(i) \notin {1, 2, 3}

\* They compute a value as the instruction set defines it.
LEMMA MulDivValue ==
    ASSUME StateOK, NEW i, dispatch_instruction(i), MulDivInsn(i)
    PROVE  \E r \in Word : /\ Compute(i, r)
                           /\ MulOK(funct3(i), cpu_read_reg(rs1(i)), SecondOf(i), r, WidthOf(i))
<1> DEFINE a == cpu_read_reg(rs1(i))
           b == cpu_read_reg(rs2(i))
           Goal(r) == Compute(i, r) /\ MulOK(funct3(i), a, SecondOf(i), r, WidthOf(i))
<1>1. a \in Word /\ b \in Word
  BY OperandsOK
<1>2. SUFFICES \E r : Goal(r)
  <2>1. \A r : Goal(r) => r \in Word
    BY DEF MulOK
  <2> QED
    BY <2>1, <1>2
<1>3. CASE opcode(i) = OP
  <2>1. Compute(i, dispatch_m_op(i, a, b))
    BY <1>3, RunsR DEF MulDivInsn
  <2> HIDE DEF a, b
  <2>2. MulOK(funct3(i), a, b, dispatch_m_op(i, a, b), XLEN)
    BY <1>1, MopValue
  <2>3. Goal(dispatch_m_op(i, a, b))
    BY <1>3, <2>1, <2>2, OpcodeSets DEF b
  <2> QED
    BY <2>3
<1>4. CASE opcode(i) = OP_32
  <2>1. Compute(i, dispatch_m_op_32(i, a, b)) /\ funct3(i) \notin {1, 2, 3}
    BY <1>4, RunsR DEF MulDivInsn
  <2> HIDE DEF a, b
  <2>2. MulOK(funct3(i), a, b, dispatch_m_op_32(i, a, b), W)
    BY <1>1, <2>1, Mop32Value
  <2>3. Goal(dispatch_m_op_32(i, a, b))
    BY <1>4, <2>1, <2>2, OpcodeSets DEF b
  <2> QED
    BY <2>3
<1> QED
  BY <1>3, <1>4 DEF MulDivInsn

\* The instructions of m_extension.c give the products, upper halves, quotients
\* and remainders that the instruction set defines, for all operands, with
\* division by zero and the one division that overflows, at both widths.
THEOREM ProductsAndQuotientsCorrect == Spec => MulDivCorrect
<1> DEFINE i == raw'
           Right == MulDivInsn(i) =>
                       /\ phase' = "done"
                       /\ rd(i) # 0 =>
                             /\ MulDivResult(funct3(i), Trunc(cpu_read_reg(rs1(i)), WidthOf(i)),
                                             Trunc(SecondOf(i), WidthOf(i)),
                                             Trunc(regs'[rd(i)], WidthOf(i)), WidthOf(i))
                             /\ SignFilled(regs'[rd(i)], WidthOf(i))
<1>1. TypeInv /\ Next => Right
  <2> SUFFICES ASSUME TypeInv, Next, MulDivInsn(i) PROVE Right
    OBVIOUS
  <2>1. StateOK /\ dispatch_instruction(i)
    BY NextInsn
  <2>2. PICK r \in Word : /\ Compute(i, r)
                          /\ MulOK(funct3(i), cpu_read_reg(rs1(i)), SecondOf(i), r, WidthOf(i))
    BY <2>1, MulDivValue
  <2>3. r # Illegal
    BY WordFacts
  <2>4. Wrote(i) /\ (rd(i) # 0 => regs'[rd(i)] = r)
    BY <2>1, <2>2, <2>3, ComputeCases
  <2> HIDE DEF i
  <2> QED
    BY <2>2, <2>4 DEF MulOK, Wrote
<1>2. TypeInv /\ [Next]_vars => [Right]_vars
  BY <1>1
<1>3. MulDivCorrect <=> [][Right]_vars
  BY DEF MulDivCorrect, MulDivInsn, SecondOf, WidthOf, Operand2, Width, Result
<1> QED
  BY <1>2, <1>3, TypeInvariant, PTL DEF Spec
===============================================================================
