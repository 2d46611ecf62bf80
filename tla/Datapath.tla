------------------------------ MODULE Datapath ------------------------------
(***************************************************************************)
(* What one instruction does to the registers, the pc and the memory: the  *)
(* dispatchers under src/src/cpu/instructions/dispatchers, cpu_read_reg    *)
(* and cpu_write_reg of cpu.c, and below them the bus (memory/bus.c) and   *)
(* the RAM (memory/memory.c).                                              *)
(*                                                                         *)
(* A byte has ByteBits bits (8 in the code) and a register has 8 bytes, so *)
(* that every width, shift amount and boundary of the code scales with it. *)
(* Instructions are real 32-bit words, read by module Decoder.  Addresses  *)
(* are physical (module Paging translates); SYSTEM instructions and traps  *)
(* are in module Hart, lr and sc in module Paging, and the registers of    *)
(* the devices in Clint and Uart: here a device is what it is asked for.   *)
(***************************************************************************)
EXTENDS Decoder, Sequences

CONSTANTS ByteBits,
          RAM_BASE, RAM_SIZE, UART_BASE, UART_SIZE, TIMER_BASE, TIMER_SIZE,
          DeviceWords,   \* what a device may answer
          Cases          \* [name -> [insns, x1, x2, pc, ram]], sets of each

XLEN == 8 * ByteBits
W    == 4 * ByteBits
Word == 0..(2 ^ XLEN - 1)
Byte == 0..(2 ^ ByteBits - 1)
RamAddr == RAM_BASE..(RAM_BASE + RAM_SIZE - 1)

ASSUME DatapathAssumption ==
    /\ ByteBits \in Nat \ {0} /\ \E e \in 0..ByteBits : ByteBits = 2 ^ e
    /\ {RAM_BASE, RAM_SIZE, RAM_BASE + RAM_SIZE, UART_BASE, UART_SIZE, UART_BASE + UART_SIZE,
        TIMER_BASE, TIMER_SIZE, TIMER_BASE + TIMER_SIZE} \subseteq Word
    /\ RAM_SIZE >= 8
    /\ DeviceWords \subseteq Word
    /\ \A c \in DOMAIN Cases :
          /\ Cases[c].insns \subseteq InstructionWord
          /\ Cases[c].x1 \cup Cases[c].x2 \cup Cases[c].pc \subseteq Word
          /\ Cases[c].ram \subseteq [RamAddr -> Byte]

VARIABLES case,     \* the case that runs
          phase,    \* "ready", then "done", or "trap" after raise_exception
          raw,      \* the instruction that ran
          regs, pc, \* cpu_t
          mem,      \* memory_t
          device    \* the requests the bus has forwarded to the devices

vars == <<case, phase, raw, regs, pc, mem, device>>

---------------------------------------------------------------------------
(* C integers: a value of n bits is a number below 2^n.                    *)

Trunc(x, n)  == x % 2 ^ n
Signed(x, n) == sign_extend(Trunc(x, n), n)
Extend(x, n) == Trunc(Signed(x, n), XLEN)      \* sign_extend to a register
Bool(b)      == IF b THEN 1 ELSE 0

\* Bit k of x, and the operators ^, | and & on registers.
Digit(x, k)  == (x \div 2 ^ k) % 2
BitXor(a, b) == Number({k \in 0..(XLEN - 1) : Digit(a, k) # Digit(b, k)})
BitOr(a, b)  == Number({k \in 0..(XLEN - 1) : Digit(a, k) = 1 \/ Digit(b, k) = 1})
BitAnd(a, b) == Number({k \in 0..(XLEN - 1) : Digit(a, k) = 1 /\ Digit(b, k) = 1})

Abs(x) == IF x < 0 THEN -x ELSE x
\* Mutant: the division rounds down.
DivFloors(a, b) == IF b > 0 THEN a \div b ELSE (-a) \div (-b)
\* a / b and a % b: they round towards zero.
Div(a, b) == LET q == Abs(a) \div Abs(b) IN IF (a < 0) = (b < 0) THEN q ELSE -q
Rem(a, b) == a - b * Div(a, b)

\* Results that are no value: no register is written; raise_exception.
NoWrite == -1
Illegal == -2

---------------------------------------------------------------------------
(* The arithmetic dispatchers, on the values of rs1 and rs2.               *)

dispatch_m_op(i, a, b) ==
    LET sa == Signed(a, XLEN)
        sb == Signed(b, XLEN)
        overflow == sa = -(2 ^ (XLEN - 1)) /\ sb = -1
    IN  CASE funct3(i) = 0 -> Trunc(a * b, XLEN)
          [] funct3(i) = 1 -> Trunc((sa * sb) \div 2 ^ XLEN, XLEN)
          [] funct3(i) = 2 -> Trunc((sa * b) \div 2 ^ XLEN, XLEN)
          [] funct3(i) = 3 -> Trunc((a * b) \div 2 ^ XLEN, XLEN)
          [] funct3(i) = 4 -> IF overflow THEN a
                              ELSE IF b = 0 THEN 2 ^ XLEN - 1 ELSE Trunc(Div(sa, sb), XLEN)
          [] funct3(i) = 5 -> IF b = 0 THEN 2 ^ XLEN - 1 ELSE a \div b
          [] funct3(i) = 6 -> IF overflow THEN 0
                              ELSE IF b = 0 THEN a ELSE Trunc(Rem(sa, sb), XLEN)
          [] funct3(i) = 7 -> IF b = 0 THEN a ELSE a % b

dispatch_m_op_32(i, a, b) ==
    LET ua == Trunc(a, W)
        ub == Trunc(b, W)
        sa == Signed(a, W)
        sb == Signed(b, W)
        overflow == sa = -(2 ^ (W - 1)) /\ sb = -1
    IN  CASE funct3(i) = 0 -> Extend(sa * sb, W)
          [] funct3(i) = 4 -> IF overflow THEN Extend(sa, W)
                              ELSE IF sb = 0 THEN 2 ^ XLEN - 1 ELSE Extend(Div(sa, sb), W)
          [] funct3(i) = 5 -> IF ub = 0 THEN 2 ^ XLEN - 1 ELSE Extend(ua \div ub, W)
          [] funct3(i) = 6 -> IF overflow THEN 0
                              ELSE IF sb = 0 THEN Extend(sa, W) ELSE Extend(Rem(sa, sb), W)
          [] funct3(i) = 7 -> IF ub = 0 THEN Extend(ua, W) ELSE Extend(ua % ub, W)
          [] OTHER         -> Illegal

\* add and sub, srl and sra: told apart by funct7; any other funct7 returns
\* without a result and without an exception.
ByFunct7(i, r0, r32) == CASE funct7(i) = 0  -> r0
                          [] funct7(i) = 32 -> r32
                          [] OTHER          -> NoWrite

dispatch_op(i, a, b) ==
    LET shamt == b % XLEN
    IN  CASE funct3(i) = 0 -> ByFunct7(i, Trunc(a + b, XLEN), Trunc(a - b, XLEN))
          [] funct3(i) = 1 -> Trunc(a * 2 ^ shamt, XLEN)
          [] funct3(i) = 2 -> Bool(Signed(a, XLEN) < Signed(b, XLEN))
          [] funct3(i) = 3 -> Bool(a < b)
          [] funct3(i) = 4 -> BitXor(a, b)
          [] funct3(i) = 5 -> ByFunct7(i, a \div 2 ^ shamt,
                                       Trunc(Signed(a, XLEN) \div 2 ^ shamt, XLEN))
          [] funct3(i) = 6 -> BitOr(a, b)
          [] funct3(i) = 7 -> BitAnd(a, b)

\* sraw masks its shift amount with 0xF, the others with 0x1F.
dispatch_op_32(i, a, b) ==
    LET shamt == b % W
    IN  CASE funct3(i) = 0 -> ByFunct7(i, Extend(a + b, W), Extend(a - b, W))
          [] funct3(i) = 1 -> Extend(Trunc(a, W) * 2 ^ shamt, W)
          [] funct3(i) = 5 -> ByFunct7(i, Extend(Trunc(a, W) \div 2 ^ shamt, W),
                                       Extend(Signed(a, W) \div 2 ^ (b % (W \div 2)), W))
          [] OTHER         -> Illegal

\* Mutant: the shift amount of RV32, one bit shorter.
ByImm32(i, r0, r16) == CASE immI(i) \div 32 = 32 -> r16
                         [] immI(i) \div 32 = 0  -> r0
                         [] OTHER                -> Illegal
\* srli and srai, srliw and sraiw: told apart by imm >> 6.
ByImm(i, r0, r16) == CASE immI(i) \div 64 = 16 -> r16
                       [] immI(i) \div 64 = 0  -> r0
                       [] OTHER                -> Illegal

dispatch_op_imm(i, a) ==
    LET imm == immI(i)
        b == Trunc(imm, XLEN)
        shamt == imm % XLEN
    IN  CASE funct3(i) = 0 -> Trunc(a + imm, XLEN)
          [] funct3(i) = 1 -> Trunc(a * 2 ^ shamt, XLEN)
          [] funct3(i) = 2 -> Bool(Signed(a, XLEN) < Signed(b, XLEN))
          [] funct3(i) = 3 -> Bool(a < b)
          [] funct3(i) = 4 -> BitXor(a, b)
          [] funct3(i) = 5 -> ByImm(i, a \div 2 ^ shamt,
                                    Trunc(Signed(a, XLEN) \div 2 ^ shamt, XLEN))
          [] funct3(i) = 6 -> BitOr(a, b)
          [] funct3(i) = 7 -> BitAnd(a, b)

dispatch_op_imm_32(i, a) ==
    LET imm == immI(i)
        shamt == imm % W
    IN  CASE funct3(i) = 0 -> Extend(a + imm, W)
          [] funct3(i) = 1 -> Extend(Trunc(a, W) * 2 ^ shamt, W)
          [] funct3(i) = 5 -> ByImm(i, Extend(Trunc(a, W) \div 2 ^ shamt, W),
                                    Extend(Signed(a, W) \div 2 ^ shamt, W))
          [] OTHER         -> Illegal

---------------------------------------------------------------------------
(* RAM and the bus.  Only the first byte of an access picks its target.    *)

\* Mutant: the byte behind a window belongs to it.
InRangeInclusive(addr, base, size) == addr >= base /\ addr - base <= size
addr_in_range(addr, base, size) == addr >= base /\ addr - base < size

\* Mutant: the last place an access fits in is refused.
LastPlaceRefused(addr, size) == addr >= RAM_BASE /\ addr - RAM_BASE < RAM_SIZE - size
valid_access(addr, size) == addr >= RAM_BASE /\ addr - RAM_BASE <= RAM_SIZE - size

\* mem_read8 .. mem_read64 and mem_write8 .. mem_write64: little-endian.
mem_read(addr, size) ==
    IF valid_access(addr, size)
    THEN SumFunction([k \in 0..(size - 1) |-> mem[addr + k] * 2 ^ (k * ByteBits)])
    ELSE 0
mem_write(addr, size, v) ==
    IF valid_access(addr, size)
    THEN [a \in RamAddr |->
             IF addr <= a /\ a < addr + size
             THEN Trunc(v \div 2 ^ ((a - addr) * ByteBits), ByteBits)
             ELSE mem[a]]
    ELSE mem

\* The windows are tried in this order.
Region(addr) ==
    IF addr_in_range(addr, RAM_BASE, RAM_SIZE) THEN "ram"
    ELSE IF addr_in_range(addr, UART_BASE, UART_SIZE) THEN "uart"
    ELSE IF addr_in_range(addr, TIMER_BASE, TIMER_SIZE) THEN "timer"
    ELSE "none"

\* The widths a device takes; the bus answers the others itself.
Forwarded(addr, size) == \/ Region(addr) = "uart" /\ size = 1
                         \/ Region(addr) = "timer" /\ size \in {4, 8}
Base(addr) == IF Region(addr) = "uart" THEN UART_BASE ELSE TIMER_BASE
Request(kind, addr, size) ==
    IF Forwarded(addr, size)
    THEN <<[kind |-> kind, to |-> Region(addr), offset |-> addr - Base(addr), size |-> size]>>
    ELSE <<>>

\* vm_bus_read8 .. vm_bus_read64: the values a read may give.
bus_read(addr, size) ==
    CASE Region(addr) = "ram"   -> {mem_read(addr, size)}
      [] Forwarded(addr, size)  -> {Trunc(v, size * ByteBits) : v \in DeviceWords}
      [] OTHER                  -> {0}

\* vm_bus_write8 .. vm_bus_write64: what they leave in RAM.
bus_write(addr, size, v) ==
    IF Region(addr) = "ram" THEN mem_write(addr, size, v) ELSE mem

---------------------------------------------------------------------------
(* The instructions.                                                       *)

cpu_read_reg(n) == IF n = 0 THEN 0 ELSE regs[n]

\* Mutant: register 0 is a register like the others.
WriteAnyRegister(n, v) == regs' = [regs EXCEPT ![n] = v]
cpu_write_reg(n, v) == regs' = IF n = 0 THEN regs ELSE [regs EXCEPT ![n] = v]

increment_pc == pc' = Trunc(pc + 4, XLEN)

Raise == /\ phase' = "trap"
         /\ UNCHANGED <<regs, pc, mem, device>>

\* An instruction that computes r.
Compute(i, r) ==
    \/ r = Illegal /\ Raise
    \/ /\ r # Illegal
       /\ phase' = "done"
       /\ IF r = NoWrite THEN UNCHANGED regs ELSE cpu_write_reg(rd(i), r)
       /\ increment_pc
       /\ UNCHANGED <<mem, device>>

executeR(i) ==
    LET a == cpu_read_reg(rs1(i))
        b == cpu_read_reg(rs2(i))
    IN  \/ /\ opcode(i) = OP
           /\ Compute(i, IF funct7(i) = 1 THEN dispatch_m_op(i, a, b) ELSE dispatch_op(i, a, b))
        \/ /\ opcode(i) = OP_32
           /\ Compute(i, IF funct7(i) = 1 THEN dispatch_m_op_32(i, a, b)
                                          ELSE dispatch_op_32(i, a, b))

OpImm(i) ==
    LET a == cpu_read_reg(rs1(i))
    IN  \/ opcode(i) = OP_IMM    /\ Compute(i, dispatch_op_imm(i, a))
        \/ opcode(i) = OP_IMM_32 /\ Compute(i, dispatch_op_imm_32(i, a))

\* fence and fence.i do nothing; fence.i wants its other fields 0.
MiscMem(i) ==
    /\ opcode(i) = MISC_MEM
    /\ Compute(i, IF \/ funct3(i) = 0
                     \/ funct3(i) = 1 /\ rd(i) = 0 /\ rs1(i) = 0 /\ immI(i) = 0
                  THEN NoWrite ELSE Illegal)

executeU(i) ==
    \/ opcode(i) = LUI   /\ Compute(i, Trunc(immU(i), XLEN))
    \/ opcode(i) = AUIPC /\ Compute(i, Trunc(pc + immU(i), XLEN))

\* jal, and jalr, which reads rs1 before it writes the link to rd.
GoTo(target, i) ==
    /\ phase' = "done"
    /\ cpu_write_reg(rd(i), Trunc(pc + 4, XLEN))
    /\ pc' = target
    /\ UNCHANGED <<mem, device>>
Jump(i) ==
    \/ opcode(i) = JAL /\ GoTo(Trunc(pc + immJ(i), XLEN), i)
    \/ /\ opcode(i) = JALR
       /\ LET addr == Trunc(immI(i) + cpu_read_reg(rs1(i)), XLEN)
          IN  GoTo(addr - (addr % 2), i)

\* Mutant: blt and bge compare unsigned.
BranchUnsigned(f3, a, b) == CASE f3 = 0 -> a = b
                              [] f3 = 1 -> a # b
                              [] f3 \in {4, 6} -> a < b
                              [] f3 \in {5, 7} -> a >= b
Taken(f3, a, b) == CASE f3 = 0 -> a = b
                     [] f3 = 1 -> a # b
                     [] f3 = 4 -> Signed(a, XLEN) < Signed(b, XLEN)
                     [] f3 = 5 -> Signed(a, XLEN) >= Signed(b, XLEN)
                     [] f3 = 6 -> a < b
                     [] f3 = 7 -> a >= b

dispatch_branch(i) ==
    /\ opcode(i) = BRANCH
    /\ \/ funct3(i) \in {2, 3} /\ Raise
       \/ /\ funct3(i) \notin {2, 3}
          /\ phase' = "done"
          /\ IF Taken(funct3(i), cpu_read_reg(rs1(i)), cpu_read_reg(rs2(i)))
             THEN pc' = Trunc(pc + immB(i), XLEN)
             ELSE increment_pc
          /\ UNCHANGED <<regs, mem, device>>

dispatch_load(i) ==
    LET addr == Trunc(immI(i) + cpu_read_reg(rs1(i)), XLEN)
        size == 2 ^ (funct3(i) % 4)
    IN  /\ opcode(i) = LOAD
        /\ \/ funct3(i) = 7 /\ Raise
           \/ /\ funct3(i) # 7
              /\ phase' = "done"
              /\ \E v \in bus_read(addr, size) :
                    cpu_write_reg(rd(i), IF funct3(i) < 3 THEN Extend(v, size * ByteBits) ELSE v)
              /\ device' = device \o Request("read", addr, size)
              /\ increment_pc
              /\ UNCHANGED mem

dispatch_store(i) ==
    LET addr == Trunc(cpu_read_reg(rs1(i)) + immS(i), XLEN)
        size == 2 ^ funct3(i)
        value == Trunc(cpu_read_reg(rs2(i)), size * ByteBits)
    IN  /\ opcode(i) = STORE
        /\ \/ funct3(i) > 3 /\ Raise
           \/ /\ funct3(i) <= 3
              /\ phase' = "done"
              /\ mem' = bus_write(addr, size, value)
              /\ device' = device \o Request("write", addr, size)
              /\ increment_pc
              /\ UNCHANGED regs

AMOADD  == 0
AMOSWAP == 1
LR      == 2
SC      == 3
AMOXOR  == 4
AMOOR   == 8
AMOAND  == 12
AMOMIN  == 16
AMOMAX  == 20
AMOMINU == 24
AMOMAXU == 28
AmoOps  == {AMOADD, AMOSWAP, AMOXOR, AMOOR, AMOAND, AMOMIN, AMOMAX, AMOMINU, AMOMAXU}

\* Mutant: the signed minimum and maximum compare unsigned.
AmoUnsigned(op, old, rhs, n) ==
    CASE op = AMOSWAP -> rhs
      [] op = AMOADD  -> Trunc(old + rhs, n)
      [] op = AMOXOR  -> BitXor(old, rhs)
      [] op = AMOAND  -> BitAnd(old, rhs)
      [] op = AMOOR   -> BitOr(old, rhs)
      [] op \in {AMOMIN, AMOMINU} -> IF old < rhs THEN old ELSE rhs
      [] op \in {AMOMAX, AMOMAXU} -> IF old > rhs THEN old ELSE rhs
AmoResult(op, old, rhs, n) ==
    CASE op = AMOSWAP -> rhs
      [] op = AMOADD  -> Trunc(old + rhs, n)
      [] op = AMOXOR  -> BitXor(old, rhs)
      [] op = AMOAND  -> BitAnd(old, rhs)
      [] op = AMOOR   -> BitOr(old, rhs)
      [] op = AMOMIN  -> IF Signed(old, n) < Signed(rhs, n) THEN old ELSE rhs
      [] op = AMOMAX  -> IF Signed(old, n) > Signed(rhs, n) THEN old ELSE rhs
      [] op = AMOMINU -> IF old < rhs THEN old ELSE rhs
      [] op = AMOMAXU -> IF old > rhs THEN old ELSE rhs

\* amo_w and amo_d; rd gets the old value after memory got the new one.
Amo(i) ==
    LET addr == cpu_read_reg(rs1(i))
        size == 2 ^ funct3(i)
        n    == size * ByteBits
        rhs  == Trunc(cpu_read_reg(rs2(i)), n)
    IN  \/ addr % size # 0 /\ Raise
        \/ /\ addr % size = 0
           /\ phase' = "done"
           /\ \E old \in bus_read(addr, size) :
                 /\ mem' = bus_write(addr, size, AmoResult(funct5(i), old, rhs, n))
                 /\ cpu_write_reg(rd(i), Extend(old, n))
           /\ device' = device \o Request("read", addr, size) \o Request("write", addr, size)
           /\ increment_pc

dispatch_a_extension(i) ==
    /\ opcode(i) = AMO
    /\ IF funct5(i) \in AmoOps /\ funct3(i) \in {2, 3} THEN Amo(i) ELSE Raise

Opcodes == {LUI, AUIPC, JAL, JALR, LOAD, OP_IMM, SYSTEM, MISC_MEM, OP_IMM_32, BRANCH,
            STORE, OP, OP_32, AMO}
IllegalOpcode(i) == opcode(i) \notin Opcodes /\ Raise

\* The instructions left to the modules Hart and Paging.
Elsewhere(i) == \/ opcode(i) = SYSTEM
                \/ opcode(i) = AMO /\ funct5(i) \in {LR, SC} /\ funct3(i) \in {2, 3}

dispatch_instruction(i) ==
    /\ phase = "ready"
    /\ ~Elsewhere(i)
    /\ raw' = i
    /\ UNCHANGED case
    /\ \/ executeR(i) \/ OpImm(i) \/ MiscMem(i) \/ executeU(i) \/ Jump(i)
       \/ dispatch_branch(i) \/ dispatch_load(i) \/ dispatch_store(i)
       \/ dispatch_a_extension(i) \/ IllegalOpcode(i)

\* Any registers the program has prepared.
Init ==
    /\ case \in DOMAIN Cases
    /\ phase = "ready"
    /\ raw = {}
    /\ \E a \in Cases[case].x1, b \in Cases[case].x2 :
          regs = [n \in 0..31 |-> IF n = 1 THEN a ELSE IF n = 2 THEN b ELSE 0]
    /\ pc \in Cases[case].pc
    /\ mem \in Cases[case].ram
    /\ device = <<>>

Next == \E i \in Cases[case].insns : dispatch_instruction(i)

Spec == Init /\ [][Next]_vars

---------------------------------------------------------------------------
(* The instruction set: each operation by what it means for the bits or    *)
(* the numbers that the registers hold.                                    *)

Bits(x, n)    == {k \in 0..(n - 1) : Digit(x, k) = 1}
Value(x, n)   == Number(Bits(x, n - 1)) - (IF n - 1 \in Bits(x, n) THEN 2 ^ (n - 1) ELSE 0)
Congruent(x, y, n) == (x - y) % 2 ^ n = 0

\* r is the n-bit result of the operation funct3 names, alt its second form.
IntegerResult(f3, alt, a, b, r, n) ==
    LET A == Bits(a, n)
        B == Bits(b, n)
        R == Bits(r, n)
        s == b % n
    IN  CASE f3 = 0 -> Congruent(r, IF alt THEN a - b ELSE a + b, n)
          [] f3 = 1 -> R = {k + s : k \in A} \cap 0..(n - 1)
          [] f3 = 2 -> (r = 1 /\ Value(a, n) < Value(b, n)) \/ (r = 0 /\ Value(a, n) >= Value(b, n))
          [] f3 = 3 -> (r = 1 /\ Number(A) < Number(B)) \/ (r = 0 /\ Number(A) >= Number(B))
          [] f3 = 4 -> R = (A \cup B) \ (A \cap B)
          [] f3 = 5 -> R = {k \in 0..(n - 1) : \/ k + s \in A
                                               \/ alt /\ k + s >= n /\ n - 1 \in A}
          [] f3 = 6 -> R = A \cup B
          [] f3 = 7 -> R = A \cap B

\* hi is the upper half of the 2n-bit product p, as a number.
UpperHalf(hi, p, n) == hi * 2 ^ n <= p /\ p < (hi + 1) * 2 ^ n

\* q is a divided by b: what is left over is smaller than b and has a's sign.
Quotient(q, a, b) == LET left == a - q * b
                     IN  Abs(left) < Abs(b) /\ (left = 0 \/ (left < 0) = (a < 0))
Divides(b, x) == x % Abs(b) = 0

MulDivResult(f3, a, b, r, n) ==
    LET sa == Value(a, n)
        sb == Value(b, n)
        sr == Value(r, n)
        lowest == -(2 ^ (n - 1))
    IN  CASE f3 = 0 -> Congruent(r, a * b, n)
          [] f3 = 1 -> UpperHalf(sr, sa * sb, n)
          [] f3 = 2 -> UpperHalf(sr, sa * b, n)
          [] f3 = 3 -> UpperHalf(r, a * b, n)
          [] f3 = 4 -> IF b = 0 THEN sr = -1
                       ELSE IF sa = lowest /\ sb = -1 THEN sr = lowest ELSE Quotient(sr, sa, sb)
          [] f3 = 5 -> IF b = 0 THEN r = 2 ^ n - 1 ELSE Quotient(r, a, b)
          [] f3 = 6 -> IF b = 0 THEN r = a
                       ELSE /\ Abs(sr) < Abs(sb)
                            /\ sr = 0 \/ (sr < 0) = (sa < 0)
                            /\ Divides(sb, sa - sr)
          [] f3 = 7 -> IF b = 0 THEN r = a ELSE r < b /\ Divides(b, a - r)

\* The operand of a register or an immediate instruction that has run, and its
\* result.
Operand2 == IF opcode(raw') \in {OP, OP_32} THEN cpu_read_reg(rs2(raw'))
                                            ELSE Trunc(immI(raw'), XLEN)
Width    == IF opcode(raw') \in {OP, OP_IMM} THEN XLEN ELSE W
Result   == regs'[rd(raw')]

\* The upper bits of r repeat the top bit of its low n bits.
SignFilled(r, n) == \A k \in n..(XLEN - 1) : k \in Bits(r, XLEN) <=> n - 1 \in Bits(r, XLEN)

\* The encodings the instruction set assigns a meaning to.
Shift(i) == funct3(i) \in {1, 5}
IntegerInsn(i) ==
    \/ opcode(i) = OP /\ (funct7(i) = 0 \/ (funct7(i) = 32 /\ funct3(i) \in {0, 5}))
    \/ opcode(i) = OP_32 /\ funct3(i) \in {0, 1, 5}
                         /\ (funct7(i) = 0 \/ (funct7(i) = 32 /\ funct3(i) \in {0, 5}))
    \/ opcode(i) = OP_IMM /\ (~Shift(i) \/ funct7(i) \in {0, 1}
                                        \/ (funct3(i) = 5 /\ funct7(i) \in {32, 33}))
    \/ opcode(i) = OP_IMM_32 /\ (funct3(i) = 0 \/ (Shift(i) /\ funct7(i) = 0)
                                               \/ (funct3(i) = 5 /\ funct7(i) = 32))
Alternate(i) == IF opcode(i) \in {OP, OP_32} THEN funct7(i) = 32
                ELSE funct3(i) = 5 /\ funct7(i) \in {32, 33}
Sraw(i) == opcode(i) = OP_32 /\ funct3(i) = 5 /\ funct7(i) = 32

\* Everything that must hold of the result of an integer instruction.
IntegerSpec ==
    /\ phase' = "done"
    /\ rd(raw') # 0 =>
          /\ IntegerResult(funct3(raw'), Alternate(raw'), Trunc(cpu_read_reg(rs1(raw')), Width),
                           Trunc(Operand2, Width), Trunc(Result, Width), Width)
          /\ SignFilled(Result, Width)

---------------------------------------------------------------------------
(* Properties.                                                             *)

\* Registers, pc and memory keep their widths: no operation lets a carry, a
\* sign or a device's answer out of the register or the byte it belongs to.
DatapathTypeOK ==
    /\ phase \in {"ready", "done", "trap"}
    /\ regs \in [0..31 -> Word]
    /\ pc \in Word
    /\ mem \in [RamAddr -> Byte]
    /\ \A k \in DOMAIN device :
          device[k].offset < (IF device[k].to = "uart" THEN UART_SIZE ELSE TIMER_SIZE)

\* The five immediates decodeI, decodeS, decodeB, decodeU and decodeJ assemble
\* are the ones the instruction formats define.
ImmediatesExact == ImmediatesMatch(raw)

\* The instructions of op.c, op_32.c, op_imm.c and op_imm_32.c, sraw apart:
\* wrap-around, signed and unsigned order, shift amounts up to the width, and
\* the sign extension of word results.
IntegerOpsCorrect == [][IntegerInsn(raw') /\ ~Sraw(raw') => IntegerSpec]_vars

\* The instructions of m_extension.c: the high halves of the four products,
\* division by zero and the one division that overflows, at both widths.
MulDivCorrect ==
    [][/\ opcode(raw') \in {OP, OP_32} /\ funct7(raw') = 1
       /\ opcode(raw') = OP_32 => funct3(raw') \notin {1, 2, 3}
       =>
       /\ phase' = "done"
       /\ rd(raw') # 0 =>
             /\ MulDivResult(funct3(raw'), Trunc(cpu_read_reg(rs1(raw')), Width),
                             Trunc(Operand2, Width), Trunc(Result, Width), Width)
             /\ SignFilled(Result, Width)]_vars

\* The bits of the bytes at addr .. addr + size - 1, the first byte lowest.
BytesAt(m, addr, size) ==
    {k \in 0..(size * ByteBits - 1) :
        Digit(m[addr + (k \div ByteBits)], k % ByteBits) = 1}

InRam(addr, size) == addr..(addr + size - 1) \subseteq RamAddr

\* A load gives the bytes at its address and a store puts the register's bytes
\* there, little-endian and extended as named; an access that is not wholly in
\* RAM reads 0 and changes none of it, also when it begins in RAM and runs over
\* the end; and no load or store that reaches RAM reaches a device.
LoadsStoresCorrect ==
    [][opcode(raw') \in {LOAD, STORE} /\ phase' = "done" =>
          LET loads == opcode(raw') = LOAD
              size == 2 ^ (funct3(raw') % 4)
              addr == Trunc(cpu_read_reg(rs1(raw'))
                              + (IF loads THEN immI(raw') ELSE immS(raw')), XLEN)
              read == Bits(Result, XLEN)
              top  == size * ByteBits - 1
          IN  /\ loads /\ rd(raw') # 0 /\ InRam(addr, size) =>
                    /\ read \cap 0..top = BytesAt(mem, addr, size)
                    /\ \A k \in (top + 1)..(XLEN - 1) :
                          k \in read <=> funct3(raw') < 4 /\ top \in read
              /\ loads /\ rd(raw') # 0 /\ ~InRam(addr, size) /\ device' = device => Result = 0
              /\ ~loads /\ InRam(addr, size) =>
                    /\ BytesAt(mem', addr, size) = Bits(cpu_read_reg(rs2(raw')), size * ByteBits)
                    /\ \A a \in RamAddr : a < addr \/ a >= addr + size => mem'[a] = mem[a]
              /\ loads \/ ~InRam(addr, size) => mem' = mem
              /\ addr \in RamAddr => device' = device]_vars

\* Branches compare as they say, go to pc plus the offset or to pc + 4, and
\* leave every register alone; jal and jalr link to pc + 4, and jalr goes to an
\* even address computed from rs1 as it was, also when rd is rs1.
ControlFlow ==
    [][/\ opcode(raw') = BRANCH /\ phase' = "done" =>
             LET a == cpu_read_reg(rs1(raw'))
                 b == cpu_read_reg(rs2(raw'))
                 order == IF funct3(raw') \in {4, 5} THEN Value(a, XLEN) - Value(b, XLEN) ELSE a - b
                 holds == IF funct3(raw') < 4 THEN order = 0 ELSE order < 0
                 taken == holds = (funct3(raw') % 2 = 0)
             IN  /\ Congruent(pc', pc + (IF taken THEN immB(raw') ELSE 4), XLEN)
                 /\ regs' = regs
       /\ opcode(raw') \in {JAL, JALR} =>
             /\ rd(raw') # 0 => Congruent(Result, pc + 4, XLEN)
             /\ IF opcode(raw') = JAL THEN Congruent(pc', pc + immJ(raw'), XLEN)
                ELSE /\ pc' % 2 = 0
                     /\ LET sum == cpu_read_reg(rs1(raw')) + immI(raw')
                        IN  Congruent(pc', sum, XLEN) \/ Congruent(pc', sum - 1, XLEN)
       /\ opcode(raw') \notin {BRANCH, JAL, JALR} /\ phase' = "done" =>
             Congruent(pc', pc + 4, XLEN)]_vars

\* An amo on RAM leaves the result of its operation in memory and the old value,
\* extended, in rd, also when rd is one of its operands.
AmoCorrect ==
    [][opcode(raw') = AMO /\ phase' = "done" =>
          LET addr == cpu_read_reg(rs1(raw'))
              size == 2 ^ funct3(raw')
              n == size * ByteBits
              old == Number(BytesAt(mem, addr, size))
              new == Number(BytesAt(mem', addr, size))
              rhs == Trunc(cpu_read_reg(rs2(raw')), n)
              op == funct5(raw')
              Key(x) == IF op < AMOMINU THEN Value(x, n) ELSE x
          IN  InRam(addr, size) =>
                 /\ rd(raw') # 0 => Trunc(Result, n) = old /\ SignFilled(Result, n)
                 /\ \A a \in RamAddr : a < addr \/ a >= addr + size => mem'[a] = mem[a]
                 /\ CASE op = AMOSWAP -> new = rhs
                      [] op = AMOADD  -> Congruent(new, old + rhs, n)
                      [] op = AMOXOR  -> IntegerResult(4, FALSE, old, rhs, new, n)
                      [] op = AMOOR   -> IntegerResult(6, FALSE, old, rhs, new, n)
                      [] op = AMOAND  -> IntegerResult(7, FALSE, old, rhs, new, n)
                      [] OTHER ->
                            /\ new \in {old, rhs}
                            /\ \A x \in {old, rhs} : IF op \in {AMOMIN, AMOMINU}
                                                     THEN Key(new) <= Key(x)
                                                     ELSE Key(new) >= Key(x)]_vars

\* An instruction changes rd at most, never x0; one that traps has changed
\* neither registers nor memory nor a device.
OnlyRd ==
    [][/\ \A n \in 0..31 : regs'[n] # regs[n] =>
             n = rd(raw') /\ n # 0 /\ opcode(raw') \notin {BRANCH, STORE, MISC_MEM}
       /\ phase' = "trap" => <<regs, mem, device>>' = <<regs, mem, device>>]_vars

---------------------------------------------------------------------------
(* What the documentation says and the code does not do.                   *)

\* sraw shifts by the low bits of rs2 that address every bit of a word.
SrawCorrect == [][Sraw(raw') => IntegerSpec]_vars
=============================================================================
