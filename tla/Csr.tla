-------------------------------- MODULE Csr --------------------------------
(***************************************************************************)
(* The control and status registers of the hart: src/src/cpu/csrs/*.c and  *)
(* the CSR instructions that reach them.                                   *)
(*                                                                         *)
(* A hart is a record c; the fields that hold CSRs are                     *)
(*   c.bits   the CSRs the code uses bit by bit, each the SET of the bits  *)
(*            that are 1 (a C mask is an intersection, ~mask a difference) *)
(*   c.word   the CSRs that hold an instruction address                    *)
(*   c.cause  mcause and scause: the interrupt bit and the code            *)
(*   c.satp   the mode nibble of satp, which selects the translation.      *)
(* CSRs no modelled decision reads (mscratch, mtval, the ids, the          *)
(* counters, ...) keep their address, and so their access checks, but not  *)
(* their value.                                                            *)
(***************************************************************************)
EXTENDS Integers

CONSTANTS WordSize,   \* 2^64 in the code: addresses wrap at WordSize
          RAM_BASE    \* reset value of pc and mtvec

ASSUME WordSizeAssumption == /\ WordSize \in Nat
                             /\ WordSize >= 4
                             /\ WordSize % 4 = 0

ASSUME RamBaseAssumption == /\ RAM_BASE \in 0..(WordSize - 1)
                            /\ RAM_BASE % 4 = 0

Word == 0..(WordSize - 1)
Bit  == 0..63

Cause == [interrupt : BOOLEAN, code : Bit]

\* value & ~3
Aligned(v) == v - (v % 4)

---------------------------------------------------------------------------
(* Privilege levels and CSR addresses.                                     *)

U_MODE == 0
S_MODE == 1
M_MODE == 3

Privilege == 0..3

CSR_SSTATUS    == 256    \* 0x100
CSR_SIE        == 260    \* 0x104
CSR_STVEC      == 261    \* 0x105
CSR_SCOUNTEREN == 262    \* 0x106
CSR_SSCRATCH   == 320    \* 0x140
CSR_SEPC       == 321    \* 0x141
CSR_SCAUSE     == 322    \* 0x142
CSR_STVAL      == 323    \* 0x143
CSR_SIP        == 324    \* 0x144
CSR_SATP       == 384    \* 0x180

CSR_MSTATUS    == 768    \* 0x300
CSR_MISA       == 769    \* 0x301
CSR_MEDELEG    == 770    \* 0x302
CSR_MIDELEG    == 771    \* 0x303
CSR_MIE        == 772    \* 0x304
CSR_MTVEC      == 773    \* 0x305
CSR_MCOUNTEREN == 774    \* 0x306
CSR_MSCRATCH   == 832    \* 0x340
CSR_MEPC       == 833    \* 0x341
CSR_MCAUSE     == 834    \* 0x342
CSR_MTVAL      == 835    \* 0x343
CSR_MIP        == 836    \* 0x344
CSR_MCYCLE     == 2816   \* 0xB00
CSR_MINSTRET   == 2818   \* 0xB02

CSR_CYCLE      == 3072   \* 0xC00
CSR_TIME       == 3073   \* 0xC01
CSR_INSTRET    == 3074   \* 0xC02
CSR_MVENDORID  == 3857   \* 0xF11
CSR_MARCHID    == 3858   \* 0xF12
CSR_MIMPID     == 3859   \* 0xF13
CSR_MHARTID    == 3860   \* 0xF14

CsrAddress == 0..4095

\* csr->implemented, by the way the model keeps the value.
BitCsr    == {CSR_MSTATUS, CSR_MEDELEG, CSR_MIDELEG, CSR_MIE, CSR_MIP,
              CSR_MCOUNTEREN, CSR_SCOUNTEREN}
ViewCsr   == {CSR_SSTATUS, CSR_SIE, CSR_SIP}      \* windows on a BitCsr
WordCsr   == {CSR_MTVEC, CSR_STVEC, CSR_MEPC, CSR_SEPC}
CauseCsr  == {CSR_MCAUSE, CSR_SCAUSE}
OpaqueCsr == {CSR_MISA, CSR_MSCRATCH, CSR_MTVAL, CSR_MCYCLE, CSR_MINSTRET,
              CSR_MVENDORID, CSR_MARCHID, CSR_MIMPID, CSR_MHARTID,
              CSR_SSCRATCH, CSR_STVAL, CSR_CYCLE, CSR_TIME, CSR_INSTRET}

Implemented ==
    BitCsr \cup ViewCsr \cup WordCsr \cup CauseCsr \cup OpaqueCsr \cup {CSR_SATP}

---------------------------------------------------------------------------
(* mstatus fields, and the write masks of the descriptors in csr_table.    *)

SIE  == 1
MIE  == 3
SPIE == 5
MPIE == 7
SPP  == 8
MPP0 == 11   \* low bit of MPP
MPP1 == 12   \* high bit of MPP
MPRV == 17
SUM  == 18
MXR  == 19
TVM  == 20

MSTATUS_WRITE_MASK ==
    {SIE, MIE, SPIE, MPIE, SPP, MPP0, MPP1, MPRV, SUM, MXR, TVM}
\* Mutant: the sstatus window also shows and accepts MPP.
SstatusMaskWithMpp == {SIE, SPIE, SPP, MPP0, MPP1, SUM, MXR}
SSTATUS_WRITE_MASK == {SIE, SPIE, SPP, SUM, MXR}

SUPERVISOR_INTERRUPT_MASK == {1, 5, 9, 13}

\* The CSR whose storage an access to a reads and writes.
Stored(a) == CASE a = CSR_SSTATUS -> CSR_MSTATUS
               [] a = CSR_SIE     -> CSR_MIE
               [] a = CSR_SIP     -> CSR_MIP
               [] OTHER           -> a

\* Mutant: sie and sip accept every delegated interrupt bit.
WindowWithoutMask(c, a) ==
    CASE a = CSR_MSTATUS        -> MSTATUS_WRITE_MASK
      [] a = CSR_SSTATUS        -> SSTATUS_WRITE_MASK
      [] a \in {CSR_SIE, CSR_SIP} -> c.bits[CSR_MIDELEG]
      [] a = CSR_MIE            -> {1, 3, 5, 7, 9, 11}
      [] a = CSR_MIP            -> {1, 5}
      [] OTHER                  -> Bit

\* Mutant: every bit of mip is writable.
MipFullyWritable(c, a) ==
    CASE a = CSR_MSTATUS        -> MSTATUS_WRITE_MASK
      [] a = CSR_SSTATUS        -> SSTATUS_WRITE_MASK
      [] a \in {CSR_SIE, CSR_SIP} ->
            SUPERVISOR_INTERRUPT_MASK \cap c.bits[CSR_MIDELEG]
      [] OTHER                  -> Bit

\* csr->write_mask, or the mask the csr->write callback applies.
write_mask(c, a) ==
    CASE a = CSR_MSTATUS        -> MSTATUS_WRITE_MASK
      [] a = CSR_SSTATUS        -> SSTATUS_WRITE_MASK
      [] a \in {CSR_SIE, CSR_SIP} ->
            SUPERVISOR_INTERRUPT_MASK \cap c.bits[CSR_MIDELEG]
      [] a = CSR_MIE            -> {1, 3, 5, 7, 9, 11}
      [] a = CSR_MIP            -> {1, 5}
      [] a = CSR_MCOUNTEREN     -> 0..2
      [] a = CSR_SCOUNTEREN     -> 0..31
      [] OTHER                  -> Bit

---------------------------------------------------------------------------
(* csr.c: who may access a CSR, and what an access does.                   *)

csr_can_write(c, a) ==
    /\ (a \div 1024) % 4 # 3
    /\ (a \div 256) % 4 <= c.priv

csr_can_read(c, a) ==
    /\ (a \div 256) % 4 <= c.priv
    /\ a \in {CSR_CYCLE, CSR_TIME, CSR_INSTRET} =>
         LET counter == a - CSR_CYCLE
         IN  /\ c.priv \in {U_MODE, S_MODE} => counter \in c.bits[CSR_MCOUNTEREN]
             /\ c.priv = U_MODE => counter \in c.bits[CSR_SCOUNTEREN]

\* The status of csr_read and of csr_write: CSR_OK or CSR_ILLEGAL.
ReadOk(c, a)  == a \in Implemented /\ csr_can_read(c, a)
WriteOk(c, a) == a \in Implemented /\ csr_can_write(c, a)

\* The value csr_read returns for a CSR that is kept as a set of bits.
csr_read(c, a) ==
    CASE a = CSR_SSTATUS -> (c.bits[CSR_MSTATUS] \cap SSTATUS_WRITE_MASK) \cup {33}
      [] a \in {CSR_SIE, CSR_SIP} ->
            c.bits[Stored(a)] \cap c.bits[CSR_MIDELEG] \cap SUPERVISOR_INTERRUPT_MASK
      [] OTHER -> c.bits[a]

\* Mutant: the vectors keep the mode bits they are written with.
VectorKeepsModeBits(c, a, v) ==
    CASE a \in BitCsr \cup ViewCsr ->
            LET mask == write_mask(c, a)
            IN  [c EXCEPT !.bits[Stored(a)] = (@ \ mask) \cup (v \cap mask)]
      [] a \in WordCsr  -> [c EXCEPT !.word[a] = v]
      [] a \in CauseCsr -> [c EXCEPT !.cause[a] = v]
      [] a = CSR_SATP   -> [c EXCEPT !.satp = v]
      [] OTHER          -> c

\* The state csr_write leaves when it succeeds.  mepc keeps its two low bits
\* (its mask excludes them), sepc takes every bit.
csr_write(c, a, v) ==
    CASE a \in BitCsr \cup ViewCsr ->
            LET mask == write_mask(c, a)
            IN  [c EXCEPT !.bits[Stored(a)] = (@ \ mask) \cup (v \cap mask)]
      [] a \in {CSR_MTVEC, CSR_STVEC} -> [c EXCEPT !.word[a] = Aligned(v)]
      [] a = CSR_MEPC -> [c EXCEPT !.word[a] = Aligned(v) + (@ % 4)]
      [] a = CSR_SEPC -> [c EXCEPT !.word[a] = v]
      [] a \in CauseCsr -> [c EXCEPT !.cause[a] = v]
      [] a = CSR_SATP -> [c EXCEPT !.satp = v]
      [] OTHER -> c

---------------------------------------------------------------------------
(* The values a CSR instruction can present to a CSR.                      *)

CsrValue(a) == CASE a \in BitCsr \cup ViewCsr -> SUBSET Bit
                 [] a \in WordCsr             -> Word
                 [] a \in CauseCsr            -> Cause
                 [] OTHER                     -> 0..15

\* One CSR instruction: register and immediate forms differ only in where
\* the operand comes from.  rd0 and rs0 say that rd, or rs1/zimm, is zero.
IsCsrInstr(i) ==
    /\ i.op \in {"csrrw", "csrrs", "csrrc"}
    /\ i.csr \in CsrAddress
    /\ i.rd0 \in BOOLEAN
    /\ i.rs0 \in BOOLEAN
    /\ i.operand \in CsrValue(i.csr)

\* The value written.  On the CSRs that are not kept bit by bit the operand
\* of csrrs/csrrc already stands for old|rs1 or old&~rs1.
NewValue(c, i) ==
    CASE i.op = "csrrs" /\ i.csr \in BitCsr \cup ViewCsr ->
            csr_read(c, i.csr) \cup i.operand
      [] i.op = "csrrc" /\ i.csr \in BitCsr \cup ViewCsr ->
            csr_read(c, i.csr) \ i.operand
      [] OTHER -> i.operand

\* csrrw reads unless rd is x0 and always writes; csrrs and csrrc always
\* read and write unless the operand is x0.
Reads(i)  == i.op # "csrrw" \/ ~i.rd0
Writes(i) == i.op = "csrrw" \/ ~i.rs0

\* The instruction raises no illegal-instruction exception.
CsrAccessOk(c, i) == /\ Reads(i)  => ReadOk(c, i.csr)
                     /\ Writes(i) => WriteOk(c, i.csr)
=============================================================================
