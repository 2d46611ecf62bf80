-------------------------------- MODULE Trap --------------------------------
(***************************************************************************)
(* Traps: src/src/cpu/trap.c, cpu_check_interrupts of cpu.c, and the       *)
(* system instructions that raise a trap or return from one (system.c).    *)
(* Every operator maps the hart record before a C function to the one      *)
(* after it.  Beside the CSRs of module Csr a hart c has                   *)
(*   c.pc, c.priv              the program counter, the privilege level    *)
(*   c.trap_taken, c.pc_written  the flags cpu_step uses to advance pc.    *)
(***************************************************************************)
EXTENDS Csr

EXC_ILLEGAL_INSTRUCTION   == 2
EXC_BREAKPOINT            == 3
EXC_LOAD_ADDR_MISALIGNED  == 4
EXC_STORE_ADDR_MISALIGNED == 6
EXC_ECALL_U_MODE          == 8
EXC_ECALL_S_MODE          == 9
EXC_ECALL_M_MODE          == 11
EXC_INSTR_PAGE_FAULT      == 12
EXC_LOAD_PAGE_FAULT       == 13
EXC_STORE_PAGE_FAULT      == 15

IRQ_SOFTWARE == 3
IRQ_TIMER    == 7

\* csr_def.c: s is the set of the one-bits of value.
set_bit(s, bit, on) == IF on THEN s \cup {bit} ELSE s \ {bit}

\* The two bits of a privilege level, as enter_m_trap stores them in MPP
\* and mret reads them back.
LowBit(p)  == p % 2 = 1
HighBit(p) == p \div 2 = 1
MPP(s) == (IF MPP0 \in s THEN 1 ELSE 0) + (IF MPP1 \in s THEN 2 ELSE 0)

---------------------------------------------------------------------------
(* trap.c *)

\* Mutant: MPIE is copied from MIE after MIE was cleared.
MpieAfterMie(c) ==
    LET s1 == set_bit(c.bits[CSR_MSTATUS], MIE, FALSE)
        s2 == set_bit(s1, MPIE, MIE \in s1)
        s3 == set_bit(s2, MPP0, LowBit(c.priv))
        s4 == set_bit(s3, MPP1, HighBit(c.priv))
    IN  [c EXCEPT !.bits[CSR_MSTATUS] = s4,
                  !.priv = M_MODE,
                  !.pc = Aligned(c.word[CSR_MTVEC]),
                  !.trap_taken = TRUE]

enter_m_trap(c) ==
    LET s1 == set_bit(c.bits[CSR_MSTATUS], MPIE, MIE \in c.bits[CSR_MSTATUS])
        s2 == set_bit(s1, MIE, FALSE)
        s3 == set_bit(s2, MPP0, LowBit(c.priv))
        s4 == set_bit(s3, MPP1, HighBit(c.priv))
    IN  [c EXCEPT !.bits[CSR_MSTATUS] = s4,
                  !.priv = M_MODE,
                  !.pc = Aligned(c.word[CSR_MTVEC]),
                  !.trap_taken = TRUE]

\* Mutant: SIE is left set in the handler.
SieLeftSet(c) ==
    LET s1 == set_bit(c.bits[CSR_MSTATUS], SPP, LowBit(c.priv))
        s2 == set_bit(s1, SPIE, SIE \in c.bits[CSR_MSTATUS])
    IN  [c EXCEPT !.bits[CSR_MSTATUS] = s2,
                  !.priv = S_MODE,
                  !.pc = Aligned(c.word[CSR_STVEC]),
                  !.trap_taken = TRUE]

\* Mutant: SPP is taken from the mode that was already entered.
SppAfterEntry(c) ==
    LET s1 == set_bit(c.bits[CSR_MSTATUS], SPP, LowBit(S_MODE))
        s2 == set_bit(s1, SPIE, SIE \in c.bits[CSR_MSTATUS])
        s3 == set_bit(s2, SIE, FALSE)
    IN  [c EXCEPT !.bits[CSR_MSTATUS] = s3,
                  !.priv = S_MODE,
                  !.pc = Aligned(c.word[CSR_STVEC]),
                  !.trap_taken = TRUE]

enter_s_trap(c) ==
    LET s1 == set_bit(c.bits[CSR_MSTATUS], SPP, LowBit(c.priv))
        s2 == set_bit(s1, SPIE, SIE \in c.bits[CSR_MSTATUS])
        s3 == set_bit(s2, SIE, FALSE)
    IN  [c EXCEPT !.bits[CSR_MSTATUS] = s3,
                  !.priv = S_MODE,
                  !.pc = Aligned(c.word[CSR_STVEC]),
                  !.trap_taken = TRUE]

\* The trap goes to S-mode: it is delegated and was not raised in M-mode.
Delegated(c, deleg, code) == c.priv < M_MODE /\ code \in c.bits[deleg]

RaiseTrap(c, deleg, cause) ==
    IF Delegated(c, deleg, cause.code)
    THEN enter_s_trap([c EXCEPT !.word[CSR_SEPC] = c.pc,
                                !.cause[CSR_SCAUSE] = cause])
    ELSE enter_m_trap([c EXCEPT !.word[CSR_MEPC] = c.pc,
                                !.cause[CSR_MCAUSE] = cause])

raise_exception(c, code) ==
    RaiseTrap(c, CSR_MEDELEG, [interrupt |-> FALSE, code |-> code])

raise_interrupt(c, code) ==
    RaiseTrap(c, CSR_MIDELEG, [interrupt |-> TRUE, code |-> code])

---------------------------------------------------------------------------
(* cpu_check_interrupts *)

Priority == <<11, 3, 7, 9, 1, 5>>    \* MEI, MSI, MTI, SEI, SSI, STI

\* Mutant: mstatus.MIE masks interrupts for M-mode in every mode.
MieMasksEverywhere(c, cause) ==
    /\ cause \in c.bits[CSR_MIP] \cap c.bits[CSR_MIE]
    /\ IF cause \notin c.bits[CSR_MIDELEG]
       THEN MIE \in c.bits[CSR_MSTATUS]
       ELSE /\ c.priv # M_MODE
            /\ c.priv = S_MODE => SIE \in c.bits[CSR_MSTATUS]

\* The loop body does not `continue' on cause: it is pending and enabled, and
\* the mode it goes to does not mask it.
Takeable(c, cause) ==
    /\ cause \in c.bits[CSR_MIP] \cap c.bits[CSR_MIE]
    /\ IF cause \notin c.bits[CSR_MIDELEG]
       THEN c.priv = M_MODE => MIE \in c.bits[CSR_MSTATUS]
       ELSE /\ c.priv # M_MODE
            /\ c.priv = S_MODE => SIE \in c.bits[CSR_MSTATUS]

Chosen(c, k) == /\ Takeable(c, Priority[k])
                /\ \A j \in 1..(k - 1) : ~Takeable(c, Priority[j])

InterruptPossible(c) == \E k \in 1..6 : Takeable(c, Priority[k])

cpu_check_interrupts(c) ==
    IF InterruptPossible(c)
    THEN raise_interrupt(c, Priority[CHOOSE k \in 1..6 : Chosen(c, k)])
    ELSE c

---------------------------------------------------------------------------
(* system.c *)

illegal(c) == raise_exception(c, EXC_ILLEGAL_INSTRUCTION)

ecall(c) ==
    raise_exception(c, CASE c.priv = M_MODE -> EXC_ECALL_M_MODE
                         [] c.priv = S_MODE -> EXC_ECALL_S_MODE
                         [] OTHER           -> EXC_ECALL_U_MODE)

ebreak(c) == raise_exception(c, EXC_BREAKPOINT)

\* Past its privilege check sfence.vma does nothing: there is no TLB.
sfence_vma(c) ==
    IF \/ c.priv = U_MODE
       \/ c.priv = S_MODE /\ TVM \in c.bits[CSR_MSTATUS]
    THEN illegal(c)
    ELSE c

\* Mutant: sret is not refused in U-mode.
SretInAnyMode(c) ==
    LET s0 == c.bits[CSR_MSTATUS]
        s1 == set_bit(s0, SIE, SPIE \in s0)
        s2 == set_bit(s1, SPIE, TRUE)
        s3 == set_bit(s2, SPP, FALSE)
    IN  [c EXCEPT !.bits[CSR_MSTATUS] = s3,
                  !.priv = IF SPP \in s0 THEN S_MODE ELSE U_MODE,
                  !.pc = c.word[CSR_SEPC],
                  !.pc_written = TRUE]

\* sret jumps to sepc as it is stored, not as csr_read returns it.
sret(c) ==
    IF c.priv = U_MODE THEN illegal(c)
    ELSE LET s0 == c.bits[CSR_MSTATUS]
             s1 == set_bit(s0, SIE, SPIE \in s0)
             s2 == set_bit(s1, SPIE, TRUE)
             s3 == set_bit(s2, SPP, FALSE)
         IN  [c EXCEPT !.bits[CSR_MSTATUS] = s3,
                       !.priv = IF SPP \in s0 THEN S_MODE ELSE U_MODE,
                       !.pc = c.word[CSR_SEPC],
                       !.pc_written = TRUE]

\* MPRV is left as it is, and MPP = 2 is not refused.
mret(c) ==
    IF c.priv # M_MODE THEN illegal(c)
    ELSE LET s0 == c.bits[CSR_MSTATUS]
             s1 == set_bit(s0, MIE, MPIE \in s0)
             s2 == set_bit(s1, MPIE, TRUE)
             s3 == set_bit(set_bit(s2, MPP0, FALSE), MPP1, FALSE)
         IN  [c EXCEPT !.bits[CSR_MSTATUS] = s3,
                       !.priv = MPP(s0),
                       !.pc = c.word[CSR_MEPC],
                       !.pc_written = TRUE]

\* csrrw, csrrs, csrrc and their immediate forms.
csr_instruction(c, i) ==
    IF ~CsrAccessOk(c, i) THEN illegal(c)
    ELSE IF Writes(i) THEN csr_write(c, i.csr, NewValue(c, i))
    ELSE c
=============================================================================
