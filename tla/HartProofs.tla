----------------------------- MODULE HartProofs -----------------------------
(***************************************************************************)
(* Proofs about module Hart, for every word size, every set of jump        *)
(* targets and every set of CSR instructions.  Each operator of Csr and    *)
(* Trap gets one lemma that says which fields of the hart it changes and   *)
(* how; the theorems use these lemmas and not the definitions.  The types  *)
(* come first, then the action properties, and what a step does to the     *)
(* interrupt lines in mip, for the machine and the debugger around it.     *)
(***************************************************************************)
EXTENDS Hart, TLAPS

---------------------------------------------------------------------------
(* Arithmetic of addresses.                                                *)

\* Clearing the two low bits stays in the word and gives a multiple of 4.
LEMMA AlignedWord ==
    ASSUME NEW v \in Word
    PROVE  Aligned(v) \in Word /\ Aligned(v) % 4 = 0
BY WordSizeAssumption DEF Word, Aligned

\* An aligned word with two low bits put back is still a word.
LEMMA LowBitsWord ==
    ASSUME NEW v \in Word, NEW w \in Word
    PROVE  Aligned(v) + (w % 4) \in Word
BY WordSizeAssumption DEF Word, Aligned

\* pc + 4 wraps inside the word.
LEMMA NextWord ==
    ASSUME NEW v \in Word
    PROVE  (v + 4) % WordSize \in Word
BY WordSizeAssumption DEF Word

\* An aligned value is its own alignment.
LEMMA AlignedIsIdentity ==
    ASSUME NEW v \in Word, v % 4 = 0
    PROVE  Aligned(v) = v
BY WordSizeAssumption DEF Word, Aligned

---------------------------------------------------------------------------
(* What the operators of trap.c do, field by field.                        *)

\* set_bit sets or clears one bit and leaves the others.
LEMMA SetBit ==
    ASSUME NEW s \in SUBSET Bit, NEW bit \in Bit, NEW on \in BOOLEAN
    PROVE  /\ set_bit(s, bit, on) \in SUBSET Bit
           /\ (bit \in set_bit(s, bit, on)) <=> on
           /\ \A b \in Bit \ {bit} : (b \in set_bit(s, bit, on)) <=> (b \in s)
BY DEF set_bit

\* The mstatus enter_m_trap leaves.
LEMMA MTrapStatus ==
    ASSUME NEW s \in SUBSET Bit, NEW priv \in Privilege
    PROVE  LET t == set_bit(set_bit(set_bit(set_bit(s, MPIE, MIE \in s), MIE, FALSE),
                                    MPP0, LowBit(priv)), MPP1, HighBit(priv))
           IN  /\ t \in SUBSET Bit
               /\ MIE \notin t
               /\ (MPIE \in t) <=> (MIE \in s)
               /\ MPP(t) = priv
               /\ \A b \in Bit \ {MIE, MPIE, MPP0, MPP1} : (b \in t) <=> (b \in s)
BY DEF set_bit, MIE, MPIE, MPP0, MPP1, MPP, LowBit, HighBit, Bit, Privilege

\* The mstatus enter_s_trap leaves.
LEMMA STrapStatus ==
    ASSUME NEW s \in SUBSET Bit, NEW priv \in Privilege
    PROVE  LET t == set_bit(set_bit(set_bit(s, SPP, LowBit(priv)),
                                    SPIE, SIE \in s), SIE, FALSE)
           IN  /\ t \in SUBSET Bit
               /\ SIE \notin t
               /\ (SPIE \in t) <=> (SIE \in s)
               /\ (SPP \in t) <=> (priv \in {S_MODE, M_MODE})
               /\ \A b \in Bit \ {SIE, SPIE, SPP} : (b \in t) <=> (b \in s)
BY DEF set_bit, SIE, SPIE, SPP, LowBit, Bit, Privilege, S_MODE, M_MODE

\* Fields every trap leaves alone, given the CSR of the saved pc and cause.
Frame(c, r, epc, cause) ==
    /\ r.pc_written = c.pc_written
    /\ r.trap_taken = TRUE
    /\ r.satp = c.satp
    /\ \A a \in WordCsr \ {epc} : r.word[a] = c.word[a]
    /\ \A a \in CauseCsr \ {cause} : r.cause[a] = c.cause[a]
    /\ \A a \in BitCsr \ {CSR_MSTATUS} : r.bits[a] = c.bits[a]

\* The hart r after a trap that hart c takes into M-mode.
MTrap(c, r, cause) ==
    /\ Frame(c, r, CSR_MEPC, CSR_MCAUSE)
    /\ r.priv = M_MODE
    /\ r.pc = Aligned(c.word[CSR_MTVEC])
    /\ r.word[CSR_MEPC] = c.pc
    /\ r.cause[CSR_MCAUSE] = cause
    /\ MIE \notin r.bits[CSR_MSTATUS]
    /\ (MPIE \in r.bits[CSR_MSTATUS]) <=> (MIE \in c.bits[CSR_MSTATUS])
    /\ MPP(r.bits[CSR_MSTATUS]) = c.priv
    /\ \A b \in Bit \ {MIE, MPIE, MPP0, MPP1} :
          (b \in r.bits[CSR_MSTATUS]) <=> (b \in c.bits[CSR_MSTATUS])

\* The hart r after a trap that hart c takes into S-mode.
STrap(c, r, cause) ==
    /\ Frame(c, r, CSR_SEPC, CSR_SCAUSE)
    /\ r.priv = S_MODE
    /\ r.pc = Aligned(c.word[CSR_STVEC])
    /\ r.word[CSR_SEPC] = c.pc
    /\ r.cause[CSR_SCAUSE] = cause
    /\ SIE \notin r.bits[CSR_MSTATUS]
    /\ (SPIE \in r.bits[CSR_MSTATUS]) <=> (SIE \in c.bits[CSR_MSTATUS])
    /\ (SPP \in r.bits[CSR_MSTATUS]) <=> (c.priv \in {S_MODE, M_MODE})
    /\ \A b \in Bit \ {SIE, SPIE, SPP} :
          (b \in r.bits[CSR_MSTATUS]) <=> (b \in c.bits[CSR_MSTATUS])

\* An undelegated trap is a trap into M-mode.
LEMMA EnterM ==
    ASSUME NEW c \in CpuType, NEW cause \in Cause
    PROVE  LET m == [c EXCEPT !.word[CSR_MEPC] = c.pc, !.cause[CSR_MCAUSE] = cause]
           IN  enter_m_trap(m) \in CpuType /\ MTrap(c, enter_m_trap(m), cause)
<1> DEFINE m == [c EXCEPT !.word[CSR_MEPC] = c.pc, !.cause[CSR_MCAUSE] = cause]
           s == c.bits[CSR_MSTATUS]
           t == set_bit(set_bit(set_bit(set_bit(s, MPIE, MIE \in s), MIE, FALSE),
                                MPP0, LowBit(c.priv)), MPP1, HighBit(c.priv))
           r == enter_m_trap(m)
<1>1. /\ m \in CpuType
      /\ m.word = [c.word EXCEPT ![CSR_MEPC] = c.pc]
      /\ m.cause = [c.cause EXCEPT ![CSR_MCAUSE] = cause]
      /\ m.bits = c.bits /\ m.priv = c.priv
      /\ m.satp = c.satp /\ m.pc_written = c.pc_written
  BY DEF CpuType, WordCsr, CauseCsr
<1>2. s \in SUBSET Bit /\ c.priv \in Privilege
  BY DEF CpuType, BitCsr
<1>3. /\ t \in SUBSET Bit
      /\ MIE \notin t
      /\ (MPIE \in t) <=> (MIE \in s)
      /\ MPP(t) = c.priv
      /\ \A b \in Bit \ {MIE, MPIE, MPP0, MPP1} : (b \in t) <=> (b \in s)
  BY <1>2, MTrapStatus
<1>4. Aligned(m.word[CSR_MTVEC]) \in Word
  BY <1>1, AlignedWord DEF CpuType, WordCsr
<1>5. m.word[CSR_MTVEC] = c.word[CSR_MTVEC]
  BY <1>1 DEF CpuType, WordCsr, CSR_MTVEC, CSR_MEPC
<1>6. r = [m EXCEPT !.bits[CSR_MSTATUS] = t, !.priv = M_MODE,
                    !.pc = Aligned(m.word[CSR_MTVEC]), !.trap_taken = TRUE]
  BY <1>1 DEF enter_m_trap
<1> HIDE DEF m, t, s, r
<1>7. /\ r \in CpuType
      /\ r.bits = [m.bits EXCEPT ![CSR_MSTATUS] = t]
      /\ r.priv = M_MODE /\ r.pc = Aligned(m.word[CSR_MTVEC]) /\ r.trap_taken = TRUE
      /\ r.word = m.word /\ r.cause = m.cause
      /\ r.satp = m.satp /\ r.pc_written = m.pc_written
  <2>1. m.bits \in [BitCsr -> SUBSET Bit] /\ [m.bits EXCEPT ![CSR_MSTATUS] = t] \in [BitCsr -> SUBSET Bit]
    BY <1>1, <1>3 DEF CpuType
  <2>2. M_MODE \in Privilege
    BY DEF M_MODE, Privilege
  <2> QED
    BY <1>1, <1>4, <1>6, <2>1, <2>2 DEF CpuType
<1>8. Frame(c, r, CSR_MEPC, CSR_MCAUSE)
  BY <1>1, <1>7 DEF Frame, CpuType
<1>9. /\ r.bits[CSR_MSTATUS] = t
      /\ r.word[CSR_MEPC] = c.pc
      /\ r.cause[CSR_MCAUSE] = cause
  BY <1>1, <1>7 DEF CpuType, BitCsr, WordCsr, CauseCsr
<1>10. MTrap(c, r, cause)
  BY <1>3, <1>5, <1>7, <1>8, <1>9 DEF MTrap, s
<1> QED
  BY <1>7, <1>10 DEF r, m

\* A delegated trap is a trap into S-mode.
LEMMA EnterS ==
    ASSUME NEW c \in CpuType, NEW cause \in Cause
    PROVE  LET m == [c EXCEPT !.word[CSR_SEPC] = c.pc, !.cause[CSR_SCAUSE] = cause]
           IN  enter_s_trap(m) \in CpuType /\ STrap(c, enter_s_trap(m), cause)
<1> DEFINE m == [c EXCEPT !.word[CSR_SEPC] = c.pc, !.cause[CSR_SCAUSE] = cause]
           s == c.bits[CSR_MSTATUS]
           t == set_bit(set_bit(set_bit(s, SPP, LowBit(c.priv)),
                                SPIE, SIE \in s), SIE, FALSE)
           r == enter_s_trap(m)
<1>1. /\ m \in CpuType
      /\ m.word = [c.word EXCEPT ![CSR_SEPC] = c.pc]
      /\ m.cause = [c.cause EXCEPT ![CSR_SCAUSE] = cause]
      /\ m.bits = c.bits /\ m.priv = c.priv
      /\ m.satp = c.satp /\ m.pc_written = c.pc_written
  BY DEF CpuType, WordCsr, CauseCsr
<1>2. s \in SUBSET Bit /\ c.priv \in Privilege
  BY DEF CpuType, BitCsr
<1>3. /\ t \in SUBSET Bit
      /\ SIE \notin t
      /\ (SPIE \in t) <=> (SIE \in s)
      /\ (SPP \in t) <=> (c.priv \in {S_MODE, M_MODE})
      /\ \A b \in Bit \ {SIE, SPIE, SPP} : (b \in t) <=> (b \in s)
  BY <1>2, STrapStatus
<1>4. Aligned(m.word[CSR_STVEC]) \in Word
  BY <1>1, AlignedWord DEF CpuType, WordCsr
<1>5. m.word[CSR_STVEC] = c.word[CSR_STVEC]
  BY <1>1 DEF CpuType, WordCsr, CSR_STVEC, CSR_SEPC
<1>6. r = [m EXCEPT !.bits[CSR_MSTATUS] = t, !.priv = S_MODE,
                    !.pc = Aligned(m.word[CSR_STVEC]), !.trap_taken = TRUE]
  BY <1>1 DEF enter_s_trap
<1> HIDE DEF m, t, s, r
<1>7. /\ r \in CpuType
      /\ r.bits = [m.bits EXCEPT ![CSR_MSTATUS] = t]
      /\ r.priv = S_MODE /\ r.pc = Aligned(m.word[CSR_STVEC]) /\ r.trap_taken = TRUE
      /\ r.word = m.word /\ r.cause = m.cause
      /\ r.satp = m.satp /\ r.pc_written = m.pc_written
  <2>1. /\ m.bits \in [BitCsr -> SUBSET Bit]
        /\ [m.bits EXCEPT ![CSR_MSTATUS] = t] \in [BitCsr -> SUBSET Bit]
    BY <1>1, <1>3 DEF CpuType
  <2>2. S_MODE \in Privilege
    BY DEF S_MODE, Privilege
  <2> QED
    BY <1>1, <1>4, <1>6, <2>1, <2>2 DEF CpuType
<1>8. Frame(c, r, CSR_SEPC, CSR_SCAUSE)
  BY <1>1, <1>7 DEF Frame, CpuType
<1>9. /\ r.bits[CSR_MSTATUS] = t
      /\ r.word[CSR_SEPC] = c.pc
      /\ r.cause[CSR_SCAUSE] = cause
  BY <1>1, <1>7 DEF CpuType, BitCsr, WordCsr, CauseCsr
<1>10. STrap(c, r, cause)
  BY <1>3, <1>5, <1>7, <1>8, <1>9 DEF STrap, s
<1> QED
  BY <1>7, <1>10 DEF r, m

\* A trap goes to S-mode or to M-mode, and leaves the vectors alone.
LEMMA Raise ==
    ASSUME NEW c, WellFormed(c), NEW deleg, NEW cause \in Cause
    PROVE  LET r == RaiseTrap(c, deleg, cause)
           IN  /\ WellFormed(r)
               /\ IF Delegated(c, deleg, cause.code)
                  THEN STrap(c, r, cause)
                  ELSE MTrap(c, r, cause)
<1> DEFINE r == RaiseTrap(c, deleg, cause)
<1>1. c \in CpuType
  BY DEF WellFormed
<1>2. /\ r \in CpuType
      /\ IF Delegated(c, deleg, cause.code) THEN STrap(c, r, cause)
                                            ELSE MTrap(c, r, cause)
  BY <1>1, EnterM, EnterS DEF RaiseTrap
<1>3. /\ CSR_MTVEC \in WordCsr \ {CSR_MEPC} /\ CSR_MTVEC \in WordCsr \ {CSR_SEPC}
      /\ CSR_STVEC \in WordCsr \ {CSR_MEPC} /\ CSR_STVEC \in WordCsr \ {CSR_SEPC}
  BY DEF WordCsr, CSR_MTVEC, CSR_STVEC, CSR_MEPC, CSR_SEPC
<1>4. r.word[CSR_MTVEC] = c.word[CSR_MTVEC] /\ r.word[CSR_STVEC] = c.word[CSR_STVEC]
  BY <1>2, <1>3 DEF STrap, MTrap, Frame
<1> QED
  BY <1>2, <1>4 DEF WellFormed

\* The exceptions an instruction raises.
ExceptionCode == {EXC_ILLEGAL_INSTRUCTION, EXC_BREAKPOINT, EXC_LOAD_ADDR_MISALIGNED,
                  EXC_STORE_ADDR_MISALIGNED, EXC_ECALL_U_MODE, EXC_ECALL_S_MODE,
                  EXC_ECALL_M_MODE, EXC_INSTR_PAGE_FAULT, EXC_LOAD_PAGE_FAULT,
                  EXC_STORE_PAGE_FAULT}

\* raise_exception, as an instance of Raise.
LEMMA RaiseException ==
    ASSUME NEW c, WellFormed(c), NEW code \in ExceptionCode
    PROVE  LET r     == raise_exception(c, code)
               cause == [interrupt |-> FALSE, code |-> code]
           IN  /\ WellFormed(r)
               /\ IF Delegated(c, CSR_MEDELEG, code)
                  THEN STrap(c, r, cause)
                  ELSE MTrap(c, r, cause)
<1> DEFINE cause == [interrupt |-> FALSE, code |-> code]
<1>1. code \in Bit
  BY DEF ExceptionCode, Bit, EXC_ILLEGAL_INSTRUCTION, EXC_BREAKPOINT,
         EXC_LOAD_ADDR_MISALIGNED, EXC_STORE_ADDR_MISALIGNED, EXC_ECALL_U_MODE,
         EXC_ECALL_S_MODE, EXC_ECALL_M_MODE, EXC_INSTR_PAGE_FAULT,
         EXC_LOAD_PAGE_FAULT, EXC_STORE_PAGE_FAULT
<1>2. cause \in Cause /\ cause.code = code
  BY <1>1 DEF Cause
<1>3. raise_exception(c, code) = RaiseTrap(c, CSR_MEDELEG, cause)
  BY DEF raise_exception
<1> HIDE DEF cause
<1>4. LET r == RaiseTrap(c, CSR_MEDELEG, cause)
      IN  /\ WellFormed(r)
          /\ IF Delegated(c, CSR_MEDELEG, cause.code) THEN STrap(c, r, cause)
                                                      ELSE MTrap(c, r, cause)
  BY <1>2, Raise
<1> QED
  BY <1>2, <1>3, <1>4 DEF cause

\* raise_interrupt, as an instance of Raise.
LEMMA RaiseInterrupt ==
    ASSUME NEW c, WellFormed(c), NEW code \in Bit
    PROVE  LET r     == raise_interrupt(c, code)
               cause == [interrupt |-> TRUE, code |-> code]
           IN  /\ WellFormed(r)
               /\ IF Delegated(c, CSR_MIDELEG, code)
                  THEN STrap(c, r, cause)
                  ELSE MTrap(c, r, cause)
<1> DEFINE cause == [interrupt |-> TRUE, code |-> code]
<1>1. cause \in Cause /\ cause.code = code
  BY DEF Cause
<1>2. raise_interrupt(c, code) = RaiseTrap(c, CSR_MIDELEG, cause)
  BY DEF raise_interrupt
<1> HIDE DEF cause
<1>3. LET r == RaiseTrap(c, CSR_MIDELEG, cause)
      IN  /\ WellFormed(r)
          /\ IF Delegated(c, CSR_MIDELEG, cause.code) THEN STrap(c, r, cause)
                                                      ELSE MTrap(c, r, cause)
  BY <1>1, Raise
<1> QED
  BY <1>1, <1>2, <1>3 DEF cause

---------------------------------------------------------------------------
(* cpu_check_interrupts *)

\* The loop takes the first takeable interrupt of the list, if there is one.
LEMMA FirstIsChosen ==
    ASSUME NEW c, InterruptPossible(c)
    PROVE  \E k \in 1..6 : Chosen(c, k)
<1> DEFINE T(k) == Takeable(c, Priority[k])
<1> SUFFICES ASSUME \A k \in 1..6 : ~Chosen(c, k)
             PROVE  FALSE
  OBVIOUS
<1>0. \A k \in 1..6 : T(k) => \E j \in 1..(k - 1) : T(j)
  BY DEF Chosen
<1>1. \E k \in 1..6 : T(k)
  BY DEF InterruptPossible
<1> HIDE DEF T
<1>2. ~T(1)
  BY <1>0
<1>3. ~T(2)
  BY <1>0, <1>2
<1>4. ~T(3)
  BY <1>0, <1>2, <1>3
<1>5. ~T(4)
  BY <1>0, <1>2, <1>3, <1>4
<1>6. ~T(5)
  BY <1>0, <1>2, <1>3, <1>4, <1>5
<1>7. ~T(6)
  BY <1>0, <1>2, <1>3, <1>4, <1>5, <1>6
<1> QED
  BY <1>1, <1>2, <1>3, <1>4, <1>5, <1>6, <1>7

\* The priority list holds bit numbers.
LEMMA PriorityBits == \A k \in 1..6 : Priority[k] \in Bit
BY DEF Priority, Bit

\* The interrupt check takes the first takeable interrupt as a trap, into
\* S-mode if it is delegated and the hart is not in M-mode.
LEMMA CheckInterrupts ==
    ASSUME NEW c, WellFormed(c)
    PROVE  LET f == cpu_check_interrupts(c)
           IN  /\ WellFormed(f)
               /\ ~InterruptPossible(c) => f = c
               /\ InterruptPossible(c) =>
                    \E k \in 1..6 :
                       /\ Chosen(c, k)
                       /\ IF Delegated(c, CSR_MIDELEG, Priority[k])
                          THEN STrap(c, f, [interrupt |-> TRUE, code |-> Priority[k]])
                          ELSE MTrap(c, f, [interrupt |-> TRUE, code |-> Priority[k]])
<1>1. CASE ~InterruptPossible(c)
  BY <1>1 DEF cpu_check_interrupts
<1>2. CASE InterruptPossible(c)
  <2> DEFINE k == CHOOSE j \in 1..6 : Chosen(c, j)
  <2>1. k \in 1..6 /\ Chosen(c, k)
    BY <1>2, FirstIsChosen
  <2>2. cpu_check_interrupts(c) = raise_interrupt(c, Priority[k])
    BY <1>2 DEF cpu_check_interrupts
  <2> HIDE DEF k
  <2>3. Priority[k] \in Bit
    BY <2>1, PriorityBits
  <2> QED
    BY <1>2, <2>1, <2>2, <2>3, RaiseInterrupt
<1> QED
  BY <1>1, <1>2

---------------------------------------------------------------------------
(* The rest of cpu_step.                                                   *)

\* increment_pc changes at most pc.
LEMMA IncrementPc ==
    ASSUME NEW c, WellFormed(c)
    PROVE  LET e == increment_pc(c)
           IN  /\ WellFormed(e)
               /\ e.priv = c.priv /\ e.bits = c.bits /\ e.word = c.word
               /\ e.cause = c.cause /\ e.satp = c.satp
               /\ e.trap_taken = c.trap_taken /\ e.pc_written = c.pc_written
               /\ e.pc = IF ~c.trap_taken /\ ~c.pc_written
                         THEN (c.pc + 4) % WordSize ELSE c.pc
<1>1. c \in CpuType /\ (c.pc + 4) % WordSize \in Word
  BY NextWord DEF WellFormed, CpuType
<1>2. CASE ~c.trap_taken /\ ~c.pc_written
  <2> DEFINE e == [c EXCEPT !.pc = (c.pc + 4) % WordSize]
  <2>1. /\ e \in CpuType
        /\ e.priv = c.priv /\ e.bits = c.bits /\ e.word = c.word
        /\ e.cause = c.cause /\ e.satp = c.satp
        /\ e.trap_taken = c.trap_taken /\ e.pc_written = c.pc_written
        /\ e.pc = (c.pc + 4) % WordSize
    BY <1>1 DEF CpuType
  <2>2. increment_pc(c) = e
    BY <1>2 DEF increment_pc
  <2> QED
    BY <1>2, <2>1, <2>2 DEF WellFormed
<1>3. CASE ~(~c.trap_taken /\ ~c.pc_written)
  BY <1>3 DEF increment_pc
<1> QED
  BY <1>2, <1>3

\* The reset of a flag changes nothing else.
SameButFlags(c, e) ==
    /\ e.pc = c.pc /\ e.priv = c.priv /\ e.bits = c.bits /\ e.word = c.word
    /\ e.cause = c.cause /\ e.satp = c.satp

\* The beginning of cpu_step resets trap_taken and nothing else.
LEMMA BeginStep ==
    ASSUME NEW c, WellFormed(c)
    PROVE  /\ WellFormed(Begin(c))
           /\ SameButFlags(c, Begin(c))
           /\ Begin(c).trap_taken = FALSE
           /\ Begin(c).pc_written = c.pc_written
<1>1. /\ Begin(c) \in CpuType
      /\ Begin(c).trap_taken = FALSE /\ Begin(c).pc_written = c.pc_written
      /\ SameButFlags(c, Begin(c))
  BY DEF WellFormed, CpuType, Begin, SameButFlags
<1> QED
  BY <1>1 DEF WellFormed, SameButFlags

\* Finish is the interrupt check after the advance of pc; pc_written is
\* cleared last.
LEMMA FinishStep ==
    ASSUME NEW d, WellFormed(d)
    PROVE  LET f == cpu_check_interrupts(increment_pc(d))
           IN  /\ WellFormed(f)
               /\ WellFormed(Finish(d))
               /\ SameButFlags(f, Finish(d))
               /\ Finish(d).trap_taken = f.trap_taken
               /\ Finish(d).pc_written = FALSE
<1> DEFINE f == cpu_check_interrupts(increment_pc(d))
<1>1. WellFormed(f)
  BY IncrementPc, CheckInterrupts
<1>2. Finish(d) = [f EXCEPT !.pc_written = FALSE]
  BY DEF Finish
<1> HIDE DEF f
<1>3. /\ Finish(d) \in CpuType
      /\ SameButFlags(f, Finish(d))
      /\ Finish(d).trap_taken = f.trap_taken
      /\ Finish(d).pc_written = FALSE
  BY <1>1, <1>2 DEF WellFormed, CpuType, SameButFlags
<1>4. WellFormed(Finish(d))
  BY <1>1, <1>3 DEF WellFormed, SameButFlags
<1> QED
  BY <1>1, <1>3, <1>4 DEF f

---------------------------------------------------------------------------
(* The instructions that do not trap.                                      *)

\* A jump changes pc and marks it written.
LEMMA JumpStep ==
    ASSUME NEW c, WellFormed(c), NEW t \in Word
    PROVE  LET d == jump(c, t)
           IN  /\ WellFormed(d)
               /\ d.pc = t /\ d.pc_written = TRUE /\ d.trap_taken = c.trap_taken
               /\ d.priv = c.priv /\ d.bits = c.bits /\ d.word = c.word
               /\ d.cause = c.cause /\ d.satp = c.satp
<1> DEFINE d == jump(c, t)
<1>1. /\ d \in CpuType
      /\ d.pc = t /\ d.pc_written = TRUE /\ d.trap_taken = c.trap_taken
      /\ d.priv = c.priv /\ d.bits = c.bits /\ d.word = c.word
      /\ d.cause = c.cause /\ d.satp = c.satp
  BY DEF WellFormed, CpuType, jump
<1> QED
  BY <1>1 DEF WellFormed

\* A return changes pc, the privilege level and mstatus.
Returned(c, d, pc, priv, status) ==
    /\ d.pc = pc /\ d.priv = priv
    /\ d.bits = [c.bits EXCEPT ![CSR_MSTATUS] = status]
    /\ d.pc_written = TRUE /\ d.trap_taken = c.trap_taken
    /\ d.word = c.word /\ d.cause = c.cause /\ d.satp = c.satp

\* The common form of mret and sret.
ReturnTo(c, pc, priv, status) ==
    [c EXCEPT !.bits[CSR_MSTATUS] = status, !.priv = priv, !.pc = pc,
              !.pc_written = TRUE]

\* Such an update keeps the hart well formed.
LEMMA ReturnUpdate ==
    ASSUME NEW c, WellFormed(c), NEW s \in SUBSET Bit, NEW p \in Privilege, NEW w \in Word
    PROVE  LET d == ReturnTo(c, w, p, s)
           IN  WellFormed(d) /\ Returned(c, d, w, p, s)
<1> DEFINE d == ReturnTo(c, w, p, s)
<1>1. /\ c \in CpuType /\ c.bits \in [BitCsr -> SUBSET Bit]
      /\ [c.bits EXCEPT ![CSR_MSTATUS] = s] \in [BitCsr -> SUBSET Bit]
  BY DEF WellFormed, CpuType
<1>2. d \in CpuType /\ Returned(c, d, w, p, s)
  BY <1>1 DEF CpuType, Returned, ReturnTo
<1> QED
  BY <1>2 DEF WellFormed, Returned

\* mret in M-mode: to the mode in MPP, at mepc, with MIE restored.
MretStatus(s) ==
    set_bit(set_bit(set_bit(set_bit(s, MIE, MPIE \in s), MPIE, TRUE), MPP0, FALSE),
            MPP1, FALSE)

\* mret: to mepc, in the mode of MPP.
LEMMA MretStep ==
    ASSUME NEW c, WellFormed(c), c.priv = M_MODE
    PROVE  LET s == c.bits[CSR_MSTATUS]
           IN  /\ WellFormed(mret(c))
               /\ MretStatus(s) \in SUBSET Bit
               /\ MPP(s) \in Privilege
               /\ Returned(c, mret(c), c.word[CSR_MEPC], MPP(s), MretStatus(s))
<1> DEFINE s == c.bits[CSR_MSTATUS]
<1>1. s \in SUBSET Bit /\ c.word[CSR_MEPC] \in Word
  BY DEF WellFormed, CpuType, BitCsr, WordCsr
<1>2. MretStatus(s) \in SUBSET Bit
  BY <1>1 DEF MretStatus, set_bit, Bit, MIE, MPIE, MPP0, MPP1
<1>3. MPP(s) \in Privilege
  BY DEF MPP, Privilege
<1>4. mret(c) = ReturnTo(c, c.word[CSR_MEPC], MPP(s), MretStatus(s))
  BY DEF mret, MretStatus, ReturnTo
<1> QED
  BY <1>1, <1>2, <1>3, <1>4, ReturnUpdate

\* sret outside U-mode: to the mode in SPP, at sepc, with SIE restored.
SretStatus(s) ==
    set_bit(set_bit(set_bit(s, SIE, SPIE \in s), SPIE, TRUE), SPP, FALSE)

SretPriv(s) == IF SPP \in s THEN S_MODE ELSE U_MODE

\* sret: to sepc, in the mode of SPP.
LEMMA SretStep ==
    ASSUME NEW c, WellFormed(c), c.priv # U_MODE
    PROVE  LET s == c.bits[CSR_MSTATUS]
           IN  /\ WellFormed(sret(c))
               /\ SretStatus(s) \in SUBSET Bit
               /\ Returned(c, sret(c), c.word[CSR_SEPC], SretPriv(s), SretStatus(s))
<1> DEFINE s == c.bits[CSR_MSTATUS]
<1>1. s \in SUBSET Bit /\ c.word[CSR_SEPC] \in Word
  BY DEF WellFormed, CpuType, BitCsr, WordCsr
<1>2. SretStatus(s) \in SUBSET Bit
  BY <1>1 DEF SretStatus, set_bit, Bit, SIE, SPIE, SPP
<1>3. SretPriv(s) \in Privilege
  BY DEF SretPriv, Privilege, S_MODE, U_MODE
<1>4. sret(c) = ReturnTo(c, c.word[CSR_SEPC], SretPriv(s), SretStatus(s))
  BY DEF sret, SretStatus, SretPriv, ReturnTo
<1> QED
  BY <1>1, <1>2, <1>3, <1>4, ReturnUpdate

---------------------------------------------------------------------------
(* The CSR instructions.                                                   *)

\* A write to a CSR kept as bits changes the CSR that stores it, inside the
\* write mask.
LEMMA BitWrite ==
    ASSUME NEW c, WellFormed(c), NEW a \in BitCsr, NEW s \in SUBSET Bit
    PROVE  LET d == [c EXCEPT !.bits[a] = s]
           IN  /\ WellFormed(d)
               /\ d.bits = [c.bits EXCEPT ![a] = s]
               /\ d.pc = c.pc /\ d.priv = c.priv /\ d.word = c.word
               /\ d.cause = c.cause /\ d.satp = c.satp
               /\ d.trap_taken = c.trap_taken /\ d.pc_written = c.pc_written
<1> DEFINE d == [c EXCEPT !.bits[a] = s]
<1>1. c \in CpuType /\ [c.bits EXCEPT ![a] = s] \in [BitCsr -> SUBSET Bit]
  BY DEF WellFormed, CpuType
<1>2. /\ d \in CpuType
      /\ d.bits = [c.bits EXCEPT ![a] = s]
      /\ d.pc = c.pc /\ d.priv = c.priv /\ d.word = c.word
      /\ d.cause = c.cause /\ d.satp = c.satp
      /\ d.trap_taken = c.trap_taken /\ d.pc_written = c.pc_written
  BY <1>1 DEF CpuType
<1> QED
  BY <1>2 DEF WellFormed

\* A write to an address CSR that keeps the vectors aligned.
LEMMA WordWrite ==
    ASSUME NEW c, WellFormed(c), NEW a \in WordCsr, NEW w \in Word,
           a \in {CSR_MTVEC, CSR_STVEC} => w % 4 = 0
    PROVE  LET d == [c EXCEPT !.word[a] = w]
           IN  /\ WellFormed(d)
               /\ d.word = [c.word EXCEPT ![a] = w]
               /\ d.pc = c.pc /\ d.priv = c.priv /\ d.bits = c.bits
               /\ d.cause = c.cause /\ d.satp = c.satp
               /\ d.trap_taken = c.trap_taken /\ d.pc_written = c.pc_written
<1> DEFINE d == [c EXCEPT !.word[a] = w]
<1>1. c \in CpuType /\ [c.word EXCEPT ![a] = w] \in [WordCsr -> Word]
  BY DEF WellFormed, CpuType
<1>2. /\ d \in CpuType
      /\ d.word = [c.word EXCEPT ![a] = w]
      /\ d.pc = c.pc /\ d.priv = c.priv /\ d.bits = c.bits
      /\ d.cause = c.cause /\ d.satp = c.satp
      /\ d.trap_taken = c.trap_taken /\ d.pc_written = c.pc_written
  BY <1>1 DEF CpuType
<1>3. d.word[CSR_MTVEC] = IF a = CSR_MTVEC THEN w ELSE c.word[CSR_MTVEC]
  BY <1>1, <1>2 DEF CpuType, WordCsr
<1>4. d.word[CSR_STVEC] = IF a = CSR_STVEC THEN w ELSE c.word[CSR_STVEC]
  BY <1>1, <1>2 DEF CpuType, WordCsr
<1> HIDE DEF d
<1>5. d.word[CSR_MTVEC] % 4 = 0
  BY <1>3 DEF WellFormed
<1>6. d.word[CSR_STVEC] % 4 = 0
  BY <1>4 DEF WellFormed
<1>7. WellFormed(d)
  BY <1>2, <1>5, <1>6 DEF WellFormed
<1> QED
  BY <1>2, <1>7 DEF d

\* The fields no CSR write touches.
SameControl(c, d) ==
    /\ d.pc = c.pc /\ d.priv = c.priv
    /\ d.trap_taken = c.trap_taken /\ d.pc_written = c.pc_written

\* Stored names a CSR that has storage.
LEMMA StoredBits == \A a \in BitCsr \cup ViewCsr : Stored(a) \in BitCsr
BY DEF BitCsr, ViewCsr, Stored, CSR_MSTATUS, CSR_MEDELEG, CSR_MIDELEG, CSR_MIE,
       CSR_MIP, CSR_MCOUNTEREN, CSR_SCOUNTEREN, CSR_SSTATUS, CSR_SIE, CSR_SIP

\* No CSR is kept in two ways.
LEMMA CsrKinds ==
    /\ \A a \in BitCsr \cup ViewCsr :
          a \notin WordCsr /\ a \notin CauseCsr /\ a # CSR_SATP
    /\ \A a \in WordCsr : a \notin CauseCsr /\ a # CSR_SATP
    /\ \A a \in CauseCsr : a # CSR_SATP
BY DEF BitCsr, ViewCsr, WordCsr, CauseCsr, CSR_MSTATUS, CSR_MEDELEG, CSR_MIDELEG,
       CSR_MIE, CSR_MIP, CSR_MCOUNTEREN, CSR_SCOUNTEREN, CSR_SSTATUS, CSR_SIE,
       CSR_SIP, CSR_MTVEC, CSR_STVEC, CSR_MEPC, CSR_SEPC, CSR_MCAUSE, CSR_SCAUSE,
       CSR_SATP

\* The values of each kind of CSR.
LEMMA CsrValues ==
    ASSUME NEW a
    PROVE  /\ a \in BitCsr \cup ViewCsr => CsrValue(a) = SUBSET Bit
           /\ a \in WordCsr => CsrValue(a) = Word
           /\ a \in CauseCsr => CsrValue(a) = Cause
           /\ a = CSR_SATP => CsrValue(a) = 0..15
BY CsrKinds DEF CsrValue

\* A write to a CSR kept as bits, or to a window on one.
LEMMA CsrWriteBits ==
    ASSUME NEW c, WellFormed(c), NEW a \in BitCsr \cup ViewCsr, NEW v \in SUBSET Bit
    PROVE  LET d == csr_write(c, a, v)
               s == (c.bits[Stored(a)] \ write_mask(c, a)) \cup (v \cap write_mask(c, a))
           IN  /\ WellFormed(d) /\ SameControl(c, d)
               /\ s \in SUBSET Bit
               /\ d.bits = [c.bits EXCEPT ![Stored(a)] = s]
               /\ d.word = c.word /\ d.cause = c.cause /\ d.satp = c.satp
<1> DEFINE s == (c.bits[Stored(a)] \ write_mask(c, a)) \cup (v \cap write_mask(c, a))
<1>1. a \notin {CSR_MTVEC, CSR_STVEC} /\ a # CSR_MEPC /\ a # CSR_SEPC
  BY CsrKinds DEF WordCsr
<1>2. Stored(a) \in BitCsr /\ c.bits[Stored(a)] \in SUBSET Bit
  BY StoredBits DEF WellFormed, CpuType
<1>3. csr_write(c, a, v) = [c EXCEPT !.bits[Stored(a)] = s]
  BY <1>1, CsrKinds DEF csr_write
<1>4. s \in SUBSET Bit
  BY <1>2
<1> HIDE DEF s
<1>5. LET d == csr_write(c, a, v)
      IN  /\ WellFormed(d) /\ SameControl(c, d)
          /\ d.bits = [c.bits EXCEPT ![Stored(a)] = s]
          /\ d.word = c.word /\ d.cause = c.cause /\ d.satp = c.satp
  BY <1>2, <1>3, <1>4, BitWrite DEF SameControl
<1> QED
  BY <1>4, <1>5 DEF s

\* A write to an address CSR: one of three conversions of the value.
LEMMA CsrWriteWord ==
    ASSUME NEW c, WellFormed(c), NEW a \in WordCsr, NEW v \in Word
    PROVE  LET d == csr_write(c, a, v)
           IN  /\ WellFormed(d) /\ SameControl(c, d)
               /\ \A b \in WordCsr \ {a} : d.word[b] = c.word[b]
               /\ d.bits = c.bits /\ d.cause = c.cause /\ d.satp = c.satp
<1>0. c \in CpuType /\ c.word[a] \in Word /\ c.word \in [WordCsr -> Word]
  BY DEF WellFormed, CpuType
<1>1. \E w \in Word : /\ a \in {CSR_MTVEC, CSR_STVEC} => w % 4 = 0
                      /\ csr_write(c, a, v) = [c EXCEPT !.word[a] = w]
  <2>1. CASE a \in {CSR_MTVEC, CSR_STVEC}
    <3>1. a # CSR_MEPC /\ a # CSR_SEPC
      BY <2>1 DEF CSR_MTVEC, CSR_STVEC, CSR_MEPC, CSR_SEPC
    <3>2. csr_write(c, a, v) = [c EXCEPT !.word[a] = Aligned(v)]
      BY <2>1, <3>1, CsrKinds DEF csr_write
    <3> QED
      BY <3>2, AlignedWord
  <2>2. CASE a = CSR_MEPC
    <3>1. a \notin {CSR_MTVEC, CSR_STVEC} /\ a # CSR_SEPC
      BY <2>2 DEF CSR_MTVEC, CSR_STVEC, CSR_MEPC, CSR_SEPC
    <3>2. csr_write(c, a, v) = [c EXCEPT !.word[a] = Aligned(v) + (c.word[a] % 4)]
      BY <2>2, <3>1, CsrKinds DEF csr_write
    <3> QED
      BY <1>0, <3>1, <3>2, LowBitsWord
  <2>3. CASE a = CSR_SEPC
    <3>1. a \notin {CSR_MTVEC, CSR_STVEC} /\ a # CSR_MEPC
      BY <2>3 DEF CSR_MTVEC, CSR_STVEC, CSR_MEPC, CSR_SEPC
    <3>2. csr_write(c, a, v) = [c EXCEPT !.word[a] = v]
      BY <2>3, <3>1, CsrKinds DEF csr_write
    <3> QED
      BY <3>1, <3>2
  <2> QED
    BY <2>1, <2>2, <2>3 DEF WordCsr
<1>2. PICK w \in Word : /\ a \in {CSR_MTVEC, CSR_STVEC} => w % 4 = 0
                        /\ csr_write(c, a, v) = [c EXCEPT !.word[a] = w]
  BY <1>1
<1>3. LET d == csr_write(c, a, v)
      IN  /\ WellFormed(d) /\ SameControl(c, d)
          /\ d.word = [c.word EXCEPT ![a] = w]
          /\ d.bits = c.bits /\ d.cause = c.cause /\ d.satp = c.satp
  BY <1>2, WordWrite DEF SameControl
<1> QED
  BY <1>0, <1>3

\* A write to mcause or scause.
LEMMA CsrWriteCause ==
    ASSUME NEW c, WellFormed(c), NEW a \in CauseCsr, NEW v \in Cause
    PROVE  LET d == csr_write(c, a, v)
           IN  /\ WellFormed(d) /\ SameControl(c, d)
               /\ d.cause = [c.cause EXCEPT ![a] = v]
               /\ d.bits = c.bits /\ d.word = c.word /\ d.satp = c.satp
<1> DEFINE d == [c EXCEPT !.cause[a] = v]
<1>1. /\ a \notin {CSR_MTVEC, CSR_STVEC} /\ a # CSR_MEPC /\ a # CSR_SEPC
      /\ a \notin BitCsr \cup ViewCsr
  BY CsrKinds DEF WordCsr
<1>2. csr_write(c, a, v) = d
  BY <1>1, CsrKinds DEF csr_write
<1>3. c \in CpuType /\ [c.cause EXCEPT ![a] = v] \in [CauseCsr -> Cause]
  BY DEF WellFormed, CpuType
<1>4. /\ d \in CpuType /\ SameControl(c, d)
      /\ d.cause = [c.cause EXCEPT ![a] = v]
      /\ d.bits = c.bits /\ d.word = c.word /\ d.satp = c.satp
  BY <1>3 DEF CpuType, SameControl
<1> QED
  BY <1>2, <1>4 DEF WellFormed

\* A write to satp.
LEMMA CsrWriteSatp ==
    ASSUME NEW c, WellFormed(c), NEW v \in 0..15
    PROVE  LET d == csr_write(c, CSR_SATP, v)
           IN  /\ WellFormed(d) /\ SameControl(c, d)
               /\ d.satp = v
               /\ d.bits = c.bits /\ d.word = c.word /\ d.cause = c.cause
<1> DEFINE d == [c EXCEPT !.satp = v]
<1>1. /\ CSR_SATP \notin {CSR_MTVEC, CSR_STVEC}
      /\ CSR_SATP # CSR_MEPC /\ CSR_SATP # CSR_SEPC
      /\ CSR_SATP \notin BitCsr \cup ViewCsr /\ CSR_SATP \notin CauseCsr
  BY CsrKinds DEF WordCsr
<1>2. csr_write(c, CSR_SATP, v) = d
  BY <1>1 DEF csr_write
<1>3. /\ d \in CpuType /\ SameControl(c, d)
      /\ d.satp = v
      /\ d.bits = c.bits /\ d.word = c.word /\ d.cause = c.cause
  BY DEF WellFormed, CpuType, SameControl
<1> QED
  BY <1>2, <1>3 DEF WellFormed

\* A write to any other CSR changes nothing the model keeps.
LEMMA CsrWriteOpaque ==
    ASSUME NEW c, NEW v, NEW a,
           a \notin BitCsr \cup ViewCsr \cup WordCsr \cup CauseCsr \cup {CSR_SATP}
    PROVE  csr_write(c, a, v) = c
<1>1. /\ a \notin {CSR_MTVEC, CSR_STVEC} /\ a # CSR_MEPC /\ a # CSR_SEPC
      /\ a \notin BitCsr \cup ViewCsr /\ a \notin CauseCsr /\ a # CSR_SATP
  BY DEF WordCsr
<1> QED
  BY <1>1 DEF csr_write

\* What a CSR instruction writes is a value of its CSR.
LEMMA NewValueType ==
    ASSUME NEW c, WellFormed(c), NEW i, IsCsrInstr(i)
    PROVE  NewValue(c, i) \in CsrValue(i.csr)
<1>1. CASE i.csr \in BitCsr \cup ViewCsr
  <2>1. CsrValue(i.csr) = SUBSET Bit /\ i.operand \in SUBSET Bit
    BY <1>1, CsrValues DEF IsCsrInstr
  <2>2. \A a \in BitCsr : c.bits[a] \in SUBSET Bit
    BY DEF WellFormed, CpuType
  <2>3. csr_read(c, i.csr) \in SUBSET Bit
    <3>1. Stored(i.csr) \in BitCsr /\ CSR_MSTATUS \in BitCsr
      BY <1>1, StoredBits DEF BitCsr
    <3>2. CASE i.csr = CSR_SSTATUS
      <4>1. csr_read(c, i.csr) = (c.bits[CSR_MSTATUS] \cap SSTATUS_WRITE_MASK) \cup {33}
        BY <3>2 DEF csr_read, CSR_SSTATUS, CSR_SIE, CSR_SIP
      <4> QED
        BY <2>2, <3>1, <4>1 DEF Bit
    <3>3. CASE i.csr \in {CSR_SIE, CSR_SIP}
      <4>1. csr_read(c, i.csr) = c.bits[Stored(i.csr)] \cap c.bits[CSR_MIDELEG]
                                   \cap SUPERVISOR_INTERRUPT_MASK
        BY <3>3 DEF csr_read, CSR_SSTATUS, CSR_SIE, CSR_SIP
      <4> QED
        BY <2>2, <3>1, <4>1
    <3>4. CASE i.csr \notin {CSR_SSTATUS, CSR_SIE, CSR_SIP}
      <4>1. i.csr \in BitCsr
        BY <1>1, <3>4 DEF ViewCsr
      <4>2. csr_read(c, i.csr) = c.bits[i.csr]
        BY <3>4 DEF csr_read
      <4> QED
        BY <2>2, <4>1, <4>2
    <3> QED
      BY <3>2, <3>3, <3>4
  <2>4. \/ NewValue(c, i) = csr_read(c, i.csr) \cup i.operand
        \/ NewValue(c, i) = csr_read(c, i.csr) \ i.operand
        \/ NewValue(c, i) = i.operand
    BY <1>1 DEF NewValue
  <2> QED
    BY <2>1, <2>3, <2>4
<1>2. CASE i.csr \notin BitCsr \cup ViewCsr
  BY <1>2 DEF NewValue, IsCsrInstr
<1> QED
  BY <1>1, <1>2

\* A CSR write of a value of its CSR keeps the hart well formed, and never
\* touches pc, privilege or the flags.
LEMMA CsrWrite ==
    ASSUME NEW c, WellFormed(c), NEW a, NEW v \in CsrValue(a)
    PROVE  WellFormed(csr_write(c, a, v)) /\ SameControl(c, csr_write(c, a, v))
<1>1. CASE a \in BitCsr \cup ViewCsr
  BY <1>1, CsrValues, CsrWriteBits
<1>2. CASE a \in WordCsr
  BY <1>2, CsrValues, CsrWriteWord
<1>3. CASE a \in CauseCsr
  BY <1>3, CsrValues, CsrWriteCause
<1>4. CASE a = CSR_SATP
  BY <1>4, CsrValues, CsrWriteSatp
<1>5. CASE a \notin BitCsr \cup ViewCsr \cup WordCsr \cup CauseCsr \cup {CSR_SATP}
  BY <1>5, CsrWriteOpaque DEF SameControl
<1> QED
  BY <1>1, <1>2, <1>3, <1>4, <1>5

---------------------------------------------------------------------------
(* One step of the hart.                                                   *)

\* The harts dispatch_instruction can leave, from the hart b it is given.
Trapped(b, d)  == \E code \in ExceptionCode : d = raise_exception(b, code)
Jumped(b, d)   == \E t \in JumpTargets : d = jump(b, t)
SretDone(b, d) == b.priv # U_MODE /\ d = sret(b)
MretDone(b, d) == b.priv = M_MODE /\ d = mret(b)
CsrDone(b, d)  == \E i \in CsrInstrs : /\ CsrAccessOk(b, i) /\ Writes(i)
                                       /\ d = csr_write(b, i.csr, NewValue(b, i))

Outcome(b, d) ==
    d = b \/ Trapped(b, d) \/ Jumped(b, d) \/ SretDone(b, d) \/ MretDone(b, d)
          \/ CsrDone(b, d)

\* dispatch_instruction has no other outcomes.
LEMMA DispatchOutcome ==
    ASSUME NEW b, NEW d \in dispatch_instruction(b)
    PROVE  Outcome(b, d)
<1>0. \A code \in ExceptionCode : Outcome(b, raise_exception(b, code))
  BY DEF Outcome, Trapped
<1>00. Outcome(b, illegal(b)) /\ Outcome(b, ecall(b)) /\ Outcome(b, ebreak(b))
  BY <1>0 DEF illegal, ecall, ebreak, ExceptionCode
<1>2. CASE d \in Plain(b)
  BY <1>2 DEF Plain, Outcome
<1>3. CASE d \in Jump(b)
  BY <1>3 DEF Jump, Outcome, Jumped
<1>4. CASE d \in LoadFault(b) \cup StoreFault(b) \cup Misaligned(b)
  BY <1>0, <1>4 DEF LoadFault, StoreFault, Misaligned, ExceptionCode
<1>5. CASE d \in Illegal(b) \cup {ecall(b), ebreak(b)}
  BY <1>00, <1>5 DEF Illegal
<1>6. CASE d = sfence_vma(b)
  BY <1>00, <1>6 DEF sfence_vma, Outcome
<1>7. CASE d = sret(b)
  <2>1. CASE b.priv = U_MODE
    BY <1>00, <1>7, <2>1 DEF sret
  <2>2. CASE b.priv # U_MODE
    BY <1>7, <2>2 DEF Outcome, SretDone
  <2> QED
    BY <2>1, <2>2
<1>8. CASE d = mret(b)
  <2>1. CASE b.priv # M_MODE
    BY <1>00, <1>8, <2>1 DEF mret
  <2>2. CASE b.priv = M_MODE
    BY <1>8, <2>2 DEF Outcome, MretDone
  <2> QED
    BY <2>1, <2>2
<1>9. CASE d \in CsrOp(b)
  <2>1. PICK i \in CsrInstrs : d = csr_instruction(b, i)
    BY <1>9 DEF CsrOp
  <2>2. CASE ~CsrAccessOk(b, i)
    BY <1>00, <2>1, <2>2 DEF csr_instruction
  <2>3. CASE CsrAccessOk(b, i) /\ Writes(i)
    BY <2>1, <2>3 DEF csr_instruction, Outcome, CsrDone
  <2>4. CASE CsrAccessOk(b, i) /\ ~Writes(i)
    BY <2>1, <2>4 DEF csr_instruction, Outcome
  <2> QED
    BY <2>2, <2>3, <2>4
<1> QED
  BY <1>2, <1>3, <1>4, <1>5, <1>6, <1>7, <1>8, <1>9
     DEF dispatch_instruction, System

\* A step executes one instruction with one of these outcomes, and finishes.
LEMMA StepOutcome ==
    ASSUME Step
    PROVE  \E d : Outcome(Begin(cpu), d) /\ cpu' = Finish(d)
BY DispatchOutcome DEF Step, Retire

\* Every outcome is a well-formed hart.
LEMMA OutcomeType ==
    ASSUME NEW b, WellFormed(b), NEW d, Outcome(b, d)
    PROVE  WellFormed(d)
<1>1. CASE d = b
  BY <1>1
<1>2. CASE Trapped(b, d)
  BY <1>2, RaiseException DEF Trapped
<1>3. CASE Jumped(b, d)
  <2>1. PICK t \in Word : d = jump(b, t)
    BY <1>3, GuestAssumption DEF Jumped
  <2> QED
    BY <2>1, JumpStep
<1>4. CASE SretDone(b, d)
  BY <1>4, SretStep DEF SretDone
<1>5. CASE MretDone(b, d)
  BY <1>5, MretStep DEF MretDone
<1>6. CASE CsrDone(b, d)
  BY <1>6, GuestAssumption, NewValueType, CsrWrite DEF CsrDone
<1> QED
  BY <1>1, <1>2, <1>3, <1>4, <1>5, <1>6 DEF Outcome

\* The fault of a failed fetch.
LEMMA FetchFaultTrap ==
    ASSUME TypeOK, FetchFault
    PROVE  LET b     == Begin(cpu)
               cause == [interrupt |-> FALSE, code |-> EXC_INSTR_PAGE_FAULT]
           IN  /\ TypeOK'
               /\ IF Delegated(b, CSR_MEDELEG, EXC_INSTR_PAGE_FAULT)
                  THEN STrap(b, cpu', cause)
                  ELSE MTrap(b, cpu', cause)
<1>1. WellFormed(Begin(cpu)) /\ EXC_INSTR_PAGE_FAULT \in ExceptionCode
  BY BeginStep DEF TypeOK, ExceptionCode
<1>2. cpu' = raise_exception(Begin(cpu), EXC_INSTR_PAGE_FAULT)
  BY DEF FetchFault
<1>3. TypeOK' <=> WellFormed(cpu')
  BY DEF TypeOK
<1> QED
  BY <1>1, <1>2, <1>3, RaiseException

\* vm_tick changes bits 3 and 7 of mip only.
LEMMA LinesStep ==
    ASSUME NEW c, WellFormed(c), NEW software \in BOOLEAN, NEW timer \in BOOLEAN
    PROVE  LET d == Lines(c, software, timer)
           IN  /\ WellFormed(d) /\ SameControl(c, d)
               /\ d.word = c.word /\ d.cause = c.cause /\ d.satp = c.satp
               /\ \A a \in BitCsr \ {CSR_MIP} : d.bits[a] = c.bits[a]
               /\ \A x \in Bit \ {IRQ_SOFTWARE, IRQ_TIMER} :
                     (x \in d.bits[CSR_MIP]) <=> (x \in c.bits[CSR_MIP])
               /\ (IRQ_SOFTWARE \in d.bits[CSR_MIP]) <=> software
               /\ (IRQ_TIMER \in d.bits[CSR_MIP]) <=> timer
<1> DEFINE One(s, x, on) == IF on THEN s \cup {x} ELSE s \ {x}
           m == c.bits[CSR_MIP]
           n == One(m, IRQ_SOFTWARE, software)
           p == One(n, IRQ_TIMER, timer)
           e == [c EXCEPT !.bits[CSR_MIP] = n]
           d == [e EXCEPT !.bits[CSR_MIP] = p]
<1>1. CSR_MIP \in BitCsr /\ m \in SUBSET Bit
  BY DEF WellFormed, CpuType, BitCsr
<1>2. n \in SUBSET Bit /\ p \in SUBSET Bit
  BY <1>1 DEF Bit, IRQ_SOFTWARE, IRQ_TIMER
<1>3. /\ (IRQ_SOFTWARE \in p) <=> software
      /\ (IRQ_TIMER \in p) <=> timer
      /\ \A x \in Bit \ {IRQ_SOFTWARE, IRQ_TIMER} : (x \in p) <=> (x \in m)
  BY DEF IRQ_SOFTWARE, IRQ_TIMER
<1>4. cpu_set_interrupt_pending(c, IRQ_SOFTWARE, software) = e
  BY DEF cpu_set_interrupt_pending
<1> HIDE DEF n
<1>5. /\ WellFormed(e) /\ SameControl(c, e)
      /\ e.bits = [c.bits EXCEPT ![CSR_MIP] = n]
      /\ e.word = c.word /\ e.cause = c.cause /\ e.satp = c.satp
  BY <1>1, <1>2, BitWrite DEF SameControl
<1>6. c.bits \in [BitCsr -> SUBSET Bit]
  BY DEF WellFormed, CpuType
<1>7. e.bits[CSR_MIP] = n
  BY <1>1, <1>5, <1>6
<1> HIDE DEF e
<1>8. cpu_set_interrupt_pending(e, IRQ_TIMER, timer) = d
  BY <1>7 DEF cpu_set_interrupt_pending
<1>9. Lines(c, software, timer) = d
  BY <1>4, <1>8 DEF Lines
<1> HIDE DEF p
<1>10. /\ WellFormed(d) /\ SameControl(e, d)
       /\ d.bits = [e.bits EXCEPT ![CSR_MIP] = p]
       /\ d.word = e.word /\ d.cause = e.cause /\ d.satp = e.satp
  BY <1>1, <1>2, <1>5, BitWrite DEF SameControl
<1> HIDE DEF d
<1>11. d.bits[CSR_MIP] = p /\ \A a \in BitCsr \ {CSR_MIP} : d.bits[a] = c.bits[a]
  BY <1>1, <1>5, <1>6, <1>10
<1> QED
  BY <1>3, <1>5, <1>9, <1>10, <1>11 DEF SameControl

---------------------------------------------------------------------------
(* Type correctness.                                                       *)

\* The state cpu_reset leaves is well formed.
LEMMA ResetType == WellFormed(cpu_reset)
<1>1. RAM_BASE \in Word /\ 0 \in Word /\ RAM_BASE % 4 = 0 /\ 0 % 4 = 0
  BY WordSizeAssumption, RamBaseAssumption DEF Word
<1>2. M_MODE \in Privilege /\ ResetCause \in Cause /\ {MPP0, MPP1} \in SUBSET Bit
  BY DEF M_MODE, Privilege, ResetCause, Cause, Bit, MPP0, MPP1
<1>3. cpu_reset \in CpuType
  BY <1>1, <1>2 DEF cpu_reset, CpuType
<1>4. /\ cpu_reset.word[CSR_MTVEC] = RAM_BASE
      /\ cpu_reset.word[CSR_STVEC] = 0
  BY DEF cpu_reset, WordCsr, CSR_MTVEC, CSR_STVEC
<1> QED
  BY <1>1, <1>3, <1>4 DEF WellFormed

\* Between steps the hart is well formed and no pc_written is left over.
HartInv == TypeOK /\ cpu.pc_written = FALSE

\* A step as a whole: b is the hart it starts from, d the outcome of its
\* instruction, e the hart the interrupt check sees and f the one it leaves.
LEMMA StepShape ==
    ASSUME HartInv, Step
    PROVE  \E d : /\ Outcome(Begin(cpu), d) /\ WellFormed(d)
                  /\ cpu' = Finish(d)
                  /\ HartInv'
<1>1. PICK d : Outcome(Begin(cpu), d) /\ cpu' = Finish(d)
  BY StepOutcome
<1>2. WellFormed(d)
  BY <1>1, BeginStep, OutcomeType DEF HartInv, TypeOK
<1>3. WellFormed(cpu') /\ cpu'.pc_written = FALSE
  BY <1>1, <1>2, FinishStep
<1> QED
  BY <1>1, <1>2, <1>3 DEF HartInv, TypeOK

\* Every action of the hart preserves the invariant.
LEMMA HartInvStep ==
    ASSUME HartInv, [Next]_cpu
    PROVE  HartInv'
<1>1. CASE Step
  BY <1>1, StepShape
<1>2. CASE FetchFault
  <2>1. TypeOK' /\ cpu'.pc_written = Begin(cpu).pc_written
    BY <1>2, FetchFaultTrap DEF HartInv, STrap, MTrap, Frame
  <2>2. Begin(cpu).pc_written = cpu.pc_written
    BY BeginStep DEF HartInv, TypeOK
  <2> QED
    BY <2>1, <2>2 DEF HartInv
<1>3. CASE Tick
  BY <1>3, LinesStep DEF Tick, HartInv, TypeOK, SameControl
<1>4. CASE UNCHANGED cpu
  BY <1>4 DEF HartInv, TypeOK
<1> QED
  BY <1>1, <1>2, <1>3, <1>4 DEF Next

\* The reset state satisfies the invariant.
LEMMA HartInvInit == Init => HartInv
BY ResetType DEF Init, HartInv, TypeOK, cpu_reset

\* The hart invariant holds in every reachable state.
THEOREM HartInvariant == Spec => []HartInv
<1>1. HartInv /\ [Next]_cpu => HartInv'
  BY HartInvStep
<1> QED
  BY <1>1, HartInvInit, PTL DEF Spec

\* The hart is well formed in every reachable state: no operation of csr.c,
\* trap.c or system.c takes a field of cpu_t out of its type, and mtvec and
\* stvec stay multiples of 4 for every guest program.
THEOREM TypeCorrect == Spec => []TypeOK
<1>1. HartInv => TypeOK
  BY DEF HartInv
<1> QED
  BY <1>1, HartInvariant, PTL

---------------------------------------------------------------------------
(* The action properties.                                                  *)

\* The end of a step: either no interrupt can be taken and the hart keeps its
\* state, or the first takeable interrupt traps it.
LEMMA FinishCases ==
    ASSUME NEW d, WellFormed(d)
    PROVE  LET e == increment_pc(d)
               f == cpu_check_interrupts(e)
               r == Finish(d)
           IN  /\ WellFormed(e) /\ WellFormed(f) /\ WellFormed(r)
               /\ SameButFlags(f, r) /\ r.trap_taken = f.trap_taken
               /\ \/ ~InterruptPossible(e) /\ f = e
                  \/ \E k \in 1..6 :
                        /\ Chosen(e, k)
                        /\ Delegated(e, CSR_MIDELEG, Priority[k])
                        /\ STrap(e, f, [interrupt |-> TRUE, code |-> Priority[k]])
                  \/ \E k \in 1..6 :
                        /\ Chosen(e, k)
                        /\ ~Delegated(e, CSR_MIDELEG, Priority[k])
                        /\ MTrap(e, f, [interrupt |-> TRUE, code |-> Priority[k]])
<1> DEFINE e == increment_pc(d)
           f == cpu_check_interrupts(e)
           r == Finish(d)
<1>1. WellFormed(e)
  BY IncrementPc
<1>2. /\ WellFormed(f) /\ WellFormed(r)
      /\ SameButFlags(f, r) /\ r.trap_taken = f.trap_taken
  BY FinishStep
<1> HIDE DEF e, r
<1>3. /\ ~InterruptPossible(e) => f = e
      /\ InterruptPossible(e) =>
           \E k \in 1..6 :
              /\ Chosen(e, k)
              /\ IF Delegated(e, CSR_MIDELEG, Priority[k])
                 THEN STrap(e, f, [interrupt |-> TRUE, code |-> Priority[k]])
                 ELSE MTrap(e, f, [interrupt |-> TRUE, code |-> Priority[k]])
  BY <1>1, CheckInterrupts
<1> HIDE DEF f
<1> QED
  BY <1>1, <1>2, <1>3 DEF e, f, r

\* A CSR instruction that succeeds leaves pc, the mode and the flags alone.
LEMMA CsrDoneControl ==
    ASSUME NEW b, WellFormed(b), NEW d, CsrDone(b, d)
    PROVE  SameControl(b, d)
<1>1. PICK i \in CsrInstrs : d = csr_write(b, i.csr, NewValue(b, i))
  BY DEF CsrDone
<1>2. NewValue(b, i) \in CsrValue(i.csr)
  BY GuestAssumption, NewValueType
<1> QED
  BY <1>1, <1>2, CsrWrite

\* Whether an interrupt can be taken depends on the CSRs and the mode only.
LEMMA TakeableSame ==
    ASSUME NEW c, NEW r, r.bits = c.bits, r.priv = c.priv, NEW x
    PROVE  Takeable(r, x) <=> Takeable(c, x)
BY DEF Takeable

---------------------------------------------------------------------------
(* NoInterruptLeftBehind *)

\* After the step no interrupt is takeable that cpu_check_interrupts should
\* have taken.
LEMMA NothingLeftStep ==
    ASSUME HartInv, Step
    PROVE  NothingLeftBehind
<1>1. PICK d : Outcome(Begin(cpu), d) /\ WellFormed(d) /\ cpu' = Finish(d)
  BY StepShape
<1> DEFINE e == increment_pc(d)
           f == cpu_check_interrupts(e)
<1>2. /\ WellFormed(e) /\ WellFormed(f) /\ WellFormed(cpu')
      /\ SameButFlags(f, cpu')
      /\ \/ ~InterruptPossible(e) /\ f = e
         \/ \E k \in 1..6 :
               /\ Delegated(e, CSR_MIDELEG, Priority[k])
               /\ STrap(e, f, [interrupt |-> TRUE, code |-> Priority[k]])
         \/ \E k \in 1..6 :
               MTrap(e, f, [interrupt |-> TRUE, code |-> Priority[k]])
  BY <1>1, FinishCases
<1> HIDE DEF e, f
<1> SUFFICES ASSUME NEW j \in 1..6, Takeable(cpu', Priority[j])
             PROVE  /\ cpu'.priv = S_MODE
                    /\ cpu'.cause[CSR_SCAUSE].interrupt
                    /\ cpu'.pc = cpu'.word[CSR_STVEC]
                    /\ Priority[j] \notin cpu'.bits[CSR_MIDELEG]
  BY DEF NothingLeftBehind
<1>3. Takeable(f, Priority[j])
  BY <1>2, TakeableSame DEF SameButFlags
<1>4. CASE ~InterruptPossible(e) /\ f = e
  BY <1>3, <1>4 DEF InterruptPossible
<1>5. ASSUME NEW k \in 1..6, STrap(e, f, [interrupt |-> TRUE, code |-> Priority[k]])
      PROVE  /\ cpu'.priv = S_MODE
             /\ cpu'.cause[CSR_SCAUSE].interrupt
             /\ cpu'.pc = cpu'.word[CSR_STVEC]
             /\ Priority[j] \notin cpu'.bits[CSR_MIDELEG]
  <2>1. /\ f.priv = S_MODE
        /\ f.cause[CSR_SCAUSE].interrupt
        /\ f.pc = Aligned(e.word[CSR_STVEC])
        /\ SIE \notin f.bits[CSR_MSTATUS]
    BY <1>5 DEF STrap
  <2>2. Priority[j] \notin f.bits[CSR_MIDELEG]
    BY <1>3, <2>1 DEF Takeable
  <2>3. CSR_STVEC \in WordCsr \ {CSR_SEPC} /\ CSR_STVEC \in WordCsr
    BY DEF WordCsr, CSR_STVEC, CSR_SEPC
  <2>4. f.word[CSR_STVEC] = e.word[CSR_STVEC]
    BY <1>5, <2>3 DEF STrap, Frame
  <2>5. e.word[CSR_STVEC] \in Word /\ e.word[CSR_STVEC] % 4 = 0
    BY <1>2, <2>3 DEF WellFormed, CpuType
  <2>6. f.pc = f.word[CSR_STVEC]
    BY <2>1, <2>4, <2>5, AlignedIsIdentity
  <2> QED
    BY <1>2, <2>1, <2>2, <2>6 DEF SameButFlags
<1>6. ASSUME NEW k \in 1..6, MTrap(e, f, [interrupt |-> TRUE, code |-> Priority[k]])
      PROVE  FALSE
  BY <1>3, <1>6 DEF MTrap, Takeable
<1> QED
  BY <1>2, <1>4, <1>5, <1>6

\* When a step ends, cpu_check_interrupts has left no interrupt it could have
\* taken, except one for M-mode behind a delegated one that entered S-mode.
THEOREM InterruptsAreTaken == Spec => NoInterruptLeftBehind
<1>1. HartInv /\ [Next]_cpu => [NothingLeftBehind]_cpu
  BY NothingLeftStep DEF NothingLeftBehind
<1> QED
  BY <1>1, HartInvariant, PTL DEF Spec, NoInterruptLeftBehind

---------------------------------------------------------------------------
(* SequentialPc *)

\* The end of a step keeps trap_taken, and moves pc by 4 unless the
\* instruction trapped or wrote pc.
LEMMA FinishPc ==
    ASSUME NEW d, WellFormed(d), ~Finish(d).trap_taken
    PROVE  /\ ~d.trap_taken
           /\ ~d.pc_written => Finish(d).pc = (d.pc + 4) % WordSize
<1> DEFINE e == increment_pc(d)
           f == cpu_check_interrupts(e)
<1>1. /\ SameButFlags(f, Finish(d)) /\ ~f.trap_taken
      /\ \/ f = e
         \/ \E k \in 1..6 : STrap(e, f, [interrupt |-> TRUE, code |-> Priority[k]])
         \/ \E k \in 1..6 : MTrap(e, f, [interrupt |-> TRUE, code |-> Priority[k]])
  BY FinishCases
<1> HIDE DEF f
<1>2. f = e
  BY <1>1 DEF STrap, MTrap, Frame
<1>3. /\ e.trap_taken = d.trap_taken
      /\ e.pc = IF ~d.trap_taken /\ ~d.pc_written THEN (d.pc + 4) % WordSize ELSE d.pc
  BY IncrementPc
<1> HIDE DEF e
<1> QED
  BY <1>1, <1>2, <1>3 DEF SameButFlags

\* An instruction that neither jumps nor returns leaves pc and pc_written
\* alone, or traps.
LEMMA OutcomePc ==
    ASSUME NEW b, WellFormed(b), NEW d, Outcome(b, d),
           ~Jumped(b, d), ~SretDone(b, d), ~MretDone(b, d)
    PROVE  d.trap_taken \/ (d.pc = b.pc /\ d.pc_written = b.pc_written)
<1>1. CASE d = b
  BY <1>1
<1>2. CASE Trapped(b, d)
  <2>1. PICK code \in ExceptionCode : d = raise_exception(b, code)
    BY <1>2 DEF Trapped
  <2> DEFINE cause == [interrupt |-> FALSE, code |-> code]
  <2>2. STrap(b, d, cause) \/ MTrap(b, d, cause)
    BY <2>1, RaiseException
  <2> QED
    BY <2>2 DEF STrap, MTrap, Frame
<1>3. CASE CsrDone(b, d)
  BY <1>3, CsrDoneControl DEF SameControl
<1> QED
  BY <1>1, <1>2, <1>3 DEF Outcome

\* The actions that match the outcomes which write pc.
LEMMA SequentialStep ==
    ASSUME HartInv, [Next]_cpu
    PROVE  [Sequential]_cpu
<1> SUFFICES ASSUME Step, ~cpu'.trap_taken
             PROVE  \/ cpu'.pc = (cpu.pc + 4) % WordSize
                    \/ \E d \in ControlTransfer(Begin(cpu)) : Retire(d)
  <2>1. FetchFault => cpu'.trap_taken
    BY FetchFaultTrap DEF HartInv, STrap, MTrap, Frame
  <2> QED
    BY <2>1 DEF Sequential, Next
<1> DEFINE b == Begin(cpu)
<1>1. PICK d : Outcome(b, d) /\ WellFormed(d) /\ cpu' = Finish(d)
  BY StepShape
<1>2. CASE Jumped(b, d)
  BY <1>1, <1>2 DEF Jumped, Jump, ControlTransfer, Retire
<1>3. CASE SretDone(b, d)
  BY <1>1, <1>3 DEF SretDone, ControlTransfer, Retire
<1>4. CASE MretDone(b, d)
  BY <1>1, <1>4 DEF MretDone, ControlTransfer, Retire
<1>5. CASE ~Jumped(b, d) /\ ~SretDone(b, d) /\ ~MretDone(b, d)
  <2>1. /\ WellFormed(b) /\ b.pc = cpu.pc /\ b.pc_written = FALSE
    BY BeginStep DEF HartInv, TypeOK, SameButFlags
  <2>2. ~d.trap_taken /\ (~d.pc_written => cpu'.pc = (d.pc + 4) % WordSize)
    BY <1>1, FinishPc
  <2>3. d.pc = b.pc /\ d.pc_written = b.pc_written
    BY <1>1, <1>5, <2>1, <2>2, OutcomePc
  <2> QED
    BY <2>1, <2>2, <2>3
<1> QED
  BY <1>2, <1>3, <1>4, <1>5

\* A step that does not trap and is neither a jump nor a return advances pc
\* by exactly one instruction: the pc_written flag of one step never leaks
\* into the next, because no step begins with it set.
THEOREM ExecutionIsSequential == Spec => SequentialPc
BY SequentialStep, HartInvariant, PTL DEF Spec, SequentialPc

---------------------------------------------------------------------------
(* PrivilegeRisesOnlyByTrap *)

\* Only M-mode replaces mtvec, and U-mode does not replace stvec.
LEMMA VectorsKept ==
    ASSUME NEW b, WellFormed(b), NEW d, Outcome(b, d)
    PROVE  /\ b.priv < M_MODE => d.word[CSR_MTVEC] = b.word[CSR_MTVEC]
           /\ b.priv = U_MODE => d.word[CSR_STVEC] = b.word[CSR_STVEC]
<1>1. CASE d = b
  BY <1>1
<1>2. CASE Trapped(b, d)
  <2>1. PICK code \in ExceptionCode : d = raise_exception(b, code)
    BY <1>2 DEF Trapped
  <2> DEFINE cause == [interrupt |-> FALSE, code |-> code]
  <2>2. STrap(b, d, cause) \/ MTrap(b, d, cause)
    BY <2>1, RaiseException
  <2>3. /\ CSR_MTVEC \in WordCsr \ {CSR_MEPC} /\ CSR_MTVEC \in WordCsr \ {CSR_SEPC}
        /\ CSR_STVEC \in WordCsr \ {CSR_MEPC} /\ CSR_STVEC \in WordCsr \ {CSR_SEPC}
    BY DEF WordCsr, CSR_MTVEC, CSR_STVEC, CSR_MEPC, CSR_SEPC
  <2> QED
    BY <2>2, <2>3 DEF STrap, MTrap, Frame
<1>3. CASE Jumped(b, d)
  <2>1. PICK t \in Word : d = jump(b, t)
    BY <1>3, GuestAssumption DEF Jumped
  <2>2. d.word = b.word
    BY <2>1, JumpStep
  <2> QED
    BY <2>2
<1>4. CASE SretDone(b, d)
  BY <1>4, SretStep DEF SretDone, Returned
<1>5. CASE MretDone(b, d)
  BY <1>5, MretStep DEF MretDone, Returned
<1>6. CASE CsrDone(b, d)
  <2>1. PICK i \in CsrInstrs : /\ CsrAccessOk(b, i) /\ Writes(i)
                               /\ d = csr_write(b, i.csr, NewValue(b, i))
    BY <1>6 DEF CsrDone
  <2>2. csr_can_write(b, i.csr)
    BY <2>1 DEF CsrAccessOk, WriteOk
  <2>3. NewValue(b, i) \in CsrValue(i.csr)
    BY GuestAssumption, NewValueType
  <2>4. b.priv \in Privilege
    BY DEF WellFormed, CpuType
  <2>5. CASE i.csr \in WordCsr
    <3>1. \A x \in WordCsr \ {i.csr} : d.word[x] = b.word[x]
      BY <2>1, <2>3, <2>5, CsrValues, CsrWriteWord
    <3>2. b.priv < M_MODE => i.csr # CSR_MTVEC
      BY <2>2, <2>4 DEF csr_can_write, CSR_MTVEC, M_MODE, Privilege
    <3>3. b.priv = U_MODE => i.csr # CSR_STVEC
      BY <2>2 DEF csr_can_write, CSR_STVEC, U_MODE
    <3>4. CSR_MTVEC \in WordCsr /\ CSR_STVEC \in WordCsr
      BY DEF WordCsr
    <3> QED
      BY <3>1, <3>2, <3>3, <3>4
  <2>6. CASE i.csr \notin WordCsr
    <3>1. CASE i.csr \in BitCsr \cup ViewCsr
      <4>1. NewValue(b, i) \in SUBSET Bit
        BY <2>3, <3>1, CsrValues
      <4>2. d.word = b.word
        BY <2>1, <3>1, <4>1, CsrWriteBits
      <4> QED
        BY <4>2
    <3>2. CASE i.csr \in CauseCsr
      <4>1. NewValue(b, i) \in Cause
        BY <2>3, <3>2, CsrValues
      <4>2. d.word = b.word
        BY <2>1, <3>2, <4>1, CsrWriteCause
      <4> QED
        BY <4>2
    <3>3. CASE i.csr = CSR_SATP
      BY <2>1, <2>3, <3>3, CsrValues, CsrWriteSatp
    <3>4. CASE i.csr \notin BitCsr \cup ViewCsr \cup WordCsr \cup CauseCsr \cup {CSR_SATP}
      BY <2>1, <3>4, CsrWriteOpaque
    <3> QED
      BY <2>6, <3>1, <3>2, <3>3, <3>4
  <2> QED
    BY <2>5, <2>6
<1> QED
  BY <1>1, <1>2, <1>3, <1>4, <1>5, <1>6 DEF Outcome

\* The hart stands at the vector of its mode, having trapped.
AtVector(r) == /\ r.trap_taken
               /\ r.priv \in {S_MODE, M_MODE}
               /\ r.pc = r.word[IF r.priv = M_MODE THEN CSR_MTVEC ELSE CSR_STVEC]

\* A trap leaves the hart at the vector of the mode it entered.
LEMMA TrapVector ==
    ASSUME NEW c, WellFormed(c), NEW r, NEW cause, STrap(c, r, cause) \/ MTrap(c, r, cause)
    PROVE  /\ AtVector(r)
           /\ r.word[CSR_MTVEC] = c.word[CSR_MTVEC]
           /\ r.word[CSR_STVEC] = c.word[CSR_STVEC]
<1>1. /\ CSR_MTVEC \in WordCsr \ {CSR_MEPC} /\ CSR_MTVEC \in WordCsr \ {CSR_SEPC}
      /\ CSR_STVEC \in WordCsr \ {CSR_MEPC} /\ CSR_STVEC \in WordCsr \ {CSR_SEPC}
  BY DEF WordCsr, CSR_MTVEC, CSR_STVEC, CSR_MEPC, CSR_SEPC
<1>2. r.word[CSR_MTVEC] = c.word[CSR_MTVEC] /\ r.word[CSR_STVEC] = c.word[CSR_STVEC]
  BY <1>1 DEF STrap, MTrap, Frame
<1>3. /\ Aligned(c.word[CSR_MTVEC]) = c.word[CSR_MTVEC]
      /\ Aligned(c.word[CSR_STVEC]) = c.word[CSR_STVEC]
  BY <1>1, AlignedIsIdentity DEF WellFormed, CpuType
<1>4. CASE STrap(c, r, cause)
  <2>1. r.trap_taken /\ r.priv = S_MODE /\ r.pc = r.word[CSR_STVEC]
    BY <1>2, <1>3, <1>4 DEF STrap, Frame
  <2> QED
    BY <1>2, <2>1 DEF AtVector, S_MODE, M_MODE
<1>5. CASE MTrap(c, r, cause)
  <2>1. r.trap_taken /\ r.priv = M_MODE /\ r.pc = r.word[CSR_MTVEC]
    BY <1>2, <1>3, <1>5 DEF MTrap, Frame
  <2> QED
    BY <1>2, <2>1 DEF AtVector
<1> QED
  BY <1>4, <1>5

\* Without a trap an instruction keeps the privilege level or lowers it.
LEMMA OutcomePriv ==
    ASSUME NEW b, WellFormed(b), NEW d, Outcome(b, d)
    PROVE  AtVector(d) \/ d.priv <= b.priv
<1>0. b.priv \in Privilege
  BY DEF WellFormed, CpuType
<1>1. CASE d = b
  BY <1>0, <1>1 DEF Privilege
<1>2. CASE Trapped(b, d)
  <2>1. PICK code \in ExceptionCode : d = raise_exception(b, code)
    BY <1>2 DEF Trapped
  <2> DEFINE cause == [interrupt |-> FALSE, code |-> code]
  <2>2. STrap(b, d, cause) \/ MTrap(b, d, cause)
    BY <2>1, RaiseException
  <2> HIDE DEF cause
  <2> QED
    BY <2>2, TrapVector
<1>3. CASE Jumped(b, d)
  <2>1. PICK t \in Word : d = jump(b, t)
    BY <1>3, GuestAssumption DEF Jumped
  <2>2. d.priv = b.priv
    BY <2>1, JumpStep
  <2> QED
    BY <1>0, <2>2 DEF Privilege
<1>4. CASE SretDone(b, d)
  <2>1. d.priv = SretPriv(b.bits[CSR_MSTATUS]) /\ b.priv # U_MODE
    BY <1>4, SretStep DEF SretDone, Returned
  <2> QED
    BY <1>0, <2>1 DEF SretPriv, S_MODE, U_MODE, Privilege
<1>5. CASE MretDone(b, d)
  <2>1. d.priv \in Privilege /\ b.priv = M_MODE
    BY <1>5, MretStep DEF MretDone, Returned
  <2> QED
    BY <2>1 DEF Privilege, M_MODE
<1>6. CASE CsrDone(b, d)
  <2>1. d.priv = b.priv
    BY <1>6, CsrDoneControl DEF SameControl
  <2> QED
    BY <1>0, <2>1 DEF Privilege
<1> QED
  BY <1>1, <1>2, <1>3, <1>4, <1>5, <1>6 DEF Outcome

\* The end of a step keeps the vectors; it raises the privilege level only by
\* an interrupt.
LEMMA FinishPriv ==
    ASSUME NEW d, WellFormed(d)
    PROVE  LET r == Finish(d)
           IN  /\ AtVector(r) \/ (r.priv = d.priv /\ ~AtVector(d))
               /\ r.word[CSR_MTVEC] = d.word[CSR_MTVEC]
               /\ r.word[CSR_STVEC] = d.word[CSR_STVEC]
<1> DEFINE e == increment_pc(d)
           f == cpu_check_interrupts(e)
           r == Finish(d)
<1>1. /\ WellFormed(e)
      /\ SameButFlags(f, r) /\ r.trap_taken = f.trap_taken
      /\ \/ f = e
         \/ \E k \in 1..6 : STrap(e, f, [interrupt |-> TRUE, code |-> Priority[k]])
         \/ \E k \in 1..6 : MTrap(e, f, [interrupt |-> TRUE, code |-> Priority[k]])
  BY FinishCases
<1>2. /\ e.priv = d.priv /\ e.word = d.word /\ e.trap_taken = d.trap_taken
      /\ d.trap_taken => e.pc = d.pc
  BY IncrementPc
<1> HIDE DEF e, f, r
<1>3. AtVector(f) => AtVector(r)
  BY <1>1 DEF AtVector, SameButFlags
<1>4. r.word = f.word /\ r.priv = f.priv
  BY <1>1 DEF SameButFlags
<1>5. CASE f = e
  <2>1. AtVector(d) => AtVector(e)
    BY <1>2 DEF AtVector
  <2> QED
    BY <1>2, <1>3, <1>4, <1>5, <2>1 DEF r
<1>6. CASE f # e
  <2>1. \E cause : STrap(e, f, cause) \/ MTrap(e, f, cause)
    BY <1>1, <1>6
  <2>2. /\ AtVector(f)
        /\ f.word[CSR_MTVEC] = e.word[CSR_MTVEC]
        /\ f.word[CSR_STVEC] = e.word[CSR_STVEC]
    BY <1>1, <2>1, TrapVector
  <2> QED
    BY <1>2, <1>3, <1>4, <2>2 DEF r
<1> QED
  BY <1>5, <1>6

\* Every action raises the privilege level only by a trap to the vector that
\* was installed before it.
LEMMA PrivilegeStep ==
    ASSUME HartInv, [Next]_cpu
    PROVE  PrivilegeRises
<1> SUFFICES ASSUME cpu'.priv > cpu.priv
             PROVE  /\ cpu'.trap_taken
                    /\ cpu'.priv \in {S_MODE, M_MODE}
                    /\ cpu'.pc = cpu.word[IF cpu'.priv = M_MODE THEN CSR_MTVEC
                                                                ELSE CSR_STVEC]
  BY DEF PrivilegeRises
<1> DEFINE b == Begin(cpu)
<1>1. WellFormed(b) /\ b.priv = cpu.priv /\ b.word = cpu.word
  BY BeginStep DEF HartInv, TypeOK, SameButFlags
<1>2. cpu.priv \in Privilege
  BY DEF HartInv, TypeOK, WellFormed, CpuType
<1>3. CASE Step
  <2>1. PICK d : Outcome(b, d) /\ WellFormed(d) /\ cpu' = Finish(d)
    BY <1>3, StepShape
  <2>2. d.priv \in Privilege
    BY <2>1 DEF WellFormed, CpuType
  <2> HIDE DEF b
  <2>3. AtVector(d) \/ d.priv <= b.priv
    BY <1>1, <2>1, OutcomePriv
  <2>4. /\ AtVector(cpu') \/ (cpu'.priv = d.priv /\ ~AtVector(d))
        /\ cpu'.word[CSR_MTVEC] = d.word[CSR_MTVEC]
        /\ cpu'.word[CSR_STVEC] = d.word[CSR_STVEC]
    BY <2>1, FinishPriv
  <2>5. AtVector(cpu')
    <3>1. ~(cpu'.priv <= cpu.priv)
      BY <1>2, <2>2, <2>4 DEF AtVector, Privilege, S_MODE, M_MODE
    <3> QED
      BY <1>1, <2>3, <2>4, <3>1
  <2>6. /\ b.priv < M_MODE => d.word[CSR_MTVEC] = b.word[CSR_MTVEC]
        /\ b.priv = U_MODE => d.word[CSR_STVEC] = b.word[CSR_STVEC]
    BY <1>1, <2>1, VectorsKept
  <2>7. CASE cpu'.priv = M_MODE
    <3>1. cpu.priv < M_MODE
      BY <1>2, <2>7
    <3> QED
      BY <1>1, <2>4, <2>5, <2>6, <2>7, <3>1 DEF AtVector
  <2>8. CASE cpu'.priv = S_MODE
    <3>1. cpu.priv = U_MODE
      BY <1>2, <2>8 DEF Privilege, S_MODE, U_MODE
    <3> QED
      BY <1>1, <2>4, <2>5, <2>6, <2>8, <3>1 DEF AtVector, S_MODE, M_MODE
  <2> QED
    BY <2>5, <2>7, <2>8 DEF AtVector
<1>4. CASE FetchFault
  <2> DEFINE cause == [interrupt |-> FALSE, code |-> EXC_INSTR_PAGE_FAULT]
  <2>1. STrap(b, cpu', cause) \/ MTrap(b, cpu', cause)
    BY <1>4, FetchFaultTrap DEF HartInv
  <2> HIDE DEF cause, b
  <2> QED
    BY <1>1, <2>1, TrapVector DEF AtVector
<1>5. CASE Tick
  <2>1. cpu'.priv = cpu.priv
    BY <1>5, LinesStep DEF Tick, HartInv, TypeOK, SameControl
  <2> QED
    BY <1>2, <2>1 DEF Privilege
<1>6. CASE UNCHANGED cpu
  BY <1>2, <1>6 DEF Privilege
<1> QED
  BY <1>3, <1>4, <1>5, <1>6 DEF Next

\* The privilege level of the hart rises only by a trap that lands on the
\* vector installed when the step began, for every guest program: neither a
\* return nor a CSR write gains privilege, even when an interrupt follows it
\* in the same cpu_step.
THEOREM PrivilegeIsGainedByTrap == Spec => PrivilegeRisesOnlyByTrap
BY PrivilegeStep, HartInvariant, PTL DEF Spec, PrivilegeRisesOnlyByTrap

---------------------------------------------------------------------------
(* The interrupt lines in mip: nothing but a tick moves them.              *)

LineBits(c) == c.bits[CSR_MIP] \cap {IRQ_SOFTWARE, IRQ_TIMER}

\* A trap does not change mip.
LEMMA TrapLines ==
    ASSUME NEW c, NEW r, NEW cause, STrap(c, r, cause) \/ MTrap(c, r, cause)
    PROVE  LineBits(r) = LineBits(c)
<1>1. CSR_MIP \in BitCsr \ {CSR_MSTATUS}
  BY DEF BitCsr, CSR_MIP, CSR_MSTATUS
<1> QED
  BY <1>1 DEF STrap, MTrap, Frame, LineBits

\* The masks of mip and sip exclude the two lines.
LEMMA LinesMasked ==
    ASSUME NEW c, NEW a \in BitCsr \cup ViewCsr, Stored(a) = CSR_MIP
    PROVE  write_mask(c, a) \cap {IRQ_SOFTWARE, IRQ_TIMER} = {}
<1>1. a = CSR_MIP \/ a = CSR_SIP
  BY DEF Stored, CSR_MIP, CSR_SIP, CSR_SSTATUS, CSR_SIE, CSR_MSTATUS, CSR_MIE
<1>2. CASE a = CSR_MIP
  <2>1. write_mask(c, a) = {1, 5}
    BY <1>2 DEF write_mask, CSR_MIP, CSR_MSTATUS, CSR_SSTATUS, CSR_SIE, CSR_SIP, CSR_MIE,
                   CSR_MCOUNTEREN, CSR_SCOUNTEREN
  <2> QED
    BY <2>1 DEF IRQ_SOFTWARE, IRQ_TIMER
<1>3. CASE a = CSR_SIP
  <2>1. write_mask(c, a) \subseteq SUPERVISOR_INTERRUPT_MASK
    BY <1>3 DEF write_mask, CSR_SIP, CSR_MSTATUS, CSR_SSTATUS, CSR_SIE, CSR_MIE,
                   CSR_MIP, CSR_MCOUNTEREN, CSR_SCOUNTEREN
  <2> QED
    BY <2>1 DEF SUPERVISOR_INTERRUPT_MASK, IRQ_SOFTWARE, IRQ_TIMER
<1> QED
  BY <1>1, <1>2, <1>3

\* A CSR instruction leaves the lines alone.
LEMMA CsrDoneLines ==
    ASSUME NEW b, WellFormed(b), NEW d, CsrDone(b, d)
    PROVE  LineBits(d) = LineBits(b)
<1>1. PICK i \in CsrInstrs : d = csr_write(b, i.csr, NewValue(b, i))
  BY DEF CsrDone
<1>2. NewValue(b, i) \in CsrValue(i.csr)
  BY GuestAssumption, NewValueType
<1> DEFINE a == i.csr
           v == NewValue(b, i)
<1>3. CASE a \in BitCsr \cup ViewCsr
  <2> DEFINE mask == write_mask(b, a)
             s    == (b.bits[Stored(a)] \ mask) \cup (v \cap mask)
  <2>1. v \in SUBSET Bit
    BY <1>2, <1>3, CsrValues
  <2>2. d.bits = [b.bits EXCEPT ![Stored(a)] = s]
    BY <1>1, <1>3, <2>1, CsrWriteBits
  <2>3. CSR_MIP \in BitCsr /\ b.bits \in [BitCsr -> SUBSET Bit]
    BY DEF BitCsr, WellFormed, CpuType
  <2>4. CASE Stored(a) # CSR_MIP
    BY <2>2, <2>3, <2>4 DEF LineBits
  <2>5. CASE Stored(a) = CSR_MIP
    <3>1. mask \cap {IRQ_SOFTWARE, IRQ_TIMER} = {}
      BY <1>3, <2>5, LinesMasked
    <3>2. d.bits[CSR_MIP] = s
      BY <2>2, <2>3, <2>5
    <3> HIDE DEF mask, v
    <3> QED
      BY <2>5, <3>1, <3>2 DEF LineBits
  <2> QED
    BY <2>4, <2>5
<1>4. CASE a \in WordCsr
  <2>1. v \in Word
    BY <1>2, <1>4, CsrValues
  <2>2. d.bits = b.bits
    BY <1>1, <1>4, <2>1, CsrWriteWord
  <2> QED
    BY <2>2 DEF LineBits
<1>5. CASE a \in CauseCsr
  <2>1. v \in Cause
    BY <1>2, <1>5, CsrValues
  <2>2. d.bits = b.bits
    BY <1>1, <1>5, <2>1, CsrWriteCause
  <2> QED
    BY <2>2 DEF LineBits
<1>6. CASE a = CSR_SATP
  BY <1>1, <1>2, <1>6, CsrValues, CsrWriteSatp DEF LineBits
<1>7. CASE a \notin BitCsr \cup ViewCsr \cup WordCsr \cup CauseCsr \cup {CSR_SATP}
  BY <1>1, <1>7, CsrWriteOpaque
<1> QED
  BY <1>3, <1>4, <1>5, <1>6, <1>7

\* No instruction changes the lines.
LEMMA OutcomeLines ==
    ASSUME NEW b, WellFormed(b), NEW d, Outcome(b, d)
    PROVE  LineBits(d) = LineBits(b)
<1>0. /\ CSR_MIP \in BitCsr /\ CSR_MIP # CSR_MSTATUS
      /\ b.bits \in [BitCsr -> SUBSET Bit]
  BY DEF BitCsr, CSR_MIP, CSR_MSTATUS, WellFormed, CpuType
<1>1. CASE d = b
  BY <1>1
<1>2. CASE Trapped(b, d)
  <2>1. PICK code \in ExceptionCode : d = raise_exception(b, code)
    BY <1>2 DEF Trapped
  <2> DEFINE cause == [interrupt |-> FALSE, code |-> code]
  <2>2. STrap(b, d, cause) \/ MTrap(b, d, cause)
    BY <2>1, RaiseException
  <2> HIDE DEF cause
  <2> QED
    BY <2>2, TrapLines
<1>3. CASE Jumped(b, d)
  <2>1. PICK t \in Word : d = jump(b, t)
    BY <1>3, GuestAssumption DEF Jumped
  <2>2. d.bits = b.bits
    BY <2>1, JumpStep
  <2> QED
    BY <2>2 DEF LineBits
<1>4. CASE SretDone(b, d)
  <2>1. d.bits = [b.bits EXCEPT ![CSR_MSTATUS] = SretStatus(b.bits[CSR_MSTATUS])]
    BY <1>4, SretStep DEF SretDone, Returned
  <2> QED
    BY <1>0, <2>1 DEF LineBits
<1>5. CASE MretDone(b, d)
  <2>1. d.bits = [b.bits EXCEPT ![CSR_MSTATUS] = MretStatus(b.bits[CSR_MSTATUS])]
    BY <1>5, MretStep DEF MretDone, Returned
  <2> QED
    BY <1>0, <2>1 DEF LineBits
<1>6. CASE CsrDone(b, d)
  BY <1>6, CsrDoneLines
<1> QED
  BY <1>1, <1>2, <1>3, <1>4, <1>5, <1>6 DEF Outcome

\* Neither does the end of a step.
LEMMA FinishLines ==
    ASSUME NEW d, WellFormed(d)
    PROVE  LineBits(Finish(d)) = LineBits(d)
<1> DEFINE e == increment_pc(d)
           f == cpu_check_interrupts(e)
<1>1. /\ SameButFlags(f, Finish(d))
      /\ \/ f = e
         \/ \E k \in 1..6 : STrap(e, f, [interrupt |-> TRUE, code |-> Priority[k]])
         \/ \E k \in 1..6 : MTrap(e, f, [interrupt |-> TRUE, code |-> Priority[k]])
  BY FinishCases
<1>2. e.bits = d.bits
  BY IncrementPc
<1> HIDE DEF e, f
<1>3. LineBits(f) = LineBits(e)
  BY <1>1, TrapLines
<1> QED
  BY <1>1, <1>2, <1>3 DEF LineBits, SameButFlags

\* cpu_step leaves the lines as vm_tick set them.
LEMMA StepLines ==
    ASSUME HartInv, Step \/ FetchFault
    PROVE  LineBits(cpu') = LineBits(cpu)
<1> DEFINE b == Begin(cpu)
<1>1. WellFormed(b) /\ b.bits = cpu.bits
  BY BeginStep DEF HartInv, TypeOK, SameButFlags
<1>2. LineBits(b) = LineBits(cpu)
  BY <1>1 DEF LineBits
<1>3. CASE Step
  <2>1. PICK d : Outcome(b, d) /\ WellFormed(d) /\ cpu' = Finish(d)
    BY <1>3, StepShape
  <2> HIDE DEF b
  <2> QED
    BY <1>1, <1>2, <2>1, OutcomeLines, FinishLines
<1>4. CASE FetchFault
  <2> DEFINE cause == [interrupt |-> FALSE, code |-> EXC_INSTR_PAGE_FAULT]
  <2>1. STrap(b, cpu', cause) \/ MTrap(b, cpu', cause)
    BY <1>4, FetchFaultTrap DEF HartInv
  <2> HIDE DEF cause, b
  <2> QED
    BY <1>2, <2>1, TrapLines
<1> QED
  BY <1>3, <1>4

---------------------------------------------------------------------------
(* What trap_taken says of an instruction.                                 *)

\* The trap an exception takes hart b into.
ExceptionTrap(b, d, code) ==
    IF Delegated(b, CSR_MEDELEG, code)
    THEN STrap(b, d, [interrupt |-> FALSE, code |-> code])
    ELSE MTrap(b, d, [interrupt |-> FALSE, code |-> code])

\* trap_taken is set after an instruction exactly when it raised an exception.
LEMMA OutcomeFlag ==
    ASSUME NEW b, WellFormed(b), b.trap_taken = FALSE, NEW d, Outcome(b, d)
    PROVE  d.trap_taken = FALSE \/ \E code \in ExceptionCode : ExceptionTrap(b, d, code)
<1>1. CASE d = b
  BY <1>1
<1>2. CASE Trapped(b, d)
  <2>1. PICK code \in ExceptionCode : d = raise_exception(b, code)
    BY <1>2 DEF Trapped
  <2>2. ExceptionTrap(b, d, code)
    BY <2>1, RaiseException DEF ExceptionTrap
  <2> QED
    BY <2>2
<1>3. CASE Jumped(b, d)
  <2>1. PICK t \in Word : d = jump(b, t)
    BY <1>3, GuestAssumption DEF Jumped
  <2> QED
    BY <2>1, JumpStep
<1>4. CASE SretDone(b, d)
  BY <1>4, SretStep DEF SretDone, Returned
<1>5. CASE MretDone(b, d)
  BY <1>5, MretStep DEF MretDone, Returned
<1>6. CASE CsrDone(b, d)
  BY <1>6, CsrDoneControl DEF SameControl
<1> QED
  BY <1>1, <1>2, <1>3, <1>4, <1>5, <1>6 DEF Outcome
=============================================================================
