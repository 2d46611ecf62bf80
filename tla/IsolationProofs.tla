-------------------------- MODULE IsolationProofs --------------------------
(***************************************************************************)
(* PrivilegeIsolation of module Hart: lower modes reach no machine state.  *)
(* From it, what module TrapContext says of the contexts traps save: they  *)
(* are intact until software that is entitled to them changes them.        *)
(***************************************************************************)
EXTENDS HartProofs, TrapContext

\* The CSRs S-mode can write.
SupervisorCsr == {CSR_SSTATUS, CSR_SIE, CSR_SIP, CSR_STVEC, CSR_SEPC, CSR_SCAUSE,
                  CSR_SATP, CSR_SCOUNTEREN, CSR_SSCRATCH, CSR_STVAL}

\* The address of a CSR tells who may write it: below M-mode only supervisor
\* CSRs, in U-mode none.
LEMMA LowWritable ==
    ASSUME NEW b, b.priv \in Privilege, b.priv < M_MODE, NEW a, WriteOk(b, a)
    PROVE  a \in SupervisorCsr /\ b.priv # U_MODE
<1>1. \A x \in Implemented :
         (x \div 1024) % 4 # 3 /\ (x \div 256) % 4 <= 2 => x \in SupervisorCsr
  BY DEF Implemented, BitCsr, ViewCsr, WordCsr, CauseCsr, OpaqueCsr, SupervisorCsr,
         CSR_SSTATUS, CSR_SIE, CSR_STVEC, CSR_SCOUNTEREN, CSR_SSCRATCH, CSR_SEPC,
         CSR_SCAUSE, CSR_STVAL, CSR_SIP, CSR_SATP, CSR_MSTATUS, CSR_MISA, CSR_MEDELEG,
         CSR_MIDELEG, CSR_MIE, CSR_MTVEC, CSR_MCOUNTEREN, CSR_MSCRATCH, CSR_MEPC,
         CSR_MCAUSE, CSR_MTVAL, CSR_MIP, CSR_MCYCLE, CSR_MINSTRET, CSR_CYCLE, CSR_TIME,
         CSR_INSTRET, CSR_MVENDORID, CSR_MARCHID, CSR_MIMPID, CSR_MHARTID
<1>2. \A x \in SupervisorCsr : (x \div 256) % 4 = 1
  BY DEF SupervisorCsr, CSR_SSTATUS, CSR_SIE, CSR_STVEC, CSR_SCOUNTEREN, CSR_SSCRATCH,
         CSR_SEPC, CSR_SCAUSE, CSR_STVAL, CSR_SIP, CSR_SATP
<1>3. a \in Implemented /\ (a \div 1024) % 4 # 3 /\ (a \div 256) % 4 <= b.priv
  BY DEF WriteOk, csr_can_write
<1>4. b.priv \in 0..2
  BY DEF Privilege, M_MODE
<1>5. a \in Int
  BY <1>3 DEF Implemented, BitCsr, ViewCsr, WordCsr, CauseCsr, OpaqueCsr,
         CSR_SSTATUS, CSR_SIE, CSR_STVEC, CSR_SCOUNTEREN, CSR_SSCRATCH, CSR_SEPC,
         CSR_SCAUSE, CSR_STVAL, CSR_SIP, CSR_SATP, CSR_MSTATUS, CSR_MISA, CSR_MEDELEG,
         CSR_MIDELEG, CSR_MIE, CSR_MTVEC, CSR_MCOUNTEREN, CSR_MSCRATCH, CSR_MEPC,
         CSR_MCAUSE, CSR_MTVAL, CSR_MIP, CSR_MCYCLE, CSR_MINSTRET, CSR_CYCLE, CSR_TIME,
         CSR_INSTRET, CSR_MVENDORID, CSR_MARCHID, CSR_MIMPID, CSR_MHARTID
<1>6. (a \div 256) % 4 <= 2
  BY <1>3, <1>4, <1>5
<1>7. a \in SupervisorCsr
  BY <1>1, <1>3, <1>6
<1>8. b.priv # U_MODE
  BY <1>2, <1>3, <1>4, <1>7 DEF U_MODE
<1> QED
  BY <1>7, <1>8

---------------------------------------------------------------------------
(* MachineConfig and MachineContext, field by field.                       *)

ConfigKept(c, d) ==
    /\ d.word[CSR_MTVEC] = c.word[CSR_MTVEC]
    /\ d.bits[CSR_MEDELEG] = c.bits[CSR_MEDELEG]
    /\ d.bits[CSR_MIDELEG] = c.bits[CSR_MIDELEG]
    /\ d.bits[CSR_MCOUNTEREN] = c.bits[CSR_MCOUNTEREN]
    /\ \A x \in {MPRV, TVM} : (x \in d.bits[CSR_MSTATUS]) <=> (x \in c.bits[CSR_MSTATUS])
    /\ \A x \in MachineOnlyInterrupt : (x \in d.bits[CSR_MIE]) <=> (x \in c.bits[CSR_MIE])

ContextKept(c, d) ==
    /\ d.word[CSR_MEPC] = c.word[CSR_MEPC]
    /\ d.cause[CSR_MCAUSE] = c.cause[CSR_MCAUSE]
    /\ \A x \in {MIE, MPIE, MPP0, MPP1} :
          (x \in d.bits[CSR_MSTATUS]) <=> (x \in c.bits[CSR_MSTATUS])

\* The machine configuration, field by field.
LEMMA ConfigFields ==
    ASSUME NEW c, NEW d, ConfigKept(c, d)
    PROVE  MachineConfig(d) = MachineConfig(c)
<1>1. d.bits[CSR_MSTATUS] \cap {MPRV, TVM} = c.bits[CSR_MSTATUS] \cap {MPRV, TVM}
  BY Zenon DEF ConfigKept
<1>2. d.bits[CSR_MIE] \cap MachineOnlyInterrupt = c.bits[CSR_MIE] \cap MachineOnlyInterrupt
  BY Zenon DEF ConfigKept
<1> QED
  BY <1>1, <1>2 DEF ConfigKept, MachineConfig

\* The machine trap context, field by field.
LEMMA ContextFields ==
    ASSUME NEW c, NEW d
    PROVE  MachineContext(d) = MachineContext(c) <=> ContextKept(c, d)
<1>1. (\A x \in {MIE, MPIE, MPP0, MPP1} :
          (x \in d.bits[CSR_MSTATUS]) <=> (x \in c.bits[CSR_MSTATUS]))
      <=> d.bits[CSR_MSTATUS] \cap {MIE, MPIE, MPP0, MPP1}
            = c.bits[CSR_MSTATUS] \cap {MIE, MPIE, MPP0, MPP1}
  OBVIOUS
<1> QED
  BY <1>1 DEF ContextKept, MachineContext

\* The CSRs named above are kept the way the lemmas on traps say.
LEMMA OwnedCsrs ==
    /\ CSR_MTVEC \in WordCsr \ {CSR_MEPC} /\ CSR_MTVEC \in WordCsr \ {CSR_SEPC}
    /\ CSR_MEPC \in WordCsr \ {CSR_SEPC} /\ CSR_MCAUSE \in CauseCsr \ {CSR_SCAUSE}
    /\ \A a \in {CSR_MEDELEG, CSR_MIDELEG, CSR_MCOUNTEREN, CSR_MIE, CSR_MIP, CSR_SCOUNTEREN} :
          a \in BitCsr \ {CSR_MSTATUS}
    /\ CSR_MSTATUS \in BitCsr
BY DEF WordCsr, CauseCsr, BitCsr, CSR_MTVEC, CSR_MEPC, CSR_SEPC, CSR_MCAUSE, CSR_SCAUSE,
       CSR_MEDELEG, CSR_MIDELEG, CSR_MCOUNTEREN, CSR_MIE, CSR_MIP, CSR_MSTATUS,
       CSR_SCOUNTEREN

\* A trap into S-mode leaves all that M-mode owns alone.
LEMMA STrapKeeps ==
    ASSUME NEW c, NEW r, NEW cause, STrap(c, r, cause)
    PROVE  ConfigKept(c, r) /\ ContextKept(c, r)
<1>1. \A x \in {MPRV, TVM, MIE, MPIE, MPP0, MPP1} : x \in Bit \ {SIE, SPIE, SPP}
  BY DEF MPRV, TVM, MIE, MPIE, MPP0, MPP1, SIE, SPIE, SPP, Bit
<1>2. \A x \in {MPRV, TVM, MIE, MPIE, MPP0, MPP1} :
         (x \in r.bits[CSR_MSTATUS]) <=> (x \in c.bits[CSR_MSTATUS])
  BY <1>1 DEF STrap
<1>3. Frame(c, r, CSR_SEPC, CSR_SCAUSE)
  BY DEF STrap
<1> QED
  BY <1>2, <1>3, OwnedCsrs DEF Frame, ConfigKept, ContextKept

\* A trap into M-mode leaves its configuration alone.
LEMMA MTrapKeeps ==
    ASSUME NEW c, NEW r, NEW cause, MTrap(c, r, cause)
    PROVE  ConfigKept(c, r)
<1>1. \A x \in {MPRV, TVM} : x \in Bit \ {MIE, MPIE, MPP0, MPP1}
  BY DEF MPRV, TVM, MIE, MPIE, MPP0, MPP1, Bit
<1>2. \A x \in {MPRV, TVM} : (x \in r.bits[CSR_MSTATUS]) <=> (x \in c.bits[CSR_MSTATUS])
  BY <1>1 DEF MTrap
<1>3. Frame(c, r, CSR_MEPC, CSR_MCAUSE)
  BY DEF MTrap
<1> QED
  BY <1>2, <1>3, OwnedCsrs DEF Frame, ConfigKept

---------------------------------------------------------------------------
(* One instruction below M-mode.                                           *)

\* A CSR instruction below M-mode is one of S-mode, and reaches none of it:
\* the windows sstatus, sie and sip are narrow enough.
LEMMA LowCsrKeeps ==
    ASSUME NEW b, WellFormed(b), b.priv < M_MODE, NEW d, CsrDone(b, d)
    PROVE  b.priv # U_MODE /\ ConfigKept(b, d) /\ ContextKept(b, d)
<1>1. PICK i \in CsrInstrs : /\ WriteOk(b, i.csr)
                             /\ d = csr_write(b, i.csr, NewValue(b, i))
  BY DEF CsrDone, CsrAccessOk
<1> DEFINE a == i.csr
           v == NewValue(b, i)
           s == (b.bits[Stored(a)] \ write_mask(b, a)) \cup (v \cap write_mask(b, a))
<1>2. v \in CsrValue(a)
  BY GuestAssumption, NewValueType
<1>3. a \in SupervisorCsr /\ b.priv # U_MODE
  BY <1>1, LowWritable DEF WellFormed, CpuType
<1>4. b.bits \in [BitCsr -> SUBSET Bit] /\ b.cause \in [CauseCsr -> Cause]
  BY DEF WellFormed, CpuType
<1> HIDE DEF a, v
<1>5. d = csr_write(b, a, v)
  BY <1>1 DEF a, v
<1>6. CASE a \in {CSR_SSTATUS, CSR_SIE, CSR_SIP, CSR_SCOUNTEREN}
  <2>1. a \in BitCsr \cup ViewCsr
    BY <1>6 DEF BitCsr, ViewCsr
  <2>2. v \in SUBSET Bit
    BY <1>2, <2>1, CsrValues
  <2>3. /\ d.bits = [b.bits EXCEPT ![Stored(a)] = s]
        /\ d.word = b.word /\ d.cause = b.cause
    BY <1>5, <2>1, <2>2, CsrWriteBits
  <2>4. \A x \in BitCsr \ {Stored(a)} : d.bits[x] = b.bits[x]
    BY <1>4, <2>3
  <2>5. Stored(a) \in BitCsr => d.bits[Stored(a)] = s
    BY <1>4, <2>3
  <2>6. CASE a = CSR_SSTATUS
    <3>1. Stored(a) = CSR_MSTATUS /\ write_mask(b, a) = SSTATUS_WRITE_MASK
      BY <2>6 DEF Stored, write_mask, CSR_SSTATUS, CSR_SIE, CSR_SIP, CSR_MSTATUS, CSR_MIE,
                  CSR_MIP, CSR_MCOUNTEREN, CSR_SCOUNTEREN
    <3>2. \A x \in {MPRV, TVM, MIE, MPIE, MPP0, MPP1} : x \notin SSTATUS_WRITE_MASK
      BY DEF SSTATUS_WRITE_MASK, MPRV, TVM, MIE, MPIE, MPP0, MPP1, SIE, SPIE, SPP, SUM, MXR
    <3>3. \A x \in {MPRV, TVM, MIE, MPIE, MPP0, MPP1} :
             (x \in d.bits[CSR_MSTATUS]) <=> (x \in b.bits[CSR_MSTATUS])
      BY <2>5, <3>1, <3>2, OwnedCsrs
    <3>4. \A x \in {CSR_MEDELEG, CSR_MIDELEG, CSR_MCOUNTEREN, CSR_MIE} : d.bits[x] = b.bits[x]
      BY <2>4, <3>1, OwnedCsrs
    <3> QED
      BY <1>3, <2>3, <3>3, <3>4 DEF ConfigKept, ContextKept
  <2>7. CASE a = CSR_SIE
    <3>1. Stored(a) = CSR_MIE /\ write_mask(b, a) \subseteq SUPERVISOR_INTERRUPT_MASK
      BY <2>7 DEF Stored, write_mask, CSR_SSTATUS, CSR_SIE, CSR_SIP, CSR_MSTATUS, CSR_MIE,
                  CSR_MIP, CSR_MCOUNTEREN, CSR_SCOUNTEREN
    <3>2. \A x \in MachineOnlyInterrupt : (x \in d.bits[CSR_MIE]) <=> (x \in b.bits[CSR_MIE])
      BY <2>5, <3>1, OwnedCsrs DEF MachineOnlyInterrupt
    <3>3. /\ CSR_MSTATUS # CSR_MIE /\ CSR_MEDELEG # CSR_MIE /\ CSR_MIDELEG # CSR_MIE
          /\ CSR_MCOUNTEREN # CSR_MIE
      BY DEF CSR_MSTATUS, CSR_MIE, CSR_MEDELEG, CSR_MIDELEG, CSR_MCOUNTEREN
    <3>4. \A x \in {CSR_MEDELEG, CSR_MIDELEG, CSR_MCOUNTEREN, CSR_MSTATUS} :
             d.bits[x] = b.bits[x]
      BY <2>4, <3>1, <3>3, OwnedCsrs
    <3> QED
      BY <1>3, <2>3, <3>2, <3>4 DEF ConfigKept, ContextKept
  <2>8. CASE a \in {CSR_SIP, CSR_SCOUNTEREN}
    <3>1. \A x \in {CSR_MEDELEG, CSR_MIDELEG, CSR_MCOUNTEREN, CSR_MSTATUS, CSR_MIE} :
             x # Stored(a)
      BY <2>8 DEF Stored, CSR_SSTATUS, CSR_SIE, CSR_SIP, CSR_MSTATUS, CSR_MIE, CSR_MIP,
                  CSR_SCOUNTEREN, CSR_MEDELEG, CSR_MIDELEG, CSR_MCOUNTEREN
    <3>2. \A x \in {CSR_MEDELEG, CSR_MIDELEG, CSR_MCOUNTEREN, CSR_MSTATUS, CSR_MIE} :
             d.bits[x] = b.bits[x]
      BY <2>4, <3>1, OwnedCsrs
    <3> QED
      BY <1>3, <2>3, <3>2 DEF ConfigKept, ContextKept
  <2> QED
    BY <1>6, <2>6, <2>7, <2>8
<1>7. CASE a \in {CSR_STVEC, CSR_SEPC}
  <2>1. a \in WordCsr /\ a # CSR_MTVEC /\ a # CSR_MEPC
    BY <1>7 DEF WordCsr, CSR_STVEC, CSR_SEPC, CSR_MTVEC, CSR_MEPC
  <2>2. v \in Word
    BY <1>2, <2>1, CsrValues
  <2>3. /\ \A x \in WordCsr \ {a} : d.word[x] = b.word[x]
        /\ d.bits = b.bits /\ d.cause = b.cause
    BY <1>5, <2>1, <2>2, CsrWriteWord
  <2> QED
    BY <1>3, <2>1, <2>3, OwnedCsrs DEF ConfigKept, ContextKept
<1>8. CASE a = CSR_SCAUSE
  <2>1. a \in CauseCsr /\ a # CSR_MCAUSE
    BY <1>8 DEF CauseCsr, CSR_SCAUSE, CSR_MCAUSE
  <2>2. v \in Cause
    BY <1>2, <2>1, CsrValues
  <2>3. d.cause = [b.cause EXCEPT ![a] = v] /\ d.bits = b.bits /\ d.word = b.word
    BY <1>5, <2>1, <2>2, CsrWriteCause
  <2>4. d.cause[CSR_MCAUSE] = b.cause[CSR_MCAUSE]
    BY <1>4, <2>1, <2>3, OwnedCsrs
  <2> QED
    BY <1>3, <2>3, <2>4 DEF ConfigKept, ContextKept
<1>9. CASE a = CSR_SATP
  <2>1. v \in 0..15
    BY <1>2, <1>9, CsrValues
  <2>2. d.bits = b.bits /\ d.word = b.word /\ d.cause = b.cause
    BY <1>5, <1>9, <2>1, CsrWriteSatp
  <2> QED
    BY <1>3, <2>2 DEF ConfigKept, ContextKept
<1>10. CASE a \in {CSR_SSCRATCH, CSR_STVAL}
  <2>1. a \notin BitCsr \cup ViewCsr \cup WordCsr \cup CauseCsr \cup {CSR_SATP}
    BY <1>10 DEF BitCsr, ViewCsr, WordCsr, CauseCsr, CSR_SSCRATCH, CSR_STVAL, CSR_SATP,
       CSR_MSTATUS, CSR_MEDELEG, CSR_MIDELEG, CSR_MIE, CSR_MIP, CSR_MCOUNTEREN,
       CSR_SCOUNTEREN, CSR_SSTATUS, CSR_SIE, CSR_SIP, CSR_MTVEC, CSR_STVEC, CSR_MEPC,
       CSR_SEPC, CSR_MCAUSE, CSR_SCAUSE
  <2>2. d = b
    BY <1>5, <2>1, CsrWriteOpaque
  <2> QED
    BY <1>3, <2>2 DEF ConfigKept, ContextKept
<1> QED
  BY <1>3, <1>6, <1>7, <1>8, <1>9, <1>10 DEF SupervisorCsr

\* An instruction below M-mode keeps the machine configuration; it keeps the
\* machine context too unless it traps into M-mode.
LEMMA LowOutcome ==
    ASSUME NEW b, WellFormed(b), b.priv < M_MODE, NEW d, Outcome(b, d)
    PROVE  ConfigKept(b, d) /\ (ContextKept(b, d) \/ (d.priv = M_MODE /\ d.trap_taken))
<1>0. b.priv \in Privilege /\ b.bits \in [BitCsr -> SUBSET Bit]
  BY DEF WellFormed, CpuType
<1>1. CASE d = b
  BY <1>1 DEF ConfigKept, ContextKept
<1>2. CASE Trapped(b, d)
  <2>1. PICK code \in ExceptionCode : d = raise_exception(b, code)
    BY <1>2 DEF Trapped
  <2> DEFINE cause == [interrupt |-> FALSE, code |-> code]
  <2>2. STrap(b, d, cause) \/ MTrap(b, d, cause)
    BY <2>1, RaiseException
  <2> HIDE DEF cause
  <2>3. CASE STrap(b, d, cause)
    BY <2>3, STrapKeeps
  <2>4. CASE MTrap(b, d, cause)
    <3>1. d.priv = M_MODE /\ d.trap_taken
      BY <2>4 DEF MTrap, Frame
    <3> QED
      BY <2>4, <3>1, MTrapKeeps
  <2> QED
    BY <2>2, <2>3, <2>4
<1>3. CASE Jumped(b, d)
  <2>1. PICK t \in Word : d = jump(b, t)
    BY <1>3, GuestAssumption DEF Jumped
  <2>2. d.bits = b.bits /\ d.word = b.word /\ d.cause = b.cause
    BY <2>1, JumpStep
  <2> QED
    BY <2>2 DEF ConfigKept, ContextKept
<1>4. CASE SretDone(b, d)
  <2> DEFINE s == b.bits[CSR_MSTATUS]
  <2>1. /\ d.bits = [b.bits EXCEPT ![CSR_MSTATUS] = SretStatus(s)]
        /\ d.word = b.word /\ d.cause = b.cause
    BY <1>4, SretStep DEF SretDone, Returned
  <2>2. \A x \in {MPRV, TVM, MIE, MPIE, MPP0, MPP1} : (x \in SretStatus(s)) <=> (x \in s)
    BY DEF SretStatus, set_bit, MPRV, TVM, MIE, MPIE, MPP0, MPP1, SIE, SPIE, SPP
  <2>3. /\ d.bits[CSR_MSTATUS] = SretStatus(s)
        /\ \A a \in BitCsr \ {CSR_MSTATUS} : d.bits[a] = b.bits[a]
    BY <1>0, <2>1, OwnedCsrs
  <2> QED
    BY <2>1, <2>2, <2>3, OwnedCsrs DEF ConfigKept, ContextKept
<1>5. CASE MretDone(b, d)
  BY <1>0, <1>5 DEF MretDone, Privilege, M_MODE
<1>6. CASE CsrDone(b, d)
  BY <1>6, LowCsrKeeps
<1> QED
  BY <1>1, <1>2, <1>3, <1>4, <1>5, <1>6 DEF Outcome

---------------------------------------------------------------------------
(* The end of a step, and the whole step.                                  *)

\* The interrupt check keeps the configuration, and the context unless the
\* hart ends in M-mode; it does not lead out of M-mode.
LEMMA FinishKeeps ==
    ASSUME NEW d, WellFormed(d)
    PROVE  LET r == Finish(d)
           IN  /\ ConfigKept(d, r)
               /\ r.priv # M_MODE => ContextKept(d, r) /\ d.priv # M_MODE
<1> DEFINE e == increment_pc(d)
           f == cpu_check_interrupts(e)
           r == Finish(d)
<1>1. /\ WellFormed(e) /\ SameButFlags(f, r)
      /\ \/ f = e
         \/ \E k \in 1..6 :
               /\ Delegated(e, CSR_MIDELEG, Priority[k])
               /\ STrap(e, f, [interrupt |-> TRUE, code |-> Priority[k]])
         \/ \E k \in 1..6 : MTrap(e, f, [interrupt |-> TRUE, code |-> Priority[k]])
  BY FinishCases
<1>2. e.priv = d.priv /\ e.bits = d.bits /\ e.word = d.word /\ e.cause = d.cause
  BY IncrementPc
<1> HIDE DEF e, f, r
<1>3. r.priv = f.priv /\ r.bits = f.bits /\ r.word = f.word /\ r.cause = f.cause
  BY <1>1 DEF SameButFlags
<1>4. CASE f = e
  BY <1>2, <1>3, <1>4 DEF ConfigKept, ContextKept, r
<1>5. ASSUME NEW k \in 1..6, Delegated(e, CSR_MIDELEG, Priority[k]),
             STrap(e, f, [interrupt |-> TRUE, code |-> Priority[k]])
      PROVE  ConfigKept(d, r) /\ ContextKept(d, r) /\ d.priv # M_MODE
  <2>1. ConfigKept(e, f) /\ ContextKept(e, f)
    BY <1>5, STrapKeeps
  <2>2. d.priv # M_MODE
    BY <1>2, <1>5 DEF Delegated, M_MODE
  <2> QED
    BY <1>2, <1>3, <2>1, <2>2 DEF ConfigKept, ContextKept
<1>6. ASSUME NEW k \in 1..6, MTrap(e, f, [interrupt |-> TRUE, code |-> Priority[k]])
      PROVE  ConfigKept(d, r) /\ r.priv = M_MODE
  <2>1. ConfigKept(e, f) /\ f.priv = M_MODE
    BY <1>6, MTrapKeeps DEF MTrap
  <2> QED
    BY <1>2, <1>3, <2>1 DEF ConfigKept
<1> QED
  BY <1>1, <1>4, <1>5, <1>6 DEF r

\* Both relations compose.
LEMMA KeptTransitive ==
    ASSUME NEW c, NEW d, NEW r
    PROVE  /\ ConfigKept(c, d) /\ ConfigKept(d, r) => ConfigKept(c, r)
           /\ ContextKept(c, d) /\ ContextKept(d, r) => ContextKept(c, r)
BY DEF ConfigKept, ContextKept

SameState(c, d) == /\ d.word = c.word /\ d.cause = c.cause /\ d.satp = c.satp
                   /\ d.bits = c.bits

\* A U-mode instruction traps or leaves every CSR alone.
LEMMA UserOutcome ==
    ASSUME NEW b, WellFormed(b), b.priv = U_MODE, NEW d, Outcome(b, d)
    PROVE  d.priv # U_MODE \/ SameState(b, d)
<1>0. b.priv < M_MODE /\ U_MODE # M_MODE /\ U_MODE # S_MODE
  BY DEF U_MODE, M_MODE, S_MODE
<1>1. CASE d = b
  BY <1>1 DEF SameState
<1>2. CASE Trapped(b, d)
  <2>1. PICK code \in ExceptionCode : d = raise_exception(b, code)
    BY <1>2 DEF Trapped
  <2> DEFINE cause == [interrupt |-> FALSE, code |-> code]
  <2>2. STrap(b, d, cause) \/ MTrap(b, d, cause)
    BY <2>1, RaiseException
  <2> QED
    BY <1>0, <2>2 DEF STrap, MTrap
<1>3. CASE Jumped(b, d)
  <2>1. PICK t \in Word : d = jump(b, t)
    BY <1>3, GuestAssumption DEF Jumped
  <2> QED
    BY <2>1, JumpStep DEF SameState
<1>4. ~SretDone(b, d) /\ ~MretDone(b, d)
  BY <1>0 DEF SretDone, MretDone
<1>5. ~CsrDone(b, d)
  BY <1>0, LowCsrKeeps
<1> QED
  BY <1>1, <1>2, <1>3, <1>4, <1>5 DEF Outcome

\* A step that ends in U-mode took no interrupt.
LEMMA FinishUser ==
    ASSUME NEW d, WellFormed(d), Finish(d).priv = U_MODE
    PROVE  d.priv = U_MODE /\ SameState(d, Finish(d))
<1> DEFINE e == increment_pc(d)
           f == cpu_check_interrupts(e)
<1>1. /\ SameButFlags(f, Finish(d))
      /\ \/ f = e
         \/ \E k \in 1..6 : STrap(e, f, [interrupt |-> TRUE, code |-> Priority[k]])
         \/ \E k \in 1..6 : MTrap(e, f, [interrupt |-> TRUE, code |-> Priority[k]])
  BY FinishCases
<1>2. e.priv = d.priv /\ SameState(d, e)
  BY IncrementPc DEF SameState
<1> HIDE DEF e, f
<1>3. f.priv = U_MODE
  BY <1>1 DEF SameButFlags
<1>4. f = e
  BY <1>1, <1>3 DEF STrap, MTrap, U_MODE, S_MODE, M_MODE
<1> QED
  BY <1>1, <1>2, <1>3, <1>4 DEF SameButFlags, SameState

\* Every action keeps what the modes above the current one own.
LEMMA IsolatedStep ==
    ASSUME HartInv, [Next]_cpu
    PROVE  Isolated
<1> SUFFICES ASSUME cpu.priv < M_MODE
             PROVE  /\ ConfigKept(cpu, cpu')
                    /\ cpu'.priv < M_MODE => ContextKept(cpu, cpu')
                    /\ cpu.priv = U_MODE /\ cpu'.priv = U_MODE =>
                          SupervisorState(cpu') = SupervisorState(cpu)
  BY ConfigFields, ContextFields DEF Isolated
<1> DEFINE b == Begin(cpu)
<1>1. WellFormed(b) /\ b.priv = cpu.priv /\ SameState(cpu, b)
  BY BeginStep DEF HartInv, TypeOK, SameButFlags, SameState
<1>2. M_MODE = 3 /\ U_MODE = 0 /\ S_MODE = 1
  BY DEF M_MODE, U_MODE, S_MODE
<1>3. ConfigKept(cpu, b) /\ ContextKept(cpu, b)
  BY <1>1 DEF SameState, ConfigKept, ContextKept
<1>4. CASE Step
  <2>1. PICK d : Outcome(b, d) /\ WellFormed(d) /\ cpu' = Finish(d)
    BY <1>4, StepShape
  <2> HIDE DEF b
  <2>2. ConfigKept(b, d) /\ (ContextKept(b, d) \/ d.priv = M_MODE)
    BY <1>1, <2>1, LowOutcome
  <2>3. /\ ConfigKept(d, cpu')
        /\ cpu'.priv # M_MODE => ContextKept(d, cpu') /\ d.priv # M_MODE
    BY <2>1, FinishKeeps
  <2>4. ConfigKept(cpu, cpu')
    BY <1>3, <2>2, <2>3, KeptTransitive
  <2>5. ASSUME cpu'.priv < M_MODE PROVE ContextKept(cpu, cpu')
    <3>1. cpu'.priv # M_MODE
      BY <1>2, <2>5
    <3> QED
      BY <1>3, <2>2, <2>3, <3>1, KeptTransitive
  <2>6. ASSUME cpu.priv = U_MODE, cpu'.priv = U_MODE
        PROVE  SupervisorState(cpu') = SupervisorState(cpu)
    <3>1. d.priv = U_MODE /\ SameState(d, cpu')
      BY <2>1, <2>6, FinishUser
    <3>2. SameState(b, d)
      BY <1>1, <2>1, <2>6, <3>1, UserOutcome
    <3> QED
      BY <1>1, <3>1, <3>2 DEF SameState, SupervisorState
  <2> QED
    BY <2>4, <2>5, <2>6
<1>5. CASE FetchFault
  <2> DEFINE cause == [interrupt |-> FALSE, code |-> EXC_INSTR_PAGE_FAULT]
  <2>1. STrap(b, cpu', cause) \/ MTrap(b, cpu', cause)
    BY <1>5, FetchFaultTrap DEF HartInv
  <2> HIDE DEF b, cause
  <2>2. CASE STrap(b, cpu', cause)
    <3>1. ConfigKept(b, cpu') /\ ContextKept(b, cpu') /\ cpu'.priv = S_MODE
      BY <2>2, STrapKeeps DEF STrap
    <3> QED
      BY <1>2, <1>3, <3>1, KeptTransitive
  <2>3. CASE MTrap(b, cpu', cause)
    <3>1. ConfigKept(b, cpu') /\ cpu'.priv = M_MODE
      BY <2>3, MTrapKeeps DEF MTrap
    <3> QED
      BY <1>2, <1>3, <3>1, KeptTransitive
  <2> QED
    BY <2>1, <2>2, <2>3
<1>6. CASE Tick
  <2>1. /\ cpu'.word = cpu.word /\ cpu'.cause = cpu.cause /\ cpu'.satp = cpu.satp
        /\ \A a \in BitCsr \ {CSR_MIP} : cpu'.bits[a] = cpu.bits[a]
        /\ \A x \in Bit \ {IRQ_SOFTWARE, IRQ_TIMER} :
              (x \in cpu'.bits[CSR_MIP]) <=> (x \in cpu.bits[CSR_MIP])
    BY <1>6, LinesStep DEF Tick, HartInv, TypeOK
  <2>2. \A a \in {CSR_MEDELEG, CSR_MIDELEG, CSR_MCOUNTEREN, CSR_MSTATUS, CSR_MIE,
                  CSR_SCOUNTEREN} : a \in BitCsr \ {CSR_MIP}
    BY DEF BitCsr, CSR_MEDELEG, CSR_MIDELEG, CSR_MCOUNTEREN, CSR_MSTATUS, CSR_MIE,
           CSR_SCOUNTEREN, CSR_MIP
  <2>3. ConfigKept(cpu, cpu') /\ ContextKept(cpu, cpu')
    BY <2>1, <2>2 DEF ConfigKept, ContextKept
  <2>4. SUPERVISOR_INTERRUPT_MASK \subseteq Bit \ {IRQ_SOFTWARE, IRQ_TIMER}
    BY DEF SUPERVISOR_INTERRUPT_MASK, Bit, IRQ_SOFTWARE, IRQ_TIMER
  <2>5. cpu'.bits[CSR_MIP] \cap SUPERVISOR_INTERRUPT_MASK
          = cpu.bits[CSR_MIP] \cap SUPERVISOR_INTERRUPT_MASK
    BY <2>1, <2>4
  <2> QED
    BY <2>1, <2>2, <2>3, <2>5 DEF SupervisorState
<1>7. CASE UNCHANGED cpu
  BY <1>7 DEF ConfigKept, ContextKept
<1> QED
  BY <1>4, <1>5, <1>6, <1>7 DEF Next

\* No step below M-mode changes the machine configuration, or the machine
\* trap context without trapping into M-mode, and no step that stays in
\* U-mode changes a CSR: the access checks of csr.c and the masks of sstatus,
\* sie and sip close every way, for every guest program.
THEOREM LowerModesAreIsolated == Spec => PrivilegeIsolation
BY IsolatedStep, HartInvariant, PTL DEF Spec, PrivilegeIsolation

---------------------------------------------------------------------------
(* The contexts of module TrapContext.                                     *)

ContextType == [live : BOOLEAN, pc : Word, priv : Privilege, ie : BOOLEAN, cause : Cause]

\* The CSRs of hart c hold the machine context x, or the supervisor context x,
\* unless x is dead.
MHolds(c, x) ==
    x.live =>
        /\ c.word[CSR_MEPC] = x.pc
        /\ c.cause[CSR_MCAUSE] = x.cause
        /\ MPP(c.bits[CSR_MSTATUS]) = x.priv
        /\ (MPIE \in c.bits[CSR_MSTATUS]) <=> x.ie
        /\ MIE \notin c.bits[CSR_MSTATUS]

SHolds(c, x) ==
    x.live =>
        /\ c.word[CSR_SEPC] = x.pc
        /\ c.cause[CSR_SCAUSE] = x.cause
        /\ x.priv \in {U_MODE, S_MODE} =>
              (SPP \in c.bits[CSR_MSTATUS]) <=> (x.priv = S_MODE)
        /\ (SPIE \in c.bits[CSR_MSTATUS]) <=> x.ie
        /\ SIE \notin c.bits[CSR_MSTATUS]

\* The fields of the supervisor context, one by one.
SContextKept(c, d) ==
    /\ d.word[CSR_SEPC] = c.word[CSR_SEPC]
    /\ d.cause[CSR_SCAUSE] = c.cause[CSR_SCAUSE]
    /\ \A x \in {SIE, SPIE, SPP} :
          (x \in d.bits[CSR_MSTATUS]) <=> (x \in c.bits[CSR_MSTATUS])

\* Equal supervisor contexts, as a statement about the single fields.
LEMMA SContextFields ==
    ASSUME NEW c, NEW d
    PROVE  SupervisorContext(d) = SupervisorContext(c) <=> SContextKept(c, d)
<1>1. (\A x \in {SIE, SPIE, SPP} :
          (x \in d.bits[CSR_MSTATUS]) <=> (x \in c.bits[CSR_MSTATUS]))
      <=> d.bits[CSR_MSTATUS] \cap {SIE, SPIE, SPP}
            = c.bits[CSR_MSTATUS] \cap {SIE, SPIE, SPP}
  OBVIOUS
<1> QED
  BY <1>1 DEF SContextKept, SupervisorContext

\* A hart that keeps the fields holds what it held.
LEMMA KeptHolds ==
    ASSUME NEW c, NEW d, NEW x
    PROVE  /\ ContextKept(c, d) /\ MHolds(c, x) => MHolds(d, x)
           /\ SContextKept(c, d) /\ SHolds(c, x) => SHolds(d, x)
<1>1. ASSUME ContextKept(c, d), MHolds(c, x)
      PROVE  MHolds(d, x)
  <2>1. MPP(d.bits[CSR_MSTATUS]) = MPP(c.bits[CSR_MSTATUS])
    BY <1>1 DEF ContextKept, MPP
  <2> QED
    BY <1>1, <2>1 DEF ContextKept, MHolds
<1>2. ASSUME SContextKept(c, d), SHolds(c, x)
      PROVE  SHolds(d, x)
  BY <1>2 DEF SContextKept, SHolds
<1> QED
  BY <1>1, <1>2

\* A dead context claims nothing.
LEMMA DeadHolds ==
    ASSUME NEW c, NEW x \in ContextType
    PROVE  Dead(x) \in ContextType /\ MHolds(c, Dead(x)) /\ SHolds(c, Dead(x))
<1>1. Dead(x) \in ContextType /\ Dead(x).live = FALSE
  BY DEF Dead, ContextType
<1> QED
  BY <1>1 DEF MHolds, SHolds

\* A trap into M-mode leaves the supervisor context alone.
LEMMA MTrapKeepsSupervisor ==
    ASSUME NEW c, NEW r, NEW cause, MTrap(c, r, cause)
    PROVE  SContextKept(c, r)
<1>1. /\ CSR_SEPC \in WordCsr \ {CSR_MEPC} /\ CSR_SCAUSE \in CauseCsr \ {CSR_MCAUSE}
      /\ \A x \in {SIE, SPIE, SPP} : x \in Bit \ {MIE, MPIE, MPP0, MPP1}
  BY DEF WordCsr, CauseCsr, CSR_SEPC, CSR_MEPC, CSR_SCAUSE, CSR_MCAUSE, CSR_MTVEC, CSR_STVEC,
         SIE, SPIE, SPP, MIE, MPIE, MPP0, MPP1, Bit
<1>2. /\ \A a \in WordCsr \ {CSR_MEPC} : r.word[a] = c.word[a]
      /\ \A a \in CauseCsr \ {CSR_MCAUSE} : r.cause[a] = c.cause[a]
      /\ \A x \in Bit \ {MIE, MPIE, MPP0, MPP1} :
            (x \in r.bits[CSR_MSTATUS]) <=> (x \in c.bits[CSR_MSTATUS])
  BY DEF MTrap, Frame
<1> QED
  BY <1>1, <1>2 DEF SContextKept

---------------------------------------------------------------------------
(* One trap or its absence.                                                *)

\* `to' is what a trap makes of `from', or what an instruction that does not
\* trap makes of it without touching the context of a mode above its own.
Taken(from, to) == \E cause \in Cause : STrap(from, to, cause) \/ MTrap(from, to, cause)

MMove(trapped, from, to) ==
    IF trapped THEN Taken(from, to)
    ELSE from.priv # M_MODE => ContextKept(from, to)

SMove(trapped, from, to) ==
    IF trapped THEN Taken(from, to)
    ELSE from.priv = U_MODE => SContextKept(from, to)

\* What a trap interrupts is a context.
LEMMA InterruptedType ==
    ASSUME NEW c, WellFormed(c), NEW ie, NEW cause \in Cause
    PROVE  Interrupted(c, ie, cause) \in ContextType
<1>1. c.pc \in Word /\ c.priv \in Privilege
  BY DEF WellFormed, CpuType
<1> QED
  BY <1>1 DEF Interrupted, ContextType

\* The machine context after the move is held by the hart after it.
LEMMA MAfterHolds ==
    ASSUME NEW x \in ContextType, NEW from, NEW to, WellFormed(from), WellFormed(to),
           NEW trapped \in BOOLEAN, MMove(trapped, from, to), MHolds(from, x)
    PROVE  LET y == MAfter(x, trapped, from, to)
           IN  y \in ContextType /\ MHolds(to, y)
<1> DEFINE y == MAfter(x, trapped, from, to)
<1>1. ASSUME trapped, NEW cause \in Cause, MTrap(from, to, cause)
      PROVE  y \in ContextType /\ MHolds(to, y)
  <2>1. to.priv = M_MODE /\ to.cause[CSR_MCAUSE] = cause
    BY <1>1 DEF MTrap
  <2>2. y = Interrupted(from, MIE, cause)
    BY <1>1, <2>1 DEF MAfter
  <2>3. y \in ContextType
    BY <2>2, InterruptedType
  <2>4. /\ y.pc = from.pc /\ y.priv = from.priv /\ y.cause = cause
        /\ y.ie = (MIE \in from.bits[CSR_MSTATUS])
    BY <2>2 DEF Interrupted
  <2> HIDE DEF y
  <2> QED
    BY <1>1, <2>3, <2>4 DEF MTrap, MHolds
<1>2. ASSUME trapped, NEW cause \in Cause, STrap(from, to, cause)
      PROVE  y \in ContextType /\ MHolds(to, y)
  <2>1. to.priv # M_MODE
    BY <1>2 DEF STrap, S_MODE, M_MODE
  <2>2. y = x
    BY <1>2, <2>1 DEF MAfter
  <2> QED
    BY <1>2, <2>2, STrapKeeps, KeptHolds
<1>3. CASE ~trapped
  <2>1. CASE from.priv = M_MODE /\ MachineContext(to) # MachineContext(from)
    <3>1. y = Dead(x)
      BY <1>3, <2>1 DEF MAfter
    <3> QED
      BY <3>1, DeadHolds
  <2>2. CASE ~(from.priv = M_MODE /\ MachineContext(to) # MachineContext(from))
    <3>1. y = x
      BY <1>3, <2>2 DEF MAfter
    <3>2. ContextKept(from, to)
      BY <1>3, <2>2, ContextFields DEF MMove
    <3> QED
      BY <3>1, <3>2, KeptHolds
  <2> QED
    BY <2>1, <2>2
<1> QED
  BY <1>1, <1>2, <1>3 DEF MMove, Taken

\* The supervisor context after the move is held by the hart after it.
LEMMA SAfterHolds ==
    ASSUME NEW x \in ContextType, NEW from, NEW to, WellFormed(from), WellFormed(to),
           NEW trapped \in BOOLEAN, SMove(trapped, from, to), SHolds(from, x)
    PROVE  LET y == SAfter(x, trapped, from, to)
           IN  y \in ContextType /\ SHolds(to, y)
<1> DEFINE y == SAfter(x, trapped, from, to)
<1>1. ASSUME trapped, NEW cause \in Cause, STrap(from, to, cause)
      PROVE  y \in ContextType /\ SHolds(to, y)
  <2>1. to.priv = S_MODE /\ to.cause[CSR_SCAUSE] = cause
    BY <1>1 DEF STrap
  <2>2. y = Interrupted(from, SIE, cause)
    BY <1>1, <2>1 DEF SAfter
  <2>3. y \in ContextType
    BY <2>2, InterruptedType
  <2>4. /\ y.pc = from.pc /\ y.priv = from.priv /\ y.cause = cause
        /\ y.ie = (SIE \in from.bits[CSR_MSTATUS])
    BY <2>2 DEF Interrupted
  <2> HIDE DEF y
  <2>5. from.priv \in {U_MODE, S_MODE} =>
           (SPP \in to.bits[CSR_MSTATUS]) <=> (from.priv = S_MODE)
    BY <1>1 DEF STrap, U_MODE, S_MODE, M_MODE
  <2> QED
    BY <1>1, <2>3, <2>4, <2>5 DEF STrap, SHolds
<1>2. ASSUME trapped, NEW cause \in Cause, MTrap(from, to, cause)
      PROVE  y \in ContextType /\ SHolds(to, y)
  <2>1. to.priv # S_MODE
    BY <1>2 DEF MTrap, S_MODE, M_MODE
  <2>2. y = x
    BY <1>2, <2>1 DEF SAfter
  <2> QED
    BY <1>2, <2>2, MTrapKeepsSupervisor, KeptHolds
<1>3. CASE ~trapped
  <2>1. CASE from.priv # U_MODE /\ SupervisorContext(to) # SupervisorContext(from)
    <3>1. y = Dead(x)
      BY <1>3, <2>1 DEF SAfter
    <3> QED
      BY <3>1, DeadHolds
  <2>2. CASE ~(from.priv # U_MODE /\ SupervisorContext(to) # SupervisorContext(from))
    <3>1. y = x
      BY <1>3, <2>2 DEF SAfter
    <3>2. SContextKept(from, to)
      BY <1>3, <2>2, SContextFields DEF SMove
    <3> QED
      BY <3>1, <3>2, KeptHolds
  <2> QED
    BY <2>1, <2>2
<1> QED
  BY <1>1, <1>2, <1>3 DEF SMove, Taken

\* A trap does not look at trap_taken.
LEMMA TakenFrom ==
    ASSUME NEW b, NEW c, NEW d, SameButFlags(c, b), b.pc_written = c.pc_written, Taken(b, d)
    PROVE  Taken(c, d)
<1>1. PICK cause \in Cause : STrap(b, d, cause) \/ MTrap(b, d, cause)
  BY DEF Taken
<1>2. CASE STrap(b, d, cause)
  <2>1. STrap(c, d, cause)
    BY <1>2 DEF STrap, Frame, SameButFlags
  <2> QED
    BY <2>1 DEF Taken
<1>3. CASE MTrap(b, d, cause)
  <2>1. MTrap(c, d, cause)
    BY <1>3 DEF MTrap, Frame, SameButFlags
  <2> QED
    BY <2>1 DEF Taken
<1> QED
  BY <1>1, <1>2, <1>3

\* The instruction of a step is such a move, seen from the hart before the
\* step: clearing trap_taken is not part of any context.
LEMMA InstructionMoves ==
    ASSUME NEW c, WellFormed(c), NEW d, Outcome(Begin(c), d)
    PROVE  /\ WellFormed(d) /\ d.trap_taken \in BOOLEAN
           /\ MMove(d.trap_taken, c, d) /\ SMove(d.trap_taken, c, d)
<1> DEFINE b == Begin(c)
<1>1. /\ WellFormed(b) /\ SameButFlags(c, b)
      /\ b.trap_taken = FALSE /\ b.pc_written = c.pc_written
  BY BeginStep
<1> HIDE DEF b
<1>2. WellFormed(d) /\ d.trap_taken \in BOOLEAN /\ b.priv \in Privilege
  BY <1>1, OutcomeType DEF b, WellFormed, CpuType
<1>3. CASE d.trap_taken
  <2>1. PICK code \in ExceptionCode : ExceptionTrap(b, d, code)
    BY <1>1, <1>3, OutcomeFlag DEF b
  <2>2. [interrupt |-> FALSE, code |-> code] \in Cause
    BY DEF Cause, ExceptionCode, Bit, EXC_ILLEGAL_INSTRUCTION, EXC_BREAKPOINT,
           EXC_LOAD_ADDR_MISALIGNED, EXC_STORE_ADDR_MISALIGNED, EXC_ECALL_U_MODE,
           EXC_ECALL_S_MODE, EXC_ECALL_M_MODE, EXC_INSTR_PAGE_FAULT,
           EXC_LOAD_PAGE_FAULT, EXC_STORE_PAGE_FAULT
  <2>3. Taken(b, d)
    BY <2>1, <2>2 DEF ExceptionTrap, Taken
  <2>4. Taken(c, d)
    BY <1>1, <2>3, TakenFrom
  <2> QED
    BY <1>2, <1>3, <2>4 DEF MMove, SMove
<1>4. CASE ~d.trap_taken
  <2>1. ASSUME c.priv # M_MODE
        PROVE  ContextKept(c, d)
    <3>1. b.priv < M_MODE
      BY <1>1, <1>2, <2>1 DEF SameButFlags, Privilege, M_MODE
    <3>2. ContextKept(b, d)
      BY <1>1, <1>4, <3>1, LowOutcome DEF b
    <3> QED
      BY <1>1, <3>2 DEF ContextKept, SameButFlags
  <2>2. ASSUME c.priv = U_MODE
        PROVE  SContextKept(c, d)
    <3>1. b.priv = U_MODE
      BY <1>1, <2>2 DEF SameButFlags
    <3>2. d.priv <= b.priv
      BY <1>1, <1>4, OutcomePriv DEF b, AtVector
    <3>3. d.priv = U_MODE
      BY <1>2, <3>1, <3>2 DEF WellFormed, CpuType, Privilege, U_MODE
    <3>4. SameState(b, d)
      BY <1>1, <3>1, <3>3, UserOutcome DEF b
    <3> QED
      BY <1>1, <3>4 DEF SContextKept, SameState, SameButFlags
  <2> QED
    BY <1>2, <1>4, <2>1, <2>2 DEF MMove, SMove
<1> QED
  BY <1>3, <1>4, <1>2

\* So is the interrupt check.
LEMMA InterruptMoves ==
    ASSUME NEW e, WellFormed(e)
    PROVE  LET f == cpu_check_interrupts(e)
           IN  /\ WellFormed(f)
               /\ MMove(InterruptPossible(e), e, f) /\ SMove(InterruptPossible(e), e, f)
<1> DEFINE f == cpu_check_interrupts(e)
<1>1. /\ WellFormed(f)
      /\ ~InterruptPossible(e) => f = e
      /\ InterruptPossible(e) =>
           \E k \in 1..6 :
              \/ STrap(e, f, [interrupt |-> TRUE, code |-> Priority[k]])
              \/ MTrap(e, f, [interrupt |-> TRUE, code |-> Priority[k]])
  BY CheckInterrupts
<1> HIDE DEF f
<1>2. CASE InterruptPossible(e)
  <2>1. PICK k \in 1..6 :
              \/ STrap(e, f, [interrupt |-> TRUE, code |-> Priority[k]])
              \/ MTrap(e, f, [interrupt |-> TRUE, code |-> Priority[k]])
    BY <1>1, <1>2
  <2>2. [interrupt |-> TRUE, code |-> Priority[k]] \in Cause
    BY PriorityBits DEF Cause
  <2>3. Taken(e, f)
    BY <2>1, <2>2 DEF Taken
  <2> QED
    BY <1>1, <1>2, <2>3 DEF MMove, SMove, f
<1>3. CASE ~InterruptPossible(e)
  BY <1>1, <1>3 DEF MMove, SMove, ContextKept, SContextKept, f
<1> QED
  BY <1>2, <1>3

\* And a fault of the fetch.
LEMMA FetchFaultMoves ==
    ASSUME HartInv, FetchFault
    PROVE  WellFormed(cpu') /\ MMove(TRUE, cpu, cpu') /\ SMove(TRUE, cpu, cpu')
<1> DEFINE b == Begin(cpu)
<1>1. SameButFlags(cpu, b) /\ b.pc_written = cpu.pc_written
  BY BeginStep DEF HartInv, TypeOK
<1>2. /\ TypeOK'
      /\ \/ STrap(b, cpu', [interrupt |-> FALSE, code |-> EXC_INSTR_PAGE_FAULT])
         \/ MTrap(b, cpu', [interrupt |-> FALSE, code |-> EXC_INSTR_PAGE_FAULT])
  BY FetchFaultTrap DEF HartInv
<1> HIDE DEF b
<1>3. [interrupt |-> FALSE, code |-> EXC_INSTR_PAGE_FAULT] \in Cause
  BY DEF Cause, Bit, EXC_INSTR_PAGE_FAULT
<1>4. Taken(b, cpu')
  BY <1>2, <1>3 DEF Taken
<1>5. Taken(cpu, cpu')
  BY <1>1, <1>4, TakenFrom
<1> QED
  BY <1>2, <1>5 DEF MMove, SMove, TypeOK

---------------------------------------------------------------------------
(* The contexts are intact.                                                *)

CtxInv == /\ mctx \in ContextType /\ sctx \in ContextType
          /\ MHolds(cpu, mctx) /\ SHolds(cpu, sctx)

\* The contexts are invisible to the hart.
LEMMA CtxStepIsHartStep == [CtxNext]_vars => [Next]_cpu
BY DEF CtxNext, CtxStep, CtxRetire, CtxFetchFault, CtxTick, Next, Step, vars

\* Only word, cause and mstatus matter to a context.
LEMMA SameHolds ==
    ASSUME NEW c, NEW d, NEW x, d.word = c.word, d.cause = c.cause,
           d.bits[CSR_MSTATUS] = c.bits[CSR_MSTATUS]
    PROVE  (MHolds(c, x) => MHolds(d, x)) /\ (SHolds(c, x) => SHolds(d, x))
BY DEF MHolds, SHolds

\* Every step preserves the invariant: an instruction and the interrupt check
\* are two moves, one after the other.
LEMMA CtxInvStep ==
    ASSUME HartInv, CtxInv, [CtxNext]_vars
    PROVE  CtxInv'
<1>0. WellFormed(cpu)
  BY DEF HartInv, TypeOK
<1>1. ASSUME NEW d \in dispatch_instruction(Begin(cpu)), CtxRetire(d)
      PROVE  CtxInv'
  <2> DEFINE e  == increment_pc(d)
             f  == cpu_check_interrupts(e)
             m1 == MAfter(mctx, d.trap_taken, cpu, d)
             s1 == SAfter(sctx, d.trap_taken, cpu, d)
  <2>1. /\ WellFormed(d) /\ d.trap_taken \in BOOLEAN
        /\ MMove(d.trap_taken, cpu, d) /\ SMove(d.trap_taken, cpu, d)
    BY <1>0, DispatchOutcome, InstructionMoves
  <2>2. /\ m1 \in ContextType /\ MHolds(d, m1)
        /\ s1 \in ContextType /\ SHolds(d, s1)
    BY <1>0, <2>1, MAfterHolds, SAfterHolds DEF CtxInv
  <2>3. WellFormed(e) /\ e.word = d.word /\ e.cause = d.cause /\ e.bits = d.bits
    BY <2>1, IncrementPc
  <2>4. /\ WellFormed(f)
        /\ MMove(InterruptPossible(e), e, f) /\ SMove(InterruptPossible(e), e, f)
    BY <2>3, InterruptMoves
  <2>5. /\ mctx' = MAfter(m1, InterruptPossible(e), e, f)
        /\ sctx' = SAfter(s1, InterruptPossible(e), e, f)
        /\ cpu' = Finish(d)
    BY <1>1 DEF CtxRetire, Retire
  <2>6. SameButFlags(f, cpu')
    BY <2>1, <2>5, FinishStep
  <2> HIDE DEF e, f, m1, s1
  <2>7. InterruptPossible(e) \in BOOLEAN
    BY DEF InterruptPossible
  <2>8. MHolds(e, m1) /\ SHolds(e, s1)
    BY <2>2, <2>3, SameHolds
  <2>9. /\ mctx' \in ContextType /\ MHolds(f, mctx')
        /\ sctx' \in ContextType /\ SHolds(f, sctx')
    BY <2>2, <2>3, <2>4, <2>5, <2>7, <2>8, MAfterHolds, SAfterHolds
  <2>10. MHolds(cpu', mctx') /\ SHolds(cpu', sctx')
    BY <2>6, <2>9, SameHolds DEF SameButFlags
  <2> QED
    BY <2>9, <2>10 DEF CtxInv
<1>2. CASE CtxFetchFault
  <2>1. WellFormed(cpu') /\ MMove(TRUE, cpu, cpu') /\ SMove(TRUE, cpu, cpu')
    BY <1>2, FetchFaultMoves DEF CtxFetchFault
  <2>2. /\ mctx' = MAfter(mctx, TRUE, cpu, cpu')
        /\ sctx' = SAfter(sctx, TRUE, cpu, cpu')
    BY <1>2 DEF CtxFetchFault
  <2>3. mctx' \in ContextType /\ MHolds(cpu', mctx')
    BY <1>0, <2>1, <2>2, MAfterHolds DEF CtxInv
  <2>4. sctx' \in ContextType /\ SHolds(cpu', sctx')
    BY <1>0, <2>1, <2>2, SAfterHolds DEF CtxInv
  <2> QED
    BY <2>3, <2>4 DEF CtxInv
<1>3. CASE CtxTick
  <2>1. PICK software \in BOOLEAN, timer \in BOOLEAN : cpu' = Lines(cpu, software, timer)
    BY <1>3 DEF CtxTick, Tick
  <2>2. /\ cpu'.word = cpu.word /\ cpu'.cause = cpu.cause
        /\ \A a \in BitCsr \ {CSR_MIP} : cpu'.bits[a] = cpu.bits[a]
    BY <1>0, <2>1, LinesStep
  <2>3. CSR_MSTATUS \in BitCsr \ {CSR_MIP}
    BY DEF BitCsr, CSR_MSTATUS, CSR_MIP
  <2>4. mctx' = mctx /\ sctx' = sctx
    BY <1>3 DEF CtxTick
  <2> QED
    BY <2>2, <2>3, <2>4, SameHolds DEF CtxInv
<1>4. CASE UNCHANGED vars
  BY <1>4 DEF vars, CtxInv, MHolds, SHolds
<1> QED
  BY <1>1, <1>2, <1>3, <1>4 DEF CtxNext, CtxStep

\* In the beginning no context is live.
LEMMA CtxInvInit == CtxInit => CtxInv
<1> SUFFICES ASSUME CtxInit
             PROVE  CtxInv
  OBVIOUS
<1>1. 0 \in Word /\ 0 \in Privilege /\ ResetCause \in Cause
  BY WordSizeAssumption DEF Word, Privilege, ResetCause, Cause, Bit
<1>2. NoContext \in ContextType /\ NoContext.live = FALSE
  BY <1>1 DEF NoContext, ContextType
<1> QED
  BY <1>2 DEF CtxInit, CtxInv, MHolds, SHolds

\* The history variables only watch: the hart with them is the hart, and every
\* theorem about the hart, NoInterruptLeftBehind among them, holds of it.
THEOREM ContextImplementsHart == CtxSpec => Spec
<1>1. CtxInit => Init
  BY DEF CtxInit
<1> QED
  BY <1>1, CtxStepIsHartStep, PTL DEF CtxSpec, Spec

\* The CSRs hold the live contexts in every reachable state.
LEMMA CtxInvariant == CtxSpec => []CtxInv
BY ContextImplementsHart, HartInvariant, CtxInvInit, CtxInvStep, PTL DEF CtxSpec

\* mret resumes what the last trap into M-mode interrupted, for every guest:
\* until M-mode itself changes it, no instruction, trap or return of a lower
\* mode touches the saved pc, cause, mode and interrupt enable.
THEOREM MachineContextIsIntact == CtxSpec => []MContextIntact
<1>1. CtxInv => MContextIntact
  BY DEF CtxInv, MHolds, MContextIntact
<1> QED
  BY <1>1, CtxInvariant, PTL

\* sret resumes what the last trap into S-mode interrupted, whatever traps into
\* M-mode nest in its handler and whatever U-mode executes.
THEOREM SupervisorContextIsIntact == CtxSpec => []SContextIntact
<1>1. CtxInv => SContextIntact
  BY DEF CtxInv, SHolds, SContextIntact
<1> QED
  BY <1>1, CtxInvariant, PTL
=============================================================================
