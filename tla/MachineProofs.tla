--------------------------- MODULE MachineProofs ---------------------------
(***************************************************************************)
(* The machine implements the hart, so that every theorem about the hart   *)
(* holds of the machine; the interrupt lines follow the device, and timer  *)
(* interrupts are justified by it.  It implements the timer device as      *)
(* well, whose theorems follow, for every width of its registers.          *)
(***************************************************************************)
EXTENDS Machine, HartProofs

\* A step of the loop is a step of the hart.
LEMMA MachineStepIsHartStep == [MachineNext]_machineVars => [Next]_cpu
<1> SUFFICES ASSUME [MachineNext]_machineVars
             PROVE  [Next]_cpu
  OBVIOUS
<1>1. CASE FetchedStep
  <2>1. TimerStore => Step
    BY DEF TimerStore, Step, dispatch_instruction, Plain
  <2> QED
    BY <1>1, <2>1 DEF FetchedStep, Next
<1>2. CASE FaultedStep
  BY <1>2 DEF FaultedStep, Next
<1>3. CASE vm_tick
  <2>1. (timer'.msip = 1) \in BOOLEAN /\ Due(timer') \in BOOLEAN
    BY DEF Due
  <2> QED
    BY <1>3, <2>1 DEF vm_tick, Next, Tick
<1>4. CASE UNCHANGED machineVars
  BY <1>4 DEF machineVars
<1> QED
  BY <1>1, <1>2, <1>3, <1>4 DEF MachineNext

\* The machine implements the hart: seen from the hart, the timer stores of
\* the guest are plain instructions and vm_tick only moves the two lines.
THEOREM MachineImplementsHart == MachineSpec => HartSpec
<1>1. MachineInit => Init
  BY DEF MachineInit
<1> QED
  BY <1>1, MachineStepIsHartStep, PTL DEF MachineSpec, HartSpec, Spec

---------------------------------------------------------------------------

\* Every step of the loop keeps the lines in step with the device.
LEMMA LinesFollowStep ==
    ASSUME HartInv, [MachineNext]_machineVars
    PROVE  [LinesFollow]_machineVars
<1>1. CASE FetchedStep
  <2>1. phase = "step" /\ Step
    BY <1>1 DEF FetchedStep, TimerStore, Step, dispatch_instruction, Plain
  <2> QED
    BY <2>1, StepLines DEF LinesFollow, LineBits
<1>2. CASE FaultedStep
  <2>1. phase = "step" /\ FetchFault
    BY <1>2 DEF FaultedStep
  <2> QED
    BY <2>1, StepLines DEF LinesFollow, LineBits
<1>3. CASE vm_tick
  <2>1. phase = "tick" /\ cpu' = Lines(cpu, timer'.msip = 1, Due(timer'))
    BY <1>3 DEF vm_tick
  <2>2. (timer'.msip = 1) \in BOOLEAN /\ Due(timer') \in BOOLEAN
    BY DEF Due
  <2>3. /\ (IRQ_SOFTWARE \in cpu'.bits[CSR_MIP]) <=> (timer'.msip = 1)
        /\ (IRQ_TIMER \in cpu'.bits[CSR_MIP]) <=> Due(timer')
    BY <2>1, <2>2, LinesStep DEF HartInv, TypeOK
  <2> QED
    BY <2>1, <2>2, <2>3 DEF LinesFollow, LinesShow
<1>4. CASE UNCHANGED machineVars
  BY <1>4
<1> QED
  BY <1>1, <1>2, <1>3, <1>4 DEF MachineNext

\* The interrupt lines in mip show the timer from one vm_tick to the next, for
\* every guest program: no CSR write, trap or return forges or hides them.
THEOREM LinesAreTheDevice == MachineSpec => LinesFollowDevice
<1>1. MachineSpec => []HartInv
  BY MachineImplementsHart, HartInvariant, PTL DEF HartSpec
<1> QED
  BY <1>1, LinesFollowStep, PTL DEF MachineSpec, LinesFollowDevice

---------------------------------------------------------------------------
(* A timer interrupt is justified.                                         *)

\* The lines show the device whenever a step of the hart is due: vm_tick is
\* the last thing that ran.
LinesInv == phase = "step" => LinesShow(cpu, timer)

\* The initial lines show the fresh timer: the deadline is the largest value.
LEMMA LinesInitially == MachineInit => LinesInv
<1> SUFFICES ASSUME MachineInit
             PROVE  LinesShow(cpu, timer)
  BY DEF LinesInv
<1>1. timer.msip = 0 /\ timer.mtime = 0 /\ timer.mtimecmp = Full - 1
  BY DEF MachineInit, ClintInit, timer_reset
<1>2. Full - 1 > 0
  <2>1. Half * Half >= 2 * 2
    BY HalfAssumption
  <2> QED
    BY <2>1, HalfAssumption DEF Full
<1>3. cpu.bits[CSR_MIP] = {}
  <2>1. CSR_MIP \in BitCsr /\ CSR_MIP # CSR_MSTATUS
    BY DEF BitCsr, CSR_MIP, CSR_MSTATUS
  <2> QED
    BY <2>1 DEF MachineInit, Init, cpu_reset
<1>4. ~Due(timer)
  BY <1>1, <1>2, HalfAssumption DEF Due, Full
<1> QED
  BY <1>1, <1>3, <1>4 DEF LinesShow, Due

\* Every step of the loop keeps LinesInv.
LEMMA LinesInvStep ==
    ASSUME HartInv, LinesInv, [MachineNext]_machineVars
    PROVE  LinesInv'
<1>1. CASE FetchedStep \/ FaultedStep
  BY <1>1 DEF FetchedStep, FaultedStep, LinesInv
<1>2. CASE vm_tick
  <2>1. phase = "tick"
    BY <1>2 DEF vm_tick
  <2>2. LinesFollow \/ UNCHANGED machineVars
    BY <1>2, LinesFollowStep
  <2>3. LinesShow(cpu', timer')
    BY <1>2, <2>1, <2>2 DEF LinesFollow, vm_tick, machineVars
  <2> QED
    BY <2>3 DEF LinesInv
<1>3. CASE UNCHANGED machineVars
  BY <1>3 DEF machineVars, LinesInv
<1> QED
  BY <1>1, <1>2, <1>3 DEF MachineNext

\* An exception does not look like a timer interrupt.
LEMMA ExceptionIsNoTimerTrap ==
    ASSUME NEW b, NEW d, NEW code, ExceptionTrap(b, d, code)
    PROVE  ~TimerTrap(d)
<1> DEFINE cause == [interrupt |-> FALSE, code |-> code]
<1>1. cause # [interrupt |-> TRUE, code |-> IRQ_TIMER]
  OBVIOUS
<1> HIDE DEF cause
<1>2. STrap(b, d, cause) \/ MTrap(b, d, cause)
  BY DEF ExceptionTrap, cause
<1>3. CASE STrap(b, d, cause)
  BY <1>1, <1>3 DEF STrap, TimerTrap, S_MODE, M_MODE
<1>4. CASE MTrap(b, d, cause)
  BY <1>1, <1>4 DEF MTrap, TimerTrap
<1> QED
  BY <1>2, <1>3, <1>4

\* A step that ends in a timer interrupt found the timer line up.
LEMMA TimerTrapLine ==
    ASSUME HartInv, Step \/ FetchFault, TimerTrap(cpu')
    PROVE  IRQ_TIMER \in cpu.bits[CSR_MIP]
<1> DEFINE b == Begin(cpu)
<1>1. WellFormed(b) /\ b.trap_taken = FALSE /\ b.bits = cpu.bits
  BY BeginStep DEF HartInv, TypeOK, SameButFlags
<1>2. CASE FetchFault
  <2>1. ExceptionTrap(b, cpu', EXC_INSTR_PAGE_FAULT)
    BY <1>2, FetchFaultTrap DEF HartInv, ExceptionTrap
  <2> QED
    BY <2>1, ExceptionIsNoTimerTrap
<1>3. CASE Step
  <2>1. PICK d : Outcome(b, d) /\ WellFormed(d) /\ cpu' = Finish(d)
    BY <1>3, StepShape
  <2> DEFINE e == increment_pc(d)
             f == cpu_check_interrupts(e)
  <2>2. /\ SameButFlags(f, cpu') /\ cpu'.trap_taken = f.trap_taken
        /\ \/ ~InterruptPossible(e) /\ f = e
           \/ \E k \in 1..6 : /\ Chosen(e, k)
                              /\ STrap(e, f, [interrupt |-> TRUE, code |-> Priority[k]])
           \/ \E k \in 1..6 : /\ Chosen(e, k)
                              /\ MTrap(e, f, [interrupt |-> TRUE, code |-> Priority[k]])
    BY <2>1, FinishCases
  <2>3. /\ e.priv = d.priv /\ e.bits = d.bits /\ e.cause = d.cause
        /\ e.trap_taken = d.trap_taken
    BY <2>1, IncrementPc
  <2>4. LineBits(d) = LineBits(b)
    BY <1>1, <2>1, OutcomeLines
  <2> HIDE DEF b, e, f
  <2>5. TimerTrap(f)
    BY <2>2 DEF TimerTrap, SameButFlags
  <2>6. CASE f = e
    <3>1. TimerTrap(d)
      BY <2>3, <2>5, <2>6 DEF TimerTrap
    <3>2. d.trap_taken
      BY <3>1 DEF TimerTrap
    <3> QED
      BY <1>1, <2>1, <3>1, <3>2, OutcomeFlag, ExceptionIsNoTimerTrap
  <2>7. ASSUME NEW k \in 1..6, Chosen(e, k),
               \/ STrap(e, f, [interrupt |-> TRUE, code |-> Priority[k]])
               \/ MTrap(e, f, [interrupt |-> TRUE, code |-> Priority[k]])
        PROVE  IRQ_TIMER \in cpu.bits[CSR_MIP]
    <3>1. [interrupt |-> TRUE, code |-> Priority[k]] = [interrupt |-> TRUE, code |-> IRQ_TIMER]
      BY <2>5, <2>7 DEF TimerTrap, STrap, MTrap, S_MODE, M_MODE
    <3>2. Priority[k] = IRQ_TIMER
      BY <3>1
    <3>3. IRQ_TIMER \in e.bits[CSR_MIP]
      BY <2>7, <3>2 DEF Chosen, Takeable
    <3> QED
      BY <1>1, <2>3, <2>4, <3>3 DEF LineBits
  <2> QED
    BY <2>2, <2>6, <2>7
<1> QED
  BY <1>2, <1>3

\* No spurious timer interrupt, for every guest: a step that ends in one began
\* with the timer due, although the lines are only refreshed by vm_tick.
THEOREM TimerInterruptIsJustified == MachineSpec => TimerInterruptJustified
<1>1. MachineSpec => []HartInv
  BY MachineImplementsHart, HartInvariant, PTL DEF HartSpec
<1>2. ASSUME HartInv, LinesInv, [MachineNext]_machineVars
      PROVE  [Justified]_machineVars
  <2> SUFFICES ASSUME phase = "step", phase' = "tick", TimerTrap(cpu')
               PROVE  Due(timer)
    BY DEF Justified
  <2>1. FetchedStep \/ FaultedStep
    BY <1>2 DEF MachineNext, vm_tick, machineVars
  <2>2. Step \/ FetchFault
    BY <2>1 DEF FetchedStep, FaultedStep, TimerStore, Step, dispatch_instruction, Plain
  <2> QED
    BY <1>2, <2>2, TimerTrapLine DEF LinesInv, LinesShow
<1> QED
  BY <1>1, <1>2, LinesInitially, LinesInvStep, PTL DEF MachineSpec, TimerInterruptJustified

---------------------------------------------------------------------------
(* The timer device, for every register width.                             *)

\* The machine implements the timer device: whatever the guest stores, and
\* with whatever width, is one of the device's own accesses.
THEOREM MachineImplementsClint == MachineSpec => ClintSpec
<1>1. MachineInit => ClintInit
  BY DEF MachineInit
<1>2. [MachineNext]_machineVars => [ClintNext]_timer
  <2> SUFFICES ASSUME [MachineNext]_machineVars
               PROVE  [ClintNext]_timer
    OBVIOUS
  <2>1. CASE TimerStore
    <3>1. ASSUME NEW s \in Stores32, Write32(s[1], s[2])
          PROVE  ClintNext
      BY <3>1, StoresAssumption DEF ClintNext
    <3>2. ASSUME NEW s \in Stores64, Write64(s[1], s[2])
          PROVE  ClintNext
      BY <3>2, StoresAssumption DEF ClintNext
    <3> QED
      BY <2>1, <3>1, <3>2 DEF TimerStore
  <2>2. CASE vm_tick
    BY <2>2 DEF vm_tick, ClintNext
  <2> QED
    BY <2>1, <2>2 DEF MachineNext, FetchedStep, FaultedStep, machineVars
<1> QED
  BY <1>1, <1>2, PTL DEF MachineSpec, ClintSpec

\* A register holds at least two bits.
LEMMA FullFact == Full \in Nat /\ Full >= 4 /\ Half \in Nat /\ Half >= 2 /\ Half <= Full
<1>1. Half * Half >= 2 * Half
  BY HalfAssumption
<1> QED
  BY <1>1, HalfAssumption DEF Full

\* Ticks and stores keep the registers in their width.
LEMMA ClintTypeStep ==
    ASSUME ClintTypeOK, [ClintNext]_timer
    PROVE  ClintTypeOK'
<1>0. timer \in TimerType
  BY DEF ClintTypeOK
<1>1. CASE TimerTick
  <2>1. timer.mtime \in 0..(Full - 1)
    BY <1>0 DEF TimerType
  <2>2. (timer.mtime + 1) % Full \in 0..(Full - 1)
    BY <2>1, FullFact
  <2> QED
    BY <1>0, <1>1, <2>2 DEF TimerTick, timer_tick, ClintTypeOK, TimerType
<1>2. ASSUME NEW offset \in Offset, NEW value \in 0..(Half - 1), Write32(offset, value)
      PROVE  ClintTypeOK'
  <2>1. value % 2 \in 0..1
    BY FullFact
  <2> QED
    BY <1>0, <1>2, <2>1 DEF Write32, timer_write32, ClintTypeOK, TimerType
<1>3. ASSUME NEW offset \in Offset, NEW value \in 0..(Full - 1), Write64(offset, value)
      PROVE  ClintTypeOK'
  <2>1. value % 2 \in 0..1
    BY FullFact
  <2>2. \/ timer' = [timer EXCEPT !.msip = value % 2, !.mtimecmp = value]
        \/ timer' = [timer EXCEPT !.mtimecmp = value]
        \/ timer' = [timer EXCEPT !.mtime = value]
        \/ timer' = timer
    BY <1>3 DEF Write64, timer_write64
  <2> QED
    BY <1>0, <2>1, <2>2 DEF ClintTypeOK, TimerType
<1>4. CASE UNCHANGED timer
  BY <1>4 DEF ClintTypeOK
<1> QED
  BY <1>1, <1>2, <1>3, <1>4 DEF ClintNext

\* The registers of the timer keep their widths, for every width.
THEOREM ClintTypeCorrect == ClintSpec => []ClintTypeOK
<1>1. ClintInit => ClintTypeOK
  <2>1. 0 \in 0..1 /\ 0 \in 0..(Full - 1) /\ Full - 1 \in 0..(Full - 1)
    BY FullFact
  <2> QED
    BY <2>1 DEF ClintInit, ClintTypeOK, TimerType, timer_reset
<1> QED
  BY <1>1, ClintTypeStep, PTL DEF ClintSpec

\* The two halves of a number, put together again.
LEMMA SplitValue ==
    ASSUME NEW v \in Nat
    PROVE  (v % Half) + Half * (v \div Half) = v
BY HalfAssumption

\* Reading a register by halves and reading it whole give the same value, for
\* every width: no half is taken from the other register or shifted wrongly.
THEOREM HalvesAlwaysAgree == ClintSpec => []HalvesAgree
<1>1. ClintTypeOK => HalvesAgree
  <2> SUFFICES ASSUME ClintTypeOK, NEW r \in Register
               PROVE  timer_read32(timer, r) + Half * timer_read32(timer, r + 4)
                        = timer_read64(timer, r)
    BY DEF HalvesAgree
  <2>1. timer.mtime \in Nat /\ timer.mtimecmp \in Nat
    BY FullFact DEF ClintTypeOK, TimerType
  <2>2. CASE r = TIMER_MTIMECMP
    <3>1. /\ timer_read32(timer, r) = timer.mtimecmp % Half
          /\ timer_read32(timer, r + 4) = timer.mtimecmp \div Half
          /\ timer_read64(timer, r) = timer.mtimecmp
      BY <2>2 DEF timer_read32, timer_read64, TIMER_MSIP, TIMER_MTIMECMP, TIMER_MTIME
    <3> QED
      BY <2>1, <3>1, SplitValue
  <2>3. CASE r = TIMER_MTIME
    <3>1. /\ timer_read32(timer, r) = timer.mtime % Half
          /\ timer_read32(timer, r + 4) = timer.mtime \div Half
          /\ timer_read64(timer, r) = timer.mtime
      BY <2>3 DEF timer_read32, timer_read64, TIMER_MSIP, TIMER_MTIMECMP, TIMER_MTIME
    <3> QED
      BY <2>1, <3>1, SplitValue
  <2> QED
    BY <2>2, <2>3 DEF Register
<1> QED
  BY <1>1, ClintTypeCorrect, PTL

\* A due timer stays due under ticks until mtime wraps to 0 or software moves
\* the deadline.
THEOREM DueStaysDue == ClintSpec => DueIsStable
<1>1. ASSUME ClintTypeOK, TimerTick, Due(timer), ~Due(timer')
      PROVE  timer'.mtime = 0
  <2>1. timer.mtime \in 0..(Full - 1) /\ timer.mtimecmp \in 0..(Full - 1)
    BY <1>1 DEF ClintTypeOK, TimerType
  <2>2. timer'.mtime = (timer.mtime + 1) % Full /\ timer'.mtimecmp = timer.mtimecmp
    BY <1>1 DEF TimerTick, timer_tick, ClintTypeOK, TimerType
  <2>3. CASE timer.mtime + 1 < Full
    <3>1. timer'.mtime = timer.mtime + 1
      BY <2>1, <2>2, <2>3, FullFact
    <3> QED
      BY <1>1, <2>1, <2>2, <3>1, FullFact DEF Due
  <2>4. CASE timer.mtime + 1 = Full
    BY <2>2, <2>4, FullFact
  <2> QED
    BY <2>1, <2>3, <2>4, FullFact
<1>2. ClintTypeOK /\ [ClintNext]_timer
        => [TimerTick /\ Due(timer) /\ ~Due(timer') => timer'.mtime = 0]_timer
  BY <1>1
<1> QED
  BY <1>2, ClintTypeCorrect, PTL DEF ClintSpec, DueIsStable
=============================================================================
