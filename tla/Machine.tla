------------------------------ MODULE Machine ------------------------------
(***************************************************************************)
(* The hart and the timer device under the main loop of apps/vm_main.c:    *)
(*     while (1) { cpu_step(&vm.cpu); vm_tick(&vm); ... }                  *)
(* The guest reaches the timer through stores (bus.c routes them); the     *)
(* timer reaches the hart through the two interrupt lines vm_tick copies   *)
(* into mip.  The lines are therefore stale from a store until vm_tick.    *)
(***************************************************************************)
EXTENDS Hart, Clint

CONSTANTS Stores32,   \* <<offset, value>> pairs the guest may store
          Stores64

ASSUME StoresAssumption ==
    /\ Stores32 \subseteq Offset \X (0..(Half - 1))
    /\ Stores64 \subseteq Offset \X (0..(Full - 1))

VARIABLE phase   \* the call of the loop body that comes next

machineVars == <<cpu, timer, phase>>

---------------------------------------------------------------------------

\* A store whose translated address lies in the timer: for the hart it is
\* an instruction like any other.
TimerStore ==
    /\ MayTranslate(cpu, "fetch")
    /\ MayTranslate(cpu, "store")
    /\ Retire(Begin(cpu))
    /\ \/ \E s \in Stores32 : Write32(s[1], s[2])
       \/ \E s \in Stores64 : Write64(s[1], s[2])

\* cpu_step
FetchedStep == /\ phase = "step"
               /\ \/ Step /\ UNCHANGED timer
                  \/ TimerStore
               /\ phase' = "tick"

FaultedStep == /\ phase = "step"
               /\ FetchFault
               /\ UNCHANGED timer
               /\ phase' = "tick"

\* Mutant: the timer also drives the supervisor timer bit, 5.
TickDrivesSupervisorLine ==
    /\ phase = "tick"
    /\ TimerTick
    /\ cpu' = cpu_set_interrupt_pending(
                  Lines(cpu, timer'.msip = 1, Due(timer')), 5, Due(timer'))
    /\ phase' = "step"

vm_tick == /\ phase = "tick"
           /\ TimerTick
           /\ cpu' = Lines(cpu, timer'.msip = 1, Due(timer'))
           /\ phase' = "step"

MachineInit == Init /\ ClintInit /\ phase = "step"
MachineNext == FetchedStep \/ FaultedStep \/ vm_tick
MachineSpec == MachineInit /\ [][MachineNext]_machineVars

\* The loop never stops: some step is always taken.
FairMachineSpec == MachineSpec /\ WF_machineVars(MachineNext)

---------------------------------------------------------------------------
(* Properties.                                                             *)

\* The lines in mip follow the device: vm_tick makes them show it, and until
\* the next vm_tick no instruction can forge or hide them, neither through
\* mip nor through sip with the line delegated.
LinesShow(c, t) ==
    /\ (IRQ_SOFTWARE \in c.bits[CSR_MIP]) = (t.msip = 1)
    /\ (IRQ_TIMER \in c.bits[CSR_MIP]) = Due(t)
LinesFollow ==
    IF phase = "tick"
    THEN LinesShow(cpu', timer')
    ELSE cpu'.bits[CSR_MIP] \cap {IRQ_SOFTWARE, IRQ_TIMER}
            = cpu.bits[CSR_MIP] \cap {IRQ_SOFTWARE, IRQ_TIMER}
LinesFollowDevice == [][LinesFollow]_machineVars

\* The trap the last step of hart c ended in was the timer interrupt.
TimerTrap(c) ==
    /\ c.trap_taken
    /\ c.cause[IF c.priv = M_MODE THEN CSR_MCAUSE ELSE CSR_SCAUSE]
         = [interrupt |-> TRUE, code |-> IRQ_TIMER]

\* No spurious timer interrupt: a step that ends in one began with the timer
\* due.  (A store in that very step may just have moved the deadline.)
Justified ==
    phase = "step" /\ phase' = "tick" /\ TimerTrap(cpu') => Due(timer)
TimerInterruptJustified == [][Justified]_machineVars

\* The machine refines the hart: the device only drives the two lines.
HartSpec == Spec

\* The timer interrupt is up, enabled, for M-mode, and the hart is below it.
TimerWanted == /\ IRQ_TIMER \in cpu.bits[CSR_MIP] \cap cpu.bits[CSR_MIE]
               /\ IRQ_TIMER \notin cpu.bits[CSR_MIDELEG]
               /\ cpu.priv < M_MODE

\* While instructions keep being fetched, a timer interrupt for M-mode that
\* is up while a lower mode runs gets the hart into M-mode, unless the line
\* goes down first.
TimerTakenIfFetching ==
    []<><<FetchedStep>>_machineVars => (TimerWanted ~> ~TimerWanted)

\* The same without the assumption on fetches.
TimerTaken == TimerWanted ~> ~TimerWanted
=============================================================================
