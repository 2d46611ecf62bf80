-------------------------------- MODULE Hart --------------------------------
(***************************************************************************)
(* One hart: cpu_step of src/src/cpu/cpu.c and the dispatchers it calls,   *)
(* seen from the program counter, the privilege level and the CSRs.        *)
(* Guest code, registers, memory and page tables are not modelled: any     *)
(* instruction may come next, a jump may go to any target in JumpTargets,  *)
(* and an Sv39 translation may succeed or fail.  The interrupt lines       *)
(* software (3) and timer (7) change between steps, as vm_tick does it.    *)
(***************************************************************************)
EXTENDS Trap

CONSTANTS JumpTargets,   \* targets of jumps and taken branches
          CsrInstrs      \* the CSR instructions the guest may execute

ASSUME GuestAssumption == /\ JumpTargets \subseteq Word
                          /\ \A i \in CsrInstrs : IsCsrInstr(i)

VARIABLE cpu

CpuType == [pc    : Word,
            priv  : Privilege,
            bits  : [BitCsr -> SUBSET Bit],
            word  : [WordCsr -> Word],
            cause : [CauseCsr -> Cause],
            satp  : 0..15,
            trap_taken : BOOLEAN,
            pc_written : BOOLEAN]

---------------------------------------------------------------------------
(* cpu_reset and csr_reset, after which trap_taken and the flags are 0.    *)

ResetCause == [interrupt |-> FALSE, code |-> 0]

cpu_reset ==
    [pc    |-> RAM_BASE,
     priv  |-> M_MODE,
     bits  |-> [a \in BitCsr |-> IF a = CSR_MSTATUS THEN {MPP0, MPP1} ELSE {}],
     word  |-> [a \in WordCsr |-> IF a = CSR_MTVEC THEN RAM_BASE ELSE 0],
     cause |-> [a \in CauseCsr |-> ResetCause],
     satp  |-> 0,
     trap_taken |-> FALSE,
     pc_written |-> FALSE]

---------------------------------------------------------------------------
(* translate_address: whether it can succeed, and whether it can fail.     *)

effective_priv(c, access) ==
    IF c.priv = M_MODE /\ access # "fetch" /\ MPRV \in c.bits[CSR_MSTATUS]
    THEN MPP(c.bits[CSR_MSTATUS])
    ELSE c.priv

Bare(c, access)       == c.satp = 0 \/ effective_priv(c, access) = M_MODE
MayTranslate(c, access) == Bare(c, access) \/ c.satp = 8
MayFault(c, access)     == ~Bare(c, access)

---------------------------------------------------------------------------
(* cpu_step, from the reset of trap_taken to the end.                      *)

Begin(c) == [c EXCEPT !.trap_taken = FALSE]

increment_pc(c) ==
    IF ~c.trap_taken /\ ~c.pc_written
    THEN [c EXCEPT !.pc = (@ + 4) % WordSize]
    ELSE c

\* Mutant: pc_written is not reset.
FinishKeepsPcWritten(c) == cpu_check_interrupts(increment_pc(c))

\* The part of cpu_step after dispatch_instruction.
Finish(c) == [cpu_check_interrupts(increment_pc(c)) EXCEPT !.pc_written = FALSE]

\* cpu_fetch raises the fault and cpu_step returns at once: no interrupt
\* check, no reset of pc_written.
FetchFault == /\ MayFault(cpu, "fetch")
              /\ cpu' = raise_exception(Begin(cpu), EXC_INSTR_PAGE_FAULT)

---------------------------------------------------------------------------
(* The instructions, by what they do to the modelled state: each maps the  *)
(* hart c that dispatch_instruction is given to the harts it can leave.    *)

\* Integer and multiply instructions, fences, wfi, untaken branches, and
\* loads, stores and atomics that succeed.
Plain(c) == {c}

\* jal, jalr and taken branches.
jump(c, target) == [c EXCEPT !.pc = target, !.pc_written = TRUE]
Jump(c) == {jump(c, target) : target \in JumpTargets}

\* The faults of cpu_load* and cpu_store*, and of the atomics that use them.
LoadFault(c) ==
    {d \in {raise_exception(c, EXC_LOAD_PAGE_FAULT)} : MayFault(c, "load")}
StoreFault(c) ==
    {d \in {raise_exception(c, EXC_STORE_PAGE_FAULT)} : MayFault(c, "store")}

\* lr (4) and sc/amo (6) on an address that is not a multiple of their size.
Misaligned(c) ==
    {raise_exception(c, code) :
        code \in {EXC_LOAD_ADDR_MISALIGNED, EXC_STORE_ADDR_MISALIGNED}}

\* Undefined encodings, and the system instructions.
Illegal(c) == {illegal(c)}
System(c)  == {ecall(c), ebreak(c), sfence_vma(c), sret(c), mret(c)}
CsrOp(c)   == {csr_instruction(c, i) : i \in CsrInstrs}

dispatch_instruction(c) ==
    Plain(c) \cup Jump(c) \cup LoadFault(c) \cup StoreFault(c) \cup Misaligned(c)
             \cup Illegal(c) \cup System(c) \cup CsrOp(c)

\* An instruction that was fetched and turned the hart into d.
Retire(d) == cpu' = Finish(d)

Step == /\ MayTranslate(cpu, "fetch")
        /\ \E d \in dispatch_instruction(Begin(cpu)) : Retire(d)

---------------------------------------------------------------------------
(* cpu_set_interrupt_pending, called by vm_tick between two steps.         *)

cpu_set_interrupt_pending(c, cause, pending) ==
    [c EXCEPT !.bits[CSR_MIP] = IF pending THEN @ \cup {cause} ELSE @ \ {cause}]

Lines(c, software, timer) ==
    cpu_set_interrupt_pending(
        cpu_set_interrupt_pending(c, IRQ_SOFTWARE, software), IRQ_TIMER, timer)

Tick == \E software, timer \in BOOLEAN : cpu' = Lines(cpu, software, timer)

---------------------------------------------------------------------------

Init == cpu = cpu_reset
Next == Step \/ FetchFault \/ Tick
Spec == Init /\ [][Next]_cpu

---------------------------------------------------------------------------
(* Properties.                                                             *)

\* Every field of cpu_t keeps its type, and both trap vectors stay multiples
\* of 4 whatever the guest writes to mtvec and stvec.
WellFormed(c) ==
    /\ c \in CpuType
    /\ c.word[CSR_MTVEC] % 4 = 0
    /\ c.word[CSR_STVEC] % 4 = 0
TypeOK == WellFormed(cpu)

\* Privilege rises only through a trap: a step that ends more privileged than
\* it began stands at the vector that was installed when it began.
PrivilegeRises ==
    cpu'.priv > cpu.priv =>
        /\ cpu'.trap_taken
        /\ cpu'.priv \in {S_MODE, M_MODE}
        /\ cpu'.pc = cpu.word[IF cpu'.priv = M_MODE THEN CSR_MTVEC ELSE CSR_STVEC]
PrivilegeRisesOnlyByTrap == [][PrivilegeRises]_cpu

\* What M-mode owns: its configuration, which no step of a lower mode may
\* change, and its trap context, which such a step may change only by
\* entering M-mode.  sstatus, sie and sip are windows on the same storage.
MachineOnlyInterrupt == Bit \ SUPERVISOR_INTERRUPT_MASK

MachineConfig(c) ==
    <<c.word[CSR_MTVEC], c.bits[CSR_MEDELEG], c.bits[CSR_MIDELEG],
      c.bits[CSR_MCOUNTEREN], c.bits[CSR_MSTATUS] \cap {MPRV, TVM},
      c.bits[CSR_MIE] \cap MachineOnlyInterrupt>>

MachineContext(c) ==
    <<c.word[CSR_MEPC], c.cause[CSR_MCAUSE],
      c.bits[CSR_MSTATUS] \cap {MIE, MPIE, MPP0, MPP1}>>

\* The CSRs and fields a U-mode program must find as it left them.
SupervisorState(c) ==
    <<c.word, c.cause, c.satp, c.bits[CSR_MSTATUS], c.bits[CSR_MIE],
      c.bits[CSR_MIP] \cap SUPERVISOR_INTERRUPT_MASK, c.bits[CSR_SCOUNTEREN]>>

\* No step below M-mode changes the machine configuration, or the machine
\* trap context without trapping into M-mode; no step that stays in U-mode
\* changes a CSR, the lines of the timer in mip apart.
Isolated ==
    cpu.priv < M_MODE =>
        /\ MachineConfig(cpu') = MachineConfig(cpu)
        /\ cpu'.priv < M_MODE => MachineContext(cpu') = MachineContext(cpu)
        /\ cpu.priv = U_MODE /\ cpu'.priv = U_MODE =>
              SupervisorState(cpu') = SupervisorState(cpu)
PrivilegeIsolation == [][Isolated]_cpu

\* When a step ends no interrupt is left that cpu_check_interrupts could have
\* taken, except one for M-mode behind a delegated one that entered S-mode.
NothingLeftBehind ==
    \/ \A k \in 1..6 : Takeable(cpu', Priority[k]) =>
           /\ cpu'.priv = S_MODE
           /\ cpu'.cause[CSR_SCAUSE].interrupt
           /\ cpu'.pc = cpu'.word[CSR_STVEC]
           /\ Priority[k] \notin cpu'.bits[CSR_MIDELEG]
    \/ ~Step
NoInterruptLeftBehind == [][NothingLeftBehind]_cpu

\* Only jumps and returns leave the line of execution without a trap: a
\* leftover pc_written of an earlier step never freezes pc.
ControlTransfer(c) == Jump(c) \cup {sret(c), mret(c)}
Sequential ==
    ~cpu'.trap_taken =>
        \/ cpu'.pc = (cpu.pc + 4) % WordSize
        \/ \E d \in ControlTransfer(Begin(cpu)) : Retire(d)
        \/ Tick
SequentialPc == [][Sequential]_cpu
=============================================================================
