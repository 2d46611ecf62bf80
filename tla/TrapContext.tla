---------------------------- MODULE TrapContext ----------------------------
(***************************************************************************)
(* The hart with two history variables: what the last trap into M-mode and *)
(* the last trap into S-mode interrupted.  They are computed from the hart *)
(* as it was when the trap was raised, never from the CSRs the trap code   *)
(* saves into, so that the invariants compare the two.                     *)
(*                                                                         *)
(* A context is live from the trap until software that is entitled to it   *)
(* (M-mode for the machine context, S-mode and above for the supervisor    *)
(* context) changes one of the CSRs that hold it, mret and sret included.  *)
(***************************************************************************)
EXTENDS Hart

VARIABLES mctx,   \* interrupted by the last trap into M-mode
          sctx    \* interrupted by the last trap into S-mode

vars == <<cpu, mctx, sctx>>

NoContext == [live |-> FALSE, pc |-> 0, priv |-> 0, ie |-> FALSE, cause |-> ResetCause]

\* The context a trap raised in hart c interrupts; ie is the interrupt enable
\* bit of the mode that takes the trap.
Interrupted(c, ie, cause) ==
    [live |-> TRUE, pc |-> c.pc, priv |-> c.priv,
     ie |-> ie \in c.bits[CSR_MSTATUS], cause |-> cause]

Dead(x) == [x EXCEPT !.live = FALSE]

\* The CSR fields that hold the supervisor context; MachineContext of module
\* Hart is its counterpart.
SupervisorContext(c) ==
    <<c.word[CSR_SEPC], c.cause[CSR_SCAUSE], c.bits[CSR_MSTATUS] \cap {SIE, SPIE, SPP}>>

\* One trap or its absence: `from' was trapped and became `to', or ran one
\* instruction that did not trap.
MAfter(ctx, trapped, from, to) ==
    IF trapped
    THEN IF to.priv = M_MODE THEN Interrupted(from, MIE, to.cause[CSR_MCAUSE]) ELSE ctx
    ELSE IF from.priv = M_MODE /\ MachineContext(to) # MachineContext(from)
         THEN Dead(ctx) ELSE ctx

SAfter(ctx, trapped, from, to) ==
    IF trapped
    THEN IF to.priv = S_MODE THEN Interrupted(from, SIE, to.cause[CSR_SCAUSE]) ELSE ctx
    ELSE IF from.priv # U_MODE /\ SupervisorContext(to) # SupervisorContext(from)
         THEN Dead(ctx) ELSE ctx

\* A step traps at most twice: in the instruction, and in the interrupt check.
CtxRetire(d) ==
    LET e == increment_pc(d)
        f == cpu_check_interrupts(e)
    IN  /\ Retire(d)
        /\ mctx' = MAfter(MAfter(mctx, d.trap_taken, cpu, d), InterruptPossible(e), e, f)
        /\ sctx' = SAfter(SAfter(sctx, d.trap_taken, cpu, d), InterruptPossible(e), e, f)

CtxStep == /\ MayTranslate(cpu, "fetch")
           /\ \E d \in dispatch_instruction(Begin(cpu)) : CtxRetire(d)

CtxFetchFault == /\ FetchFault
                 /\ mctx' = MAfter(mctx, TRUE, cpu, cpu')
                 /\ sctx' = SAfter(sctx, TRUE, cpu, cpu')

CtxTick == Tick /\ UNCHANGED <<mctx, sctx>>

CtxInit == Init /\ mctx = NoContext /\ sctx = NoContext
CtxNext == CtxStep \/ CtxFetchFault \/ CtxTick
CtxSpec == CtxInit /\ [][CtxNext]_vars

---------------------------------------------------------------------------
(* Properties.                                                             *)

\* mret will resume what the last trap into M-mode interrupted: until M-mode
\* itself changes them, mepc, mcause, MPP and MPIE hold the interrupted pc,
\* cause, mode and interrupt enable, and MIE stays clear, whatever lower
\* modes execute and however often they trap into S-mode in between.
MContextIntact ==
    mctx.live =>
        /\ cpu.word[CSR_MEPC] = mctx.pc
        /\ cpu.cause[CSR_MCAUSE] = mctx.cause
        /\ MPP(cpu.bits[CSR_MSTATUS]) = mctx.priv
        /\ (MPIE \in cpu.bits[CSR_MSTATUS]) <=> mctx.ie
        /\ MIE \notin cpu.bits[CSR_MSTATUS]

\* sret will resume what the last trap into S-mode interrupted, whatever
\* traps into M-mode nest in its handler.  SPP has one bit: it identifies
\* the interrupted mode when that is U-mode or S-mode.
SContextIntact ==
    sctx.live =>
        /\ cpu.word[CSR_SEPC] = sctx.pc
        /\ cpu.cause[CSR_SCAUSE] = sctx.cause
        /\ sctx.priv \in {U_MODE, S_MODE} =>
              (SPP \in cpu.bits[CSR_MSTATUS]) <=> (sctx.priv = S_MODE)
        /\ (SPIE \in cpu.bits[CSR_MSTATUS]) <=> sctx.ie
        /\ SIE \notin cpu.bits[CSR_MSTATUS]
=============================================================================
