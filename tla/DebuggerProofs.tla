--------------------------- MODULE DebuggerProofs ---------------------------
(***************************************************************************)
(* Proofs about module Debugger, for every size of the breakpoint table,   *)
(* every set of addresses and every guest program.  The hart's side comes  *)
(* from HartProofs; what is added is what a command line keeps true        *)
(* between two of its calls of cpu_step.                                   *)
(***************************************************************************)
EXTENDS Debugger, HartProofs

---------------------------------------------------------------------------
(* What the commands do to the hart.                                       *)

\* vm_init leaves the reset state in U-mode.
LEMMA PowerOn ==
    LET c == [cpu_reset EXCEPT !.priv = U_MODE]
    IN  WellFormed(c) /\ c.pc_written = FALSE /\ c.bits = cpu_reset.bits
<1> DEFINE c == [cpu_reset EXCEPT !.priv = U_MODE]
<1>1. cpu_reset \in CpuType /\ U_MODE \in Privilege
  BY ResetType DEF WellFormed, U_MODE, Privilege
<1>2. cpu_reset.pc_written = FALSE
  BY DEF cpu_reset
<1>3. /\ c \in CpuType /\ c.pc_written = FALSE
      /\ c.bits = cpu_reset.bits /\ c.word = cpu_reset.word
  BY <1>1, <1>2 DEF CpuType
<1> QED
  BY <1>3, ResetType DEF WellFormed

\* Out of reset no interrupt is pending.
LEMMA ResetLines == LineBits(cpu_reset) = {}
<1>1. CSR_MIP \in BitCsr /\ CSR_MIP # CSR_MSTATUS
  BY DEF BitCsr, CSR_MIP, CSR_MSTATUS
<1>2. cpu_reset.bits[CSR_MIP] = {}
  BY <1>1 DEF cpu_reset
<1> QED
  BY <1>2 DEF LineBits

\* Two harts that agree on every field are the same.
LEMMA SameHart ==
    ASSUME NEW c \in CpuType, NEW d \in CpuType, SameButFlags(c, d),
           d.trap_taken = c.trap_taken, d.pc_written = c.pc_written
    PROVE  d = c
BY DEF CpuType, SameButFlags

\* Between two steps pc_written is clear, so that cpu_reset may well leave it.
LEMMA ResetIsComplete ==
    ASSUME NEW c, c.pc_written = FALSE
    PROVE  Reset(c) = cpu_reset
<1>1. cpu_reset \in CpuType /\ cpu_reset.pc_written = FALSE
  BY ResetType DEF WellFormed, cpu_reset
<1>2. /\ Reset(c) \in CpuType /\ SameButFlags(cpu_reset, Reset(c))
      /\ Reset(c).trap_taken = cpu_reset.trap_taken
      /\ Reset(c).pc_written = FALSE
  BY <1>1 DEF Reset, CpuType, SameButFlags
<1> QED
  BY <1>1, <1>2, SameHart

\* The trap into M-mode and the one into S-mode, from a hart with its saved pc
\* and cause in place, do not depend on trap_taken.
LEMMA EnterIgnoresFlag ==
    ASSUME NEW c \in CpuType, NEW d \in CpuType, SameButFlags(c, d),
           d.pc_written = c.pc_written
    PROVE  enter_m_trap(d) = enter_m_trap(c) /\ enter_s_trap(d) = enter_s_trap(c)
<1>1. d = [c EXCEPT !.trap_taken = d.trap_taken]
  BY DEF CpuType, SameButFlags
<1> QED
  BY DEF enter_m_trap, enter_s_trap, CpuType, SameButFlags

\* A trap sets trap_taken itself: cpu_fetch from the command line, which does
\* not clear the flag first, traps just as cpu_step does.
LEMMA TrapNeedsNoBegin ==
    ASSUME NEW c, WellFormed(c), NEW code \in Bit
    PROVE  raise_exception(c, code) = raise_exception(Begin(c), code)
<1> DEFINE b == Begin(c)
           cause == [interrupt |-> FALSE, code |-> code]
           M(x) == [x EXCEPT !.word[CSR_MEPC] = x.pc, !.cause[CSR_MCAUSE] = cause]
           S(x) == [x EXCEPT !.word[CSR_SEPC] = x.pc, !.cause[CSR_SCAUSE] = cause]
<1>1. /\ c \in CpuType /\ b \in CpuType
      /\ SameButFlags(c, b) /\ b.pc_written = c.pc_written
  BY BeginStep DEF WellFormed
<1>2. cause \in Cause /\ cause.code = code
  BY DEF Cause
<1>3. Delegated(b, CSR_MEDELEG, code) <=> Delegated(c, CSR_MEDELEG, code)
  BY <1>1 DEF Delegated, SameButFlags
<1>4. \A x \in CpuType : /\ raise_exception(x, code)
                              = IF Delegated(x, CSR_MEDELEG, code)
                                THEN enter_s_trap(S(x)) ELSE enter_m_trap(M(x))
  BY <1>2 DEF raise_exception, RaiseTrap
<1> HIDE DEF b, cause
<1>5. /\ M(c) \in CpuType /\ M(b) \in CpuType
      /\ SameButFlags(M(c), M(b)) /\ M(b).pc_written = M(c).pc_written
  BY <1>1, <1>2 DEF CpuType, SameButFlags
<1>6. /\ S(c) \in CpuType /\ S(b) \in CpuType
      /\ SameButFlags(S(c), S(b)) /\ S(b).pc_written = S(c).pc_written
  BY <1>1, <1>2 DEF CpuType, SameButFlags
<1> HIDE DEF M, S
<1>7. enter_m_trap(M(b)) = enter_m_trap(M(c)) /\ enter_s_trap(S(b)) = enter_s_trap(S(c))
  BY <1>5, <1>6, EnterIgnoresFlag
<1> QED
  BY <1>1, <1>3, <1>4, <1>7 DEF b

---------------------------------------------------------------------------
(* The invariant.                                                          *)

\* As long as the table was not overrun its first entries are the addresses
\* given to break.
TableInv ==
    ~overrun => /\ breakpoint_count <= MAX_BREAKPOINTS
                /\ asked = {breakpoint_table[i] : i \in 0..(breakpoint_count - 1)}

\* step has steps left to do, and next has fetched the call it is about to
\* execute: nothing moves the hart in between.
CommandInv ==
    /\ job.cmd = "step" => job.left > 0
    /\ job.cmd = "call" => MayTranslate(cpu, "fetch")

DebuggerInv ==
    /\ DebuggerTypeOK
    /\ cpu.pc_written = FALSE
    /\ LinesFrozen
    /\ TableInv
    /\ CommandInv

---------------------------------------------------------------------------
(* The hart under the debugger.                                            *)

\* One of the three things ControlledHart allows, or nothing.
Controlled == \/ cpu_step
              \/ cpu' = cpu_reset
              \/ \E addr \in Addresses : cpu' = [cpu EXCEPT !.pc = addr]
              \/ UNCHANGED cpu

\* A fetch from the command line that faults is the fault of a cpu_step.
LEMMA FetchFromCommandLine ==
    ASSUME WellFormed(cpu), FetchFaults
    PROVE  cpu_step
<1>1. EXC_INSTR_PAGE_FAULT \in Bit
  BY DEF EXC_INSTR_PAGE_FAULT, Bit
<1>2. FetchFault
  BY <1>1, TrapNeedsNoBegin DEF FetchFaults, FetchFault
<1> QED
  BY <1>2 DEF cpu_step

\* Every command controls the hart and does nothing else to it.
LEMMA CommandsControl ==
    ASSUME DebuggerInv, [DebuggerNext]_debuggerVars
    PROVE  Controlled
<1>0. WellFormed(cpu) /\ cpu.pc_written = FALSE
  BY DEF DebuggerInv, DebuggerTypeOK
<1>1. CASE cmd_run \/ RunStop \/ Exit \/ \E n \in 0..MaxStep : cmd_step(n)
  BY <1>1 DEF cmd_run, RunStop, Exit, cmd_step, Controlled
<1>2. CASE RunStep \/ StepStep
  BY <1>2 DEF RunStep, StepStep, Controlled
<1>3. CASE cmd_state \/ cmd_next
  BY <1>0, <1>3, FetchFromCommandLine DEF cmd_state, cmd_next, FetchWorks, Controlled
<1>4. CASE NextStep
  <2>1. CASE job.cmd = "call" /\ \E d \in Jump(Begin(cpu)) : Retire(d)
    <3>1. MayTranslate(cpu, "fetch")
      BY <2>1 DEF DebuggerInv, CommandInv
    <3>2. Step
      BY <2>1, <3>1 DEF Step, dispatch_instruction
    <3> QED
      BY <3>2 DEF cpu_step, Controlled
  <2> QED
    BY <1>4, <2>1 DEF NextStep, Controlled
<1>5. CASE cmd_reset
  BY <1>0, <1>5, ResetIsComplete DEF cmd_reset, Controlled
<1>6. ASSUME NEW addr \in Addresses, cmd_load(addr)
      PROVE  Controlled
  BY <1>6 DEF cmd_load, Controlled
<1>7. ASSUME NEW addr \in Addresses, cmd_break(addr)
      PROVE  Controlled
  BY <1>7 DEF cmd_break, Controlled
<1>8. CASE UNCHANGED debuggerVars
  BY <1>8 DEF debuggerVars, Controlled
<1> QED
  BY <1>1, <1>2, <1>3, <1>4, <1>5, <1>6, <1>7, <1>8 DEF DebuggerNext

\* A controlled hart stays well formed, between two steps, and its lines stay
\* where they are.
LEMMA ControlledStep ==
    ASSUME WellFormed(cpu), cpu.pc_written = FALSE, LinesFrozen, Controlled
    PROVE  WellFormed(cpu') /\ cpu'.pc_written = FALSE /\ LinesFrozen'
<1>0. HartInv /\ LineBits(cpu) = {}
  BY DEF HartInv, TypeOK, LinesFrozen, LineBits
<1>1. CASE cpu_step
  <2>1. HartInv'
    BY <1>0, <1>1, HartInvStep DEF cpu_step, Next
  <2>2. LineBits(cpu') = {}
    BY <1>0, <1>1, StepLines DEF cpu_step
  <2> QED
    BY <2>1, <2>2 DEF HartInv, TypeOK, LinesFrozen, LineBits
<1>2. CASE cpu' = cpu_reset
  <2>1. cpu_reset.pc_written = FALSE
    BY DEF cpu_reset
  <2> QED
    BY <1>2, <2>1, ResetType, ResetLines DEF LinesFrozen, LineBits
<1>3. ASSUME NEW addr \in Addresses, cpu' = [cpu EXCEPT !.pc = addr]
      PROVE  WellFormed(cpu') /\ cpu'.pc_written = FALSE /\ LinesFrozen'
  <2>1. addr \in Word
    BY DebuggerAssumption
  <2>2. /\ cpu' \in CpuType /\ cpu'.bits = cpu.bits /\ cpu'.word = cpu.word
        /\ cpu'.pc_written = FALSE
    BY <1>3, <2>1 DEF WellFormed, CpuType
  <2> QED
    BY <2>2 DEF WellFormed, LinesFrozen
<1>4. CASE UNCHANGED cpu
  BY <1>4 DEF LinesFrozen
<1> QED
  BY <1>1, <1>2, <1>3, <1>4 DEF Controlled

---------------------------------------------------------------------------
(* The command in progress and the table.                                  *)

\* Prompt and Exited are commands.
LEMMA Idle == /\ Prompt \in Job /\ Exited \in Job
              /\ Prompt.cmd = "prompt" /\ Exited.cmd = "exit"
BY DebuggerAssumption, WordSizeAssumption DEF Prompt, Exited, Job, Word

\* A command in progress has its type, steps left to do, and for a call an
\* instruction that was fetched.
LEMMA CommandStep ==
    ASSUME DebuggerInv, [DebuggerNext]_debuggerVars
    PROVE  job' \in Job /\ CommandInv'
<1>0. /\ job \in Job /\ WellFormed(cpu)
      /\ job.cmd = "step" => job.left > 0
      /\ job.cmd = "call" => MayTranslate(cpu, "fetch")
  BY DEF DebuggerInv, DebuggerTypeOK, CommandInv
<1>1. CASE job' = Prompt \/ job' = Exited
  BY <1>1, Idle DEF CommandInv
<1>2. CASE job' = [Prompt EXCEPT !.cmd = "run"]
  BY <1>2, Idle DEF CommandInv, Job
<1>3. ASSUME NEW n \in 0..MaxStep, n # 0,
             job' = [Prompt EXCEPT !.cmd = "step", !.left = n]
      PROVE  job' \in Job /\ CommandInv'
  <2>1. n > 0
    BY <1>3, DebuggerAssumption
  <2> QED
    BY <1>3, <2>1, Idle DEF CommandInv, Job
<1>4. CASE /\ FetchWorks
           /\ job' = [Prompt EXCEPT !.cmd = "call", !.target = (cpu.pc + 4) % WordSize]
  <2>1. (cpu.pc + 4) % WordSize \in Word
    BY <1>0, NextWord DEF WellFormed, CpuType
  <2>2. MayTranslate(cpu, "fetch")'
    BY <1>4 DEF FetchWorks
  <2> QED
    BY <1>4, <2>1, <2>2, Idle DEF CommandInv, Job
<1>5. CASE /\ job.cmd = "step" /\ job.left # 1
           /\ job' = [job EXCEPT !.left = @ - 1]
  BY <1>0, <1>5, DebuggerAssumption DEF CommandInv, Job
<1>6. CASE job' = [job EXCEPT !.cmd = "next"]
  BY <1>0, <1>6 DEF CommandInv, Job
<1>7. CASE job' = job /\ job.cmd \notin {"step", "call"}
  BY <1>0, <1>7 DEF CommandInv
<1>8. CASE UNCHANGED debuggerVars
  BY <1>0, <1>8 DEF CommandInv, debuggerVars
<1>9. CASE cmd_run \/ RunStop \/ Exit
  BY <1>1, <1>2, <1>9 DEF cmd_run, RunStop, Exit
<1>10. ASSUME NEW n \in 0..MaxStep, cmd_step(n)
       PROVE  job' \in Job /\ CommandInv'
  BY <1>1, <1>3, <1>10 DEF cmd_step
<1>11. CASE RunStep
  BY <1>7, <1>11 DEF RunStep
<1>12. CASE StepStep
  BY <1>1, <1>5, <1>12 DEF StepStep
<1>13. CASE cmd_next
  BY <1>1, <1>4, <1>13 DEF cmd_next
<1>14. CASE NextStep
  BY <1>1, <1>6, <1>14 DEF NextStep
<1>15. CASE AtPrompt
  BY <1>1, <1>15 DEF AtPrompt
<1> QED
  BY <1>8, <1>9, <1>10, <1>11, <1>12, <1>13, <1>14, <1>15
     DEF DebuggerNext, cmd_state, cmd_reset, cmd_load, cmd_break

\* The types of the breakpoint table.
TableType ==
    /\ breakpoint_table \in [0..(MAX_BREAKPOINTS - 1) -> Word]
    /\ breakpoint_count \in 0..(CountSize - 1)
    /\ asked \subseteq Addresses
    /\ overrun \in BOOLEAN

\* add_breakpoint puts the address after the ones that are there, until the
\* table is full; then the overrun is noted.
LEMMA AddBreakpoint ==
    ASSUME TableType, TableInv, NEW addr \in Addresses, add_breakpoint(addr)
    PROVE  TableType' /\ TableInv'
<1> DEFINE n == breakpoint_count
<1>0. /\ MAX_BREAKPOINTS \in Nat /\ CountSize \in Nat /\ n \in 0..(CountSize - 1)
      /\ MAX_BREAKPOINTS < CountSize /\ addr \in Word
      /\ breakpoint_table \in [0..(MAX_BREAKPOINTS - 1) -> Word]
      /\ overrun \in BOOLEAN /\ asked \subseteq Addresses
  BY DebuggerAssumption DEF TableType
<1>1. overrun' = (overrun \/ n >= MAX_BREAKPOINTS) /\ asked' = asked \cup {addr}
  BY DEF add_breakpoint
<1>2. breakpoint_count' \in 0..(CountSize - 1)
  BY <1>0 DEF add_breakpoint
<1>3. CASE n < MAX_BREAKPOINTS
  <2>1. /\ breakpoint_count' = n + 1
        /\ breakpoint_table' = [breakpoint_table EXCEPT ![n] = addr]
    BY <1>0, <1>3 DEF add_breakpoint
  <2>2. TableType'
    BY <1>0, <1>1, <1>2, <1>3, <2>1 DEF TableType
  <2>3. ASSUME ~overrun
        PROVE  asked' = {breakpoint_table'[i] : i \in 0..n}
    <3>1. asked = {breakpoint_table[i] : i \in 0..(n - 1)}
      BY <2>3 DEF TableInv
    <3>2. \A i \in 0..n : breakpoint_table'[i] = IF i = n THEN addr ELSE breakpoint_table[i]
      BY <1>0, <1>3, <2>1
    <3> QED
      BY <1>0, <1>1, <3>1, <3>2
  <2>4. TableInv'
    BY <1>0, <1>1, <1>3, <2>1, <2>3 DEF TableInv
  <2> QED
    BY <2>2, <2>4
<1>4. CASE ~(n < MAX_BREAKPOINTS)
  <2>0. n >= MAX_BREAKPOINTS /\ breakpoint_table' = breakpoint_table
    BY <1>0, <1>4 DEF add_breakpoint
  <2>1. overrun' = TRUE /\ breakpoint_table' = breakpoint_table
    BY <1>1, <2>0
  <2> QED
    BY <1>0, <1>1, <1>2, <2>1 DEF TableType, TableInv
<1> QED
  BY <1>3, <1>4

\* Only break touches the table.
LEMMA TableStep ==
    ASSUME TableType, TableInv, [DebuggerNext]_debuggerVars
    PROVE  TableType' /\ TableInv'
<1>1. CASE UNCHANGED breakpointVars
  BY <1>1 DEF breakpointVars, TableType, TableInv
<1>2. ASSUME NEW addr \in Addresses, cmd_break(addr)
      PROVE  TableType' /\ TableInv'
  BY <1>2, AddBreakpoint DEF cmd_break
<1> QED
  BY <1>1, <1>2 DEF DebuggerNext, debuggerVars, breakpointVars, cmd_run, RunStep, RunStop,
         cmd_step, StepStep, cmd_state, cmd_next, NextStep, cmd_reset, cmd_load, Exit

---------------------------------------------------------------------------
(* The theorems.                                                           *)

\* The debugger starts with an idle prompt and an empty table.
LEMMA DebuggerInitially == DebuggerInit => DebuggerInv
<1> SUFFICES ASSUME DebuggerInit
             PROVE  DebuggerInv
  OBVIOUS
<1>1. WellFormed(cpu) /\ cpu.pc_written = FALSE /\ LinesFrozen
  BY PowerOn, ResetLines DEF DebuggerInit, LinesFrozen, LineBits
<1>2. TableType
  <2>1. 0 \in Word /\ 0 \in 0..(CountSize - 1)
    BY DebuggerAssumption, WordSizeAssumption DEF Word
  <2>2. breakpoint_table \in [0..(MAX_BREAKPOINTS - 1) -> Word]
    BY <2>1 DEF DebuggerInit
  <2> QED
    BY <2>1, <2>2 DEF DebuggerInit, TableType
<1>3. TableInv
  BY DebuggerAssumption DEF DebuggerInit, TableInv
<1>4. job \in Job /\ CommandInv
  BY Idle DEF DebuggerInit, CommandInv
<1> QED
  BY <1>1, <1>2, <1>3, <1>4 DEF DebuggerInv, DebuggerTypeOK, TableType

\* Every command preserves the invariant.
LEMMA DebuggerInvStep ==
    ASSUME DebuggerInv, [DebuggerNext]_debuggerVars
    PROVE  DebuggerInv'
<1>1. WellFormed(cpu') /\ cpu'.pc_written = FALSE /\ LinesFrozen'
  BY CommandsControl, ControlledStep DEF DebuggerInv, DebuggerTypeOK
<1>2. job' \in Job /\ CommandInv'
  BY CommandStep
<1>3. TableType' /\ TableInv'
  BY TableStep DEF DebuggerInv, DebuggerTypeOK, TableType
<1> QED
  BY <1>1, <1>2, <1>3 DEF DebuggerInv, DebuggerTypeOK, TableType

\* The invariant holds in every reachable state.
LEMMA DebuggerInvariant == DebuggerSpec => []DebuggerInv
BY DebuggerInitially, DebuggerInvStep, PTL DEF DebuggerSpec

\* Whatever is typed at the prompt, the hart stays well formed and every index
\* of the table stays inside the array, for every table size below the range
\* of breakpoint_count.
THEOREM DebuggerTypeCorrect == DebuggerSpec => []DebuggerTypeOK
<1>1. DebuggerInv => DebuggerTypeOK
  BY DEF DebuggerInv
<1> QED
  BY <1>1, DebuggerInvariant, PTL

\* The lines of timer and software interrupt never rise under the debugger:
\* no guest it runs can take one of these interrupts.
THEOREM DebuggedLinesAreFrozen == DebuggerSpec => []LinesFrozen
<1>1. DebuggerInv => LinesFrozen
  BY DEF DebuggerInv
<1> QED
  BY <1>1, DebuggerInvariant, PTL

\* Every command steps the hart whole, restarts it in the state of power-on,
\* moves pc between two steps, or leaves it alone.
THEOREM HartIsControlled == DebuggerSpec => ControlledHart
<1>1. DebuggerInv /\ [DebuggerNext]_debuggerVars =>
        [\/ cpu_step
         \/ cpu' = cpu_reset
         \/ \E addr \in Addresses : cpu' = [cpu EXCEPT !.pc = addr]]_cpu
  BY CommandsControl DEF Controlled
<1> QED
  BY <1>1, DebuggerInvariant, PTL DEF DebuggerSpec, ControlledHart

\* What the loop of run does, given the table.
LEMMA RunChecks ==
    ASSUME DebuggerInv, [DebuggerNext]_debuggerVars,
           ~UNCHANGED debuggerVars, job.cmd = "run", ~overrun
    PROVE  IF cpu.pc \in asked THEN UNCHANGED cpu /\ job' = Prompt
           ELSE job' = job
<1>1. RunStep \/ RunStop
  <2>1. job # Prompt
    BY Idle
  <2> QED
    BY <2>1 DEF DebuggerNext, AtPrompt, cmd_run, cmd_step, StepStep, cmd_state, cmd_next,
           NextStep, cmd_reset, cmd_load, cmd_break, Exit
<1> DEFINE hit == \E i \in 0..(MAX_BREAKPOINTS - 1) :
                     i < breakpoint_count /\ breakpoint_table[i] = cpu.pc
<1>2. ~(breakpoint_count > MAX_BREAKPOINTS)
  BY DebuggerAssumption DEF DebuggerInv, TableInv, DebuggerTypeOK
<1>3. hit <=> cpu.pc \in asked
  BY DebuggerAssumption DEF DebuggerInv, TableInv, DebuggerTypeOK
<1>4. is_breakpoint(cpu.pc) = IF hit THEN {TRUE} ELSE {FALSE}
  BY <1>2 DEF is_breakpoint
<1> HIDE DEF hit
<1>5. CASE RunStep
  <2>1. ~hit
    BY <1>4, <1>5 DEF RunStep
  <2> QED
    BY <1>3, <1>5, <2>1 DEF RunStep
<1>6. CASE RunStop
  <2>1. hit
    BY <1>4, <1>6 DEF RunStop
  <2> QED
    BY <1>3, <1>6, <2>1 DEF RunStop
<1> QED
  BY <1>1, <1>5, <1>6

\* Until the table is overrun, run executes nothing at an address given to
\* break and stops nowhere else, for every table size.
THEOREM BreakpointsAreHonoured == DebuggerSpec => BreakpointsHonoured
<1>1. DebuggerInv /\ [DebuggerNext]_debuggerVars =>
        [job.cmd = "run" /\ ~overrun =>
            IF cpu.pc \in asked THEN UNCHANGED cpu /\ job' = Prompt
            ELSE job' = job]_debuggerVars
  BY RunChecks
<1> QED
  BY <1>1, DebuggerInvariant, PTL DEF DebuggerSpec, BreakpointsHonoured
=============================================================================
