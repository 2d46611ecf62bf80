------------------------------ MODULE Debugger ------------------------------
(***************************************************************************)
(* The debugger front end: tools/debugger/src/cli.c, breakpoint.c and      *)
(* debugger_main.c, driving the hart of module Hart.  A command runs to    *)
(* its end before the next one is read; run, step and next call cpu_step   *)
(* many times and are modelled one cpu_step at a time, with the command in *)
(* progress in the variable job.                                           *)
(*                                                                         *)
(* mem, disassemble, save, write and a command that is not recognised or   *)
(* lacks an argument leave the hart and the breakpoints as they are and    *)
(* have no action; script replays other commands.  The contents of memory  *)
(* are not modelled (see Hart), so load and reload are seen through pc and *)
(* cpu_reset.  No command calls vm_tick.                                   *)
(***************************************************************************)
EXTENDS Hart

CONSTANTS MAX_BREAKPOINTS,   \* 64 in the code
          CountSize,         \* 256: breakpoint_count is a uint8_t
          Addresses,         \* arguments of break and load
          MaxStep            \* largest argument of step

ASSUME DebuggerAssumption ==
    /\ MAX_BREAKPOINTS \in Nat /\ CountSize \in Nat
    /\ 0 < MAX_BREAKPOINTS /\ MAX_BREAKPOINTS < CountSize
    /\ Addresses \subseteq Word
    /\ MaxStep \in Nat

VARIABLES breakpoint_table,   \* the entries inside the array
          breakpoint_count,
          job,                \* the command that is running
          asked,              \* history: arguments of break
          overrun             \* history: an entry was written past the array

debuggerVars == <<cpu, breakpoint_table, breakpoint_count, job, asked, overrun>>

Prompt == [cmd |-> "prompt", left |-> 0, target |-> 0]
Exited == [cmd |-> "exit", left |-> 0, target |-> 0]
Job    == [cmd : {"prompt", "exit", "run", "step", "call", "next"},
           left : 0..MaxStep, target : Word]

---------------------------------------------------------------------------
(* breakpoint.c: no entry is ever removed, and the size is not checked.    *)

\* An entry past the array lands in memory the debugger does not own, and the
\* count wraps.
add_breakpoint(addr) ==
    /\ breakpoint_count' = (breakpoint_count + 1) % CountSize
    /\ breakpoint_table' =
          IF breakpoint_count < MAX_BREAKPOINTS
          THEN [breakpoint_table EXCEPT ![breakpoint_count] = addr]
          ELSE breakpoint_table
    /\ asked' = asked \cup {addr}
    /\ overrun' = (overrun \/ breakpoint_count >= MAX_BREAKPOINTS)

\* What is_breakpoint can return: what lies past the array is anything.
is_breakpoint(pc) ==
    IF \E i \in 0..(MAX_BREAKPOINTS - 1) :
          i < breakpoint_count /\ breakpoint_table[i] = pc
    THEN {TRUE}
    ELSE IF breakpoint_count > MAX_BREAKPOINTS THEN BOOLEAN ELSE {FALSE}

---------------------------------------------------------------------------
(* The commands.                                                           *)

breakpointVars == <<breakpoint_table, breakpoint_count, asked, overrun>>

cpu_step == Step \/ FetchFault

\* A command that is over when it returns to cli_run.
AtPrompt == job = Prompt /\ UNCHANGED job

cmd_run == /\ job = Prompt
           /\ job' = [Prompt EXCEPT !.cmd = "run"]
           /\ UNCHANGED <<cpu, breakpointVars>>

\* Mutant: the breakpoint is looked up after the step.
RunStepThenCheck ==
    /\ job.cmd = "run"
    /\ cpu_step
    /\ job' = IF \E i \in 0..(MAX_BREAKPOINTS - 1) :
                     i < breakpoint_count /\ breakpoint_table[i] = cpu'.pc
              THEN Prompt ELSE job
    /\ UNCHANGED breakpointVars

RunStep == /\ job.cmd = "run"
           /\ FALSE \in is_breakpoint(cpu.pc)
           /\ cpu_step
           /\ UNCHANGED <<job, breakpointVars>>

RunStop == /\ job.cmd = "run"
           /\ TRUE \in is_breakpoint(cpu.pc)
           /\ job' = Prompt
           /\ UNCHANGED <<cpu, breakpointVars>>

\* Mutant: the count is tested after the step.
StepAtLeastOnce(n) == /\ job = Prompt
                      /\ job' = [Prompt EXCEPT !.cmd = "step", !.left = n]
                      /\ UNCHANGED <<cpu, breakpointVars>>

cmd_step(n) == /\ job = Prompt
               /\ job' = IF n = 0 THEN Prompt
                         ELSE [Prompt EXCEPT !.cmd = "step", !.left = n]
               /\ UNCHANGED <<cpu, breakpointVars>>

StepStep == /\ job.cmd = "step"
            /\ cpu_step
            /\ job' = IF job.left = 1 THEN Prompt ELSE [job EXCEPT !.left = @ - 1]
            /\ UNCHANGED breakpointVars

\* cpu_fetch from the command line: a page fault traps the hart.
FetchFaults == MayFault(cpu, "fetch") /\ cpu' = raise_exception(cpu, EXC_INSTR_PAGE_FAULT)
FetchWorks  == MayTranslate(cpu, "fetch") /\ UNCHANGED cpu

cmd_state == AtPrompt /\ (FetchFaults \/ FetchWorks) /\ UNCHANGED breakpointVars

\* next does something only on jal and jalr with a link register; whether
\* the instruction at pc is one is left open.
cmd_next ==
    /\ job = Prompt
    /\ \/ FetchFaults /\ UNCHANGED job
       \/ FetchWorks /\ UNCHANGED job
       \/ FetchWorks /\ job' = [Prompt EXCEPT !.cmd = "call",
                                              !.target = (cpu.pc + 4) % WordSize]
    /\ UNCHANGED breakpointVars

\* The first step of next is the call, the others whatever the callee does.
\* Breakpoints are not looked at.
NextStep ==
    /\ \/ /\ job.cmd = "call"
          /\ \E d \in Jump(Begin(cpu)) : Retire(d)
       \/ job.cmd = "next" /\ cpu_step
    /\ job' = IF cpu'.pc = job.target THEN Prompt ELSE [job EXCEPT !.cmd = "next"]
    /\ UNCHANGED breakpointVars

\* Mutant: the privilege level survives a reset.
ResetKeepsPrivilege(c) == [cpu_reset EXCEPT !.pc_written = c.pc_written, !.priv = c.priv]

\* cpu_reset as it is: pc_written is not among the fields it sets.
Reset(c) == [cpu_reset EXCEPT !.pc_written = c.pc_written]

\* reset, and reload once it has read RAM back.
cmd_reset == AtPrompt /\ cpu' = Reset(cpu) /\ UNCHANGED breakpointVars

\* load with an address sets pc, before the file is even opened.
cmd_load(addr) == AtPrompt /\ cpu' = [cpu EXCEPT !.pc = addr] /\ UNCHANGED breakpointVars

cmd_break(addr) == AtPrompt /\ add_breakpoint(addr) /\ UNCHANGED cpu

Exit == job = Prompt /\ job' = Exited /\ UNCHANGED <<cpu, breakpointVars>>

---------------------------------------------------------------------------

\* main: vm_init resets the hart, which then starts in U-mode.
DebuggerInit ==
    /\ cpu = [cpu_reset EXCEPT !.priv = U_MODE]
    /\ breakpoint_table = [i \in 0..(MAX_BREAKPOINTS - 1) |-> 0]
    /\ breakpoint_count = 0
    /\ job = Prompt
    /\ asked = {}
    /\ overrun = FALSE

DebuggerNext ==
    \/ cmd_run \/ RunStep \/ RunStop
    \/ \E n \in 0..MaxStep : cmd_step(n)
    \/ StepStep
    \/ cmd_state
    \/ cmd_next \/ NextStep
    \/ cmd_reset
    \/ \E addr \in Addresses : cmd_load(addr) \/ cmd_break(addr)
    \/ Exit

DebuggerSpec == DebuggerInit /\ [][DebuggerNext]_debuggerVars

---------------------------------------------------------------------------
(* Properties.                                                             *)

\* The hart stays well formed under every command, and the breakpoints and
\* the running command have their types.
DebuggerTypeOK ==
    /\ WellFormed(cpu)
    /\ breakpoint_table \in [0..(MAX_BREAKPOINTS - 1) -> Word]
    /\ breakpoint_count \in 0..(CountSize - 1)
    /\ job \in Job
    /\ asked \subseteq Addresses
    /\ overrun \in BOOLEAN

\* As long as the table has not been overrun, run stops exactly at the
\* addresses given to break: it executes nothing there, not even when it
\* starts there or a trap leads there, and it stops nowhere else.
BreakpointsHonoured ==
    [][job.cmd = "run" /\ ~overrun =>
          IF cpu.pc \in asked THEN UNCHANGED cpu /\ job' = Prompt
          ELSE job' = job]_debuggerVars

\* All a debugger does to a hart is to step it whole, to restart it in the
\* state of power-on (although cpu_reset does not clear pc_written), or to
\* move pc between two steps: no command leaves an instruction half done or
\* touches the interrupt lines.
ControlledHart ==
    [][\/ cpu_step
       \/ cpu' = cpu_reset
       \/ \E addr \in Addresses : cpu' = [cpu EXCEPT !.pc = addr]]_cpu

\* Nothing but ticks moves the lines, and the debugger never ticks: a guest it
\* runs sees neither the timer nor a software interrupt, whatever it enables.
LinesFrozen == cpu.bits[CSR_MIP] \cap {IRQ_SOFTWARE, IRQ_TIMER} = {}
=============================================================================
