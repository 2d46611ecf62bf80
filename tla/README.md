# TLA+ verification of the RISC-V virtual machine

The program is a single-hart RV64IMA emulator in C: a CPU with machine,
supervisor and user mode, a CLINT-style timer, a 16550-style UART, RAM behind a
bus, Sv39 translation, and a debugger. One host thread runs everything, so no C
function is ever preempted; what makes the program hard is that three parties
share the state of the hart (the guest program, which may execute any
instruction in any mode, the devices, which move between any two instructions,
and the host, which types when it likes) and that traps may arise inside traps.

Run a model with `tlc -config <cfg> <module>` and check the proofs of a module
with `tlapm <module>.tla`. `PROJECT.json` lists every run, the source lines
behind every definition, the hazards, the findings and the theorems.

## 1. Inventory

| Component | Source | State | Operations |
|---|---|---|---|
| CSR file | `src/src/cpu/csrs/`, `include/cpu/csrs/` | `cpu->csrs[4096]`, descriptor table | `csr_read`, `csr_write`, `csr_can_read`, `csr_can_write`, per-CSR callbacks, reset values |
| Traps | `src/src/cpu/trap.c`, `.../dispatchers/system.c` | mstatus, mepc/sepc, causes, privilege, `trap_taken` | `raise_exception`, `raise_interrupt`, `enter_m_trap`, `enter_s_trap`, ecall, ebreak, sret, mret, sfence.vma, wfi |
| Hart step | `src/src/cpu/cpu.c` | pc, privilege, `trap_taken`, `pc_written` | `cpu_reset`, `cpu_step`, `cpu_fetch`, `cpu_check_interrupts`, `cpu_set_interrupt_pending`, `increment_pc` |
| LR/SC and AMO | `.../dispatchers/a_extension.c`, `cpu_invalidate_reservation`, `cpu_store*` | `cpu->reservation` | lr, sc, amo*, every store |
| Translation | `src/src/cpu/paging.c` | page tables in RAM | `translate_address`, `sv39` |
| Timer (CLINT) | `src/src/devices/timer.c` | msip, mtime, mtimecmp | `timer_tick`, 32- and 64-bit reads and writes |
| UART | `src/src/devices/uart.c` | receive ring, THRE latch, ier, lcr, ... | `uart_handle_host_input`, `uart_read8`, `uart_write8` |
| Bus and RAM | `src/src/memory/` | RAM bytes | 8/16/32/64-bit reads and writes, routing |
| VM loop | `src/src/vm/vm.c`, `apps/vm_main.c` | - | `vm_init`, `vm_load_*`, `vm_tick`, the polling loop |
| Integer, multiply, load/store, branch | `.../dispatchers/*.c` | `cpu->regs` | one handler per opcode |
| Decoder | `.../instructions/decoding.c` | - | field extraction, sign extension |
| Debugger | `tools/debugger/` | breakpoint table and count | run, step, next, state, break, load, reset, reload, save, mem, write, disassemble, script |

**Interaction.** `vm_main` alternates `cpu_step` and `vm_tick`; `vm_tick`
advances the timer and copies two device conditions (msip, mtime >= mtimecmp)
into `mip`. The guest reaches the timer and the UART by stores and loads that
the bus routes by address. Every 1000 steps the loop polls the host for one
input byte. A trap is raised by a plain function call anywhere below
`cpu_step`; it sets `trap_taken`, which suppresses the advance of pc.
`cpu_step` finishes with the interrupt check, so that one step can trap twice:
once in the instruction and once more for an interrupt.

**Hard behaviours.** Traps nested in traps across two modes that share one
status register; supervisor windows (sstatus, sie, sip) on machine registers;
the two flags that carry control information from a handler back to the step;
an early return in the step that skips the interrupt check; interrupt lines
that are stale between a store to the timer and the next `vm_tick`; a
reservation that any store of any width must drop; a ring buffer that fills;
a one-shot interrupt latch; registers whose two halves are accessed separately;
page tables that the walk itself and the guest's stores change; accesses over
the end of a page, of RAM and of the address space; a debugger that drives the
hart without its devices.
The full list, at its source lines, is under `hazards` in `PROJECT.json`.

**What makes each part correct.**

- CSRs and traps: a lower mode never changes what a higher mode owns; privilege
  rises only by a trap to the installed vector; mret and sret resume exactly
  what was interrupted, whatever nests in between.
- Step: execution is sequential except for jumps, returns and traps; no
  enabled interrupt is passed over.
- LR/SC: sc succeeds only if nothing it relies on was overwritten since the lr.
- Timer: both halves of a register agree with the whole; a due timer stays due;
  the lines show the device; an enabled interrupt is eventually taken.
- UART: typed bytes arrive once and in order; none is lost; THRE is reported.
- Translation: an access reaches the address the architecture defines or faults;
  a fault leaves memory alone; a page is marked before it is written.
- Bus and RAM: little-endian bytes, nothing beyond the end of RAM, one target.
- Decoder and arithmetic: every immediate and every result is the one the
  instruction set defines; only rd changes.
- Debugger: run stops where it was told to, and no command leaves the hart in a
  state that no guest could bring it into.

## 2. Modules

| Module | Models | EXTENDS |
|---|---|---|
| `Csr` | CSR addresses, masks, access checks, reads and writes | |
| `Trap` | trap entry, delegation, interrupt choice, system instructions | `Csr` |
| `Hart` | the hart as a state machine: `Init`, `Step` with one operator per kind of instruction, `FetchFault`, `Tick` | `Trap` |
| `TrapContext` | the hart with a history of what each trap interrupted | `Hart` |
| `Clint` | the timer device, register by register | |
| `Machine` | hart and timer under the main loop | `Hart`, `Clint` |
| `SerialLine` | abstract specification: what the UART promises of host input | |
| `Uart` | the UART, refining `SerialLine` | |
| `Reservation` | lr, sc, amo and stores, as far as the reservation goes | |
| `Paging` | Sv39 and every access through it, over a RAM of page-table entries | `Reservation` (and an instance of `Hart`) |
| `Debugger` | the debugger's commands over the hart | `Hart` |
| `Decoder` | fields and immediates of 32-bit instruction words | |
| `Datapath` | what one instruction does to registers, pc, RAM and devices | `Decoder` |
| `HartProofs` | one lemma per C function, the hart's invariant and types, its action properties, and what a step does to the interrupt lines | `Hart` |
| `IsolationProofs` | isolation of the modes; the trap contexts | `HartProofs`, `TrapContext` |
| `MachineProofs` | theorems about `Machine` and `Clint` | `Machine`, `HartProofs` |
| `DebuggerProofs` | theorems about `Debugger` | `Debugger`, `HartProofs` |
| `UartProofs` | theorems about `Uart`, the refinement of `SerialLine` | `Uart` |
| `PagingProofs` | theorems about `Reservation` and `Paging`, the refinement of the one by the other | `Paging` |
| `ArithmeticProofs` | sums, powers of two, digits and signed numbers; the immediates; the value of every arithmetic instruction | `Datapath` |
| `DatapathProofs` | theorems about `Datapath` | `ArithmeticProofs` |
| `MCHart`, `MCTrapContext`, `MCMachine`, `MCPaging`, `MCDebugger`, `MCDatapath` | guest programs for TLC | |

### How state and actions correspond to the code

*Hart.* The variable `cpu` is a record with the fields of `cpu_t` that decide
control: `pc`, `priv` (`priviledge` in the code), `trap_taken`, `pc_written`
and the CSRs. A CSR that the code handles bit by bit is the set of its
one-bits, so that `value & mask` is an intersection and `value & ~mask` a
difference; a CSR that holds an instruction address is a number below
`WordSize`; mcause and scause are records of the interrupt bit and the code;
satp keeps its mode nibble. The operators of `Csr` and `Trap` carry the names
of the C functions and map the hart before the call to the hart after it.
`cpu_step` is `Begin` (the reset of `trap_taken`), the instruction, then
`Finish` (`increment_pc`, `cpu_check_interrupts`, the reset of `pc_written`).
An instruction is the set of harts its handler can leave, given the hart at its
start; `dispatch_instruction` is their union, which `Step` and the step of
`TrapContext` share. `FetchFault` is the early return: no interrupt check, and
`pc_written` is not reset.
Reads and writes that fail raise the illegal-instruction exception in the order
of the code (the read first), and an instruction that does not read does not
check for read access. MPP is two bits and mret does not refuse the value 2, so
`Privilege` is `0..3`.

*TrapContext.* `mctx` and `sctx` record pc, mode, interrupt enable and cause at
the moment a trap is raised. They are computed from the hart before the trap and
never from the CSRs the trap code writes, and go dead when software entitled to
the context changes it.

*Machine.* `phase` says which call of the loop body comes next. A guest store
to the timer is an instruction whose effect on the hart is that of any store
and whose effect on the device is `timer_write32` or `timer_write64`.

*Clint.* `Half` stands for 2^32; values wrap and halves are extracted by
division and remainder. The 32-bit cases for mtimecmp and mtime compute a value
and drop it, and the 64-bit MSIP case falls through into MTIMECMP; the model
does the same.

*Uart.* The receive ring has its head, tail, count and array; `gone` is the
history of bytes taken out of it, `stdin` the bytes still on the host.
`RefinesSerialLine` maps the ring to a queue. A write of LCR decides only DLAB.

*Reservation.* Addresses are physical and wrap as in the code. `linked` and
`broken` are histories: an lr is unpaired, and a byte it read was overwritten.
TLC checks it as a part of `Paging`, whose every memory action is one of `Store`,
`Amo`, `Lr` and `Sc` at a translated address, or leaves its variables alone.

*Paging.* RAM is a function from the addresses of its 64-bit words to page-table
entries (reserved bits, PPN, flags), so data and tables are one memory: a store
may rewrite the table it was translated by. A table has `Entries` entries and
fills a page. `cpu` is a hart record of module `Hart`, reduced by `Context` to
what translation reads, and `root` the PPN of satp. `walk` is the loop of `sv39`,
a recursive function on the level; `sv39` adds the checks in the order of the
code and the one write of A and D. `SwitchContext` stands for everything else
the hart does. `Reset` is `cpu_reset`, which keeps RAM and the reservation. The
reference (`Path`, `Rights`, `Reach`) states which entries lead to an address
and what their flags grant, without a loop. `seen` (the word lr read) and
`crossed` (the access ran over a page end) are histories.

*Debugger.* A command that calls `cpu_step` repeatedly (run, step, next) is one
action per step, with the command in `job`; the others are one action. An entry
written past `breakpoint_table` is recorded in `overrun`, and from then on what
`is_breakpoint` finds past the array is open. The hart starts in U-mode, as
`main` has it, and is in M-mode after the first `reset`.

*Decoder, Datapath.* An instruction is the set of its one-bits, so real 32-bit
words need no 32-bit integers. A byte has `ByteBits` bits and everything else
follows: a register has 8 bytes, a W operand 4. The dispatchers are operators
from operand values to a result, or to `NoWrite` (the handler returns without
writing) or `Illegal`. Bus, RAM and register file are the operators of the same
names, and `device` the requests the bus passed on. The second half of the
module is the reference: results by their bits (shifts, logic), by congruence
(sums, products) or by what characterises them (quotients, high halves).

## 3. Runs

| Run | What it shows |
|---|---|
| `hart_traps` | types and vector alignment; privilege rises only by a trap to the installed vector; no step below M-mode touches machine state, under delegation, both returns, every value of MPP and the sstatus window; no leftover flag freezes pc |
| `trap_context` | mepc/mcause/MPP/MPIE and sepc/scause/SPP/SPIE hold what the last trap of each level interrupted, with both kinds of traps nested and translation on; no takeable interrupt is left when a step ends, except one for M-mode behind a delegated one that entered S-mode |
| `machine` | the timer's widths, halves against whole, stability of a due timer; the lines in mip follow the device and no instruction moves them; no spurious timer interrupt; the composed machine is a refinement of the hart alone |
| `machine_timer_live` | an M-mode timer interrupt is taken as long as instructions are fetched |
| `machine_timer_starved` | without that assumption it may never be taken (finding) |
| `clint_stores` | the two timer findings below |
| `uart` | ring discipline, refinement of `SerialLine`, THRE never lost; input moves as long as the ring has room again and again |
| `paging` | translation is the architecture's, on tables changed by marks and stores; an access that traps leaves memory alone; stores inside a page stay in mapped pages; a page is dirty before it is written; sc succeeds only on the word lr read, walks and resets in between included; soundness of the reservation, atomicity of sc, no spurious loss |
| `paging_straddle` | a store over a page end writes to a page it has no translation for (finding) |
| `debugger` | run stops exactly at breakpoints until the table overflows; all commands do to a hart is to step it, restart it or move pc; the interrupt lines stay down |
| `datapath` | every immediate; every integer, multiply, divide, load, store, branch, jump and atomic instruction against the reference; nothing but rd changes, and a trap changes nothing |
| `datapath_sraw` | sraw drops the top bit of its shift amount (finding) |

### Bounds, and why they are enough

- `WordSize` 8 (4 in `Machine`): two instruction slots and a wrap; every
  decision on an address in these modules depends on its two low bits and on
  equality. `RAM_BASE` 4 makes the reset vector differ from address 0, the
  reset value of stvec, so the two vectors can be told apart.
- `CsrInstrs` is a small program alphabet per run, chosen so that every access
  check passes in one mode and fails in another, and so that both legal and
  refused bits are presented (`sstatus` is offered MPP, `sip` is offered the
  timer line, `mtvec` an unaligned address). The guest may execute any of them
  in any order in any mode. What a run leaves out of its alphabet to stay small
  another one has: `hart_traps` delegates exceptions, `trap_context` a fetch
  fault and an interrupt, `machine` the timer line itself. The theorems hold for
  every alphabet.
- `Half` 2 in `machine` and 4 in `clint_stores`: the full counter has 4 or 16
  values, so it wraps and passes any deadline from both sides.
- `UART_FIFO_SIZE` 3 against 16, with `MaxTyped` larger than
  it: the ring fills, wraps and overflows the host side.
- `Entries` 2 in `paging`: pages of 16 bytes, three levels with one bit each and
  two bits above them, so that canonical and non-canonical addresses exist in
  both halves and a superpage has an aligned and a misaligned base at each
  level. 64 bytes of RAM hold three tables and a data page. Twelve guests read
  through one table each with one entry varied (reserved bits, missing rights,
  superpages, a pointer at the last level) in six contexts (M, MPRV, S, S with
  SUM and MXR, U, an unknown mode); one guest stores and uses atomics on the
  data page and on the tables themselves; one has no translation and stores
  around the ends of RAM and of the address space. A store writes one of two
  words: one that unmaps and one that maps.
- `MAX_BREAKPOINTS` 2 and `CountSize` 4 against 64 and 256: the table fills, is
  overrun and the count wraps, all in one behaviour.
- `ByteBits` 1 in `datapath`: registers of 8 bits, W operands of 4, shift amounts
  below 8 and 4. rs1 takes all 256 values against 16 corner values of rs2, or all
  256 against every kind of immediate; addresses lie around every edge of RAM and
  of both devices. Immediates of U format are multiples of 4096 and vanish in
  registers this small: lui and auipc are checked through `ImmediatesExact` only.
  That one sees all words with at most two bits set or at most two clear. A
  behaviour executes one instruction and stops, hence no deadlock check there;
  nor in `debugger`, which ends with `exit`.

`hart_traps` and the others do not limit the length of a behaviour: all state
spaces but the UART's (`MaxTyped`) and the datapath's are finite as they are.

### Fairness

`FairMachineSpec` has weak fairness of the whole loop: `while (1)` has no exit,
and each iteration performs `cpu_step` and `vm_tick`, which always return.
Which instruction comes next is the guest's choice and gets no fairness.
`FairUartSpec` has weak fairness of `uart_handle_host_input` alone: the loop
polls it every 1000 steps. The guest promises nothing.

### Findings

1. `clint_stores`: 32-bit stores to mtimecmp and mtime have no effect.
2. `clint_stores`: a 64-bit store to MSIP also overwrites mtimecmp.
3. `machine_timer_starved`: a fetch fault returns from `cpu_step` before the
   interrupt check. A supervisor whose own delegated page-fault handler faults
   on fetch keeps M-mode's timer interrupt from ever being taken.
4. `paging_straddle`: stores (and loads and fetches likewise) translate their
   first byte only; the tail of one that crosses a page goes to the physically
   next page. `StoresStayMapped` shows that this is the only such store.
5. `datapath_sraw`: sraw masks its shift amount with 0xF instead of 0x1F.

Observations without a run of their own:

- mstatus accepts MPP = 2 and mret then enters mode 2, which is none of M, S and
  U. `hart_traps` reaches it, and the privilege properties hold of it too.
- sret jumps to the stored sepc, whose low bits software can set, while reads of
  sepc mask them (`scsr.c:45`).
- A walk that marks a reserved page-table entry keeps the reservation, so an
  sc.d that follows writes back an entry without the mark. `ScSeesReservedWord`
  says that the marks are all it can miss.
- Reserved values of funct7 with add, sub, srl, sra and their W forms are
  executed as no-ops: the `raise_exception` at the end of `dispatch_op` and
  `dispatch_op_32` cannot be reached. `slli`, `slliw` and the other operations
  ignore the reserved bits.
- `load <file> <address>` moves pc even if the file cannot be opened; `next`
  looks at no breakpoint; the debugger's hart starts in U-mode, but `reset` puts
  it into M-mode.
- The disassembler (not modelled) takes every funct7 other than 0 for the
  alternate table, so mul is listed as sub and the other M instructions have no
  name; it compares funct7 with 0x10 where sraiw has 0x20; it shows CSR numbers
  from 0x800 with sign bits; and it reads pc as a physical address.

## 4. Proofs

All theorems are about every value of the constants that satisfies the named
assumptions:

- `WordSizeAssumption` (a positive multiple of 4), `RamBaseAssumption` (an
  aligned address), `GuestAssumption` (jump targets are addresses and the
  alphabet consists of CSR instructions), for the hart and all around it;
- `HalfAssumption` (half a timer register has at least one bit) and
  `StoresAssumption` (the guest's stores to the timer have their type);
- `UartAssumption` (a FIFO of at least one byte, any number of bytes typed);
- `DebuggerAssumption` (a table of at least one entry, and a count that can
  reach past it, as 64 and 256 do in the code);
- `AddressAssumption` (RAM lies below the wrap with room for one access);
- `PagingAssumption` (tables of an even number of entries that fill a page, an
  address space that is the VPNs and something above them, RAM made of whole
  pages, programs that are of `GuestType`). 512 entries, 2^25 values above the
  VPNs and 2^26 values of PPN[2] satisfy it;
- `DatapathAssumption` (the windows of the memory map and their ends are numbers of
  a register, RAM holds at least one access, and the number of bits of a byte is a
  power of two, as 8 is: the code masks a shift amount with the width less one, which
  is the remainder by the width only then). The windows may overlap.

### The hart

`HartInvariant`: the inductive invariant is `TypeOK` together with
`pc_written = FALSE` between two steps. The second part is needed for
`SequentialPc`, because a leftover flag would stop pc in the next step; it is
inductive although `FetchFault` does not reset the flag, since the flag is only
set later in a step that ends in `Finish`. Vector alignment belongs to `TypeOK`
because trap entry masks the vector, and only for an aligned vector is the
target the vector itself. From the invariant:

- `TypeCorrect`: types and vector alignment;
- `InterruptsAreTaken` (`NoInterruptLeftBehind`): if the check found an
  interrupt, the trap it enters masks the rest (MIE or SIE is cleared); the
  exception in the property is exactly the case the masking does not reach;
- `ExecutionIsSequential` (`SequentialPc`);
- `PrivilegeIsGainedByTrap` (`PrivilegeRisesOnlyByTrap`): neither return raises
  the privilege (sret gives at most S-mode and needs S-mode, mret needs M-mode),
  so a rise comes from a trap, and the vector it uses was not written in the
  same step.

`LowerModesAreIsolated` (`PrivilegeIsolation`, module `IsolationProofs`) needs the
same invariant. Its argument has three parts: the address of a CSR decides who may
write it, so below M-mode only supervisor CSRs are written and in U-mode none
(`LowWritable`); the write masks of the windows sstatus, sie and sip leave every
machine field alone (`LowCsrKeeps`); and a trap into S-mode saves only supervisor
fields while no trap changes the configuration (`STrapKeeps`, `MTrapKeeps`).

`MachineContextIsIntact` (`MContextIntact`) and `SupervisorContextIsIntact`
(`SContextIntact`), on the same lemmas: the invariant `CtxInv` says that the CSRs of
the hart hold the two contexts while they live. The hard cases are the steps in
which two things happen: an instruction writes a context CSR and an interrupt
follows, or an exception traps into S-mode and an interrupt then into M-mode. Each
is split at the hart between the instruction and `Finish`, where `CtxInv` holds of
the intermediate contexts. `ContextImplementsHart` says that the histories only
watch, so that the hart's theorems hold of `CtxSpec` as well.

The proofs rest on one lemma per C function (`EnterM`, `EnterS`, `Raise`,
`CheckInterrupts`, `IncrementPc`, `CsrWrite`, `MretStep`, ...), each of which
says what the function changes and what it leaves alone.

### Machine and timer

`MachineImplementsHart` (`HartSpec`): every iteration of the loop is a step of the
hart, a store to the timer being a plain instruction and `vm_tick` a `Tick`; the
hart's invariant and theorems therefore hold of the machine. `LinesAreTheDevice`
(`LinesFollowDevice`): traps and returns change only mstatus, and the write masks
of mip and of its window sip exclude both lines whatever is delegated.

`TimerInterruptIsJustified` needs more: the invariant `LinesInv` (before a step of
the hart the lines show the timer, since `vm_tick` ran last) and lemma
`TimerTrapLine` (a step that ends in a timer interrupt began with the line up: the
last trap of the step left its cause behind, an exception leaves another one, and no
instruction raises the line).

`MachineImplementsClint`: the timer makes only its own steps under the loop, so
what is proved of the device alone holds of the machine: `ClintTypeCorrect`,
`HalvesAlwaysAgree` (a register is its high half times `Half` plus its low half, for
every width) and `DueStaysDue`.

### UART

`UartImplementsSerialLine` (`RefinesSerialLine`) maps the ring to the sequence
`Contents(uart)`. The invariant is `UartTypeOK`, which ties head, tail and count to
each other; with it `rx_head = (rx_tail + rx_count) % UART_FIFO_SIZE`, so a push
appends to the sequence (`Append`), a pop takes its head (`Tail`) and every other
access leaves it alone, wrapped or not. `ThreIsNotLost` goes through the accesses
one by one.

### Debugger

The invariant `DebuggerInv` is the type invariant, `pc_written = FALSE`,
`LinesFrozen`, `TableInv` (until the overrun, the count is at most the size of the
table and its first entries are the addresses asked for) and `CommandInv` (step has
steps left; next is about to execute a call it could fetch). It gives
`DebuggerTypeCorrect`, `DebuggedLinesAreFrozen`, `BreakpointsAreHonoured` and
`HartIsControlled`. The last one needs `ResetIsComplete`: although `cpu_reset` does
not clear `pc_written`, the hart after it is the one of power-on, because no command
finds the flag set.

### Reservation

`ReservationIsSound` and `ScIsAtomic`: the invariant is `ResTypeOK` together with
`ReservationSound`. The argument is lemma `OverlapFound`: if a store changes a
byte of RAM that the reservation covers, neither the end of the store nor the
end of the reservation wraps, so the comparison of ends in
`cpu_invalidate_reservation` is a true overlap test and drops the reservation.
`ReservationTypeCorrect` is the type part. Conversely
`UnrelatedStoresKeepReservation` (`NoSpuriousLoss`): a wrapped end is smaller than
the true one, so the test never drops a reservation no byte of which is touched.

### Translation

`TranslationIsCorrect` (`TranslationCorrect`) says of `translate_address` that it is
the function the architecture defines, on any tables whatsoever: types are all that
is needed of the state (`PagingInv`). The argument has four parts:

1. `PpnParts`, `AddressParts`, `DivDiv`: a PPN and an address are their digits, so
   that replacing the low digits of the PPN by those of the address
   (`get_physical_address`) is the sum the reference states, whenever the superpage is
   aligned (`PhysicalAddress`).
2. `CanonicalAddress`: comparing the upper bits with the top bit of VPN[2] accepts
   the lowest and the highest half of the address range and nothing else.
3. `WalkRounds`, `WalkEnds`: the recursive function of `walk` is the only solution
   of its equation, three rounds; it ends at the leaf at which the path of the
   reference ends.
4. `RightsGranted`: the checks in the order of the code grant what `Rights` grants.

`FaultsLeaveMemory` and `PagingTypeCorrect` follow from what a translation leaves in
RAM (`TranslationType`). `PagingImplementsReservation`: behind translation every
access is a store, lr or sc at a physical address of the guest, so the four theorems
about `Reservation` hold of `PagingSpec`, whose runs check the same properties.

`ScSeesTheReservedWord` (`ScSeesReservedWord`): the invariant `SeenInv` says that a
reserved doubleword is the one lr.d read up to the marks. Walks change marks only
(`MarksOnly`), and a store that changes a byte of the word drops the reservation
(`OverlapFound`).

`StoresStayInMappedPages` and `WrittenPagesAreDirty` (`StoresStayMapped`,
`WrittenPagesDirty`): a store that does not run over the end of its page touches
words of one frame (`TouchedInPage`); every address of a page takes the same walk to
the same frame (`SamePage`), so the touched word has a window of its own, through the
leaf the walk has just marked. The proof showed that the second property had been too
strong: a misaligned store over two words can put the old, unmarked value back
into its own leaf while it changes the neighbour, which the two words TLC stores
never do. The property now excepts the leaf beside the changed word.

### Instructions

`TypeInvariant`: the inductive invariant `TypeInv` is the widths of registers, pc and
bytes, the shape of every request in `device`, that the case that runs is one of the
cases, and that `raw` is an instruction word (the empty one at first); `DatapathTypes`
(`DatapathTypeOK`) and `ImmediatesAsDefined` (`ImmediatesExact`) follow from it. The
other theorems are about one step from a state that satisfies it, for every
instruction word, all operands, every memory map and every number of bits in a byte:

- `IntegersCorrect` (`IntegerOpsCorrect`), `ProductsAndQuotientsCorrect`
  (`MulDivCorrect`): `IntegerValue` and `MulDivValue` say that the dispatcher computes
  a value that is right (`IntOK`, `MulOK`), `ComputeCases` that this value is what rd
  gets;
- `LoadsAndStoresCorrect` (`LoadsStoresCorrect`), `AmosCorrect` (`AmoCorrect`):
  `ReadFacts` and `WriteFacts` relate the bits of a register to those of the bytes in
  RAM, `ValidAccess` is the bounds check at the last place an access fits in, and
  `DeviceGrows` that RAM and the devices never both answer;
- `ControlFlowCorrect` (`ControlFlow`), `OnlyRdIsWritten` (`OnlyRd`): opcode by opcode
  (`ByOpcode`).

`Datapath` states logic operations, fields and memory by sums of powers of two, so the
numbers come first (`ArithmeticProofs`):

1. `SetInduction`: induction for a property that is given as a set, from its least
   counterexample. The library's induction theorems take an operator and cannot be
   instantiated; a set is enough here.
2. `SumExists`, `SumUnique`, `SumSplit`: the recursive function behind
   `SumFunctionOnSet` has one solution, and any element can be taken off a sum.
3. `PowStep`: 2^(n+1) = 2 * 2^n, which no prover knows of a variable n; 2^n is the
   number of subsets of 1..n (`FS_SUBSET` of the library), and those of 1..(n+1)
   are twice as many.
4. `NumberOf`, `NumberBits`: a set of places below n and the number below 2^n whose
   digits they are determine each other; `DigitShl`, `DigitShr`, `DigitTrunc`,
   `DigitSigned` say what shifts, casts and sign extension do to digits.
5. `SignedType`, `SignedUnique`, `ValueSigned`: `sign_extend` gives the one number of
   the signed range that is congruent to its argument, which the reference states by
   its bits. With it a result is right as soon as it is congruent and in range:
   `HighHalves` and `DivRange` are the ranges of the upper halves and of every
   quotient but the one that overflows.

sraw is excepted, as in the run: `datapath_sraw` shows that it is wrong.

### Only model-checked

Liveness (`TimerTakenIfFetching`, `InputMoves`) is outside the prover's reach. The four
runs that expect a violation show a behaviour; there is nothing to prove. Every other
property of the runs is a theorem.

## 5. Abstractions, and what is not modelled

- In `Hart` an instruction is what it does to control: a load, store or atomic
  may fault exactly when `translate_address` may (`MayFault`), and an untaken
  branch is a plain step. Values are in `Datapath`, addresses in `Paging`; no
  module runs a program with all of them at once.
- The values loads read are left out of `Paging`, and a store leaves one of a
  few words behind, whatever its width.
- Values of CSRs no modelled decision reads (mscratch, mtval, stval, ids,
  counters): their access checks are kept. csrrs and csrrc on an address CSR
  take the result as operand, which allows more values than the code.
- Page tables lie in RAM, not in device space.
- UART registers that only hold a written byte, and the transmit ring, which
  nothing fills.
- Debugger commands that leave hart and breakpoints alone (mem, disassemble,
  save), the contents of the files and of the memory that load, reload and write
  move, the splitting of a command line, and script, which only replays others.
- The disassembler with its tables, logging and the device tree have no state of
  their own: text from a word, or text alone. The device tree is used as
  documentation.
- `vm_load_*`, mmap and the terminal settings of `vm_main`: calls to the host.

## 6. Plan

All components with state are modelled, and every safety property of the passing runs
is a theorem. What is left is breadth: a composition in which `Datapath` runs under
`Hart` and `Paging`, so that a program with values, translation and traps is one
specification, and the command parser of the debugger.
