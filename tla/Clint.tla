------------------------------- MODULE Clint -------------------------------
(***************************************************************************)
(* The timer device: src/src/devices/timer.c, with the widths the bus      *)
(* passes on to it (bus.c forwards 32- and 64-bit accesses and drops 8-    *)
(* and 16-bit ones).  Register values keep their width: a half is          *)
(* 0..Half-1 and a register 0..Half*Half-1, Half being 2^32 in the code.   *)
(***************************************************************************)
EXTENDS Integers

CONSTANT Half

ASSUME HalfAssumption == Half \in Nat /\ Half >= 2

VARIABLE timer

Full == Half * Half

TimerType == [msip : 0..1, mtime : 0..(Full - 1), mtimecmp : 0..(Full - 1)]

TIMER_MSIP     == 0        \* 0x0000
TIMER_MTIMECMP == 16384    \* 0x4000
TIMER_MTIME    == 49144    \* 0xBFF8

\* The offsets some access decodes, and one (8) that none does.
Offset == {TIMER_MSIP, 8, TIMER_MTIMECMP, TIMER_MTIMECMP + 4,
           TIMER_MTIME, TIMER_MTIME + 4}

---------------------------------------------------------------------------

timer_reset == [msip |-> 0, mtime |-> 0, mtimecmp |-> Full - 1]

timer_tick(t) == [t EXCEPT !.mtime = (@ + 1) % Full]

\* Mutant: the high half of a register reads as its low half.
HighHalfReadsLow(t, offset) ==
    CASE offset = TIMER_MSIP         -> t.msip
      [] offset = TIMER_MTIMECMP     -> t.mtimecmp % Half
      [] offset = TIMER_MTIMECMP + 4 -> t.mtimecmp % Half
      [] offset = TIMER_MTIME        -> t.mtime % Half
      [] offset = TIMER_MTIME + 4    -> t.mtime % Half
      [] OTHER                       -> 0

timer_read32(t, offset) ==
    CASE offset = TIMER_MSIP         -> t.msip
      [] offset = TIMER_MTIMECMP     -> t.mtimecmp % Half
      [] offset = TIMER_MTIMECMP + 4 -> t.mtimecmp \div Half
      [] offset = TIMER_MTIME        -> t.mtime % Half
      [] offset = TIMER_MTIME + 4    -> t.mtime \div Half
      [] OTHER                       -> 0

timer_read64(t, offset) ==
    CASE offset = TIMER_MSIP     -> t.msip
      [] offset = TIMER_MTIMECMP -> t.mtimecmp
      [] offset = TIMER_MTIME    -> t.mtime
      [] OTHER                   -> 0

\* The cases for the halves of mtimecmp and mtime are expression statements:
\* they compute the merged value and store it nowhere.
timer_write32(t, offset, value) ==
    IF offset = TIMER_MSIP THEN [t EXCEPT !.msip = value % 2] ELSE t

\* Mutant: msip takes the whole value.
MsipUnmasked(t, offset, value) ==
    CASE offset = TIMER_MSIP ->
            [t EXCEPT !.msip = value, !.mtimecmp = value]
      [] offset = TIMER_MTIMECMP -> [t EXCEPT !.mtimecmp = value]
      [] offset = TIMER_MTIME    -> [t EXCEPT !.mtime = value]
      [] OTHER                   -> t

\* The MSIP case has no break: it goes on into the MTIMECMP case.
timer_write64(t, offset, value) ==
    CASE offset = TIMER_MSIP ->
            [t EXCEPT !.msip = value % 2, !.mtimecmp = value]
      [] offset = TIMER_MTIMECMP -> [t EXCEPT !.mtimecmp = value]
      [] offset = TIMER_MTIME    -> [t EXCEPT !.mtime = value]
      [] OTHER                   -> t

\* Mutant: the line is up only at the moment of the deadline.
DueOnlyAtDeadline(t) == t.mtime = t.mtimecmp

\* The condition vm_tick puts on the timer line.
Due(t) == t.mtime >= t.mtimecmp

---------------------------------------------------------------------------

Write32(offset, value) == timer' = timer_write32(timer, offset, value)
Write64(offset, value) == timer' = timer_write64(timer, offset, value)

TimerTick == timer' = timer_tick(timer)

ClintInit == timer = timer_reset

ClintNext == \/ TimerTick
             \/ \E offset \in Offset, value \in 0..(Half - 1) : Write32(offset, value)
             \/ \E offset \in Offset, value \in 0..(Full - 1) : Write64(offset, value)

ClintSpec == ClintInit /\ [][ClintNext]_timer

---------------------------------------------------------------------------
(* Properties.                                                             *)

\* The registers keep their widths.
ClintTypeOK == timer \in TimerType

\* A guest that reads a register by halves and one that reads it whole see
\* the same value.
Register == {TIMER_MTIMECMP, TIMER_MTIME}
HalvesAgree ==
    \A r \in Register :
        timer_read32(timer, r) + Half * timer_read32(timer, r + 4)
            = timer_read64(timer, r)

\* A timer line that is up goes down only by software or when mtime wraps.
DueIsStable ==
    [][TimerTick /\ Due(timer) /\ ~Due(timer') => timer'.mtime = 0]_timer

\* What a memory-mapped register is for: a half written with a 32-bit store
\* is what a 32-bit load of it then returns, and a store to the software
\* interrupt register leaves the timer compare register alone.
StoresReachTheirRegister ==
    /\ \A offset \in Offset \ {TIMER_MSIP, 8}, value \in 0..(Half - 1) :
          timer_read32(timer_write32(timer, offset, value), offset) = value
    /\ \A value \in 0..1 :
          timer_write64(timer, TIMER_MSIP, value).mtimecmp = timer.mtimecmp
=============================================================================
