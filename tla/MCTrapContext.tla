--------------------------- MODULE MCTrapContext ---------------------------
(* Guest programs for module TrapContext.                                  *)
EXTENDS TrapContext

Rw(csr, value) == [op |-> "csrrw", csr |-> csr, rd0 |-> TRUE, rs0 |-> FALSE,
                   operand |-> value]
Rs(csr, value) == [op |-> "csrrs", csr |-> csr, rd0 |-> FALSE, rs0 |-> FALSE,
                   operand |-> value]

MCJumpTargets == {}

\* Both trap levels, exceptions and interrupts, nested.
MCNestedInstrs ==
    {Rw(CSR_MEDELEG, {8, 12}), Rw(CSR_MIDELEG, {3}), Rs(CSR_MIE, {3, 7}),
     Rs(CSR_SSTATUS, {SIE, MIE, MPIE}), Rw(CSR_SATP, 9)}
=============================================================================
