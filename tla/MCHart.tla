------------------------------- MODULE MCHart -------------------------------
(* Guest programs for module Hart: which CSR instructions may come next.   *)
EXTENDS Hart

Rw(csr, value) == [op |-> "csrrw", csr |-> csr, rd0 |-> TRUE, rs0 |-> FALSE,
                   operand |-> value]
Rs(csr, value) == [op |-> "csrrs", csr |-> csr, rd0 |-> FALSE, rs0 |-> FALSE,
                   operand |-> value]
Rc(csr, value) == [op |-> "csrrc", csr |-> csr, rd0 |-> FALSE, rs0 |-> FALSE,
                   operand |-> value]
Rd(csr, value) == [op |-> "csrrs", csr |-> csr, rd0 |-> FALSE, rs0 |-> TRUE,
                   operand |-> value]

MCJumpTargets == {0}

\* Delegation, both returns, every value of MPP and the window on mstatus.
MCTrapInstrs ==
    {Rw(CSR_MEDELEG, {2, 8}), Rs(CSR_SSTATUS, {MPP0, SPP}), Rc(CSR_SSTATUS, {SPP, MPIE}),
     Rw(CSR_MSTATUS, {MPP0}), Rc(CSR_MSTATUS, {MPP0}), Rw(CSR_MTVEC, 2),
     Rw(CSR_SATP, 8), Rd(CSR_CYCLE, 0)}
=============================================================================
