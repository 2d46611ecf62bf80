----------------------------- MODULE MCMachine -----------------------------
(* Guest programs for module Machine.                                      *)
EXTENDS Machine

Rw(csr, value) == [op |-> "csrrw", csr |-> csr, rd0 |-> TRUE, rs0 |-> FALSE,
                   operand |-> value]
Rs(csr, value) == [op |-> "csrrs", csr |-> csr, rd0 |-> FALSE, rs0 |-> FALSE,
                   operand |-> value]

MCNone == {}

\* A guest that tries to reach the lines through mip and sip.
MCLineInstrs ==
    {Rw(CSR_MIDELEG, {5, 7}), Rs(CSR_MIE, {3, 7}), Rw(CSR_SIP, {3, 5, 7}),
     Rw(CSR_MIP, {7}), Rs(CSR_MSTATUS, {MIE, SIE})}
MCLineStores32 == {<<TIMER_MSIP, 1>>, <<TIMER_MTIMECMP, 0>>, <<TIMER_MTIME + 4, 1>>}
MCLineStores64 == {<<TIMER_MTIMECMP, 1>>, <<TIMER_MSIP, 2>>, <<TIMER_MTIME, 3>>}

\* A supervisor whose fetches may fault, the fault delegated to itself.
MCPagingInstrs ==
    {Rw(CSR_MSTATUS, {MPP0}), Rw(CSR_MEDELEG, {12}), Rw(CSR_SATP, 8), Rw(CSR_MIE, {7})}
MCPagingStores64 == {<<TIMER_MTIMECMP, 0>>}
=============================================================================
