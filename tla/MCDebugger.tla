----------------------------- MODULE MCDebugger -----------------------------
(* A guest for module Debugger that can turn translation on and leave      *)
(* M-mode, so that a fetch may fault under any command.                    *)
EXTENDS Debugger

Rw(csr, value) == [op |-> "csrrw", csr |-> csr, rd0 |-> TRUE, rs0 |-> FALSE,
                   operand |-> value]

MCJumpTargets == {4}
MCInstrs == {Rw(CSR_SATP, 8), Rw(CSR_MIP, {3, 7})}
MCAddresses == {0, 4}
=============================================================================
