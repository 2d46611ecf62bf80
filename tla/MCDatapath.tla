----------------------------- MODULE MCDatapath -----------------------------
(* Datapath with bytes of one bit: registers of 8 bits, words of 4, shift   *)
(* amounts below 8 and 4, over encoded instructions and corner operands.    *)
EXTENDS Datapath

\* The bits of the number v at position low.
At(v, low) == {k + low : k \in {k \in 0..11 : (v \div 2 ^ k) % 2 = 1}}

R(op, f3, f7, d, s, t) ==
    At(op, 0) \cup At(d, 7) \cup At(f3, 12) \cup At(s, 15) \cup At(t, 20) \cup At(f7, 25)
I(op, f3, imm, d, s) == At(op, 0) \cup At(d, 7) \cup At(f3, 12) \cup At(s, 15) \cup At(imm, 20)
S(f3, imm, s, t) == R(STORE, f3, imm \div 32, imm % 32, s, t)
B(f3, low, high, s, t) == R(BRANCH, f3, high, low, s, t)

Corners == {0, 1, 2, 3, 6, 7, 8, 9, 15, 16, 127, 128, 129, 200, 248, 255}

Integer == {R(OP, f3, 0, 3, 1, 2) : f3 \in 0..7}
           \cup {R(OP, f3, 32, 3, 1, 2) : f3 \in {0, 5}}
           \cup {R(OP, 0, 0, 0, 1, 2), R(OP, 0, 32, 2, 1, 2), R(OP, 5, 5, 3, 1, 2),
                 R(OP_32, 2, 0, 3, 1, 2), R(OP_32, 0, 0, 3, 1, 2), R(OP_32, 0, 32, 3, 1, 2),
                 R(OP_32, 1, 0, 3, 1, 2), R(OP_32, 5, 0, 3, 1, 2), R(OP_32, 5, 32, 3, 1, 2)}
MulDiv == {R(OP, f3, 1, 3, 1, 2) : f3 \in 0..7} \cup {R(OP_32, f3, 1, 3, 1, 2) : f3 \in {0} \cup 3..7}
          \cup {R(OP, 4, 1, 1, 1, 1)}
Immediate == {I(OP_IMM, f3, imm, 3, 1) : f3 \in {0, 2, 3, 4, 6, 7}, imm \in {0, 1, 127, 128, 2047, 2048, 4095}}
             \cup {I(op, 1, imm, 3, 1) : op \in {OP_IMM, OP_IMM_32}, imm \in {0, 1, 3, 7, 31}}
             \cup {I(op, 5, imm, 3, 1) : op \in {OP_IMM, OP_IMM_32},
                                         imm \in {0, 1, 3, 7, 31, 1024, 1026, 1055, 2048}}
             \cup {I(OP_IMM, 5, imm, 3, 1) : imm \in {35, 63, 1059, 1087}}
             \cup {I(OP_IMM_32, 0, imm, 0, 1) : imm \in {0, 1, 4095}}
             \cup {I(OP_IMM_32, 0, imm, 3, 1) : imm \in {0, 1, 2047, 2048, 4095}}
             \cup {I(OP_IMM_32, 2, 0, 3, 1), I(MISC_MEM, 0, 255, 0, 0), I(MISC_MEM, 1, 0, 0, 0),
                   I(MISC_MEM, 1, 0, 3, 0), I(MISC_MEM, 2, 0, 0, 0),
                   I(LUI, 0, 1, 3, 1), I(AUIPC, 7, 4095, 3, 31)}

\* Loads and stores of every width, at every place around the three windows.
Memory == {I(LOAD, f3, imm, 3, 1) : f3 \in 0..7, imm \in {0, 4095}}
          \cup {I(LOAD, 3, 0, 1, 1), I(LOAD, 2, 0, 0, 1)}
          \cup {S(f3, imm, 1, 2) : f3 \in 0..4, imm \in {0, 4095}}

Control == {B(f3, low, high, 1, 2) : f3 \in 0..7, low \in {8, 25}, high \in {0, 127}}
           \cup {I(JAL, 4, imm, d, 7) : imm \in {8, 2049, 4094}, d \in {0, 3}}
           \cup {I(JALR, 0, imm, d, 1) : imm \in {0, 1, 4093}, d \in {0, 1, 3}}

Atomic == {R(AMO, f3, 4 * op, 3, 1, 2) : f3 \in {2, 3}, op \in AmoOps}
          \cup {R(AMO, 3, 0, 1, 1, 2), R(AMO, 2, 16, 2, 1, 2), R(AMO, 2, 0, 0, 1, 2),
                R(AMO, 1, 0, 3, 1, 2), R(AMO, 2, 20, 3, 1, 2)}

\* Words that have at most two bits set, or at most two clear.
Sparse == {{k, l} : k, l \in 0..31} \cup {{}}
Words  == Sparse \cup {(0..31) \ w : w \in Sparse}

MCBases == {4, 5, 6, 7, 8, 9, 12, 13, 14, 15, 16, 17, 18, 20, 22, 23, 24, 25, 26, 29, 30, 31, 32, 33, 255}
NoRam    == {[a \in RamAddr |-> 0]}
Patterns == {[a \in RamAddr |-> Bool(a % 2 = 1)], [a \in RamAddr |-> Bool(a % 3 # 0)],
             [a \in RamAddr |-> 1]}

MCCases ==
    [integer   |-> [insns |-> Integer, x1 |-> Word, x2 |-> Corners, pc |-> {16}, ram |-> NoRam],
     muldiv    |-> [insns |-> MulDiv, x1 |-> Word, x2 |-> Corners, pc |-> {16}, ram |-> NoRam],
     immediate |-> [insns |-> Immediate, x1 |-> Word, x2 |-> {0}, pc |-> {16, 252}, ram |-> NoRam],
     control   |-> [insns |-> Control, x1 |-> Corners, x2 |-> Corners, pc |-> {0, 16, 252}, ram |-> NoRam],
     memory    |-> [insns |-> Memory, x1 |-> MCBases, x2 |-> {0, 90, 165, 255}, pc |-> {16}, ram |-> Patterns],
     atomic    |-> [insns |-> Atomic, x1 |-> MCBases, x2 |-> Corners, pc |-> {16}, ram |-> Patterns],
     decode    |-> [insns |-> Words, x1 |-> {20}, x2 |-> {3}, pc |-> {16}, ram |-> NoRam]]
=============================================================================
