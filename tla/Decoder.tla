------------------------------ MODULE Decoder ------------------------------
(***************************************************************************)
(* The instruction decoder, src/src/cpu/instructions/decoding.c.  A 32-bit *)
(* instruction word is the set of the positions of its one-bits, so that   *)
(* it needs no integer of 32 bits; the fields are numbers.  An immediate   *)
(* is the signed number it stands for: the uint64_t of the code is that    *)
(* number modulo 2^64.                                                     *)
(***************************************************************************)
EXTENDS Integers, FiniteSetsExt

InstructionWord == SUBSET (0..31)

LOAD      == 3
MISC_MEM  == 15
OP_IMM    == 19
AUIPC     == 23
OP_IMM_32 == 27
STORE     == 35
AMO       == 47
OP        == 51
LUI       == 55
OP_32     == 59
BRANCH    == 99
JALR      == 103
JAL       == 111
SYSTEM    == 115

\* The number whose one-bits are at the positions S.
Weight    == [k \in Nat |-> 2 ^ k]
Number(S) == SumFunctionOnSet(Weight, S)

\* (instruction >> low) & (2^bits - 1)
Field(raw, low, bits) == Number({i - low : i \in raw \cap (low..(low + bits - 1))})

\* For imm < 2^bits, as every caller passes it.
sign_extend(imm, bits) == IF imm >= 2 ^ (bits - 1) THEN imm - 2 ^ bits ELSE imm

\* The fields that have the same place in every format that has them.
opcode(raw) == Field(raw, 0, 7)
rd(raw)     == Field(raw, 7, 5)
funct3(raw) == Field(raw, 12, 3)
rs1(raw)    == Field(raw, 15, 5)
rs2(raw)    == Field(raw, 20, 5)
funct5(raw) == Field(raw, 27, 5)
funct7(raw) == Field(raw, 25, 7)

\* Mutant: bit 11 of a branch offset is taken from bit 8 of the instruction.
BranchBit11From8(raw) == sign_extend(Field(raw, 8, 4) * 2 + Field(raw, 25, 6) * 32
                           + Field(raw, 8, 1) * 2048 + Field(raw, 31, 1) * 4096, 13)

\* The immediates of decodeI, decodeS, decodeB, decodeU and decodeJ.
immI(raw) == sign_extend(Field(raw, 20, 12), 12)
immS(raw) == sign_extend(Field(raw, 7, 5) + Field(raw, 25, 7) * 32, 12)
immB(raw) == sign_extend(Field(raw, 8, 4) * 2 + Field(raw, 25, 6) * 32
                           + Field(raw, 7, 1) * 2048 + Field(raw, 31, 1) * 4096, 13)
immU(raw) == sign_extend(Field(raw, 12, 20), 20) * 4096
immJ(raw) == sign_extend(Field(raw, 21, 10) * 2 + Field(raw, 20, 1) * 2048
                           + Field(raw, 12, 8) * 4096 + Field(raw, 31, 1) * 1048576, 21)

---------------------------------------------------------------------------
(* The formats as the instruction set defines them: where bit k of the     *)
(* immediate is in the instruction, and which bits it has.                 *)

PlaceI(k) == 20 + k
PlaceS(k) == IF k < 5 THEN 7 + k ELSE 20 + k
PlaceB(k) == IF k = 11 THEN 7 ELSE IF k = 12 THEN 31 ELSE IF k < 5 THEN 7 + k ELSE 20 + k
PlaceJ(k) == IF k = 20 THEN 31 ELSE IF k = 11 THEN 20 ELSE IF k < 11 THEN 20 + k ELSE k

\* A number in two's complement: the top bit counts negatively.
Weighted(raw, Place(_), low, top) ==
    Number({k \in low..(top - 1) : Place(k) \in raw})
        - (IF Place(top) \in raw THEN 2 ^ top ELSE 0)

ImmediatesMatch(raw) ==
    /\ immI(raw) = Weighted(raw, PlaceI, 0, 11)
    /\ immS(raw) = Weighted(raw, PlaceS, 0, 11)
    /\ immB(raw) = Weighted(raw, PlaceB, 1, 12)
    /\ immJ(raw) = Weighted(raw, PlaceJ, 1, 20)
    /\ immU(raw) = 4096 * Weighted({i - 12 : i \in raw}, LAMBDA k : k, 0, 19)
=============================================================================
