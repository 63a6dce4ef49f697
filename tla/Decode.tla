------------------------------- MODULE Decode -------------------------------
(***************************************************************************)
(* The instruction decoder of the virtual prototype (core/common/instr.h   *)
(* and instr.cpp) and the part of ISS::exec_step that fetches, decodes and *)
(* picks the register operands the coverage bookkeeping looks at.          *)
(*                                                                         *)
(* A 32-bit instruction is the record of its six fields; a compressed one  *)
(* is the number of its low 16 bits.  The encodings and masks of instr.cpp *)
(* are patterns: for every field, the set of values the mask lets through. *)
(***************************************************************************)
EXTENDS Integers, Sequences, FiniteSets, TLC

CONSTANTS
    Halves,     \* the 16-bit values that may be fetched (low bits other than 11)
    Words,      \* the 32-bit instructions that may be fetched: a sequence of sets of field records
    Sampled     \* those of Halves also fetched without C and without coverage

VARIABLES
    arch,       \* "RV32" or "RV64": the argument of the two decode functions
    hasC,       \* misa has the C extension
    coverage,   \* a coverage tracker is attached
    half,       \* the fetched 16 bits, or -1 if a 32-bit instruction was fetched
    instr,      \* ISS::instr: the instruction, after expansion
    op,         \* ISS::op
    pc,         \* distance of pc from the fetched instruction
    rops,       \* registers exec_step inspects for coverage
    outcome     \* "fetched", "decoded", "illegal" (trap), "thrown" (C++ throw)

vars == <<arch, hasC, coverage, half, instr, op, pc, rops, outcome>>

Bits(n) == 0 .. 2^n - 1

\* struct Instruction: what a 32-bit instruction is made of
Instruction == [op: Bits(7), rd: Bits(5), f3: Bits(3), rs1: Bits(5), rs2: Bits(5), f7: Bits(7)]

Pattern(o, f3, f7, rs2, rs1, rd) ==
    [op |-> {o}, f3 |-> f3, f7 |-> f7, rs2 |-> rs2, rs1 |-> rs1, rd |-> rd]
ByOp(o)            == Pattern(o, Bits(3), Bits(7), Bits(5), Bits(5), Bits(5))
ByF3(o, f3)        == [ByOp(o) EXCEPT !.f3 = {f3}]
ByF7(o, f7)        == [ByOp(o) EXCEPT !.f7 = {f7}]
ByF3F7(o, f3, f7)  == [ByF3(o, f3) EXCEPT !.f7 = {f7}]
ByF3F6(o, f3, f6)  == [ByF3(o, f3) EXCEPT !.f7 = {2 * f6, 2 * f6 + 1}]
ByF7Rs2(o, f7, r)  == [ByF7(o, f7) EXCEPT !.rs2 = {r}]
ByF3F7Rs2(o, f3, f7, r) == [ByF3F7(o, f3, f7) EXCEPT !.rs2 = {r}]
Fixed(f12)         == Pattern(115, {0}, {f12 \div 32}, {f12 % 32}, {0}, {0})
Amo(f3, f5)        == [ByF3(47, f3) EXCEPT !.f7 = {4 * f5 + k : k \in Bits(2)}]
Fused(o, f2)       == [ByOp(o) EXCEPT !.f7 = {f7 \in Bits(7) : f7 % 4 = f2}]

\* LUI_ENCODING ... SFENCE_VMA_ENCODING
RV32Encoding ==
    [ LUI  |-> ByOp(55), AUIPC |-> ByOp(23), JAL |-> ByOp(111), JALR |-> ByF3(103, 0),
      BEQ  |-> ByF3(99, 0), BNE |-> ByF3(99, 1), BLT |-> ByF3(99, 4),
      BGE  |-> ByF3(99, 5), BLTU |-> ByF3(99, 6), BGEU |-> ByF3(99, 7),
      LB   |-> ByF3(3, 0), LH |-> ByF3(3, 1), LW |-> ByF3(3, 2),
      LBU  |-> ByF3(3, 4), LHU |-> ByF3(3, 5),
      SB   |-> ByF3(35, 0), SH |-> ByF3(35, 1), SW |-> ByF3(35, 2),
      ADDI |-> ByF3(19, 0), SLTI |-> ByF3(19, 2), SLTIU |-> ByF3(19, 3),
      XORI |-> ByF3(19, 4), ORI |-> ByF3(19, 6), ANDI |-> ByF3(19, 7),
      SLLI_32 |-> ByF3F7(19, 1, 0), SRLI_32 |-> ByF3F7(19, 5, 0), SRAI_32 |-> ByF3F7(19, 5, 32),
      SLLI |-> ByF3F6(19, 1, 0), SRLI |-> ByF3F6(19, 5, 0), SRAI |-> ByF3F6(19, 5, 16),
      ADD  |-> ByF3F7(51, 0, 0), SUB |-> ByF3F7(51, 0, 32), SLL |-> ByF3F7(51, 1, 0),
      SLT  |-> ByF3F7(51, 2, 0), SLTU |-> ByF3F7(51, 3, 0), XOR |-> ByF3F7(51, 4, 0),
      SRL  |-> ByF3F7(51, 5, 0), SRA |-> ByF3F7(51, 5, 32), OR |-> ByF3F7(51, 6, 0),
      AND  |-> ByF3F7(51, 7, 0),
      MUL  |-> ByF3F7(51, 0, 1), MULH |-> ByF3F7(51, 1, 1), MULHSU |-> ByF3F7(51, 2, 1),
      MULHU |-> ByF3F7(51, 3, 1), DIV |-> ByF3F7(51, 4, 1), DIVU |-> ByF3F7(51, 5, 1),
      REM  |-> ByF3F7(51, 6, 1), REMU |-> ByF3F7(51, 7, 1),
      FENCE |-> ByF3(15, 0), FENCE_I |-> ByF3(15, 1),
      ECALL |-> Fixed(0), EBREAK |-> Fixed(1), URET |-> Fixed(2), SRET |-> Fixed(258),
      MRET |-> Fixed(770), WFI |-> Fixed(261), SFENCE_VMA |-> Pattern(115, {0}, {9}, Bits(5), Bits(5), {0}),
      CSRRW |-> ByF3(115, 1), CSRRS |-> ByF3(115, 2), CSRRC |-> ByF3(115, 3),
      CSRRWI |-> ByF3(115, 5), CSRRSI |-> ByF3(115, 6), CSRRCI |-> ByF3(115, 7),
      LR_W |-> [Amo(2, 2) EXCEPT !.rs2 = {0}], SC_W |-> Amo(2, 3), AMOSWAP_W |-> Amo(2, 1),
      AMOADD_W |-> Amo(2, 0), AMOXOR_W |-> Amo(2, 4), AMOAND_W |-> Amo(2, 12),
      AMOOR_W |-> Amo(2, 8), AMOMIN_W |-> Amo(2, 16), AMOMAX_W |-> Amo(2, 20),
      AMOMINU_W |-> Amo(2, 24), AMOMAXU_W |-> Amo(2, 28) ]

\* LWU_ENCODING ... AMOMAXU_D_ENCODING
RV64Encoding ==
    [ LWU  |-> ByF3(3, 6), LD |-> ByF3(3, 3), SD |-> ByF3(35, 3), ADDIW |-> ByF3(27, 0),
      SLLIW |-> ByF3F7(27, 1, 0), SRLIW |-> ByF3F7(27, 5, 0), SRAIW |-> ByF3F7(27, 5, 32),
      ADDW |-> ByF3F7(59, 0, 0), SUBW |-> ByF3F7(59, 0, 32), SLLW |-> ByF3F7(59, 1, 0),
      SRLW |-> ByF3F7(59, 5, 0), SRAW |-> ByF3F7(59, 5, 32), MULW |-> ByF3F7(59, 0, 1),
      DIVW |-> ByF3F7(59, 4, 1), DIVUW |-> ByF3F7(59, 5, 1), REMW |-> ByF3F7(59, 6, 1),
      REMUW |-> ByF3F7(59, 7, 1),
      LR_D |-> [Amo(3, 2) EXCEPT !.rs2 = {0}], SC_D |-> Amo(3, 3), AMOSWAP_D |-> Amo(3, 1),
      AMOADD_D |-> Amo(3, 0), AMOXOR_D |-> Amo(3, 4), AMOAND_D |-> Amo(3, 12),
      AMOOR_D |-> Amo(3, 8), AMOMIN_D |-> Amo(3, 16), AMOMAX_D |-> Amo(3, 20),
      AMOMINU_D |-> Amo(3, 24), AMOMAXU_D |-> Amo(3, 28) ]

\* FLW_ENCODING ... FMV_D_X_ENCODING
FDEncoding ==
    [ FLW |-> ByF3(7, 2), FSW |-> ByF3(39, 2), FLD |-> ByF3(7, 3), FSD |-> ByF3(39, 3),
      FMADD_S |-> Fused(67, 0), FMSUB_S |-> Fused(71, 0), FNMSUB_S |-> Fused(75, 0), FNMADD_S |-> Fused(79, 0),
      FMADD_D |-> Fused(67, 1), FMSUB_D |-> Fused(71, 1), FNMSUB_D |-> Fused(75, 1), FNMADD_D |-> Fused(79, 1),
      FADD_S |-> ByF7(83, 0), FSUB_S |-> ByF7(83, 4), FMUL_S |-> ByF7(83, 8), FDIV_S |-> ByF7(83, 12),
      FADD_D |-> ByF7(83, 1), FSUB_D |-> ByF7(83, 5), FMUL_D |-> ByF7(83, 9), FDIV_D |-> ByF7(83, 13),
      FSQRT_S |-> ByF7Rs2(83, 44, 0), FSQRT_D |-> ByF7Rs2(83, 45, 0),
      FSGNJ_S |-> ByF3F7(83, 0, 16), FSGNJN_S |-> ByF3F7(83, 1, 16), FSGNJX_S |-> ByF3F7(83, 2, 16),
      FSGNJ_D |-> ByF3F7(83, 0, 17), FSGNJN_D |-> ByF3F7(83, 1, 17), FSGNJX_D |-> ByF3F7(83, 2, 17),
      FMIN_S |-> ByF3F7(83, 0, 20), FMAX_S |-> ByF3F7(83, 1, 20),
      FMIN_D |-> ByF3F7(83, 0, 21), FMAX_D |-> ByF3F7(83, 1, 21),
      FEQ_S |-> ByF3F7(83, 2, 80), FLT_S |-> ByF3F7(83, 1, 80), FLE_S |-> ByF3F7(83, 0, 80),
      FEQ_D |-> ByF3F7(83, 2, 81), FLT_D |-> ByF3F7(83, 1, 81), FLE_D |-> ByF3F7(83, 0, 81),
      FCVT_S_D |-> ByF7Rs2(83, 32, 1), FCVT_D_S |-> ByF7Rs2(83, 33, 0),
      FCVT_W_S |-> ByF7Rs2(83, 96, 0), FCVT_WU_S |-> ByF7Rs2(83, 96, 1),
      FCVT_L_S |-> ByF7Rs2(83, 96, 2), FCVT_LU_S |-> ByF7Rs2(83, 96, 3),
      FCVT_W_D |-> ByF7Rs2(83, 97, 0), FCVT_WU_D |-> ByF7Rs2(83, 97, 1),
      FCVT_L_D |-> ByF7Rs2(83, 97, 2), FCVT_LU_D |-> ByF7Rs2(83, 97, 3),
      FCVT_S_W |-> ByF7Rs2(83, 104, 0), FCVT_S_WU |-> ByF7Rs2(83, 104, 1),
      FCVT_S_L |-> ByF7Rs2(83, 104, 2), FCVT_S_LU |-> ByF7Rs2(83, 104, 3),
      FCVT_D_W |-> ByF7Rs2(83, 105, 0), FCVT_D_WU |-> ByF7Rs2(83, 105, 1),
      FCVT_D_L |-> ByF7Rs2(83, 105, 2), FCVT_D_LU |-> ByF7Rs2(83, 105, 3),
      FMV_X_W |-> ByF3F7Rs2(83, 0, 112, 0), FCLASS_S |-> ByF3F7Rs2(83, 1, 112, 0),
      FMV_X_D |-> ByF3F7Rs2(83, 0, 113, 0), FCLASS_D |-> ByF3F7Rs2(83, 1, 113, 0),
      FMV_W_X |-> ByF3F7Rs2(83, 0, 120, 0), FMV_D_X |-> ByF3F7Rs2(83, 0, 121, 0) ]

Encoding == RV32Encoding @@ RV64Encoding @@ FDEncoding

\* Opcode::Mapping: the operations decode can answer
Mapping == (DOMAIN Encoding \ {"SLLI_32", "SRLI_32", "SRAI_32"}) \cup {"UNDEF"}

Matches(i, name) == \A f \in DOMAIN i : i[f] \in Encoding[name][f]

\* MATCH_AND_RETURN_INSTR: the switches only nominate a candidate
MATCH_AND_RETURN_INSTR(i, name) ==
    IF name # "UNDEF" /\ Matches(i, name) THEN name ELSE "UNDEF"

-----------------------------------------------------------------------------
(* decode_normal.  The switches become tables; position n + 1 of a row     *)
(* holds the candidate for the value n of the field switched on.           *)

U == "UNDEF"
At(row, n) == IF n + 1 \in DOMAIN row THEN row[n + 1] ELSE U

BranchF3 == <<"BEQ", "BNE", U, U, "BLT", "BGE", "BLTU", "BGEU">>
LoadF3   == <<"LB", "LH", "LW", "LD", "LBU", "LHU", "LWU", U>>
StoreF3  == <<"SB", "SH", "SW", "SD">>
AddiF3   == <<"ADDI", "SLLI", "SLTI", "SLTIU", "XORI", U, "ORI", "ANDI">>
AddF3    == [f7 \in {0, 1, 32} |->
               CASE f7 = 0  -> <<"ADD", "SLL", "SLT", "SLTU", "XOR", "SRL", "OR", "AND">>
                 [] f7 = 1  -> <<"MUL", "MULH", "MULHSU", "MULHU", "DIV", "DIVU", "REM", "REMU">>
                 [] f7 = 32 -> <<"SUB", U, U, U, U, "SRA">>]
AddwF3   == [f7 \in {0, 1, 32} |->
               CASE f7 = 0  -> <<"ADDW", "SLLW", U, U, U, "SRLW">>
                 [] f7 = 1  -> <<"MULW", U, U, U, "DIVW", "DIVUW", "REMW", "REMUW">>
                 [] f7 = 32 -> <<"SUBW", U, U, U, U, "SRAW">>]
CsrF3    == <<U, "CSRRW", "CSRRS", "CSRRC", U, "CSRRWI", "CSRRSI", "CSRRCI">>
SystemF12 == 0 :> "ECALL" @@ 1 :> "EBREAK" @@ 2 :> "URET" @@ 258 :> "SRET" @@ 770 :> "MRET" @@ 261 :> "WFI"
AmoF5W   == 2 :> "LR_W" @@ 3 :> "SC_W" @@ 1 :> "AMOSWAP_W" @@ 0 :> "AMOADD_W" @@ 4 :> "AMOXOR_W" @@ 12 :> "AMOAND_W"
            @@ 8 :> "AMOOR_W" @@ 16 :> "AMOMIN_W" @@ 20 :> "AMOMAX_W" @@ 24 :> "AMOMINU_W" @@ 28 :> "AMOMAXU_W"
AmoF5D   == 2 :> "LR_D" @@ 3 :> "SC_D" @@ 1 :> "AMOSWAP_D" @@ 0 :> "AMOADD_D" @@ 4 :> "AMOXOR_D" @@ 12 :> "AMOAND_D"
            @@ 8 :> "AMOOR_D" @@ 16 :> "AMOMIN_D" @@ 20 :> "AMOMAX_D" @@ 24 :> "AMOMINU_D" @@ 28 :> "AMOMAXU_D"
FpF7     == 0 :> "FADD_S" @@ 1 :> "FADD_D" @@ 4 :> "FSUB_S" @@ 5 :> "FSUB_D" @@ 33 :> "FCVT_D_S" @@ 8 :> "FMUL_S"
            @@ 9 :> "FMUL_D" @@ 12 :> "FDIV_S" @@ 13 :> "FDIV_D" @@ 32 :> "FCVT_S_D" @@ 44 :> "FSQRT_S"
            @@ 45 :> "FSQRT_D" @@ 120 :> "FMV_W_X" @@ 121 :> "FMV_D_X"
FpF7F3   == 80 :> <<"FLE_S", "FLT_S", "FEQ_S">> @@ 81 :> <<"FLE_D", "FLT_D", "FEQ_D">>
            @@ 16 :> <<"FSGNJ_S", "FSGNJN_S", "FSGNJX_S">> @@ 17 :> <<"FSGNJ_D", "FSGNJN_D", "FSGNJX_D">>
            @@ 20 :> <<"FMIN_S", "FMAX_S">> @@ 21 :> <<"FMIN_D", "FMAX_D">>
            @@ 112 :> <<"FMV_X_W", "FCLASS_S">> @@ 113 :> <<"FMV_X_D", "FCLASS_D">>
FpF7Rs2  == 104 :> <<"FCVT_S_W", "FCVT_S_WU", "FCVT_S_L", "FCVT_S_LU">>
            @@ 105 :> <<"FCVT_D_W", "FCVT_D_WU", "FCVT_D_L", "FCVT_D_LU">>
            @@ 97 :> <<"FCVT_W_D", "FCVT_WU_D", "FCVT_L_D", "FCVT_LU_D">>
            @@ 96 :> <<"FCVT_W_S", "FCVT_WU_S", "FCVT_L_S", "FCVT_LU_S">>
FusedF2  == 67 :> <<"FMADD_S", "FMADD_D">> @@ 71 :> <<"FMSUB_S", "FMSUB_D">>
            @@ 75 :> <<"FNMSUB_S", "FNMSUB_D">> @@ 79 :> <<"FNMADD_S", "FNMADD_D">>

Lookup(table, n) == IF n \in DOMAIN table THEN table[n] ELSE U

(* Mutant: the six-bit shift amounts of RV64 are taken on RV32 as well.    *)
DecodeAddiWide(i, a) ==
    MATCH_AND_RETURN_INSTR(i, IF i.f3 # 5 THEN At(AddiF3, i.f3)
                              ELSE CASE i.f7 \div 2 = 0 -> "SRLI" [] i.f7 \div 2 = 16 -> "SRAI" [] OTHER -> U)

\* the shifts by an immediate: funct6 chooses, the RV32 masks fix bit 25 too
DecodeAddi(i, a) ==
    LET name == IF i.f3 # 5 THEN At(AddiF3, i.f3)
                ELSE CASE i.f7 \div 2 = 0 -> "SRLI" [] i.f7 \div 2 = 16 -> "SRAI" [] OTHER -> U
        shift == name \in {"SLLI", "SRLI", "SRAI"}
        narrow == CASE name = "SLLI" -> "SLLI_32" [] name = "SRLI" -> "SRLI_32" [] OTHER -> "SRAI_32"
    IN  IF shift /\ a = "RV32" THEN IF Matches(i, narrow) THEN name ELSE U
        ELSE MATCH_AND_RETURN_INSTR(i, name)

DecodeAddiw(i) ==
    CASE i.f3 = 0 -> "ADDIW" [] i.f3 = 1 -> "SLLIW" [] i.f3 = 5 /\ i.f7 = 0 -> "SRLIW"
      [] i.f3 = 5 /\ i.f7 = 32 -> "SRAIW" [] OTHER -> U

DecodeAdd(table, i) == IF i.f7 \in DOMAIN table THEN At(table[i.f7], i.f3) ELSE U

DecodeSystem(i) ==
    LET f12 == 32 * i.f7 + i.rs2
    IN  IF i.f3 # 0 THEN At(CsrF3, i.f3)
        ELSE IF f12 \in DOMAIN SystemF12 THEN SystemF12[f12] ELSE "SFENCE_VMA"

DecodeAmo(i) == Lookup(IF i.f3 = 3 THEN AmoF5D ELSE AmoF5W, i.f7 \div 4)

DecodeFp(i) ==
    IF i.f7 \in DOMAIN FpF7F3 THEN At(FpF7F3[i.f7], i.f3)
    ELSE IF i.f7 \in DOMAIN FpF7Rs2 THEN At(FpF7Rs2[i.f7], i.rs2)
    ELSE Lookup(FpF7, i.f7)

decode_normal(i, a) ==
    CASE i.op = 55  -> MATCH_AND_RETURN_INSTR(i, "LUI")
      [] i.op = 23  -> MATCH_AND_RETURN_INSTR(i, "AUIPC")
      [] i.op = 111 -> MATCH_AND_RETURN_INSTR(i, "JAL")
      [] i.op = 103 -> MATCH_AND_RETURN_INSTR(i, "JALR")
      [] i.op = 99  -> MATCH_AND_RETURN_INSTR(i, At(BranchF3, i.f3))
      [] i.op = 3   -> MATCH_AND_RETURN_INSTR(i, At(LoadF3, i.f3))
      [] i.op = 35  -> MATCH_AND_RETURN_INSTR(i, At(StoreF3, i.f3))
      [] i.op = 19  -> DecodeAddi(i, a)
      [] i.op = 27  -> MATCH_AND_RETURN_INSTR(i, DecodeAddiw(i))
      [] i.op = 51  -> MATCH_AND_RETURN_INSTR(i, DecodeAdd(AddF3, i))
      [] i.op = 59  -> MATCH_AND_RETURN_INSTR(i, DecodeAdd(AddwF3, i))
      [] i.op = 15  -> MATCH_AND_RETURN_INSTR(i, At(<<"FENCE", "FENCE_I">>, i.f3))
      [] i.op = 115 -> MATCH_AND_RETURN_INSTR(i, DecodeSystem(i))
      [] i.op = 47  -> MATCH_AND_RETURN_INSTR(i, DecodeAmo(i))
      [] i.op = 83  -> MATCH_AND_RETURN_INSTR(i, DecodeFp(i))
      [] i.op = 7   -> MATCH_AND_RETURN_INSTR(i, At(<<U, U, "FLW", "FLD">>, i.f3))
      [] i.op = 39  -> MATCH_AND_RETURN_INSTR(i, At(<<U, U, "FSW", "FSD">>, i.f3))
      [] i.op \in DOMAIN FusedF2 -> MATCH_AND_RETURN_INSTR(i, At(FusedF2[i.op], i.f7 % 4))
      [] OTHER -> U

-----------------------------------------------------------------------------
(* Compressed instructions: bit macros, immediates, decoding, expansion.   *)

BIT_SLICE(w, hi, lo) == (w \div 2^lo) % 2^(hi - lo + 1)
BIT_SINGLE_PN(w, from, to) == BIT_SLICE(w, from, from) * 2^to
EXTRACT_SIGN_BIT(w, from, to) == -BIT_SINGLE_PN(w, from, to)

c_opcode(w)    == BIT_SLICE(w, 15, 13)
c_b12(w)       == BIT_SLICE(w, 12, 12)
c_rd(w)        == BIT_SLICE(w, 11, 7)
c_rs2(w)       == BIT_SLICE(w, 6, 2)
c_rd_small(w)  == BIT_SLICE(w, 9, 7) + 8
c_rs2_small(w) == BIT_SLICE(w, 4, 2) + 8
c_imm(w)       == BIT_SLICE(w, 6, 2) + EXTRACT_SIGN_BIT(w, 12, 5)
c_uimm(w)      == BIT_SLICE(w, 6, 2) + BIT_SINGLE_PN(w, 12, 5)

C_ADDI4SPN_NZUIMM(w) == BIT_SLICE(w, 12, 11) * 16 + BIT_SLICE(w, 10, 7) * 64
                        + BIT_SINGLE_PN(w, 6, 2) + BIT_SINGLE_PN(w, 5, 3)
C_LW_UIMM(w) == BIT_SLICE(w, 12, 10) * 8 + BIT_SINGLE_PN(w, 6, 2) + BIT_SINGLE_PN(w, 5, 6)
C_LD_UIMM(w) == BIT_SLICE(w, 12, 10) * 8 + BIT_SLICE(w, 6, 5) * 64
C_JAL_IMM(w) == EXTRACT_SIGN_BIT(w, 12, 11) + BIT_SINGLE_PN(w, 11, 4) + BIT_SLICE(w, 10, 9) * 256
                + BIT_SINGLE_PN(w, 8, 10) + BIT_SINGLE_PN(w, 7, 6) + BIT_SINGLE_PN(w, 6, 7)
                + BIT_SLICE(w, 5, 3) * 2 + BIT_SINGLE_PN(w, 2, 5)
C_ADDI16SP_NZIMM(w) == EXTRACT_SIGN_BIT(w, 12, 9) + BIT_SINGLE_PN(w, 6, 4) + BIT_SINGLE_PN(w, 5, 6)
                       + BIT_SLICE(w, 4, 3) * 128 + BIT_SINGLE_PN(w, 2, 5)
C_LUI_NZIMM(w) == EXTRACT_SIGN_BIT(w, 12, 17) + BIT_SLICE(w, 6, 2) * 4096

(* Mutant: the two middle slices of a branch offset trade places.          *)
C_BRANCH_IMMSwapped(w) == EXTRACT_SIGN_BIT(w, 12, 8) + BIT_SLICE(w, 11, 10) * 64 + BIT_SLICE(w, 6, 5) * 8
                          + BIT_SLICE(w, 4, 3) * 2 + BIT_SINGLE_PN(w, 2, 5)

C_BRANCH_IMM(w) == EXTRACT_SIGN_BIT(w, 12, 8) + BIT_SLICE(w, 11, 10) * 8 + BIT_SLICE(w, 6, 5) * 64
                   + BIT_SLICE(w, 4, 3) * 2 + BIT_SINGLE_PN(w, 2, 5)
C_LWSP_UIMM(w) == BIT_SINGLE_PN(w, 12, 5) + BIT_SLICE(w, 6, 4) * 4 + BIT_SLICE(w, 3, 2) * 64
C_SWSP_UIMM(w) == BIT_SLICE(w, 12, 9) * 4 + BIT_SLICE(w, 8, 7) * 64
C_LDSP_UIMM(w) == BIT_SINGLE_PN(w, 12, 5) + BIT_SLICE(w, 6, 5) * 8 + BIT_SLICE(w, 4, 2) * 64
C_SDSP_UIMM(w) == BIT_SLICE(w, 12, 10) * 8 + BIT_SLICE(w, 9, 7) * 64

Quadrant0(w, a) ==
    IF c_opcode(w) = 0 THEN IF w = 0 THEN "C_Illegal" ELSE "C_ADDI4SPN"
    ELSE At(<<"-", "C_FLD", "C_LW", IF a = "RV32" THEN "C_FLW" ELSE "C_LD", "C_Reserved",
              "C_FSD", "C_SW", IF a = "RV32" THEN "C_FSW" ELSE "C_SD">>, c_opcode(w))

Quadrant1(w, a) ==
    LET arith == CASE BIT_SLICE(w, 11, 10) < 3 -> At(<<"C_SRLI", "C_SRAI", "C_ANDI">>, BIT_SLICE(w, 11, 10))
                   [] c_b12(w) = 1 -> At(<<"C_SUBW", "C_ADDW", "C_Reserved", "C_Reserved">>, BIT_SLICE(w, 6, 5))
                   [] OTHER        -> At(<<"C_SUB", "C_XOR", "C_OR", "C_AND">>, BIT_SLICE(w, 6, 5))
    IN  At(<<IF w = 1 THEN "C_NOP" ELSE "C_ADDI", IF a = "RV32" THEN "C_JAL" ELSE "C_ADDIW", "C_LI",
             IF c_rd(w) = 2 THEN "C_ADDI16SP" ELSE "C_LUI", arith, "C_J", "C_BEQZ", "C_BNEZ">>, c_opcode(w))

Quadrant2(w, a) ==
    LET jump == CASE c_b12(w) = 1 /\ c_rd(w) = 0 -> "C_EBREAK"
                  [] c_b12(w) = 1 /\ c_rd(w) # 0 -> IF c_rs2(w) # 0 THEN "C_ADD" ELSE "C_JALR"
                  [] OTHER -> IF c_rs2(w) # 0 THEN "C_MV" ELSE "C_JR"
    IN  At(<<"C_SLLI", "C_FLDSP", "C_LWSP", IF a = "RV32" THEN "C_FLWSP" ELSE "C_LDSP", jump,
             "C_FSDSP", "C_SWSP", IF a = "RV32" THEN "C_FSWSP" ELSE "C_SDSP">>, c_opcode(w))

decode_compressed(w, a) ==
    CASE w % 4 = 0 -> Quadrant0(w, a) [] w % 4 = 1 -> Quadrant1(w, a) [] w % 4 = 2 -> Quadrant2(w, a)

\* InstructionFactory: the immediates are scattered over the fields
Fields(o, rd, f3, rs1, rs2, f7) == [op |-> o, rd |-> rd, f3 |-> f3, rs1 |-> rs1, rs2 |-> rs2, f7 |-> f7]
FactoryI(o, f3, rd, rs1, imm) == Fields(o, rd, f3, rs1, imm % 32, (imm \div 32) % 128)
FactoryS(o, f3, rs1, rs2, imm) == Fields(o, imm % 32, f3, rs1, rs2, (imm \div 32) % 128)
FactoryShift(f3, f7, rd, shamt) == Fields(19, rd, f3, rd, shamt % 32, f7 + (shamt % 64) \div 32)
FactoryB(f3, rs1, imm) ==
    Fields(99, 2 * BIT_SLICE(imm, 4, 1) + BIT_SLICE(imm, 11, 11), f3, rs1, 0,
           BIT_SLICE(imm, 10, 5) + BIT_SINGLE_PN(imm, 12, 6))
Upper(o, rd, v) == Fields(o, rd, v % 8, (v \div 8) % 32, (v \div 256) % 32, v \div 8192)
FactoryLUI(rd, imm) == Upper(55, rd, (imm \div 4096) % 2^20)
FactoryJAL(rd, imm) ==
    Upper(111, rd, BIT_SLICE(imm, 19, 12) + BIT_SINGLE_PN(imm, 11, 8) + BIT_SLICE(imm, 10, 1) * 512
                   + BIT_SINGLE_PN(imm, 20, 19))

Expanded(o, i) == [op |-> o, instr |-> i]
Undefined == Expanded("UNDEF", Fields(0, 0, 0, 0, 0, 0))

ExpandRegister(w, c) ==
    LET d == c_rd_small(w)
        s == c_rs2_small(w)
    IN  CASE c = "C_NOP"  -> Expanded("ADD", Fields(51, 0, 0, 0, 0, 0))
          [] c = "C_ADD"  -> Expanded("ADD", Fields(51, c_rd(w), 0, c_rd(w), c_rs2(w), 0))
          [] c = "C_MV"   -> Expanded("ADD", Fields(51, c_rd(w), 0, 0, c_rs2(w), 0))
          [] c = "C_AND"  -> Expanded("AND", Fields(51, d, 7, d, s, 0))
          [] c = "C_OR"   -> Expanded("OR", Fields(51, d, 6, d, s, 0))
          [] c = "C_XOR"  -> Expanded("XOR", Fields(51, d, 4, d, s, 0))
          [] c = "C_SUB"  -> Expanded("SUB", Fields(51, d, 0, d, s, 32))
          [] c = "C_ADDW" -> Expanded("ADDW", Fields(59, d, 0, d, s, 0))
          [] c = "C_SUBW" -> Expanded("SUBW", Fields(59, d, 0, d, s, 32))

ExpandMemory(w, c) ==
    LET base == c_rd_small(w)
        data == c_rs2_small(w)
    IN  CASE c = "C_LW"  -> Expanded("LW", FactoryI(3, 2, data, base, C_LW_UIMM(w)))
          [] c = "C_LD"  -> Expanded("LD", FactoryI(3, 3, data, base, C_LD_UIMM(w)))
          [] c = "C_FLW" -> Expanded("FLW", FactoryI(7, 2, data, base, C_LW_UIMM(w)))
          [] c = "C_FLD" -> Expanded("FLD", FactoryI(7, 3, data, base, C_LD_UIMM(w)))
          [] c = "C_SW"  -> Expanded("SW", FactoryS(35, 2, base, data, C_LW_UIMM(w)))
          [] c = "C_SD"  -> Expanded("SD", FactoryS(35, 3, base, data, C_LD_UIMM(w)))
          [] c = "C_FSW" -> Expanded("FSW", FactoryS(39, 2, base, data, C_LW_UIMM(w)))
          [] c = "C_FSD" -> Expanded("FSD", FactoryS(39, 3, base, data, C_LD_UIMM(w)))

ExpandStack(w, c) ==
    LET sp == 2
    IN  CASE c \in {"C_LWSP", "C_LDSP"} /\ c_rd(w) = 0 -> Undefined
          [] c = "C_LWSP" /\ c_rd(w) # 0 -> Expanded("LW", FactoryI(3, 2, c_rd(w), sp, C_LWSP_UIMM(w)))
          [] c = "C_LDSP" /\ c_rd(w) # 0 -> Expanded("LD", FactoryI(3, 3, c_rd(w), sp, C_LDSP_UIMM(w)))
          [] c = "C_FLWSP" -> Expanded("FLW", FactoryI(7, 2, c_rd(w), sp, C_LWSP_UIMM(w)))
          [] c = "C_FLDSP" -> Expanded("FLD", FactoryI(7, 3, c_rd(w), sp, C_LDSP_UIMM(w)))
          [] c = "C_SWSP"  -> Expanded("SW", FactoryS(35, 2, sp, c_rs2(w), C_SWSP_UIMM(w)))
          [] c = "C_SDSP"  -> Expanded("SD", FactoryS(35, 3, sp, c_rs2(w), C_SDSP_UIMM(w)))
          [] c = "C_FSWSP" -> Expanded("FSW", FactoryS(39, 2, sp, c_rs2(w), C_SWSP_UIMM(w)))
          [] c = "C_FSDSP" -> Expanded("FSD", FactoryS(39, 3, sp, c_rs2(w), C_SDSP_UIMM(w)))

\* C_ADDIW builds an ADDI word and answers ADDIW
ExpandImmediate(w, c, a) ==
    LET rd == c_rd(w)
        d == c_rd_small(w)
        wide == a = "RV32" /\ c_uimm(w) > 31
        reserved == \/ c = "C_ADDI4SPN" /\ C_ADDI4SPN_NZUIMM(w) = 0
                    \/ c = "C_ADDI16SP" /\ C_ADDI16SP_NZIMM(w) = 0
                    \/ c = "C_LUI" /\ C_LUI_NZIMM(w) = 0
                    \/ c = "C_ADDIW" /\ rd = 0
                    \/ c \in {"C_SLLI", "C_SRLI", "C_SRAI"} /\ wide
    IN  IF reserved THEN Undefined
        ELSE CASE c = "C_ADDI4SPN" -> Expanded("ADDI", FactoryI(19, 0, c_rs2_small(w), 2, C_ADDI4SPN_NZUIMM(w)))
               [] c = "C_ADDI16SP" -> Expanded("ADDI", FactoryI(19, 0, 2, 2, C_ADDI16SP_NZIMM(w)))
               [] c = "C_ADDI"  -> Expanded("ADDI", FactoryI(19, 0, rd, rd, c_imm(w)))
               [] c = "C_ADDIW" -> Expanded("ADDIW", FactoryI(19, 0, rd, rd, c_imm(w)))
               [] c = "C_LI"    -> Expanded("ADDI", FactoryI(19, 0, rd, 0, c_imm(w)))
               [] c = "C_LUI"   -> Expanded("LUI", FactoryLUI(rd, C_LUI_NZIMM(w)))
               [] c = "C_SLLI"  -> Expanded("SLLI", FactoryShift(1, 0, rd, c_uimm(w)))
               [] c = "C_SRLI"  -> Expanded("SRLI", FactoryShift(5, 0, d, c_uimm(w)))
               [] c = "C_SRAI"  -> Expanded("SRAI", FactoryShift(5, 32, d, c_uimm(w)))
               [] c = "C_ANDI"  -> Expanded("ANDI", FactoryI(19, 7, d, d, c_imm(w)))

ExpandJump(w, c) ==
    CASE c = "C_J"      -> Expanded("JAL", FactoryJAL(0, C_JAL_IMM(w)))
      [] c = "C_JAL"    -> Expanded("JAL", FactoryJAL(1, C_JAL_IMM(w)))
      [] c = "C_BEQZ"   -> Expanded("BEQ", FactoryB(0, c_rd_small(w), C_BRANCH_IMM(w)))
      [] c = "C_BNEZ"   -> Expanded("BNE", FactoryB(1, c_rd_small(w), C_BRANCH_IMM(w)))

ExpandRegisterJump(w, c) ==
    CASE c = "C_EBREAK" -> Expanded("EBREAK", Fields(115, 0, 0, 0, 1, 0))
      [] c = "C_JR" /\ c_rd(w) = 0 -> Undefined
      [] c = "C_JR" /\ c_rd(w) # 0 -> Expanded("JALR", FactoryI(103, 0, 0, c_rd(w), 0))
      [] c = "C_JALR"   -> Expanded("JALR", FactoryI(103, 0, 1, c_rd(w), 0))

RegisterForms == {"C_NOP", "C_ADD", "C_MV", "C_AND", "C_OR", "C_XOR", "C_SUB", "C_ADDW", "C_SUBW"}
JumpForms == {"C_J", "C_JAL", "C_BEQZ", "C_BNEZ"}
RegisterJumpForms == {"C_EBREAK", "C_JR", "C_JALR"}
StackForms == {"C_LWSP", "C_LDSP", "C_FLWSP", "C_FLDSP", "C_SWSP", "C_SDSP", "C_FSWSP", "C_FSDSP"}
ImmediateForms == {"C_ADDI4SPN", "C_ADDI16SP", "C_ADDI", "C_ADDIW", "C_LI", "C_LUI",
                   "C_SLLI", "C_SRLI", "C_SRAI", "C_ANDI"}

expand_compressed(w, c, a) ==
    CASE c \in {"C_Illegal", "C_Reserved"} -> Undefined
      [] c \in RegisterForms  -> ExpandRegister(w, c)
      [] c \in ImmediateForms -> ExpandImmediate(w, c, a)
      [] c \in JumpForms      -> ExpandJump(w, c)
      [] c \in RegisterJumpForms -> ExpandRegisterJump(w, c)
      [] c \in StackForms     -> ExpandStack(w, c)
      [] OTHER                -> ExpandMemory(w, c)

decode_and_expand_compressed(w, a) == expand_compressed(w, decode_compressed(w, a), a)

-----------------------------------------------------------------------------
(* Operand accessors, instruction types, and the step itself.              *)

Signed(v, n) == IF v >= 2^(n - 1) THEN v - 2^n ELSE v
I_imm(i) == Signed(32 * i.f7 + i.rs2, 12)
S_imm(i) == Signed(32 * i.f7 + i.rd, 12)
B_imm(i) == Signed(BIT_SINGLE_PN(i.f7, 6, 12) + BIT_SINGLE_PN(i.rd, 0, 11)
                   + BIT_SLICE(i.f7, 5, 0) * 32 + BIT_SLICE(i.rd, 4, 1) * 2, 13)
U_imm(i) == Signed(8192 * i.f7 + 256 * i.rs2 + 8 * i.rs1 + i.f3, 20) * 4096
J_imm(i) == Signed(BIT_SINGLE_PN(i.f7, 6, 20) + (8 * i.rs1 + i.f3) * 4096 + BIT_SINGLE_PN(i.rs2, 0, 11)
                   + BIT_SLICE(i.f7, 5, 0) * 32 + BIT_SLICE(i.rs2, 4, 1) * 2, 21)
shamt(i) == BIT_SINGLE_PN(i.f7, 0, 5) + i.rs2

TypeS == {"SB", "SH", "SW", "SD", "FSW", "FSD"}
TypeB == {"BEQ", "BNE", "BLT", "BGE", "BLTU", "BGEU"}
TypeI == {"JALR", "LB", "LH", "LW", "LD", "LBU", "LHU", "LWU", "ADDI", "SLTI", "SLTIU", "XORI", "ORI",
          "ANDI", "ADDIW", "SLLIW", "SRLIW", "SRAIW", "FLW", "FLD"}
TypeR4 == {n \in DOMAIN FDEncoding : Encoding[n].op \subseteq DOMAIN FusedF2}
Untyped == {"UNDEF", "FENCE", "FENCE_I", "ECALL", "EBREAK", "URET", "SRET", "MRET", "WFI", "SFENCE_VMA",
            "CSRRW", "CSRRS", "CSRRC", "CSRRWI", "CSRRSI", "CSRRCI"}

getType(o) ==
    CASE o \in TypeS -> "S" [] o \in TypeB -> "B" [] o \in TypeI -> "I" [] o \in {"LUI", "AUIPC"} -> "U"
      [] o = "JAL" -> "J" [] o \in TypeR4 -> "R4" [] o \in Untyped -> "UNKNOWN" [] OTHER -> "R"

Inspected(o, i) ==
    CASE getType(o) \in {"B", "S", "R"} -> {i.rs1, i.rs2} [] getType(o) = "I" -> {i.rs1} [] OTHER -> {}

Init ==
    /\ arch \in {"RV32", "RV64"}
    /\ hasC \in BOOLEAN /\ coverage \in BOOLEAN
    /\ \/ half \in (IF hasC /\ coverage THEN Halves ELSE Sampled) /\ instr = Undefined.instr
       \/ half = -1 /\ hasC /\ coverage /\ \E k \in DOMAIN Words : instr \in Words[k]
    /\ op = "UNDEF" /\ pc = 0 /\ rops = {} /\ outcome = "fetched"

\* what follows decoding: operand inspection throws on the fused FP operations
Inspect(o, i) ==
    /\ rops' = IF coverage THEN Inspected(o, i) ELSE {}
    /\ outcome' = CASE coverage /\ getType(o) = "R4" -> "thrown" [] o = "UNDEF" -> "illegal" [] OTHER -> "decoded"

StepCompressed ==
    LET e == decode_and_expand_compressed(half, arch)
    IN  /\ half # -1 /\ outcome = "fetched"
        /\ op' = e.op /\ instr' = e.instr /\ pc' = pc + 2
        /\ \/ (e.op = "UNDEF" \/ hasC) /\ Inspect(e.op, e.instr)
           \/ e.op # "UNDEF" /\ ~hasC /\ outcome' = "illegal" /\ UNCHANGED rops
        /\ UNCHANGED <<arch, hasC, coverage, half>>

StepNormal ==
    /\ half = -1 /\ outcome = "fetched"
    /\ op' = decode_normal(instr, arch) /\ pc' = pc + 4
    /\ Inspect(op', instr)
    /\ UNCHANGED <<arch, hasC, coverage, half, instr>>

Next == StepCompressed \/ StepNormal

Spec == Init /\ [][Next]_vars

-----------------------------------------------------------------------------
(* Properties.                                                             *)

\* decode_normal's nested switches answer exactly the encoding table: the
\* operation whose encoding and mask match, which is unique, or UNDEF when
\* no encoding matches.  On RV32 the shifts are those with a 5-bit amount.
DecodeExact ==
    LET table == IF arch = "RV64" THEN DOMAIN Encoding \ {"SLLI_32", "SRLI_32", "SRAI_32"}
                 ELSE DOMAIN Encoding \ {"SLLI", "SRLI", "SRAI"}
        name(n) == CASE n = "SLLI_32" -> "SLLI" [] n = "SRLI_32" -> "SRLI" [] n = "SRAI_32" -> "SRAI" [] OTHER -> n
    IN  outcome # "fetched" /\ half = -1 =>
          {name(n) : n \in {m \in table : Matches(instr, m)}} = {op} \ {"UNDEF"}

\* The operands exec_step will read from the expanded word
Operands ==
    LET i == instr
    IN  CASE op \in {"SLLI", "SRLI", "SRAI"} -> <<i.rd, i.rs1, shamt(i)>>
          [] op \in TypeI -> <<i.rd, i.rs1, I_imm(i)>>
          [] op \in TypeS -> <<i.rs1, i.rs2, S_imm(i)>>
          [] op \in TypeB -> <<i.rs1, i.rs2, B_imm(i)>>
          [] op = "LUI"   -> <<i.rd, U_imm(i)>>
          [] op = "JAL"   -> <<i.rd, J_imm(i)>>
          [] op \in Untyped -> <<>>
          [] OTHER -> <<i.rd, i.rs1, i.rs2>>

\* Bits of w in the order the manual prints an immediate, most significant first
Gather(w, bits, low) ==
    LET value[k \in 0 .. Len(bits)] ==
          IF k = 0 THEN 0 ELSE 2 * value[k - 1] + BIT_SLICE(w, bits[k], bits[k])
    IN  value[Len(bits)] * 2^low
GatherSigned(w, bits, low) == Signed(Gather(w, bits, 0), Len(bits)) * 2^low

\* The compressed instruction set as the RISC-V manual tabulates it:
\* operation and operands, or <<"UNDEF", <<>>>> for reserved and illegal words
RefQuadrant0(w) ==
    LET rd == 8 + ((w \div 4) % 8)
        rs == 8 + ((w \div 128) % 8)
        uimm4 == Gather(w, <<5, 12, 11, 10, 6>>, 2)
        uimm8 == Gather(w, <<6, 5, 12, 11, 10>>, 3)
        spn == Gather(w, <<10, 9, 8, 7, 12, 11, 5, 6>>, 2)
    IN  CASE w \div 8192 = 0 -> IF spn = 0 THEN <<"UNDEF", <<>>>> ELSE <<"ADDI", <<rd, 2, spn>>>>
          [] w \div 8192 = 1 -> <<"FLD", <<rd, rs, uimm8>>>>
          [] w \div 8192 = 2 -> <<"LW", <<rd, rs, uimm4>>>>
          [] w \div 8192 = 3 -> IF arch = "RV32" THEN <<"FLW", <<rd, rs, uimm4>>>> ELSE <<"LD", <<rd, rs, uimm8>>>>
          [] w \div 8192 = 4 -> <<"UNDEF", <<>>>>
          [] w \div 8192 = 5 -> <<"FSD", <<rs, rd, uimm8>>>>
          [] w \div 8192 = 6 -> <<"SW", <<rs, rd, uimm4>>>>
          [] w \div 8192 = 7 -> IF arch = "RV32" THEN <<"FSW", <<rs, rd, uimm4>>>> ELSE <<"SD", <<rs, rd, uimm8>>>>

RefArith(w) ==
    LET rd == 8 + ((w \div 128) % 8)
        rs2 == 8 + ((w \div 4) % 8)
        amount == Gather(w, <<12, 6, 5, 4, 3, 2>>, 0)
        row == <<"SUB", "XOR", "OR", "AND", "SUBW", "ADDW", U, U>>
        o == row[4 * ((w \div 4096) % 2) + ((w \div 32) % 4) + 1]
    IN  CASE (w \div 1024) % 4 = 2 -> <<"ANDI", <<rd, rd, Signed(amount, 6)>>>>
          [] (w \div 1024) % 4 < 2 ->
               IF arch = "RV32" /\ amount >= 32 THEN <<"UNDEF", <<>>>>
               ELSE <<IF (w \div 1024) % 4 = 0 THEN "SRLI" ELSE "SRAI", <<rd, rd, amount>>>>
          [] (w \div 1024) % 4 = 3 -> IF o = U THEN <<U, <<>>>> ELSE <<o, <<rd, rd, rs2>>>>

RefQuadrant1(w) ==
    LET rd == (w \div 128) % 32
        rs == 8 + ((w \div 128) % 8)
        imm == GatherSigned(w, <<12, 6, 5, 4, 3, 2>>, 0)
        sp == GatherSigned(w, <<12, 4, 3, 5, 2, 6>>, 4)
        target == GatherSigned(w, <<12, 8, 10, 9, 6, 7, 2, 11, 5, 4, 3>>, 1)
        offset == GatherSigned(w, <<12, 6, 5, 2, 11, 10, 4, 3>>, 1)
    IN  CASE w \div 8192 = 0 -> <<"ADDI", <<rd, rd, imm>>>>
          [] w \div 8192 = 1 -> IF arch = "RV32" THEN <<"JAL", <<1, target>>>>
                                ELSE IF rd = 0 THEN <<"UNDEF", <<>>>> ELSE <<"ADDIW", <<rd, rd, imm>>>>
          [] w \div 8192 = 2 -> <<"ADDI", <<rd, 0, imm>>>>
          [] w \div 8192 = 3 -> IF imm = 0 THEN <<"UNDEF", <<>>>>
                                ELSE IF rd = 2 THEN <<"ADDI", <<2, 2, sp>>>> ELSE <<"LUI", <<rd, imm * 4096>>>>
          [] w \div 8192 = 4 -> RefArith(w)
          [] w \div 8192 = 5 -> <<"JAL", <<0, target>>>>
          [] w \div 8192 = 6 -> <<"BEQ", <<rs, 0, offset>>>>
          [] w \div 8192 = 7 -> <<"BNE", <<rs, 0, offset>>>>

RefQuadrant2(w) ==
    LET rd == (w \div 128) % 32
        rs2 == (w \div 4) % 32
        amount == Gather(w, <<12, 6, 5, 4, 3, 2>>, 0)
        load4 == Gather(w, <<3, 2, 12, 6, 5, 4>>, 2)
        load8 == Gather(w, <<4, 3, 2, 12, 6, 5>>, 3)
        store4 == Gather(w, <<8, 7, 12, 11, 10, 9>>, 2)
        store8 == Gather(w, <<9, 8, 7, 12, 11, 10>>, 3)
        link == (w \div 4096) % 2
    IN  CASE w \div 8192 = 0 -> IF arch = "RV32" /\ amount >= 32 THEN <<"UNDEF", <<>>>> ELSE <<"SLLI", <<rd, rd, amount>>>>
          [] w \div 8192 = 1 -> <<"FLD", <<rd, 2, load8>>>>
          [] w \div 8192 = 2 -> IF rd = 0 THEN <<"UNDEF", <<>>>> ELSE <<"LW", <<rd, 2, load4>>>>
          [] w \div 8192 = 3 -> IF arch = "RV32" THEN <<"FLW", <<rd, 2, load4>>>>
                                ELSE IF rd = 0 THEN <<"UNDEF", <<>>>> ELSE <<"LD", <<rd, 2, load8>>>>
          [] w \div 8192 = 4 -> (CASE rs2 # 0 -> <<"ADD", <<rd, rd * link, rs2>>>>
                                  [] rs2 = 0 /\ rd # 0 -> <<"JALR", <<link, rd, 0>>>>
                                  [] rs2 = 0 /\ rd = 0 -> IF link = 1 THEN <<"EBREAK", <<>>>> ELSE <<"UNDEF", <<>>>>)
          [] w \div 8192 = 5 -> <<"FSD", <<2, rs2, store8>>>>
          [] w \div 8192 = 6 -> <<"SW", <<2, rs2, store4>>>>
          [] w \div 8192 = 7 -> IF arch = "RV32" THEN <<"FSW", <<2, rs2, store4>>>> ELSE <<"SD", <<2, rs2, store8>>>>

RefExpand(w) == CASE w % 4 = 0 -> RefQuadrant0(w) [] w % 4 = 1 -> RefQuadrant1(w) [] w % 4 = 2 -> RefQuadrant2(w)

\* an ADD or ADDI into x0 has no effect, whichever of the two it is
Effect(e) == IF e[1] \in {"ADD", "ADDI"} /\ e[2][1] = 0 THEN <<"NOP", <<>>>> ELSE e

\* the words where the code departs from the manual: the
\* hint c.add x0, rs2, which decodes as EBREAK, and the RV64 forms C.SUBW
\* and C.ADDW, which decode on RV32 too
Departs(w) ==
    \/ w % 4 = 2 /\ c_opcode(w) = 4 /\ c_b12(w) = 1 /\ c_rd(w) = 0 /\ c_rs2(w) # 0
    \/ arch = "RV32" /\ decode_compressed(w, arch) \in {"C_SUBW", "C_ADDW"}

\* Every one of the 49152 compressed words becomes, through field extraction,
\* immediate scrambling (C_*_IMM), re-packing (InstructionFactory) and the
\* operand accessors (I_imm, S_imm, ...), the operation and the operands the
\* RISC-V manual tabulates, and reserved words become UNDEF.  The expanded
\* word is also one decode_normal reads back as the same operation, except
\* that C_ADDIW leaves an ADDI word behind.
ExpansionMeans ==
    outcome # "fetched" /\ half # -1 /\ ~Departs(half) =>
        /\ Effect(<<op, Operands>>) = Effect(RefExpand(half))
        /\ op # "UNDEF" => decode_normal(instr, arch) = IF op = "ADDIW" THEN "ADDI" ELSE op

\* registers the RV32I operations of exec_step read
Reads ==
    CASE op \in {"SLLI", "SRLI", "SRAI"} \/ op \in TypeI -> {instr.rs1}
      [] op \in TypeB \cup TypeS \cup {n \in DOMAIN RV32Encoding : Encoding[n].op = {51}} -> {instr.rs1, instr.rs2}
      [] OTHER -> {}

\* The coverage bookkeeping of exec_step looks at every register an RV32I or
\* M operation reads, after expansion of compressed forms: no symbolic or
\* tainted operand escapes it because getType files the operation under the
\* wrong type.  (The CSR operations are not typed and are left out.)
OperandsInspected == coverage /\ outcome = "decoded" => Reads \subseteq rops

(* A decoded instruction means what its word does, and the coverage        *)
(* bookkeeping sees its operands: both of the above statements.            *)
OperationsExact == ExpansionMeans /\ OperandsInspected
=============================================================================
