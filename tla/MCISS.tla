------------------------------- MODULE MCISS -------------------------------
(***************************************************************************)
(* Module ISS on bytes of two bits, so words of eight, with two symbolic   *)
(* bytes: 16 inputs.  Every opcode of exec_step is in a menu; the ALU      *)
(* program composes any two of them before a branch.                       *)
(***************************************************************************)
EXTENDS ISS

I(op, rd, rs1, rs2, imm) ==
    [op |-> op, rd |-> rd, rs1 |-> rs1, rs2 |-> rs2, imm |-> imm, len |-> 4, csr |-> "mscratch"]

MCNames == <<"A", "B">>

MCStarted == {s \in [{"A", "B"} -> [{1} -> 0 .. 3]] : s["A"][1] + s["B"][1] = 4}

Alu1 == {I(op, 1, 1, 2, 0) : op \in {"ADD", "SUB", "SLT", "SLTU", "XOR", "OR", "AND",
                                     "SLL", "SRL", "SRA"}}
        \cup {I(op, 1, 1, 0, imm) : op \in {"ADDI", "SLTI", "SLTIU", "XORI", "ORI", "ANDI"},
                                    imm \in {1, -3}}
        \cup {I(op, 1, 1, 0, 3) : op \in {"SLLI", "SRLI", "SRAI"}}

Alu2 == {I(op, 3, 2, 1, 0) : op \in {"ADD", "SUB", "SLT", "SLTU", "XOR", "OR", "AND",
                                     "SLL", "SRL", "SRA"}}
        \cup {I(op, 1, 1, 0, imm) : op \in {"ADDI", "SLTI", "SLTIU", "XORI", "ORI", "ANDI"},
                                    imm \in {0, -3}}
        \cup {I(op, 0, 1, 0, 3) : op \in {"SRLI", "SRAI"}}
        \cup {I("LUI", 3, 0, 0, 16), I("AUIPC", 3, 0, 0, 16)}

Branches(a, b, imm) == {I(op, 0, a, b, imm) : op \in DOMAIN BranchOp}

AluProgram == [prv |-> 3, hasC |-> TRUE, sys |-> TRUE,
               menu |-> <<Alu1, Alu2, Branches(1, 3, 8)>>]

PathProgram == [prv |-> 3, hasC |-> TRUE, sys |-> TRUE,
                menu |-> <<Branches(1, 2, 6), {I("ADDI", 3, 1, 0, 1), I("SUB", 3, 2, 1, 0)},
                           Branches(3, 2, 8), Branches(1, 2, 8)>>]

Stores == {I(op, 0, b, 1, imm) : op \in DOMAIN StoreSize, b \in {0, 2}, imm \in {0, 1, 7}}
Loads(b) == {I(op, 3, b, 0, imm) : op \in DOMAIN LoadSize, imm \in {0, 2, 4, 8}}

MemoryProgram == [prv |-> 3, hasC |-> TRUE, sys |-> TRUE,
                  menu |-> <<Stores, Loads(0), {I("ADD", 3, 3, 2, 0), I("SW", 0, 0, 3, 4)}, Loads(0)>>]

LoadProgram == [prv |-> 3, hasC |-> FALSE, sys |-> TRUE,
                menu |-> <<Loads(2), {I("SB", 0, 0, 3, 1), I("SUB", 1, 3, 2, 0)}, Branches(1, 3, 8)>>]

Control == {I("JAL", 3, 0, 0, imm) : imm \in {8, 6, -8}}
           \cup {I("JALR", rd, rs1, 0, imm) : rd \in {0, 3}, rs1 \in {0, 2}, imm \in {9, 16}}
           \cup {I(op, 0, 0, 0, 0) : op \in {"FENCE", "ECALL", "EBREAK", "UNDEF", "MUL"}}
           \cup Branches(1, 2, 6)

Csr == {[I(op, rd, rs1, 0, rs1) EXCEPT !.csr = c] :
           op \in CsrOps, rd \in {0, 2}, rs1 \in {0, 2}, c \in {"mscratch", "mhartid"}}

ControlProgram(p, c, s) == [prv |-> p, hasC |-> c, sys |-> s,
                         menu |-> <<Control \cup Csr, Control \cup Csr>>]

MCPrograms == {AluProgram, PathProgram, MemoryProgram, LoadProgram,
               ControlProgram(3, FALSE, TRUE), ControlProgram(1, TRUE, FALSE),
               ControlProgram(0, TRUE, TRUE)}
=============================================================================
