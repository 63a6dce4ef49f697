-------------------------------- MODULE ISS --------------------------------
(***************************************************************************)
(* The execution of one RV32 instruction on concolic registers and         *)
(* concolic memory (core/rv32/iss.cpp exec_step and run_step, the data     *)
(* accesses of core/rv32/mem.h, symex/symbolic_memory.cpp).  The traps     *)
(* themselves are module Hart's: here a trap ends the behaviour, so that   *)
(* what the trapping instruction did before it is visible.                 *)
(*                                                                         *)
(* Beside the ISS run as many concrete RISC-V machines as there are        *)
(* inputs, one for each assignment of the symbolic bytes, all executing    *)
(* the instructions the ISS executes.  They are what the concolic values   *)
(* stand for.                                                              *)
(*                                                                         *)
(* A register has 4 bytes of Byte bits.  A program gives the privilege     *)
(* level, whether misa has the C extension, whether the platform emulates  *)
(* system calls, and for every step the set of instructions it may execute *)
(* next.                                                                   *)
(***************************************************************************)
EXTENDS Clover
LOCAL INSTANCE Bitwise

CONSTANTS Names,     \* the symbolic bytes, in the order of their addresses
          NumRegs,   \* registers 0 .. NumRegs - 1
          MemSize,   \* bytes of the memory
          Programs,  \* records [prv, hasC, sys, menu]
          Started,   \* the assignments the concrete values may come from
          StartPc    \* the address of the first instruction

VARIABLES program, regs, mem, pc, csr,
          path,      \* the trace's constraint manager
          branches,  \* the branches recorded: pairs of expression and outcome
          outcome,   \* "run", or why the behaviour ended
          step,      \* instructions executed
          input,     \* the assignment whose values are the concrete ones
          ref,       \* the concrete machine of every assignment
          live,      \* the assignments that follow the ISS's path so far
          before,    \* those that did before the last recorded branch
          lost       \* a symbolic address or jump target was concretized

vars == <<program, regs, mem, pc, csr, path, branches, outcome, step,
          input, ref, live, before, lost>>

XLEN  == 4 * Byte
Regs  == 0 .. NumRegs - 1
NameSet == {Names[i] : i \in DOMAIN Names}

(* Every value of the symbolic bytes.                                      *)
Inputs == [NameSet -> [{1} -> 0 .. 2^Byte - 1]]

Word(v)   == v % 2^XLEN
W32(v)    == BVC(v, XLEN)

UserMode       == 0
SupervisorMode == 1
MachineMode    == 3

prv  == program.prv
hasC == program.hasC
a7   == NumRegs - 1     \* the register that has the number of a call

----------------------------------------------------------------------------
(* RegFile.                                                                *)

RegWrite(r, i, v) ==
    [r EXCEPT ![i] = IF getWidth(v) < XLEN THEN zext(v, XLEN) ELSE v]

(* The bits of a shift amount: 5 of 32, log2(XLEN) here.                   *)
ShamtBits == CHOOSE n \in 0 .. XLEN : 2^n = XLEN

RegShamt(i) == zext(extract(regs[i], 0, ShamtBits), XLEN)

----------------------------------------------------------------------------
(* The instructions.  i is [op, rd, rs1, rs2, imm]; the operators give the *)
(* ISS's builder operation for an opcode.                                  *)

ImmOp == [ADDI |-> "Add", SLTI |-> "Slt", SLTIU |-> "Ult",
          XORI |-> "Xor", ORI |-> "Or", ANDI |-> "And"]

RegOp == [ADD |-> "Add", SUB |-> "Sub", SLT |-> "Slt", SLTU |-> "Ult",
          XOR |-> "Xor", OR |-> "Or", AND |-> "And"]

ShiftOp == [SLL |-> "Shl", SRL |-> "LShr", SRA |-> "AShr"]

ShiftImmOp == [SLLI |-> "Shl", SRLI |-> "LShr", SRAI |-> "AShr"]

BranchOp == [BEQ |-> "Eq", BNE |-> "Ne", BLT |-> "Slt",
             BGE |-> "Sge", BLTU |-> "Ult", BGEU |-> "Uge"]

LoadSize  == [LB |-> 1, LH |-> 2, LW |-> 4, LBU |-> 1, LHU |-> 2]
StoreSize == [SB |-> 1, SH |-> 2, SW |-> 4]
CsrOps    == {"CSRRW", "CSRRS", "CSRRC", "CSRRWI", "CSRRSI", "CSRRCI"}

(* What an instruction does to the ISS: the registers and memory it        *)
(* leaves, the next pc, the branch it adds to the trace and how it ended.  *)
Effect(r, m, p) ==
    [regs |-> r, mem |-> m, pc |-> p, csr |-> csr, path |-> path,
     branches |-> branches, outcome |-> "run"]

Ends(e, why) == [e EXCEPT !.outcome = why]

Writes(i, v) == Effect(RegWrite(regs, i.rd, v), mem, Word(pc + i.len))

Traps(i, why) == Ends(Effect(regs, mem, Word(pc + i.len)), why)

(* I_IMM and S_IMM are words already: sext(32) folds to the same constant. *)
Imm(i) == sext(W32(i.imm), XLEN)

ExecImm(i) ==
    Writes(i, BinaryOperator(ImmOp[i.op], regs[i.rs1], Imm(i)))

ExecReg(i) ==
    Writes(i, BinaryOperator(RegOp[i.op], regs[i.rs1], regs[i.rs2]))

ExecShift(i) ==
    Writes(i, BinaryOperator(ShiftOp[i.op], regs[i.rs1], RegShamt(i.rs2)))

ExecShiftImm(i) ==
    Writes(i, BinaryOperator(ShiftImmOp[i.op], regs[i.rs1], W32(i.imm)))

ExecUpper(i) ==
    Writes(i, IF i.op = "LUI" THEN W32(i.imm)
              ELSE BinaryOperator("Add", W32(pc), W32(i.imm)))

(* trap_check_pc_alignment.                                                *)
Misaligned(p) == p % 4 # 0 /\ ~hasC

JumpTo(i, p) ==
    IF Misaligned(p) THEN Ends(Effect(regs, mem, p), "instr_misaligned")
    ELSE Effect(RegWrite(regs, i.rd, W32(pc + i.len)), mem, p)

ExecJal(i) == JumpTo(i, Word(pc + i.imm))

(* Mutant: bit 0 of the target is kept.                                    *)
ExecJalrOdd(i) == JumpTo(i, Word(getValue(regs[i.rs1]) + i.imm))
(* The target is taken from the concrete part, with bit 0 cleared.         *)
ExecJalr(i) ==
    LET t == Word(getValue(regs[i.rs1]) + i.imm) IN JumpTo(i, 2 * (t \div 2))

Address(i) == BinaryOperator("Add", regs[i.rs1], Imm(i))

(* SymbolicMemory::transport_dbg: the access must end inside the memory.   *)
InMemory(a, n) == a + n <= MemSize

StoreAt(i, n, a) ==
    IF a % n # 0 THEN Traps(i, "store_misaligned")
    ELSE IF ~InMemory(a, n) THEN Traps(i, "store_page_fault")
    ELSE Effect(regs, MemStore(mem, a, regs[i.rs2], n), Word(pc + i.len))

ExecStore(i) == StoreAt(i, StoreSize[i.op], getValue(Address(i)))

(* load_word, load_half and load_byte extend the sign, load_uhalf and      *)
(* load_ubyte zeros; a load from a symbolic address taints its result.     *)
Widen(i, v) == IF i.op \in {"LBU", "LHU"} THEN zext(v, XLEN) ELSE sext(v, XLEN)

Tainted(v, t) == IF t THEN [v EXCEPT !.tainted = TRUE] ELSE v

LoadAt(i, n, addr) ==
    IF getValue(addr) % n # 0 THEN Traps(i, "load_misaligned")
    ELSE IF ~InMemory(getValue(addr), n) THEN Traps(i, "load_page_fault")
    ELSE Writes(i, Tainted(Widen(i, MemLoad(mem, getValue(addr), n)), IsSymbolic(addr)))

ExecLoad(i) == LoadAt(i, LoadSize[i.op], Address(i))

(* The branch is recorded after the check of its target's alignment.       *)
BranchOn(res, cond, e) ==
    IF cond /\ Misaligned(e.pc) THEN Ends(e, "instr_misaligned")
    ELSE IF IsSymbolic(res)
    THEN [e EXCEPT !.path = AddBranch(path, cond, res.symbolic),
                   !.branches = Append(@, <<res.symbolic, cond>>)]
    ELSE e

Branch(i, res) ==
    BranchOn(res, getValue(res) = 1,
             Effect(regs, mem, Word(pc + IF getValue(res) = 1 THEN i.imm ELSE i.len)))

ExecBranch(i) == Branch(i, BinaryOperator(BranchOp[i.op], regs[i.rs1], regs[i.rs2]))

(* A call the platform emulates goes on in module GuestSystem.             *)
ExecEcall(i) ==
    Traps(i, IF program.sys /\ getValue(regs[a7]) # 0 THEN "syscall"
             ELSE CASE prv = MachineMode -> "ecall_m"
                    [] prv = SupervisorMode -> "ecall_s"
                    [] prv = UserMode -> "ecall_u")

(* No trap: the instruction ends as any other and the hart stops behind it *)
(* with status HitBreakpoint.                                              *)
ExecEbreak(i) == Ends(Effect(regs, mem, Word(pc + i.len)), "HitBreakpoint")

(* is_invalid_csr_access for the two CSRs of the model: mscratch and the   *)
(* read-only mhartid, both of machine mode.                                *)
is_invalid_csr_access(i, write) == (write /\ i.csr = "mhartid") \/ prv < MachineMode

CsrOperand(i) ==
    IF i.op \in {"CSRRW", "CSRRS", "CSRRC"} THEN getValue(regs[i.rs1]) ELSE i.imm

CsrWrites(i) ==
    \/ i.op \in {"CSRRW", "CSRRWI"}
    \/ i.op \in {"CSRRS", "CSRRC"} /\ i.rs1 # 0
    \/ i.op \in {"CSRRSI", "CSRRCI"} /\ i.imm # 0

CsrNew(i, old) ==
    LET x == CsrOperand(i) IN
    CASE i.op \in {"CSRRW", "CSRRWI"} -> x
      [] i.op \in {"CSRRS", "CSRRSI"} -> ArithValue("Or", XLEN, old, x)
      [] i.op \in {"CSRRC", "CSRRCI"} -> ArithValue("And", XLEN, old, 2^XLEN - 1 - x)

ExecCsr(i) ==
    IF is_invalid_csr_access(i, CsrWrites(i)) THEN Traps(i, "illegal_instr")
    ELSE LET e == IF i.rd # 0 THEN Writes(i, W32(csr[i.csr]))
                  ELSE Effect(regs, mem, Word(pc + i.len))
         IN  IF CsrWrites(i) THEN [e EXCEPT !.csr[i.csr] = CsrNew(i, csr[i.csr])] ELSE e

exec_step(i) ==
    CASE i.op = "UNDEF"              -> Traps(i, "illegal_instr")
      [] i.op \in DOMAIN ImmOp       -> ExecImm(i)
      [] i.op \in DOMAIN RegOp       -> ExecReg(i)
      [] i.op \in DOMAIN ShiftOp     -> ExecShift(i)
      [] i.op \in DOMAIN ShiftImmOp  -> ExecShiftImm(i)
      [] i.op \in {"LUI", "AUIPC"}   -> ExecUpper(i)
      [] i.op = "JAL"                -> ExecJal(i)
      [] i.op = "JALR"               -> ExecJalr(i)
      [] i.op \in DOMAIN StoreSize   -> ExecStore(i)
      [] i.op \in DOMAIN LoadSize    -> ExecLoad(i)
      [] i.op \in DOMAIN BranchOp    -> ExecBranch(i)
      [] i.op = "FENCE"              -> Effect(regs, mem, Word(pc + i.len))
      [] i.op = "ECALL"              -> ExecEcall(i)
      [] i.op = "EBREAK"             -> ExecEbreak(i)
      [] i.op \in CsrOps             -> ExecCsr(i)
      [] OTHER                       -> Traps(i, "unknown_opcode")

----------------------------------------------------------------------------
(* The concrete machines: RV32 on integers modulo 2^XLEN, from the ISA     *)
(* manual and not from the ISS.                                            *)

S(v) == Signed(v, XLEN)

Ecall == <<"ecall_u", "ecall_s", "reserved", "ecall_m">>

RefAlu(op, a, b) ==
    LET n == b % XLEN IN
    CASE op \in {"ADD", "ADDI"}   -> a + b
      [] op = "SUB"               -> a - b
      [] op \in {"SLT", "SLTI"}   -> Bit(S(a) < S(b))
      [] op \in {"SLTU", "SLTIU"} -> Bit(a < b)
      [] op \in {"XOR", "XORI"}   -> a ^^ b
      [] op \in {"OR", "ORI"}     -> a | b
      [] op \in {"AND", "ANDI"}   -> a & b
      [] op \in {"SLL", "SLLI"}   -> a * 2^n
      [] op \in {"SRL", "SRLI"}   -> a \div 2^n
      [] op \in {"SRA", "SRAI"}   -> S(a) \div 2^n

RefTaken(op, a, b) ==
    CASE op = "BEQ"  -> a = b        [] op = "BNE"  -> a # b
      [] op = "BLT"  -> S(a) < S(b)  [] op = "BGE"  -> S(a) >= S(b)
      [] op = "BLTU" -> a < b        [] op = "BGEU" -> a >= b

RefBytes(m, a, n) ==
    LET upTo[k \in 0 .. n] ==
            IF k = 0 THEN 0 ELSE upTo[k - 1] + m.mem[a + k - 1] * 2^(Byte * (k - 1))
    IN  upTo[n]

RefSet(m, i, v, p) ==
    [m EXCEPT !.pc = Word(p), !.regs[i.rd] = IF i.rd = 0 THEN 0 ELSE Word(v)]

RefTrap(m, why) == [m EXCEPT !.outcome = why]

RefJump(m, i, t) ==
    IF t % 4 # 0 /\ ~hasC THEN RefTrap(m, "instr_misaligned")
    ELSE RefSet(m, i, m.pc + i.len, t)

RefStore(m, i) ==
    LET n == StoreSize[i.op]
        a == Word(m.regs[i.rs1] + i.imm)
    IN  IF a % n # 0 THEN RefTrap(m, "store_misaligned")
        ELSE IF a + n > MemSize THEN RefTrap(m, "store_page_fault")
        ELSE [m EXCEPT !.pc = Word(@ + i.len),
                       !.mem = [b \in DOMAIN @ |->
                                   IF b \in a .. a + n - 1
                                   THEN (m.regs[i.rs2] \div 2^(Byte * (b - a))) % 2^Byte
                                   ELSE @[b]]]

RefLoad(m, i) ==
    LET n == LoadSize[i.op]
        a == Word(m.regs[i.rs1] + i.imm)
        v == RefBytes(m, a, n)
    IN  IF a % n # 0 THEN RefTrap(m, "load_misaligned")
        ELSE IF a + n > MemSize THEN RefTrap(m, "load_page_fault")
        ELSE RefSet(m, i, IF i.op \in {"LBU", "LHU"} THEN v ELSE Signed(v, n * Byte),
                    m.pc + i.len)

RefCsr(m, i) ==
    LET old    == m.csr[i.csr]
        x      == IF i.op \in {"CSRRW", "CSRRS", "CSRRC"} THEN m.regs[i.rs1] ELSE i.imm
        source == IF i.op \in {"CSRRS", "CSRRC"} THEN i.rs1 ELSE i.imm
        write  == i.op \in {"CSRRW", "CSRRWI"} \/ source # 0
        new    == CASE i.op \in {"CSRRW", "CSRRWI"} -> x
                    [] i.op \in {"CSRRS", "CSRRSI"} -> old | x
                    [] i.op \in {"CSRRC", "CSRRCI"} -> old - (old & x)
    IN  IF prv # MachineMode \/ (write /\ i.csr = "mhartid")
        THEN RefTrap(m, "illegal_instr")
        ELSE [RefSet(m, i, old, m.pc + i.len) EXCEPT
                  !.csr[i.csr] = IF write THEN new ELSE @]

RefStep(m, i) ==
    LET a == m.regs[i.rs1]
        b == m.regs[i.rs2]
    IN  CASE i.op \in DOMAIN RegOp \cup DOMAIN ShiftOp ->
                 RefSet(m, i, RefAlu(i.op, a, b), m.pc + i.len)
          [] i.op \in DOMAIN ImmOp \cup DOMAIN ShiftImmOp ->
                 RefSet(m, i, RefAlu(i.op, a, Word(i.imm)), m.pc + i.len)
          [] i.op = "LUI"   -> RefSet(m, i, i.imm, m.pc + i.len)
          [] i.op = "AUIPC" -> RefSet(m, i, m.pc + i.imm, m.pc + i.len)
          [] i.op = "JAL"   -> RefJump(m, i, Word(m.pc + i.imm))
          [] i.op = "JALR"  -> RefJump(m, i, 2 * (Word(a + i.imm) \div 2))
          [] i.op \in DOMAIN StoreSize -> RefStore(m, i)
          [] i.op \in DOMAIN LoadSize  -> RefLoad(m, i)
          [] i.op \in DOMAIN BranchOp  ->
                 LET t == IF RefTaken(i.op, a, b) THEN Word(m.pc + i.imm)
                          ELSE Word(m.pc + i.len)
                 IN  IF t % 4 # 0 /\ ~hasC /\ RefTaken(i.op, a, b)
                     THEN RefTrap(m, "instr_misaligned") ELSE [m EXCEPT !.pc = t]
          [] i.op = "FENCE"  -> [m EXCEPT !.pc = Word(@ + i.len)]
          [] i.op = "ECALL"  -> RefTrap(m, IF program.sys /\ m.regs[a7] # 0 THEN "syscall"
                                           ELSE Ecall[prv + 1])
          [] i.op = "EBREAK" -> [m EXCEPT !.pc = Word(@ + i.len), !.outcome = "HitBreakpoint"]
          [] i.op \in CsrOps -> RefCsr(m, i)
          [] i.op = "UNDEF"  -> RefTrap(m, "illegal_instr")
          [] OTHER           -> RefTrap(m, "unknown_opcode")

(* Two machines take the same way out of an instruction.                   *)
SameWay(i, m, n) ==
    i.op \in DOMAIN BranchOp =>
        RefTaken(i.op, m.regs[i.rs1], m.regs[i.rs2])
            = RefTaken(i.op, n.regs[i.rs1], n.regs[i.rs2])

----------------------------------------------------------------------------
(* make_symbolic: the bytes at the first addresses are symbolic, and       *)
(* registers 1 and 2 hold the first two of them.                           *)

SymbolicByte(k, s) == BVCNamed(Names[k], 1, s[Names[k]][1])

InitMem(s) == [a \in 0 .. Len(Names) - 1 |-> SymbolicByte(a + 1, s)]

InitRegs(s) ==
    [r \in Regs |-> CASE r = 1 -> sext(SymbolicByte(1, s), XLEN)
                      [] r = 2 -> zext(SymbolicByte(2, s), XLEN)
                      [] OTHER -> W32(0)]

InitRef(s) ==
    [regs |-> [r \in Regs |-> CASE r = 1 -> Word(Signed(s[Names[1]][1], Byte))
                               [] r = 2 -> s[Names[2]][1]
                               [] OTHER -> 0],
     mem  |-> [a \in 0 .. MemSize - 1 |->
                  IF a < Len(Names) THEN s[Names[a + 1]][1] ELSE 0],
     pc   |-> StartPc, csr |-> [c \in {"mscratch", "mhartid"} |-> 0], outcome |-> "run"]

Init ==
    /\ program \in Programs
    /\ input \in Started
    /\ regs = InitRegs(input)
    /\ mem = InitMem(input)
    /\ pc = StartPc
    /\ csr = [c \in {"mscratch", "mhartid"} |-> 0]
    /\ path = NoConstraints /\ branches = <<>>
    /\ outcome = "run"
    /\ step = 0
    /\ ref = [s \in Inputs |-> InitRef(s)]
    /\ live = Inputs /\ before = Inputs
    /\ lost = FALSE

(* What the ISS takes from the concrete part of a symbolic value.          *)
Concretizes(i) ==
    \/ i.op \in DOMAIN StoreSize \cup DOMAIN LoadSize /\ IsSymbolic(Address(i))
    \/ i.op = "JALR" /\ IsSymbolic(regs[i.rs1])
    \/ i.op \in {"CSRRW", "CSRRS", "CSRRC"} /\ IsSymbolic(regs[i.rs1])
    \/ i.op = "ECALL" /\ program.sys /\ IsSymbolic(regs[a7])

(* A branch on a value that no longer stands for every live input.         *)
Blurs(i) ==
    i.op \in DOMAIN BranchOp /\ (regs[i.rs1].tainted \/ regs[i.rs2].tainted)

(* run_step: the instruction, then the zero register is reset.             *)
Executed(i, e) ==
    /\ regs' = RegWrite(e.regs, 0, W32(0))
    /\ mem' = e.mem /\ pc' = e.pc /\ csr' = e.csr /\ path' = e.path
    /\ branches' = e.branches
    /\ outcome' = e.outcome
    /\ step' = step + 1
    /\ live' = {s \in live : SameWay(i, ref[s], ref[input])}
    /\ before' = IF e.branches = branches THEN before ELSE live
    /\ ref' = [s \in Inputs |-> IF s \in live THEN RefStep(ref[s], i) ELSE ref[s]]
    /\ lost' = (lost \/ Blurs(i)
                 \/ (Concretizes(i) /\ ~(i.op \in DOMAIN LoadSize /\ e.outcome = "run")))
    /\ UNCHANGED <<program, input>>

RunStep(i) == outcome = "run" /\ Executed(i, exec_step(i))

Next == /\ step < Len(program.menu)
        /\ \E i \in program.menu[step + 1] : RunStep(i)

Spec == Init /\ [][Next]_vars

----------------------------------------------------------------------------
(* Properties.                                                             *)

(* The concrete half of the ISS is a RISC-V machine: its registers,        *)
(* memory, CSRs, pc and the way an instruction ends are those of the       *)
(* machine that runs on the input's values.  A trapping instruction has    *)
(* changed neither registers nor memory, and a breakpoint stops the hart   *)
(* behind its instruction.                                                 *)
ConcreteIsRISCV ==
    LET m == ref[input] IN
    /\ \A r \in Regs : getValue(regs[r]) = m.regs[r] /\ getWidth(regs[r]) = XLEN
    /\ \A a \in DOMAIN m.mem : getValue(ByteAt(mem, a)) = m.mem[a]
    /\ csr = m.csr
    /\ outcome = m.outcome
    /\ outcome \in {"run", "HitBreakpoint"} => pc = m.pc

Means(v, s, n) == Evaluate(SymbolicOf(v), s) = Constant(n, getWidth(v))

(* The symbolic half stands for every input: an untainted register or byte *)
(* evaluates, for each input that takes the same path, to what the machine *)
(* of that input holds.  The builders' rewriting, the concolic memory's    *)
(* extracts and concats and the widening of results are all between.       *)
SymbolicMeansInput ==
    ~lost => \A s \in live :
        /\ \A r \in Regs : ~regs[r].tainted => Means(regs[r], s, ref[s].regs[r])
        /\ \A a \in DOMAIN mem : ~mem[a].tainted => Means(mem[a], s, ref[s].mem[a])

(* Z3 is asked about the same values: the translation of every register's  *)
(* expression passes the assertions of Z3Builder and its term has the      *)
(* value ExprEvaluator computes, whatever the input.                       *)
Z3Agrees ==
    \A r \in Regs : IsSymbolic(regs[r]) =>
        \A s \in Inputs :
            LET t == Construct(regs[r].symbolic, s) IN
            t.ok /\ t.w = XLEN /\ Constant(t.v, t.w) = Evaluate(regs[r].symbolic, s)

(* The constraints of the path hold for exactly the inputs that follow it, *)
(* after every simplification of one constraint by the others: what the    *)
(* solver is asked for is a new path, and the path just taken.             *)
PathIsExact ==
    /\ path.ok
    /\ ~lost /\ outcome = "run" =>
        live = {s \in Inputs :
                   \A k \in DOMAIN path.cs : Evaluate(path.cs[k], s) = True}

(* Flipping the last branch asks for exactly the inputs that follow the    *)
(* path up to it and leave it there: newQuery adds the earlier branches as *)
(* constraints, simplifies the last one by them and negates it,            *)
(* getAssignment negates it again, and Z3 is given the translation.        *)
FlipIsExact ==
    ~lost /\ outcome = "run" /\ branches # <<>> =>
        GetAssignment(newQuery(branches), Inputs) = before \ live

(* What the solver is asked is right, about the path taken and the one not *)
(* taken: both of the above.                                               *)
QueriesExact == PathIsExact /\ FlipIsExact
=============================================================================
