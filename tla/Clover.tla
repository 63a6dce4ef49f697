------------------------------- MODULE Clover -------------------------------
(***************************************************************************)
(* clover's concolic values (concolic.cpp, bitvector.cpp, solver.cpp), its *)
(* concolic memory (memory.cpp) and the queries a trace is turned into     *)
(* (trace.cpp, solver.cpp).  A concolic value is a concrete constant, an   *)
(* optional symbolic expression and a taint.                               *)
(***************************************************************************)
EXTENDS KleeBuilder, KleeZ3, KleeConstraints
LOCAL INSTANCE SequencesExt

NoSymbolic == MkExpr("None", 0, 0, "", <<>>)

ConcolicValue(taint, con, sym) ==
    [concrete |-> con, symbolic |-> sym, tainted |-> taint]

IsSymbolic(v) == v.symbolic # NoSymbolic
SymbolicOf(v) == IF IsSymbolic(v) THEN v.symbolic ELSE v.concrete
getWidth(v)   == v.concrete.width
getValue(v)   == v.concrete.value

(* BINARY_OPERATOR: the concrete parts are folded, and a symbolic part is  *)
(* built when one of the operands has one.                                 *)
BinaryOperator(k, a, b) ==
    ConcolicValue(a.tainted \/ b.tainted,
                  Build(k, a.concrete, b.concrete),
                  IF IsSymbolic(a) \/ IsSymbolic(b)
                  THEN Build(k, SymbolicOf(a), SymbolicOf(b)) ELSE NoSymbolic)

(* bnot, extract, sext and zext.                                           *)
bnot(v) ==
    ConcolicValue(v.tainted, BuildNot(v.concrete),
                  IF IsSymbolic(v) THEN BuildNot(v.symbolic) ELSE NoSymbolic)

extract(v, o, w) ==
    ConcolicValue(v.tainted, BuildExtract(v.concrete, o, w),
                  IF IsSymbolic(v) THEN BuildExtract(v.symbolic, o, w) ELSE NoSymbolic)

sext(v, w) ==
    ConcolicValue(v.tainted, BuildSExt(v.concrete, w),
                  IF IsSymbolic(v) THEN BuildSExt(v.symbolic, w) ELSE NoSymbolic)

zext(v, w) ==
    ConcolicValue(v.tainted, BuildZExt(v.concrete, w),
                  IF IsSymbolic(v) THEN BuildZExt(v.symbolic, w) ELSE NoSymbolic)

(* Solver::BVC of a literal, and of a named variable of n bytes whose      *)
(* concrete value is v.                                                    *)
BVC(v, w) == ConcolicValue(FALSE, Constant(v, w), NoSymbolic)

BVCNamed(name, n, v) ==
    ConcolicValue(FALSE, Constant(v, n * Byte), TempRead(name, n))

(* Solver::BVC and Solver::BVCToBytes: between values and byte buffers.    *)
BVCBytes(buf) ==
    FoldLeft(LAMBDA v, b : BinaryOperator("Concat", BVC(b, Byte), v),
             BVC(buf[1], Byte), Tail(buf))

Widened(v, n) == IF getWidth(v) < n * Byte THEN zext(v, n * Byte) ELSE v

BVCToBytes(v, n) ==
    [i \in 1 .. n |-> getValue(extract(Widened(v, n), (i - 1) * Byte, Byte))]

----------------------------------------------------------------------------
(* ConcolicMemory: a partial function from addresses to byte-sized values. *)
(* A byte that was never written reads as zero.                            *)

ByteAt(data, a) == IF a \in DOMAIN data THEN data[a] ELSE BVC(0, Byte)

MemLoad(data, addr, n) ==
    LET upTo[i \in 1 .. n] ==
            IF i = 1 THEN ByteAt(data, addr)
            ELSE BinaryOperator("Concat", ByteAt(data, addr + i - 1), upTo[i - 1])
    IN  upTo[n]

MemStore(data, addr, v, n) ==
    LET new == [a \in addr .. addr + n - 1 |->
                    extract(Widened(v, n), (a - addr) * Byte, Byte)]
    IN  [a \in DOMAIN data \cup DOMAIN new |->
            IF a \in DOMAIN new THEN new[a] ELSE data[a]]

----------------------------------------------------------------------------
(* BitVector::eqTrue and eqFalse: the constant is the right operand.       *)

eqTrue(bv)  == CompareAlloc("Eq", bv, True)
eqFalse(bv) == CompareAlloc("Eq", bv, False)
EqCond(bv, cond) == IF cond THEN eqTrue(bv) ELSE eqFalse(bv)

(* Trace::add: the constraint a branch adds to the path.                   *)
AddBranch(m, cond, bv) == addConstraint(m, EqCond(bv, cond))

(* A query of the solver: constraints and an expression.                   *)
Query(cs, e)     == [cs |-> cs, expr |-> e]
negateExpr(q)    == [q EXCEPT !.expr = IsZeroExpr(@)]
QueryObjects(q)  ==
    SymbolicObjects(q.expr) \cup UNION {SymbolicObjects(q.cs[i]) : i \in DOMAIN q.cs}

(* Trace::getQuery.                                                        *)
getQuery(m, bv) == Query(m.cs, simplifyExpr(m.cs, bv))

(* Mutant: the earlier branches are not added.                             *)
newQueryUnconstrained(path) ==
    LET last == path[Len(path)] IN negateExpr(Query(<<>>, EqCond(last[1], last[2])))

(* Trace::newQuery: all branches of the path but the last are constraints, *)
(* the last one, negated, is the expression.  path is a sequence of pairs  *)
(* of a branch expression and its outcome.                                 *)
LastNegated(cs, last) == negateExpr(Query(cs, simplifyExpr(cs, EqCond(last[1], last[2]))))

newQuery(path) ==
    LastNegated(FoldLeft(LAMBDA m, b : AddBranch(m, b[2], b[1]),
                         NoConstraints, SubSeq(path, 1, Len(path) - 1)).cs,
                path[Len(path)])

(* Solver::getAssignment: the query is negated, and the assignments that   *)
(* satisfy it are the models of the negation KLEE may answer with.         *)
ModelsOf(q, assignments) ==
    IF isTrue(q.expr) THEN {}
    ELSE Z3Models({q.cs[i] : i \in DOMAIN q.cs}, q.expr, assignments)

GetAssignment(q, assignments) == ModelsOf(negateExpr(q), assignments)
=============================================================================
