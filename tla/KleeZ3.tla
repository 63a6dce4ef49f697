------------------------------- MODULE KleeZ3 -------------------------------
(***************************************************************************)
(* The translation of KLEE's expressions to Z3 terms                       *)
(* (lib/Solver/Z3Builder.cpp).  A term is represented by its sort and its  *)
(* value under an assignment s of the arrays: width 1 is Z3's Bool, any    *)
(* other width a bit vector.  ok is FALSE when an assertion of the         *)
(* translation fails or Z3 would refuse the sorts of the operands.         *)
(***************************************************************************)
EXTENDS KleeExpr

Term(w, v, ok) == [w |-> w, v |-> v % 2^w, ok |-> ok]

IsBV(t) == t.w # Bool

(* eqExpr, bvLtExpr ...: a Bool term from two terms of one sort.           *)
EqTerm(l, r) == Term(Bool, Bit(l.v = r.v), l.ok /\ r.ok /\ l.w = r.w)

(* Z3's bit-vector operators are total: SMT-LIB defines division by zero.  *)
BVOp(k, w, a, b) ==
    IF k \notin Divisions \/ b # 0 THEN ArithValue(k, w, a, b)
    ELSE CASE k = "UDiv" -> -1
           [] k = "SDiv" -> IF Signed(a, w) < 0 THEN 1 ELSE -1
           [] OTHER      -> a

----------------------------------------------------------------------------
(* Shifts are built from extracts and concats; an overshift gives zero.    *)

bvRightShift(t, n) ==
    IF n >= t.w THEN Term(t.w, 0, t.ok) ELSE Term(t.w, t.v \div 2^n, t.ok)

bvLeftShift(t, n) ==
    IF n >= t.w THEN Term(t.w, 0, t.ok) ELSE Term(t.w, t.v * 2^n, t.ok)

constructAShrByConstant(t, n) ==
    IF n >= t.w THEN Term(t.w, 0, t.ok)
    ELSE IF t.v >= 2^(t.w - 1)
    THEN Term(t.w, (2^n - 1) * 2^(t.w - n) + t.v \div 2^n, t.ok)
    ELSE bvRightShift(t, n)

(* A variable amount: one case per amount below the width.  The amount is  *)
(* compared with constants of the width of the shifted term.               *)
bvVarLeftShift(t, n) ==
    Term(t.w, IF n.v < t.w THEN bvLeftShift(t, n.v).v ELSE 0,
         t.ok /\ n.ok /\ n.w = t.w)

bvVarRightShift(t, n) ==
    Term(t.w, IF n.v < t.w THEN bvRightShift(t, n.v).v ELSE 0,
         t.ok /\ n.ok /\ n.w = t.w)

bvVarArithRightShift(t, n) ==
    Term(t.w, IF n.v < t.w THEN constructAShrByConstant(t, n.v).v ELSE 0,
         t.ok /\ n.ok /\ n.w = t.w)

----------------------------------------------------------------------------
(* constructActual, one operator per group of its cases; t is the sequence *)
(* of the terms of e's kids.                                               *)

ConstructConstant(e) == Term(e.width, e.value, TRUE)

(* getInitialArray and readExpr: the element of the array's value.         *)
ConstructRead(e, s) == Term(Byte, s[e.array][e.value + 1], TRUE)

ConstructSelect(t) ==
    Term(t[3].w, IF t[1].v = 1 THEN t[2].v ELSE t[3].v,
         t[1].ok /\ t[2].ok /\ t[3].ok /\ ~IsBV(t[1]) /\ t[2].w = t[3].w)

ConstructConcat(e, t) ==
    Term(e.width, t[1].v * 2^(t[2].w) + t[2].v,
         t[1].ok /\ t[2].ok /\ IsBV(t[1]) /\ IsBV(t[2]))

ConstructExtract(e, t) ==
    Term(e.width, t[1].v \div 2^(e.value), t[1].ok /\ IsBV(t[1]))

ConstructZExt(e, t) ==
    Term(e.width, t[1].v, t[1].ok /\ (IsBV(t[1]) => e.width > t[1].w))

(* Mutant: the extension fills with zeros.                                 *)
ConstructSExtUnsigned(e, t) == Term(e.width, t[1].v, t[1].ok)
ConstructSExt(e, t) ==
    Term(e.width, Signed(t[1].v, t[1].w), t[1].ok /\ (IsBV(t[1]) => t[1].w <= e.width))

(* Add, Sub, Mul, SDiv and SRem; assert "uncanonicalized".                 *)
ConstructArith(e, t) ==
    Term(t[2].w, BVOp(e.kind, t[2].w, t[1].v, t[2].v),
         t[1].ok /\ t[2].ok /\ IsBV(t[2]) /\ t[1].w = t[2].w)

IsPowerOfTwo(v) == \E n \in 0 .. 31 : v = 2^n
IndexOfSingleBit(v) == CHOOSE n \in 0 .. 31 : v = 2^n

(* A constant power of two divides by a shift ...                          *)
ConstructUDiv(e, t) ==
    IF isConst(Right(e)) /\ IsPowerOfTwo(Right(e).value)
    THEN LET q == bvRightShift(t[1], IndexOfSingleBit(Right(e).value))
         IN  Term(q.w, q.v, q.ok /\ IsBV(q))
    ELSE ConstructArith(e, t)

(* ... and its remainder is an extract.                                    *)
ConstructURem(e, t) ==
    IF isConst(Right(e)) /\ IsPowerOfTwo(Right(e).value)
    THEN LET bits == IndexOfSingleBit(Right(e).value)
         IN  Term(t[1].w, t[1].v % 2^bits, t[1].ok /\ IsBV(t[1]) /\ t[1].w > bits)
    ELSE ConstructArith(e, t)

ConstructNot(t) == Term(t[1].w, -1 - t[1].v, t[1].ok)

(* And, Or and Xor exist on both sorts.                                    *)
ConstructBitwise(e, t) ==
    Term(t[2].w, ArithValue(e.kind, t[2].w, t[1].v, t[2].v),
         t[1].ok /\ t[2].ok /\ t[1].w = t[2].w)

ConstructShift(e, t) ==
    LET amount == Right(e).value
        res == CASE e.kind = "Shl"  -> IF isConst(Right(e)) THEN bvLeftShift(t[1], amount)
                                       ELSE bvVarLeftShift(t[1], t[2])
                 [] e.kind = "LShr" -> IF isConst(Right(e)) THEN bvRightShift(t[1], amount)
                                       ELSE bvVarRightShift(t[1], t[2])
                 [] e.kind = "AShr" -> IF isConst(Right(e)) THEN constructAShrByConstant(t[1], amount)
                                       ELSE bvVarArithRightShift(t[1], t[2])
    IN  Term(res.w, res.v, res.ok /\ IsBV(t[1]))

ConstructEq(e, t) ==
    IF IsBV(t[2]) \/ ~isConst(Left(e)) THEN EqTerm(t[1], t[2])
    ELSE IF isTrue(Left(e)) THEN t[2]
    ELSE ConstructNot(<<t[2]>>)

(* Ult, Ule, Slt and Sle; the other comparisons are canonicalized away.    *)
ConstructOrder(e, t) ==
    Term(Bool, CompareValue(e.kind, t[2].w, t[1].v, t[2].v),
         /\ t[1].ok /\ t[2].ok /\ IsBV(t[2]) /\ t[1].w = t[2].w
         /\ e.kind \in {"Ult", "Ule", "Slt", "Sle"})

ConstructActual(e, s, t) ==
    CASE e.kind = "Constant"                -> ConstructConstant(e)
      [] e.kind = "Read"                    -> ConstructRead(e, s)
      [] e.kind = "Select"                  -> ConstructSelect(t)
      [] e.kind = "Concat"                  -> ConstructConcat(e, t)
      [] e.kind = "Extract"                 -> ConstructExtract(e, t)
      [] e.kind = "ZExt"                    -> ConstructZExt(e, t)
      [] e.kind = "SExt"                    -> ConstructSExt(e, t)
      [] e.kind \in {"Add", "Sub", "Mul", "SDiv", "SRem"} -> ConstructArith(e, t)
      [] e.kind = "UDiv"                    -> ConstructUDiv(e, t)
      [] e.kind = "URem"                    -> ConstructURem(e, t)
      [] e.kind = "Not"                     -> ConstructNot(t)
      [] e.kind \in {"And", "Or", "Xor"}    -> ConstructBitwise(e, t)
      [] e.kind \in {"Shl", "LShr", "AShr"} -> ConstructShift(e, t)
      [] e.kind = "Eq"                      -> ConstructEq(e, t)
      [] OTHER                              -> ConstructOrder(e, t)

RECURSIVE Construct(_, _)
Construct(e, s) ==
    ConstructActual(e, s, OnKids(e, LAMBDA k : Construct(k, s)))

(* The assignments under which every constraint holds and expr does not:   *)
(* what Z3Solver::internalRunSolver asks Z3 for (it negates the query).    *)
Z3Models(constraints, expr, assignments) ==
    {s \in assignments : /\ \A c \in constraints : Construct(c, s).v = 1
                         /\ Construct(expr, s).v = 0}
=============================================================================
