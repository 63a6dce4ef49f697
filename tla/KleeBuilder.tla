---------------------------- MODULE KleeBuilder ----------------------------
(***************************************************************************)
(* The chain of expression builders clover makes its symbolic values with  *)
(* (lib/Expr/ExprBuilder.cpp, clover's Solver::Solver): a                  *)
(* SimplifyingBuilder over a ConstantFoldingBuilder over the default one,  *)
(* which allocates.  Each of the two upper builders is wrapped in a        *)
(* ConstantSpecializedExprBuilder that folds operations on constants       *)
(* first.  "Builder->" inside a builder calls its own wrapper, "Base->"    *)
(* the builder below.                                                      *)
(***************************************************************************)
EXTENDS KleeExpr

(* DefaultExprBuilder: XExpr::alloc.                                       *)
DefaultBinary(k, l, r) == Alloc(k, l, r)

(* ChainedBuilder: what a builder does not define, its base does.          *)
ChainedFold(k, l, r) == DefaultBinary(k, l, r)

(* ConstantSpecializedExprBuilder: constants are folded before the         *)
(* specialized builder sees them, for the arithmetic operators ...         *)
SpecializedArith(k, l, r, special) ==
    IF isConst(l) /\ isConst(r) THEN ConstBinary(k, l, r) ELSE special

(* ... for the bitwise operators and the shifts ...                        *)
SpecializedBitwise(k, l, r, special) ==
    IF isConst(l) /\ isConst(r) THEN ConstBinary(k, l, r) ELSE special

(* ... and for the comparisons.                                            *)
SpecializedCompare(k, l, r, special) ==
    IF isConst(l) /\ isConst(r) THEN ConstBinary(k, l, r) ELSE special

SpecializedNot(e, special) ==
    IF e.kind = "Not" THEN Left(e)
    ELSE IF isConst(e) THEN ConstNot(e)
    ELSE special

----------------------------------------------------------------------------
(* ConstantFoldingBuilder: sums and differences are reassociated so that   *)
(* their constants meet and end up on the left.                            *)

RECURSIVE FoldSum(_, _, _)

FoldAdd(l, r) == FoldSum("Add", l, r)
FoldSub(l, r) == FoldSum("Sub", l, r)

(* The constant of a sum or difference and the other operand.              *)
HasConst(e)  == isConst(Left(e)) \/ isConst(Right(e))
ConstOf(e)   == IF isConst(Left(e)) THEN Left(e) ELSE Right(e)
RestOf(e)    == IF isConst(Left(e)) THEN Right(e) ELSE Left(e)

AddConst(c, x) ==
    IF isZero(c) THEN x
    ELSE IF x.kind = "Add" /\ HasConst(x)
    THEN FoldAdd(ConstAdd(c, ConstOf(x)), RestOf(x))
    ELSE IF x.kind = "Sub" /\ isConst(Left(x))
    THEN FoldSub(ConstAdd(c, Left(x)), Right(x))
    ELSE IF x.kind = "Sub" /\ isConst(Right(x))
    THEN FoldAdd(ConstSub(c, Right(x)), Left(x))
    ELSE DefaultBinary("Add", c, x)

AddFold(l, r) ==
    IF l.kind = "Add" THEN FoldAdd(Left(l), FoldAdd(Right(l), r))
    ELSE IF l.kind = "Sub" THEN FoldAdd(Left(l), FoldSub(r, Right(l)))
    ELSE IF r.kind = "Add" /\ HasConst(r)
    THEN FoldAdd(ConstOf(r), FoldAdd(l, RestOf(r)))
    ELSE IF r.kind = "Sub" /\ isConst(Left(r))
    THEN FoldAdd(Left(r), FoldSub(l, Right(r)))
    ELSE IF r.kind = "Sub" /\ isConst(Right(r))
    THEN FoldAdd(ConstNeg(Right(r)), FoldAdd(l, Left(r)))
    ELSE DefaultBinary("Add", l, r)

SubConst(c, x) ==
    IF x.kind = "Add" /\ HasConst(x)
    THEN FoldSub(ConstSub(c, ConstOf(x)), RestOf(x))
    ELSE IF x.kind = "Sub" /\ isConst(Left(x))
    THEN FoldAdd(ConstSub(c, Left(x)), Right(x))
    ELSE IF x.kind = "Sub" /\ isConst(Right(x))
    THEN FoldSub(ConstAdd(c, Right(x)), Left(x))
    ELSE DefaultBinary("Sub", c, x)

(* Mutant: a constant moved to the other side keeps its sign.              *)
SubFoldKeepsSign(l, r) ==
    IF r.kind = "Add" /\ HasConst(r)
    THEN FoldAdd(ConstOf(r), FoldSub(l, RestOf(r)))
    ELSE DefaultBinary("Sub", l, r)
SubFold(l, r) ==
    IF l.kind = "Add" THEN FoldAdd(Left(l), FoldSub(Right(l), r))
    ELSE IF l.kind = "Sub" THEN FoldSub(Left(l), FoldAdd(Right(l), r))
    ELSE IF r.kind = "Add" /\ HasConst(r)
    THEN FoldAdd(ConstNeg(ConstOf(r)), FoldSub(l, RestOf(r)))
    ELSE IF r.kind = "Sub" /\ isConst(Left(r))
    THEN FoldAdd(ConstNeg(Left(r)), FoldAdd(l, Right(r)))
    ELSE IF r.kind = "Sub" /\ isConst(Right(r))
    THEN FoldAdd(Right(r), FoldSub(l, Left(r)))
    ELSE DefaultBinary("Sub", l, r)

FoldSum(k, l, r) ==
    SpecializedArith(k, l, r,
        IF k = "Sub" /\ isConst(l) THEN SubConst(l, r)
        ELSE IF isConst(l) THEN AddConst(l, r)
        ELSE IF isConst(r) THEN AddConst(IF k = "Sub" THEN ConstNeg(r) ELSE r, l)
        ELSE IF k = "Sub" THEN SubFold(l, r)
        ELSE AddFold(l, r))

(* A product or bitwise operation with its constant c on the left.         *)
MulConst(c, x) ==
    IF isZero(c) THEN c ELSE IF isOne(c) THEN x ELSE DefaultBinary("Mul", c, x)

AndConst(c, x) ==
    IF isZero(c) THEN c ELSE IF isAllOnes(c) THEN x ELSE DefaultBinary("And", c, x)

OrConst(c, x) ==
    IF isZero(c) THEN x ELSE IF isAllOnes(c) THEN c ELSE DefaultBinary("Or", c, x)

XorConst(c, x) == IF isZero(c) THEN x ELSE DefaultBinary("Xor", c, x)

EqConst(c, x) ==
    IF c.width # Bool THEN DefaultBinary("Eq", c, x)
    ELSE IF isTrue(c) THEN x
    ELSE NotAlloc(x)

Commuting == {"Mul", "And", "Or", "Xor", "Eq"}

ConstLeft(k, c, x) ==
    CASE k = "Mul" -> MulConst(c, x)
      [] k = "And" -> AndConst(c, x)
      [] k = "Or"  -> OrConst(c, x)
      [] k = "Xor" -> XorConst(c, x)
      [] k = "Eq"  -> EqConst(c, x)

(* The constant operand of two, and the other one.                         *)
ConstFirst(l, r) == IF isConst(l) THEN l ELSE r
ConstLast(l, r)  == IF isConst(l) THEN r ELSE l

FoldBinary(k, l, r) ==
    IF k \in {"Add", "Sub"} THEN FoldSum(k, l, r)
    ELSE SpecializedBitwise(k, l, r,
             IF k \in Commuting /\ (isConst(l) \/ isConst(r))
             THEN ConstLeft(k, ConstFirst(l, r), ConstLast(l, r))
             ELSE ChainedFold(k, l, r))

FoldNot(e) == SpecializedNot(e, NotAlloc(e))

----------------------------------------------------------------------------
(* SimplifyingBuilder: the operations clover calls.                        *)

SimplifyAnd(l, r) == SpecializedBitwise("And", l, r, FoldBinary("And", l, r))

RECURSIVE BuildNot(_)
BuildNot(e) ==
    SpecializedNot(e,
        IF e.kind = "Or" THEN SimplifyAnd(BuildNot(Left(e)), BuildNot(Right(e)))
        ELSE FoldNot(e))

SimplifyEqBool(c, x) == IF isTrue(c) THEN x ELSE FoldNot(x)

SimplifyEq(l, r) ==
    IF isConst(l) /\ l.width = Bool THEN SimplifyEqBool(l, r)
    ELSE IF isConst(r) /\ r.width = Bool THEN SimplifyEqBool(r, l)
    ELSE IF l = r THEN True
    ELSE FoldBinary("Eq", IF isConst(r) THEN r ELSE l, IF isConst(r) THEN l ELSE r)

(* The comparisons the builders turn round.                                *)
Swapped == [Ugt |-> "Ult", Uge |-> "Ule", Sgt |-> "Slt", Sge |-> "Sle"]

SimplifyCompare(k, l, r) ==
    IF k \in DOMAIN Swapped THEN FoldBinary(Swapped[k], r, l) ELSE FoldBinary(k, l, r)

EqOrNe(k, eq) == IF k = "Ne" THEN BuildNot(eq) ELSE eq

BuildCompare(k, l, r) ==
    SpecializedCompare(k, l, r,
        IF k \in {"Eq", "Ne"} THEN EqOrNe(k, SpecializedCompare("Eq", l, r, SimplifyEq(l, r)))
        ELSE SimplifyCompare(k, l, r))

Build(k, l, r) ==
    IF k \in Comparisons THEN BuildCompare(k, l, r)
    ELSE SpecializedArith(k, l, r, FoldBinary(k, l, r))

(* The remaining operations fold a constant argument and allocate.         *)
BuildExtract(e, o, w) == IF isConst(e) THEN ConstExtract(e, o, w) ELSE ExtractAlloc(e, o, w)
BuildZExt(e, w)       == IF isConst(e) THEN ConstZExt(e, w) ELSE CastAlloc("ZExt", e, w)
BuildSExt(e, w)       == IF isConst(e) THEN ConstSExt(e, w) ELSE CastAlloc("SExt", e, w)
BuildSelect(c, t, f)  == IF isConst(c) THEN (IF isTrue(c) THEN t ELSE f)
                         ELSE SelectAlloc(c, t, f)
=============================================================================
