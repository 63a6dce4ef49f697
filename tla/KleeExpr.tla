------------------------------ MODULE KleeExpr ------------------------------
(***************************************************************************)
(* KLEE's expressions: their classes (include/klee/Expr/Expr.h), the       *)
(* arithmetic of constants (APInt), the simplifying constructors           *)
(* XExpr::create of lib/Expr/Expr.cpp, the rebuilding of an expression     *)
(* from new kids, and its value under an assignment of the symbolic        *)
(* arrays (lib/Expr/ExprEvaluator.cpp).                                    *)
(*                                                                         *)
(* An expression is a record; two expressions are equal iff they are       *)
(* structurally equal (Expr::compare).  An array element has Byte bits (8  *)
(* in the code).  clover reads its arrays without updates and at constant  *)
(* indices only (Expr::createTempRead), so a Read is an array and an       *)
(* index.                                                                  *)
(***************************************************************************)
EXTENDS Integers, Sequences, FiniteSets
LOCAL INSTANCE Bitwise

CONSTANT Byte

ASSUME ByteAssumption == Byte \in Nat \ {0, 1}

Bool == 1

Comparisons == {"Eq", "Ne", "Ult", "Ule", "Ugt", "Uge", "Slt", "Sle", "Sgt", "Sge"}

MkExpr(k, w, v, a, kids) ==
    [kind |-> k, width |-> w, value |-> v, array |-> a, kids |-> kids]

----------------------------------------------------------------------------
(* The classes: XExpr::alloc and getWidth.                                 *)

Constant(v, w)         == MkExpr("Constant", w, v % 2^w, "", <<>>)
ReadAlloc(a, i)        == MkExpr("Read", Byte, i, a, <<>>)
SelectAlloc(c, t, f)   == MkExpr("Select", t.width, 0, "", <<c, t, f>>)
ConcatAlloc(l, r)      == MkExpr("Concat", l.width + r.width, 0, "", <<l, r>>)
ExtractAlloc(e, o, w)  == MkExpr("Extract", w, o, "", <<e>>)
NotAlloc(e)            == MkExpr("Not", e.width, 0, "", <<e>>)
CastAlloc(k, e, w)     == MkExpr(k, w, 0, "", <<e>>)
BinaryAlloc(k, l, r)   == MkExpr(k, l.width, 0, "", <<l, r>>)
CompareAlloc(k, l, r)  == MkExpr(k, Bool, 0, "", <<l, r>>)

Alloc(k, l, r) ==
    IF k = "Concat" THEN ConcatAlloc(l, r)
    ELSE IF k \in Comparisons THEN CompareAlloc(k, l, r)
    ELSE BinaryAlloc(k, l, r)

(* What F gives for the kids of an expression, in their order.             *)
OnKids(e, F(_)) == SubSeq([i \in DOMAIN e.kids |-> F(e.kids[i])], 1, Len(e.kids))

Left(e)  == e.kids[1]
Right(e) == e.kids[2]

isConst(e)   == e.kind = "Constant"
isZero(e)    == isConst(e) /\ e.value = 0
isOne(e)     == isConst(e) /\ e.value = 1
isAllOnes(e) == isConst(e) /\ e.value = 2^e.width - 1
isTrue(e)    == isConst(e) /\ e.width = Bool /\ e.value = 1
isFalse(e)   == isConst(e) /\ e.width = Bool /\ e.value = 0

True  == Constant(1, Bool)
False == Constant(0, Bool)

----------------------------------------------------------------------------
(* The operations on constants, ConstantExpr::Add ... Sge, as LLVM's APInt *)
(* defines them.  Division by zero is outside APInt's contract and never   *)
(* asked for.                                                              *)

Signed(v, w)   == IF v >= 2^(w - 1) THEN v - 2^w ELSE v
AbsOf(x)       == IF x < 0 THEN -x ELSE x
Quot(x, y)     == IF (x < 0) = (y < 0) THEN AbsOf(x) \div AbsOf(y)
                                      ELSE -(AbsOf(x) \div AbsOf(y))
Bit(b)         == IF b THEN 1 ELSE 0

ArithOn(k, w, a, b, sa, sb) ==
    CASE k = "Add"  -> a + b
      [] k = "Sub"  -> a - b
      [] k = "Mul"  -> a * b
      [] k = "UDiv" -> a \div b
      [] k = "URem" -> a % b
      [] k = "SDiv" -> Quot(sa, sb)
      [] k = "SRem" -> sa - sb * Quot(sa, sb)
      [] k = "And"  -> a & b
      [] k = "Or"   -> a | b
      [] k = "Xor"  -> a ^^ b
      [] k = "Shl"  -> IF b >= w THEN 0 ELSE a * 2^b
      [] k = "LShr" -> IF b >= w THEN 0 ELSE a \div 2^b
      [] k = "AShr" -> IF b >= w THEN (IF sa < 0 THEN -1 ELSE 0) ELSE sa \div 2^b

ArithValue(k, w, a, b) == ArithOn(k, w, a, b, Signed(a, w), Signed(b, w))

CompareOn(k, a, b, sa, sb) ==
    Bit(CASE k = "Eq"  -> a = b     [] k = "Ne"  -> a # b
          [] k = "Ult" -> a < b     [] k = "Ule" -> a <= b
          [] k = "Ugt" -> a > b     [] k = "Uge" -> a >= b
          [] k = "Slt" -> sa < sb   [] k = "Sle" -> sa <= sb
          [] k = "Sgt" -> sa > sb   [] k = "Sge" -> sa >= sb)

CompareValue(k, w, a, b) == CompareOn(k, a, b, Signed(a, w), Signed(b, w))

ConstConcat(l, r) == Constant(l.value * 2^r.width + r.value, l.width + r.width)

ConstBinary(k, l, r) ==
    IF k = "Concat" THEN ConstConcat(l, r)
    ELSE IF k \in Comparisons
    THEN Constant(CompareValue(k, l.width, l.value, r.value), Bool)
    ELSE Constant(ArithValue(k, l.width, l.value, r.value), l.width)

ConstAdd(c, d)        == Constant(c.value + d.value, c.width)
ConstSub(c, d)        == Constant(c.value - d.value, c.width)
ConstExtract(c, o, w) == Constant(Signed(c.value, c.width) \div 2^o, w)
ConstZExt(c, w)       == Constant(c.value, w)
ConstSExt(c, w)       == Constant(Signed(c.value, c.width), w)
ConstNot(c)           == Constant(-1 - c.value, c.width)
ConstNeg(c)           == Constant(-c.value, c.width)

----------------------------------------------------------------------------
(* XExpr::create: constants are folded, constants move to the left of a    *)
(* sum, and the operators on Bool are reduced to And, Or and Eq.           *)

RECURSIVE Create(_, _, _)
RECURSIVE ExtractCreate(_, _, _)
RECURSIVE EqPartialR(_, _)

HasConstLeft(e, k) == e.kind = k /\ isConst(Left(e))

IsZeroExpr(e) == Create("Eq", e, Constant(0, e.width))

ImpliesExpr(hyp, conc) == Create("Or", IsZeroExpr(hyp), conc)

XorPartialR(cl, r) ==
    IF isZero(cl) THEN r
    ELSE IF cl.width = Bool THEN Create("Eq", False, r)
    ELSE BinaryAlloc("Xor", cl, r)

AddPartialR(cl, r) ==
    IF cl.width = Bool THEN Create("Xor", cl, r)
    ELSE IF isZero(cl) THEN r
    ELSE IF HasConstLeft(r, "Add") \/ HasConstLeft(r, "Sub")
    THEN Create(r.kind, Create("Add", cl, Left(r)), Right(r))
    ELSE BinaryAlloc("Add", cl, r)

AddNonConst(l, r) ==
    IF l.width = Bool THEN BinaryAlloc("Xor", l, r)
    ELSE IF HasConstLeft(l, "Add")
    THEN Create("Add", Left(l), Create("Add", Right(l), r))
    ELSE IF HasConstLeft(l, "Sub")
    THEN Create("Add", Left(l), Create("Sub", r, Right(l)))
    ELSE IF HasConstLeft(r, "Add") \/ HasConstLeft(r, "Sub")
    THEN Create("Add", Left(r), Create(r.kind, l, Right(r)))
    ELSE BinaryAlloc("Add", l, r)

SubPartialR(cl, r) ==
    IF cl.width = Bool THEN Create("Xor", cl, r)
    ELSE IF HasConstLeft(r, "Add")
    THEN Create("Sub", Create("Sub", cl, Left(r)), Right(r))
    ELSE IF HasConstLeft(r, "Sub")
    THEN Create("Add", Create("Sub", cl, Left(r)), Right(r))
    ELSE BinaryAlloc("Sub", cl, r)

SubNonConst(l, r) ==
    IF l.width = Bool THEN BinaryAlloc("Xor", l, r)
    ELSE IF l = r THEN Constant(0, l.width)
    ELSE IF HasConstLeft(l, "Add")
    THEN Create("Add", Left(l), Create("Sub", Right(l), r))
    ELSE IF HasConstLeft(l, "Sub")
    THEN Create("Sub", Left(l), Create("Add", Right(l), r))
    ELSE IF HasConstLeft(r, "Add")
    THEN Create("Sub", Create("Sub", l, Right(r)), Left(r))
    ELSE IF HasConstLeft(r, "Sub")
    THEN Create("Sub", Create("Add", l, Right(r)), Left(r))
    ELSE BinaryAlloc("Sub", l, r)

AndPartial(l, cr) ==
    IF isAllOnes(cr) THEN l
    ELSE IF isZero(cr) THEN cr
    ELSE BinaryAlloc("And", l, cr)

OrPartial(l, cr) ==
    IF isAllOnes(cr) THEN cr
    ELSE IF isZero(cr) THEN l
    ELSE BinaryAlloc("Or", l, cr)

MulPartialR(cl, r) ==
    IF cl.width = Bool THEN AndPartial(r, cl)
    ELSE IF isOne(cl) THEN r
    ELSE IF isZero(cl) THEN cl
    ELSE BinaryAlloc("Mul", cl, r)

MulNonConst(l, r) == BinaryAlloc(IF l.width = Bool THEN "And" ELSE "Mul", l, r)

(* Division and remainder of a Bool: the divisor must be 1.                *)
DivRemCreate(k, l, r) ==
    IF l.width # Bool THEN BinaryAlloc(k, l, r)
    ELSE IF k \in {"UDiv", "SDiv"} THEN l
    ELSE False

ShiftCreate(k, l, r) ==
    IF l.width # Bool THEN BinaryAlloc(k, l, r)
    ELSE IF k = "AShr" THEN l
    ELSE Create("And", l, IsZeroExpr(r))

(* UltExpr_create ... SleExpr_create.                                      *)
OrderCreate(k, l, r) ==
    IF l.width # Bool THEN CompareAlloc(k, l, r)
    ELSE CASE k = "Ult" -> Create("And", IsZeroExpr(l), r)
           [] k = "Ule" -> Create("Or", IsZeroExpr(l), r)
           [] k = "Slt" -> Create("And", l, IsZeroExpr(r))
           [] k = "Sle" -> Create("Or", l, IsZeroExpr(r))

EqNonConst(l, r) == IF l = r THEN True ELSE CompareAlloc("Eq", l, r)

(* A constant compared with an expression: negation of a Bool, a cast and  *)
(* a sum or difference with a constant are undone.                         *)
EqBool(cl, r) ==
    IF isTrue(cl) THEN r
    ELSE IF r.kind = "Eq" /\ isFalse(Left(r)) THEN Right(r)
    ELSE IF r.kind = "Or"
    THEN Create("And", IsZeroExpr(Left(r)), IsZeroExpr(Right(r)))
    ELSE EqNonConst(cl, r)

ConstCast(k, c, w) == IF k = "SExt" THEN ConstSExt(c, w) ELSE ConstZExt(c, w)

EqTruncated(cl, r, trunc) ==
    IF cl = ConstCast(r.kind, trunc, cl.width) THEN Create("Eq", Left(r), trunc)
    ELSE False

EqCast(cl, r) == EqTruncated(cl, r, ConstZExt(cl, Left(r).width))

EqPartialR(cl, r) ==
    IF cl.width = Bool THEN EqBool(cl, r)
    ELSE IF r.kind \in {"SExt", "ZExt"} THEN EqCast(cl, r)
    ELSE IF HasConstLeft(r, "Add") THEN EqPartialR(Create("Sub", cl, Left(r)), Right(r))
    ELSE IF HasConstLeft(r, "Sub") THEN EqPartialR(Create("Sub", Left(r), cl), Right(r))
    ELSE EqNonConst(cl, r)

(* BCREATE_R, CMPCREATE_T: one operand, c, is a constant and the other one *)
(* is not.  The partial constructor of another operator is reached through *)
(* that operator's Create.                                                 *)
CreatePartial(k, c, e, constLeft) ==
    CASE k = "Add" -> AddPartialR(c, e)
      [] k = "Sub" -> IF constLeft THEN SubPartialR(c, e)
                      ELSE Create("Add", ConstNeg(c), e)
      [] k = "Mul" -> MulPartialR(c, e)
      [] k = "And" -> AndPartial(e, c)
      [] k = "Or"  -> OrPartial(e, c)
      [] k = "Xor" -> XorPartialR(c, e)
      [] k = "Eq"  -> EqPartialR(c, e)

CreateNonConst(k, l, r) ==
    CASE k = "Add" -> AddNonConst(l, r)
      [] k = "Sub" -> SubNonConst(l, r)
      [] k = "Mul" -> MulNonConst(l, r)
      [] k = "Eq"  -> EqNonConst(l, r)
      [] OTHER     -> BinaryAlloc(k, l, r)

(* ConcatExpr::create merges neighbouring extracts of one expression.      *)
ConcatCreate(l, r) ==
    IF isConst(l) /\ isConst(r) THEN ConstConcat(l, r)
    ELSE IF /\ l.kind = "Extract" /\ r.kind = "Extract"
            /\ Left(l) = Left(r)
            /\ r.value + r.width = l.value
    THEN ExtractCreate(Left(l), r.value, l.width + r.width)
    ELSE ConcatAlloc(l, r)

(* The operators Expr.cpp instantiates BCREATE_R and CMPCREATE_T for.      *)
Partially == {"Add", "Sub", "Mul", "And", "Or", "Xor", "Eq"}

Create(k, l, r) ==
    IF k = "Concat" THEN ConcatCreate(l, r)
    ELSE IF k = "Ne" THEN Create("Eq", False, Create("Eq", l, r))
    ELSE IF k = "Ugt" THEN Create("Ult", r, l)
    ELSE IF k = "Uge" THEN Create("Ule", r, l)
    ELSE IF k = "Sgt" THEN Create("Slt", r, l)
    ELSE IF k = "Sge" THEN Create("Sle", r, l)
    ELSE IF isConst(l) /\ isConst(r) THEN ConstBinary(k, l, r)
    ELSE IF k \in Partially /\ (isConst(l) \/ isConst(r))
    THEN CreatePartial(k, IF isConst(l) THEN l ELSE r,
                       IF isConst(l) THEN r ELSE l, isConst(l))
    ELSE IF k \in Partially THEN CreateNonConst(k, l, r)
    ELSE IF k \in Comparisons THEN OrderCreate(k, l, r)
    ELSE IF k \in {"Shl", "LShr", "AShr"} THEN ShiftCreate(k, l, r)
    ELSE DivRemCreate(k, l, r)

(* ExtractExpr::create narrows an extract to the side of a concat.         *)
ExtractCreate(e, o, w) ==
    IF w = e.width THEN e
    ELSE IF isConst(e) THEN ConstExtract(e, o, w)
    ELSE IF e.kind = "Concat"
    THEN LET rw == Right(e).width IN
         IF o >= rw THEN ExtractCreate(Left(e), o - rw, w)
         ELSE IF o + w <= rw THEN ExtractCreate(Right(e), o, w)
         ELSE ConcatCreate(ExtractCreate(Left(e), 0, w - rw + o),
                           ExtractCreate(Right(e), o, rw - o))
    ELSE ExtractAlloc(e, o, w)

NotCreate(e) == IF isConst(e) THEN ConstNot(e) ELSE NotAlloc(e)

CastCreate(k, e, w) ==
    IF w = e.width THEN e
    ELSE IF w < e.width THEN ExtractCreate(e, 0, w)
    ELSE IF ~isConst(e) THEN CastAlloc(k, e, w)
    ELSE ConstCast(k, e, w)

(* A Bool select with a constant branch is an Or (the constant is true) or *)
(* an And of the other branch and of the condition or its negation.        *)
SelectBool(c, const, other, constFirst) ==
    Create(IF isTrue(const) THEN "Or" ELSE "And",
           IF isTrue(const) = constFirst THEN c ELSE IsZeroExpr(c), other)

SelectCreate(c, t, f) ==
    IF isConst(c) THEN (IF isTrue(c) THEN t ELSE f)
    ELSE IF t = f THEN t
    ELSE IF t.width = Bool /\ (isConst(t) \/ isConst(f))
    THEN SelectBool(c, IF isConst(t) THEN t ELSE f, IF isConst(t) THEN f ELSE t, isConst(t))
    ELSE SelectAlloc(c, t, f)

(* Expr::createTempRead: the bytes of an array of n elements, the last one *)
(* leftmost.                                                               *)
TempRead(a, n) ==
    LET bytes[i \in 1 .. n] ==
            IF i = 1 THEN ReadAlloc(a, 0)
            ELSE ConcatCreate(ReadAlloc(a, i - 1), bytes[i - 1])
    IN  bytes[n]

(* XExpr::rebuild: the same operation on new kids.                         *)
Rebuild(e, kids) ==
    CASE e.kind = "Select"           -> SelectCreate(kids[1], kids[2], kids[3])
      [] e.kind = "Extract"          -> ExtractCreate(kids[1], e.value, e.width)
      [] e.kind = "Not"              -> NotCreate(kids[1])
      [] e.kind \in {"ZExt", "SExt"} -> CastCreate(e.kind, kids[1], e.width)
      [] OTHER                       -> Create(e.kind, kids[1], kids[2])

(* What a visit of e gives: e itself when none of its kids changed.        *)
Rebuilt(e, kids) == IF kids = e.kids THEN e ELSE Rebuild(e, kids)

----------------------------------------------------------------------------
(* ExprEvaluator: a Read takes its value from the assignment s, and the    *)
(* expression is rebuilt from the values of its kids.  A division whose    *)
(* divisor becomes zero keeps its unevaluated divisor.                     *)

Divisions == {"UDiv", "SDiv", "URem", "SRem"}

EvalRead(e, s) == Constant(s[e.array][e.value + 1], Byte)

SafeKids(e, kids) ==
    IF e.kind \in Divisions /\ isZero(kids[2]) THEN [kids EXCEPT ![2] = Right(e)]
    ELSE kids

RECURSIVE Evaluate(_, _)
Evaluate(e, s) ==
    IF isConst(e) THEN e
    ELSE IF e.kind = "Read" THEN EvalRead(e, s)
    ELSE Rebuild(e, SafeKids(e, OnKids(e, LAMBDA k : Evaluate(k, s))))

(* ExprUtil's findSymbolicObjects: the arrays an expression reads.         *)
RECURSIVE SymbolicObjects(_)
SymbolicObjects(e) ==
    IF e.kind = "Read" THEN {e.array}
    ELSE UNION {SymbolicObjects(e.kids[i]) : i \in DOMAIN e.kids}

(* findReads: the elements an expression reads.                            *)
RECURSIVE Reads(_)
Reads(e) ==
    IF e.kind = "Read" THEN {<<e.array, e.value>>}
    ELSE UNION {Reads(e.kids[i]) : i \in DOMAIN e.kids}
=============================================================================
