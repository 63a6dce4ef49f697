---------------------------- MODULE KleeFastCex ----------------------------
(***************************************************************************)
(* KLEE's fast counterexample solver (lib/Solver/FastCexSolver.cpp): value *)
(* ranges, the evaluation of an expression over ranges, the propagation of *)
(* what a query says about its array elements, and the answer drawn from   *)
(* it.  A machine word of the code has 64 bits, here Word; an array        *)
(* element has Byte bits.                                                  *)
(*                                                                         *)
(* A range whose computation fails an assertion of the code is Failed; the *)
(* field ok of the data under construction is then FALSE.                  *)
(***************************************************************************)
EXTENDS KleeExpr
LOCAL INSTANCE Bitwise
LOCAL INSTANCE SequencesExt

CONSTANTS
    Word,           \* bits of a uint64_t
    SizeOf(_)       \* the number of elements of an array

ASSUME WordAssumption == Word \in Nat \ {0}

Wrap(x)       == x % 2^Word
MaxOf(bits)   == 2^bits - 1
HasBit(x, i)  == (x \div 2^i) % 2 = 1

----------------------------------------------------------------------------
(* ValueRange.                                                             *)

ValueRange(a, b) == [min |-> a, max |-> b, ok |-> TRUE]
Fixed(v)    == ValueRange(v, v)
EmptyRange  == ValueRange(1, 0)
Failed      == [min |-> 0, max |-> 0, ok |-> FALSE]
FullRange(bits) == ValueRange(0, MaxOf(bits))

isEmpty(r) == r.min > r.max
isFixed(r) == r.min = r.max

MinOf(a, b) == IF a < b THEN a ELSE b
MaxOfTwo(a, b) == IF a > b THEN a ELSE b

set_intersection(r, b) == ValueRange(MaxOfTwo(r.min, b.min), MinOf(r.max, b.max))
set_union(r, b)        == ValueRange(MinOf(r.min, b.min), MaxOfTwo(r.max, b.max))

set_difference(r, b) ==
    IF isEmpty(b) \/ b.min > r.max \/ b.max < r.min THEN r
    ELSE IF b.min <= r.min /\ b.max >= r.max THEN EmptyRange
    ELSE IF b.min <= r.min THEN ValueRange(b.max + 1, r.max)
    ELSE ValueRange(r.min, b.min - 1)

mustEqual(r, b) == isFixed(r) /\ isFixed(b) /\ r.min = b.min
mayEqual(r, b)  == ~isEmpty(set_intersection(r, b))

(* minOR, maxOR, minAND, maxAND: the bits of the bounds are scanned from   *)
(* the top until one bound can be moved without leaving its interval.      *)
Ceil(x, i)  == (x \div 2^(i + 1)) * 2^(i + 1) + 2^i     \* (x | m) & -m, bit i of x clear
Floor(x, i) == (x \div 2^(i + 1)) * 2^(i + 1) + 2^i - 1 \* (x & ~m) | (m - 1), bit i set

minOR(a, b, c, d) ==
    LET scan[i \in -1 .. Word - 1] ==
            IF i = -1 THEN a | c
            ELSE IF ~HasBit(a, i) /\ HasBit(c, i) /\ Ceil(a, i) <= b
            THEN Ceil(a, i) | c
            ELSE IF HasBit(a, i) /\ ~HasBit(c, i) /\ Ceil(c, i) <= d
            THEN a | Ceil(c, i)
            ELSE scan[i - 1]
    IN  scan[Word - 1]

maxOR(a, b, c, d) ==
    LET scan[i \in -1 .. Word - 1] ==
            IF i = -1 THEN b | d
            ELSE IF HasBit(b, i) /\ HasBit(d, i) /\ Floor(b, i) >= a
            THEN Floor(b, i) | d
            ELSE IF HasBit(b, i) /\ HasBit(d, i) /\ Floor(d, i) >= c
            THEN b | Floor(d, i)
            ELSE scan[i - 1]
    IN  scan[Word - 1]

minAND(a, b, c, d) ==
    LET scan[i \in -1 .. Word - 1] ==
            IF i = -1 THEN a & c
            ELSE IF ~HasBit(a, i) /\ ~HasBit(c, i) /\ Ceil(a, i) <= b
            THEN Ceil(a, i) & c
            ELSE IF ~HasBit(a, i) /\ ~HasBit(c, i) /\ Ceil(c, i) <= d
            THEN a & Ceil(c, i)
            ELSE scan[i - 1]
    IN  scan[Word - 1]

maxAND(a, b, c, d) ==
    LET scan[i \in -1 .. Word - 1] ==
            IF i = -1 THEN b & d
            ELSE IF HasBit(b, i) /\ ~HasBit(d, i) /\ Floor(b, i) >= a
            THEN Floor(b, i) & d
            ELSE IF ~HasBit(b, i) /\ HasBit(d, i) /\ Floor(d, i) >= c
            THEN b & Floor(d, i)
            ELSE scan[i - 1]
    IN  scan[Word - 1]

binaryAnd(r, b) ==
    IF isEmpty(r) \/ isEmpty(b) \/ ~r.ok \/ ~b.ok THEN Failed
    ELSE IF isFixed(r) /\ isFixed(b) THEN Fixed(r.min & b.min)
    ELSE ValueRange(minAND(r.min, r.max, b.min, b.max), maxAND(r.min, r.max, b.min, b.max))

binaryOr(r, b) ==
    IF isEmpty(r) \/ isEmpty(b) \/ ~r.ok \/ ~b.ok THEN Failed
    ELSE IF isFixed(r) /\ isFixed(b) THEN Fixed(r.min | b.min)
    ELSE ValueRange(minOR(r.min, r.max, b.min, b.max), maxOR(r.min, r.max, b.min, b.max))

(* The smallest 0 .. 2^k - 1 that holds both maxima.                       *)
binaryXor(r, b) ==
    IF isFixed(r) /\ isFixed(b) THEN Fixed(r.min ^^ b.min)
    ELSE LET t == r.max | b.max
         IN  ValueRange(0, MaxOf(CHOOSE k \in 1 .. Word : t < 2^k /\ t >= 2^(k - 1)))

concat(r, b, bits) == binaryOr(ValueRange(Wrap(r.min * 2^bits), Wrap(r.max * 2^bits)), b)

extractRange(r, lo, hi) ==
    binaryAnd(ValueRange(r.min \div 2^lo, r.max \div 2^lo), Fixed(MaxOf(hi - lo)))

minSigned(r, bits) == IF r.max >= 2^(bits - 1) THEN -(2^(bits - 1)) ELSE r.min

maxSigned(r, bits) ==
    IF r.min < 2^(bits - 1) /\ r.max >= 2^(bits - 1) THEN 2^(bits - 1) - 1
    ELSE Signed(r.max, bits)

----------------------------------------------------------------------------
(* ExprRangeEvaluator::evaluate with CexRangeEvaluator's reads: what can   *)
(* be said of an expression when nothing is known of the arrays.           *)

Decided(yes, no, e) ==
    IF yes THEN Fixed(1) ELSE IF no THEN Fixed(0) ELSE FullRange(e.width)

RangeCompare(e, l, r) ==
    LET w == Left(e).width IN
    IF ~l.ok \/ ~r.ok \/ (e.kind \in {"Slt", "Sle"} /\ MaxOfTwo(l.max, r.max) >= 2^w)
    THEN Failed
    ELSE CASE e.kind = "Eq"  -> Decided(mustEqual(l, r), ~mayEqual(l, r), e)
           [] e.kind = "Ult" -> Decided(l.max < r.min, l.min >= r.max, e)
           [] e.kind = "Ule" -> Decided(l.max <= r.min, l.min > r.max, e)
           [] e.kind = "Slt" -> Decided(maxSigned(l, w) < minSigned(r, w),
                                        minSigned(l, w) >= maxSigned(r, w), e)
           [] e.kind = "Sle" -> Decided(maxSigned(l, w) <= minSigned(r, w),
                                        minSigned(l, w) > maxSigned(r, w), e)
           [] OTHER          -> Failed

RangeOf(e, k) ==
    CASE e.kind = "Constant" -> Fixed(e.value)
      [] e.kind = "Read"     -> FullRange(Byte)
      [] e.kind = "Select"   ->
            IF mustEqual(k[1], Fixed(1)) THEN k[2]
            ELSE IF mustEqual(k[1], Fixed(0)) THEN k[3]
            ELSE set_union(k[2], k[3])
      [] e.kind = "Concat"   -> concat(concat(Fixed(0), k[1], Byte), k[2], Byte)
      [] e.kind = "And"      -> binaryAnd(k[1], k[2])
      [] e.kind = "Or"       -> binaryOr(k[1], k[2])
      [] e.kind = "Xor"      -> binaryXor(k[1], k[2])
      [] e.kind \in Comparisons -> RangeCompare(e, k[1], k[2])
      [] OTHER               -> FullRange(e.width)

RECURSIVE evalRange(_)
evalRange(e) == RangeOf(e, OnKids(e, evalRange))

----------------------------------------------------------------------------
(* CexData: for each array met so far and each of its elements, the        *)
(* possible and the exact values.                                          *)

NoData == [possible |-> <<>>, exact |-> <<>>, ok |-> TRUE]

getObjectData(cd, a) ==
    IF a \in DOMAIN cd.possible THEN cd
    ELSE LET fresh == [i \in 1 .. SizeOf(a) |-> FullRange(Byte)]
             with(f) == [x \in DOMAIN f \cup {a} |-> IF x = a THEN fresh ELSE f[x]]
         IN  [cd EXCEPT !.possible = with(@), !.exact = with(@)]

Asserted(cd, holds) == [cd EXCEPT !.ok = @ /\ holds]

(* A fixed range replaces what was known of the element, another one       *)
(* narrows it.                                                             *)
PossibleRead(cd, e, r) ==
    LET d   == getObjectData(cd, e.array)
        tmp == set_intersection(d.possible[e.array][e.value + 1], r)
    IN  IF isFixed(r) THEN [d EXCEPT !.possible[e.array][e.value + 1] = Fixed(r.min % 2^Byte)]
        ELSE IF isEmpty(tmp) THEN d
        ELSE [d EXCEPT !.possible[e.array][e.value + 1] = tmp]

(* The output of a sign extension without its impossible values.           *)
SExtInput(r, in, out) ==
    binaryAnd(set_difference(r, ValueRange(2^(in - 1), MaxOf(out) - MaxOf(in - 1) - 1)),
              Fixed(MaxOf(in)))

ShiftedRange(r, c) ==
    ValueRange((r.min - c.value) % 2^c.width, (r.max - c.value) % 2^c.width)

(* What Ult and Ule say of their other operand when one is fixed.          *)
AboveLeft(e, want, v) ==
    IF e.kind = "Ult"
    THEN IF want THEN ValueRange(v + 1, MaxOf(Right(e).width)) ELSE ValueRange(0, v)
    ELSE IF want THEN ValueRange(v, MaxOf(Right(e).width)) ELSE ValueRange(0, Wrap(v - 1))

BelowRight(e, want, v) ==
    IF e.kind = "Ult"
    THEN IF want THEN ValueRange(0, Wrap(v - 1)) ELSE ValueRange(v, MaxOf(Right(e).width))
    ELSE IF want THEN ValueRange(0, v) ELSE ValueRange(v + 1, MaxOf(Right(e).width))

Apart(c) == IF c.value = 0 THEN ValueRange(1, MaxOf(c.width)) ELSE ValueRange(0, c.value - 1)

RECURSIVE propogatePossibleValues(_, _, _)

SelectOn(cd, e, r, cond) ==
    IF isFixed(cond)
    THEN propogatePossibleValues(Asserted(cd, cond.ok), e.kids[IF cond.min = 1 THEN 2 ELSE 3], r)
    ELSE propogatePossibleValues(
             propogatePossibleValues(Asserted(cd, cond.ok), e.kids[2], r), e.kids[3], r)

PossibleSelect(cd, e, r) == SelectOn(cd, e, r, evalRange(e.kids[1]))

ConcatOn(cd, e, hi, lo) ==
    propogatePossibleValues(
        propogatePossibleValues(Asserted(cd, hi.ok /\ lo.ok), Left(e), hi), Right(e), lo)

PossibleConcat(cd, e, r) ==
    ConcatOn(cd, e, extractRange(r, Right(e).width, 2 * Right(e).width),
             extractRange(r, 0, Right(e).width))

(* And that must be false, Or that must be true: the left operand is       *)
(* forced, and the right one too unless the left is decided.  The other    *)
(* way round both operands are forced.                                     *)
JunctionOn(d, e, want, l, r) ==
    LET dl    == propogatePossibleValues(d, Left(e), Fixed(want))
        dr(x) == propogatePossibleValues(x, Right(e), Fixed(want))
        isL   == mustEqual(l, Fixed(want))
        isR   == mustEqual(r, Fixed(want))
    IN  CASE want = (IF e.kind = "And" THEN 1 ELSE 0) /\ isR -> IF isL THEN d ELSE dl
          [] want = (IF e.kind = "And" THEN 1 ELSE 0) /\ ~isR -> dr(IF isL THEN d ELSE dl)
          [] OTHER -> IF isL \/ isR THEN d
                      ELSE IF mustEqual(l, Fixed(1)) THEN dl ELSE dr(dl)

OnRanges(On(_, _, _, _, _), cd, e, want, l, r) ==
    On(Asserted(cd, l.ok /\ r.ok), e, want, l, r)

PossibleJunction(cd, e, want) ==
    OnRanges(JunctionOn, cd, e, want, evalRange(Left(e)), evalRange(Right(e)))

PossibleEq(cd, e, want) ==
    IF ~isConst(Left(e)) THEN cd
    ELSE propogatePossibleValues(cd, Right(e),
             IF want THEN Fixed(Left(e).value) ELSE Apart(Left(e)))

OrderOn(d, e, want, l, r) ==
    IF isFixed(l) THEN propogatePossibleValues(d, Right(e), AboveLeft(e, want, l.min))
    ELSE IF isFixed(r) THEN propogatePossibleValues(d, Left(e), BelowRight(e, want, r.min))
    ELSE d

PossibleOrder(cd, e, want) ==
    OnRanges(OrderOn, cd, e, want, evalRange(Left(e)), evalRange(Right(e)))

propogatePossibleValues(cd, e, r) ==
    CASE ~cd.ok -> cd
      [] e.kind = "Read"   -> PossibleRead(cd, e, r)
      [] e.kind = "Select" -> PossibleSelect(cd, e, r)
      [] e.kind = "Concat" -> PossibleConcat(cd, e, r)
      [] e.kind = "ZExt"   ->
            propogatePossibleValues(cd, Left(e), set_intersection(r, FullRange(Left(e).width)))
      [] e.kind = "SExt"   ->
            LET in == SExtInput(r, Left(e).width, e.width)
            IN  propogatePossibleValues(Asserted(cd, in.ok), Left(e), in)
      [] e.kind = "Add" /\ isConst(Left(e)) ->
            IF isEmpty(r) \/ isEmpty(ShiftedRange(r, Left(e))) THEN cd
            ELSE propogatePossibleValues(cd, Right(e), ShiftedRange(r, Left(e)))
      [] e.kind \in {"And", "Or"} /\ e.width = Bool /\ isFixed(r) ->
            PossibleJunction(cd, e, r.min)
      [] e.kind = "Eq" /\ isFixed(r) -> PossibleEq(cd, e, r.min # 0)
      [] e.kind = "Not" /\ e.width = Bool /\ isFixed(r) ->
            propogatePossibleValues(cd, Left(e), Fixed(Bit(r.min = 0)))
      [] e.kind \in {"Ult", "Ule"} /\ isFixed(r) -> PossibleOrder(cd, e, r.min # 0)
      [] e.kind \in {"Ne", "Ugt", "Uge", "Sgt", "Sge"} -> Asserted(cd, FALSE)
      [] OTHER -> cd

(* propogateExactValues: only what the equalities of a query force.        *)
ExactRead(cd, e, r) ==
    LET d   == getObjectData(cd, e.array)
        cvd == d.exact[e.array][e.value + 1]
        lo  == IF r.min > cvd.min THEN ValueRange(r.min, cvd.max) ELSE cvd
        new == IF r.max < lo.max THEN ValueRange(lo.min, r.max) ELSE lo
    IN  Asserted([d EXCEPT !.exact[e.array][e.value + 1] = new],
                 r.min <= cvd.max /\ r.max >= lo.min)

RECURSIVE propogateExactValues(_, _, _)
propogateExactValues(cd, e, r) ==
    CASE ~cd.ok -> cd
      [] e.kind = "Read" -> ExactRead(cd, e, r)
      [] e.kind = "Eq" /\ isFixed(r) /\ isConst(Left(e)) ->
            IF r.min # 0 THEN propogateExactValues(cd, Right(e), Fixed(Left(e).value))
            ELSE IF Right(e).width = Bool
            THEN propogateExactValues(cd, Right(e), Fixed(Bit(Left(e).value = 0)))
            ELSE cd
      [] e.kind = "Not" /\ e.width = Bool /\ isFixed(r) ->
            propogateExactValues(cd, Left(e), Fixed(Bit(r.min = 0)))
      [] e.kind \in {"Ne", "Ugt", "Uge", "Sgt", "Sge"} -> Asserted(cd, FALSE)
      [] OTHER -> cd

----------------------------------------------------------------------------
(* CexObjectData::getPossibleValue and CexPossibleEvaluator: the middle of *)
(* an element's range, or of all values when its array was never met.      *)
PossibleValue(cd, a, i) ==
    IF a \notin DOMAIN cd.possible THEN 2^(Byte - 1) - 1
    ELSE LET r == cd.possible[a][i] IN r.min + (r.max - r.min) \div 2

PossibleAssignment(cd, arrays) ==
    [a \in arrays |-> [i \in 1 .. SizeOf(a) |-> PossibleValue(cd, a, i)]]

evaluatePossible(cd, e) == Evaluate(e, PossibleAssignment(cd, SymbolicObjects(e)))

(* CexExactEvaluator: an element that is not known stays a read.           *)
RECURSIVE evaluateExact(_, _)
evaluateExact(cd, e) ==
    IF isConst(e) THEN e
    ELSE IF e.kind = "Read"
    THEN IF e.array \in DOMAIN cd.exact /\ isFixed(cd.exact[e.array][e.value + 1])
         THEN Constant(cd.exact[e.array][e.value + 1].min, Byte) ELSE e
    ELSE Rebuilt(e, SafeKids(e, OnKids(e, LAMBDA k : evaluateExact(cd, k))))

Propagate(cd, e, v) ==
    propogateExactValues(propogatePossibleValues(cd, e, Fixed(v)), e, Fixed(v))

(* propogateValues with checkExpr: valid, invalid with a counterexample,   *)
(* or undecided.                                                           *)
Satisfying(cd, q) ==
    /\ isFalse(evaluatePossible(cd, q.expr))
    /\ \A i \in DOMAIN q.cs : isTrue(evaluatePossible(cd, q.cs[i]))

Valid(cd, q) ==
    \/ isTrue(evaluateExact(cd, q.expr))
    \/ \E i \in DOMAIN q.cs : isFalse(evaluateExact(cd, q.cs[i]))

Conclude(cd, q) ==
    [cd     |-> cd,
     result |-> IF ~cd.ok THEN "none"
                ELSE IF Valid(cd, q) THEN "valid"
                ELSE IF Satisfying(cd, q) THEN "invalid" ELSE "none"]

propogateValues(q) ==
    Conclude(FoldLeft(LAMBDA cd, x : Propagate(cd, x[1], x[2]), NoData,
                      Append([i \in DOMAIN q.cs |-> <<q.cs[i], 1>>], <<q.expr, 0>>)), q)

(* FastCexSolver::computeInitialValues: success, whether there is a        *)
(* counterexample, and the values of the objects asked for.                *)
Answer(p, objects) ==
    [ok          |-> p.result # "none",
     hasSolution |-> p.result = "invalid",
     values      |-> IF p.result = "invalid" THEN PossibleAssignment(p.cd, objects) ELSE <<>>,
     asserts     |-> p.cd.ok]

FastInitialValues(q, objects) == Answer(propogateValues(q), objects)
=============================================================================
