---------------------------- MODULE SolverChain ----------------------------
(***************************************************************************)
(* The solver chain clover builds on Z3 (symex/clover/solver.cpp):         *)
(*                                                                         *)
(*   IndependentSolver - CachingSolver - CexCachingSolver -                *)
(*   StagedSolver(FastCexSolver, Z3Solver)                                 *)
(*                                                                         *)
(* A layer maps a question and the state of the caches to the set of its   *)
(* possible outcomes: ok is FALSE when the core solver timed out, st is    *)
(* the state it leaves behind.  A question may be answered differently     *)
(* only because Z3 may return any model or time out, and because a lookup  *)
(* may meet any of several cached assignments first.                       *)
(***************************************************************************)
EXTENDS KleeFastCex, Clover
LOCAL INSTANCE SequencesExt
LOCAL INSTANCE FiniteSetsExt

CONSTANTS
    Arrays,         \* the names of the symbolic arrays
    Paths,          \* the paths (sequences of branch and outcome) a query is asked on
    Conditions,     \* the expressions of evaluate and mustBeTrue
    Values,         \* the expressions of getValue
    MaxCalls        \* bound: calls of the solver in one execution

VARIABLES
    st,             \* the caches, whether the assertions of the layers above
                    \* FastCexSolver held, and whether one of its own failed
    calls,          \* calls made so far
    last,           \* the last call and its answer
    answered        \* the questions that were answered

vars == <<st, calls, last, answered>>

(* An Assignment, and the null pointer that stands for unsatisfiability.   *)
Assignment(b) == [sat |-> TRUE, bindings |-> b]
Null          == [sat |-> FALSE, bindings |-> <<>>]

Assignments == [Arrays -> UNION {[1 .. SizeOf(a) -> 0 .. 2^Byte - 1] : a \in Arrays}]
Inputs      == {s \in Assignments : \A a \in Arrays : Len(s[a]) = SizeOf(a)}

ConstraintsOf(q) == {q.cs[i] : i \in DOMAIN q.cs}
withFalse(q)     == [q EXCEPT !.expr = False]

Outcome(ok, res, s) == [ok |-> ok, res |-> res, st |-> s]
Check(s, holds)     == [s EXCEPT !.asserts = @ /\ holds]

(* Assignment::evaluate and satisfies: an unbound array is zero.           *)
Zeros(a)      == [i \in 1 .. SizeOf(a) |-> 0]
Bound(b, a)   == IF a \in DOMAIN b.bindings THEN b.bindings[a] ELSE Zeros(a)
Completed(b)  == [a \in Arrays |-> Bound(b, a)]
EvalIn(b, e)  == Evaluate(e, Completed(b))
satisfies(b, key) == \A e \in key : isTrue(EvalIn(b, e))

----------------------------------------------------------------------------
(* Z3SolverImpl::internalRunSolver and handleSolverResponse.  Of the       *)
(* models of a satisfiable query Z3 returns the least or the greatest one. *)

Rank(s) ==
    FoldLeft(LAMBDA n, x : n * 2^Byte + x, 0,
             FoldLeft(LAMBDA all, a : all \o s[a], <<>>, SetToSeq(Arrays)))

Extremes(S) ==
    LET ranks == {Rank(s) : s \in S} IN {s \in S : Rank(s) \in {Min(ranks), Max(ranks)}}

Responses(models, objects, s) ==
    IF models = {} THEN {Outcome(TRUE, Null, s)}
    ELSE {Outcome(TRUE, Assignment([a \in objects |-> m[a]]), s) : m \in Extremes(models)}

Z3InitialValues(q, objects, s, live) ==
    {Outcome(FALSE, Null, s)} \cup
    IF live THEN Responses(Z3Models(ConstraintsOf(q), q.expr, Inputs), objects, s) ELSE {}

(* StagedSolverImpl::computeInitialValues.  An assertion of FastCexSolver  *)
(* that fails ends the process.                                            *)
Staged(fast, q, objects, s, live) ==
    IF ~fast.asserts THEN {Outcome(FALSE, Null, [s EXCEPT !.aborted = TRUE])}
    ELSE IF fast.ok
    THEN {Outcome(TRUE, IF fast.hasSolution THEN Assignment(fast.values) ELSE Null, s)}
    ELSE Z3InitialValues(q, objects, s, live)

StagedInitialValues(q, objects, s, live) ==
    Staged(FastInitialValues(q, objects), q, objects, s, live)

----------------------------------------------------------------------------
(* CexCachingSolver: assignments, or Null, by sets of constraints.         *)

(* Mutant: any assignment of a subset is taken.                            *)
NullOrAny(b, key) == TRUE

NullOrSatisfying(b, key) == ~b.sat \/ satisfies(b, key)

searchForAssignment(key, cex) ==
    IF key \in DOMAIN cex THEN {cex[key]}
    ELSE {cex[k] : k \in {k \in DOMAIN cex : k \subseteq key /\ NullOrSatisfying(cex[k], key)}}

NonConst(e) == IF isConst(e) THEN {} ELSE {e}

KeyOf(q) == ConstraintsOf(q) \cup NonConst(IsZeroExpr(q.expr))

lookupAssignment(q, cex) ==
    IF isFalse(IsZeroExpr(q.expr)) THEN {Null} ELSE searchForAssignment(KeyOf(q), cex)

Inserted(f, k, v) == [x \in DOMAIN f \cup {k} |-> IF x = k THEN v ELSE f[x]]

FoundOrSolved(found, key, q, s, live) ==
    IF found # {} THEN {Outcome(TRUE, b, s) : b \in found}
    ELSE {IF o.ok THEN [o EXCEPT !.st.cex = Inserted(@, key, o.res)] ELSE o :
             o \in StagedInitialValues(q, UNION {SymbolicObjects(e) : e \in key}, s, live)}

CexGetAssignment(q, s, live) ==
    FoundOrSolved(lookupAssignment(q, s.cex), KeyOf(q), q, s, live)

(* What follows a question that may have failed.                           *)
Then(outcomes, Next(_)) ==
    UNION {IF o.ok THEN Next(o) ELSE {o} : o \in outcomes}

OtherSide(q, o, yes, live) ==
    Then(CexGetAssignment(IF yes THEN q ELSE negateExpr(q), Check(o.st, o.res.sat), live),
         LAMBDA p : {[p EXCEPT !.res = IF p.res.sat THEN "Unknown"
                                       ELSE IF yes THEN "True" ELSE "False"]})

CexValidity(q, s, live) ==
    Then(CexGetAssignment(withFalse(q), s, live), LAMBDA o :
         OtherSide(q, o, isTrue(EvalIn(o.res, q.expr)), live))

CexTruth(q, s, live) ==
    Then(CexGetAssignment(q, s, live), LAMBDA o : {[o EXCEPT !.res = ~o.res.sat]})

CexValue(q, s, live) ==
    Then(CexGetAssignment(withFalse(q), s, live), LAMBDA o :
         {Outcome(TRUE, EvalIn(o.res, q.expr).value, Check(o.st, o.res.sat))})

CexInitialValues(q, objects, s, live) ==
    Then(CexGetAssignment(q, s, live), LAMBDA o :
         IF ~o.res.sat THEN {o}
         ELSE {[o EXCEPT !.res = Assignment([a \in objects |-> Bound(o.res, a)])]})

----------------------------------------------------------------------------
(* CachingSolver: what is known of the validity of a query, by its         *)
(* constraints and the smaller of its expression and that expression's     *)
(* negation.                                                               *)

negatePartialValidity(p) ==
    CASE p = "MustBeTrue"  -> "MustBeFalse"
      [] p = "MustBeFalse" -> "MustBeTrue"
      [] p = "MayBeTrue"   -> "MayBeFalse"
      [] p = "MayBeFalse"  -> "MayBeTrue"
      [] OTHER             -> p

canonicalizeQuery(e) == CHOOSE x \in {e, IsZeroExpr(e)} : TRUE
Directed(e, p) == IF canonicalizeQuery(e) = e THEN p ELSE negatePartialValidity(p)
CacheEntry(q)  == <<q.cs, canonicalizeQuery(q.expr)>>

cacheLookup(q, s) ==
    IF CacheEntry(q) \in DOMAIN s.cache THEN Directed(q.expr, s.cache[CacheEntry(q)])
    ELSE "None"

(* std::unordered_map::insert keeps the entry that is already there.       *)
cacheInsert(q, p, s) ==
    IF CacheEntry(q) \in DOMAIN s.cache THEN s
    ELSE [s EXCEPT !.cache = Inserted(@, CacheEntry(q), Directed(q.expr, p))]

Remember(q, o, p, res) == {Outcome(TRUE, res, cacheInsert(q, p, o.st))}

ValidityKnown == [MustBeTrue |-> "True", MustBeFalse |-> "False", TrueOrFalse |-> "Unknown"]
KnownOf(res) == CHOOSE p \in DOMAIN ValidityKnown : ValidityKnown[p] = res

(* The other half of what is known: the truth of q or of its negation.     *)
OtherHalf(q, s, live, must) ==
    Then(CexTruth(IF must = "MustBeTrue" THEN q ELSE negateExpr(q), s, live), LAMBDA o :
         IF o.res THEN Remember(q, o, must, ValidityKnown[must])
                  ELSE Remember(q, o, "TrueOrFalse", "Unknown"))

ValidityFrom(known, q, s, live) ==
    IF known \in DOMAIN ValidityKnown THEN {Outcome(TRUE, ValidityKnown[known], s)}
    ELSE IF known \in {"MayBeTrue", "MayBeFalse"}
    THEN OtherHalf(q, s, live, IF known = "MayBeTrue" THEN "MustBeTrue" ELSE "MustBeFalse")
    ELSE Then(CexValidity(q, s, live), LAMBDA o : Remember(q, o, KnownOf(o.res), o.res))

CachingValidity(q, s, live) == ValidityFrom(cacheLookup(q, s), q, s, live)

TruthFrom(known, q, s, live) ==
    IF known \notin {"None", "MayBeTrue"} THEN {Outcome(TRUE, known = "MustBeTrue", s)}
    ELSE Then(CexTruth(q, s, live), LAMBDA o :
              Remember(q, o, IF o.res THEN "MustBeTrue"
                             ELSE IF known = "MayBeTrue" THEN "TrueOrFalse"
                             ELSE "MayBeFalse", o.res))

CachingTruth(q, s, live) == TruthFrom(cacheLookup(q, s), q, s, live)

----------------------------------------------------------------------------
(* IndependentSolver: constraints that share no array element with the     *)
(* query, directly or through others, are left out.                        *)

IndependentElementSet(e) == [elements |-> Reads(e), exprs |-> <<e>>]
intersects(x, y) == x.elements \cap y.elements # {}
add(x, y) == [elements |-> x.elements \cup y.elements, exprs |-> x.exprs \o y.exprs]

(* One pass over the worklist of getIndependentConstraints.                *)
ClosurePass(closure, work) ==
    FoldLeft(LAMBDA acc, c :
                 LET x == IndependentElementSet(c) IN
                 IF intersects(x, acc.closure)
                 THEN [acc EXCEPT !.closure  = add(@, x),
                                  !.required = Append(@, c),
                                  !.done     = @ /\ x.elements \subseteq acc.closure.elements]
                 ELSE [acc EXCEPT !.rest = Append(@, c)],
             [closure |-> closure, required |-> <<>>, rest |-> <<>>, done |-> TRUE], work)

RECURSIVE ClosureLoop(_, _)
ClosureLoop(closure, work) ==
    LET p == ClosurePass(closure, work)
    IN  p.required \o IF p.done THEN <<>> ELSE ClosureLoop(p.closure, p.rest)

getIndependentConstraints(q) == ClosureLoop(IndependentElementSet(q.expr), q.cs)

Restricted(q) == [q EXCEPT !.cs = getIndependentConstraints(q)]

(* One turn of the queue of getAllIndependentConstraintsSets: the first    *)
(* factor absorbs the ones it intersects.                                  *)
Absorb(factors) ==
    FoldLeft(LAMBDA acc, f :
                 IF intersects(acc.current, f)
                 THEN [acc EXCEPT !.current = add(@, f),
                                  !.grew = @ \/ ~(f.elements \subseteq acc.current.elements)]
                 ELSE [acc EXCEPT !.keep = Append(@, f)],
             [current |-> Head(factors), keep |-> <<>>, grew |-> FALSE], Tail(factors))

RECURSIVE FactorPass(_)
FactorPass(factors) ==
    IF factors = <<>> THEN [done |-> <<>>, grew |-> FALSE]
    ELSE LET a == Absorb(factors)
             r == FactorPass(a.keep)
         IN  [done |-> <<a.current>> \o r.done, grew |-> a.grew \/ r.grew]

RECURSIVE FactorLoop(_)
FactorLoop(factors) ==
    LET p == FactorPass(factors) IN IF p.grew THEN FactorLoop(p.done) ELSE p.done

getAllIndependentConstraintsSets(q) ==
    LET neg == IF isConst(q.expr) THEN <<>> ELSE <<IsZeroExpr(q.expr)>>
        es  == neg \o q.cs
    IN  FactorLoop([i \in DOMAIN es |-> IndependentElementSet(es[i])])

ArraysOf(factor) == {x[1] : x \in factor.elements}

(* Mutant: a factor overwrites whole arrays.                               *)
MergedWhole(ret, b, factor) ==
    [a \in DOMAIN ret \cup DOMAIN b |-> IF a \in DOMAIN b THEN b[a] ELSE ret[a]]

(* The values of a factor join those of the factors before it: of an array *)
(* that has values already, only the elements the factor reads change.     *)
Merged(ret, b, factor) ==
    [a \in DOMAIN ret \cup DOMAIN b |->
        IF a \notin DOMAIN b THEN ret[a]
        ELSE IF a \notin DOMAIN ret THEN b[a]
        ELSE [i \in DOMAIN ret[a] |->
                 IF <<a, i - 1>> \in factor.elements THEN b[a][i] ELSE ret[a][i]]]

(* The factors are solved in turn until one fails or is unsatisfiable.     *)
SolveFactor(outcomes, factor, live) ==
    UNION {IF ~o.ok \/ ~o.res.sat \/ ArraysOf(factor) = {} THEN {o}
           ELSE {IF p.ok /\ p.res.sat
                 THEN [p EXCEPT !.res = Assignment(Merged(o.res.bindings, p.res.bindings, factor))]
                 ELSE p :
                    p \in CexInitialValues(Query(factor.exprs, False), ArraysOf(factor), o.st, live)} :
           o \in outcomes}

CreatedPointIsTrue(q, b) ==
    /\ \A c \in ConstraintsOf(q) : isTrue(EvalIn(b, c))
    /\ isTrue(EvalIn(b, IsZeroExpr(q.expr)))

IndependentInitialValues(q, objects, s, live) ==
    Then(FoldLeft(LAMBDA acc, f : SolveFactor(acc, f, live),
                  {Outcome(TRUE, Assignment(<<>>), Check(s, ~isTrue(q.expr)))},
                  getAllIndependentConstraintsSets(q)),
         LAMBDA o :
            IF ~o.res.sat THEN {o}
            ELSE LET values == Assignment([a \in objects |-> Bound(o.res, a)])
                 IN  {Outcome(TRUE, values, Check(o.st, CreatedPointIsTrue(q, values)))})

----------------------------------------------------------------------------
(* klee::Solver, as clover calls it.                                       *)

evaluate(q, s, live) ==
    IF isConst(q.expr) THEN {Outcome(TRUE, IF isTrue(q.expr) THEN "True" ELSE "False", s)}
    ELSE CachingValidity(Restricted(q), s, live)

mustBeTrue(q, s, live) ==
    IF isConst(q.expr) THEN {Outcome(TRUE, isTrue(q.expr), s)}
    ELSE CachingTruth(Restricted(q), s, live)

getValueOf(q, s, live) ==
    IF isConst(q.expr) THEN {Outcome(TRUE, q.expr.value, s)}
    ELSE CexValue(Restricted(q), s, live)

(* clover::Solver::getAssignment.                                          *)
UnlessTrue(q, s, live) ==
    IF isTrue(q.expr) THEN {Outcome(TRUE, Null, s)}
    ELSE IndependentInitialValues(q, QueryObjects(q), s, live)

getAssignment(q, s, live) == UnlessTrue(negateExpr(q), s, live)

Ask(op, q, s, live) ==
    CASE op = "evaluate"      -> evaluate(q, s, live)
      [] op = "mustBeTrue"    -> mustBeTrue(q, s, live)
      [] op = "getValue"      -> getValueOf(q, s, live)
      [] op = "getAssignment" -> getAssignment(q, s, live)

----------------------------------------------------------------------------
(* The path of an execution as Trace::add records it.                      *)
PathConstraints(path) ==
    FoldLeft(LAMBDA m, b : AddBranch(m, b[2], b[1]), NoConstraints, path)

Init ==
    /\ st = [cache |-> <<>>, cex |-> [k \in {} |-> Null], asserts |-> TRUE, aborted |-> FALSE]
    /\ calls = 0
    /\ last = [op |-> "none"]
    /\ answered = {}

Call(op, q, outcomes) ==
    /\ calls < MaxCalls /\ ~st.aborted
    /\ \E o \in outcomes :
          /\ st' = o.st
          /\ last' = [op |-> op, q |-> q, ok |-> o.ok, res |-> o.res]
          /\ answered' = IF o.ok THEN answered \cup {<<op, q>>} ELSE answered
    /\ calls' = calls + 1

(* ISS::eval and RegFile::show on the path so far; Trace::findNewPath's    *)
(* question for the path with its last branch flipped.                     *)
Question(p, e) == getQuery(PathConstraints(p), e)

Evaluates == \E p \in Paths, e \in Conditions : \E q \in {Question(p, e)} :
                 Call("evaluate", q, evaluate(q, st, TRUE))
MustBeTrue == \E p \in Paths, e \in Conditions : \E q \in {Question(p, e)} :
                 Call("mustBeTrue", q, mustBeTrue(q, st, TRUE))
GetsValue == \E p \in Paths, e \in Values : \E q \in {Question(p, e)} :
                 Call("getValue", q, getValueOf(q, st, TRUE))
GetsAssignment == \E p \in {p \in Paths : p # <<>>} : \E q \in {newQuery(p)} :
                 Call("getAssignment", q, getAssignment(q, st, TRUE))

Next == Evaluates \/ MustBeTrue \/ GetsValue \/ GetsAssignment

Spec == Init /\ [][Next]_vars

----------------------------------------------------------------------------
Models(q) == {s \in Inputs : \A c \in ConstraintsOf(q) : isTrue(Evaluate(c, s))}

(* What an answer has to be, from the models of the constraints and those  *)
(* among them in which the expression is true.                             *)
RightValidity(models, trues, res) ==
    res = IF trues = models THEN "True" ELSE IF trues = {} THEN "False" ELSE "Unknown"

RightAssignment(trues, res) == IF res.sat THEN Completed(res) \in trues ELSE trues = {}

RightAnswer(a, models, trues) ==
    CASE a.op = "evaluate"      -> RightValidity(models, trues, a.res)
      [] a.op = "mustBeTrue"    -> a.res = (trues = models)
      [] a.op = "getValue"      -> \E s \in models : Evaluate(a.q.expr, s).value = a.res
      [] a.op = "getAssignment" -> RightAssignment(trues, a.res)

(* Whatever was asked before and however often the core solver timed out,  *)
(* an answer of the chain is the answer of the full constraints: validity  *)
(* is exact, a value is one some input of the path gives the expression,   *)
(* and an assignment runs down the queried path or there is none.          *)
AnswersExact ==
    last.op # "none" /\ last.ok =>
        \E models \in {Models(last.q)} :
            RightAnswer(last, models, {s \in models : isTrue(Evaluate(last.q.expr, s))})

(* A question that was answered once is answered again without the core    *)
(* solver: the branch cache and the counterexample cache keep every answer *)
(* a repeated question of CachingSolver or CexCachingSolver needs.         *)
AnsweredAgain ==
    \A a \in answered : \A o \in Ask(a[1], a[2], st, FALSE) : o.ok

RECURSIVE Parts(_)
Parts(e) == {e} \cup UNION {Parts(e.kids[i]) : i \in DOMAIN e.kids}

(* A comparison that comes out the same for every input.                   *)
Settled(c) ==
    c.kind \in Comparisons /\ Cardinality({Evaluate(c, s) : s \in Inputs}) = 1

(* The chain aborts only over a comparison that no input can decide either *)
(* way, such as Ult(max, x): there FastCexSolver propagates an empty range *)
(* (the overflow its comment at Ult admits), which a Concat or a SExt may  *)
(* not combine.  No other assertion of the layers fails: the constraints   *)
(* of a path always have an assignment (CexCachingSolver), and the point   *)
(* put together from independent factors satisfies the whole query         *)
(* (IndependentSolver).                                                    *)
AbortsOnlyOnSettled ==
    /\ st.asserts
    /\ st.aborted =>
          \E e \in ConstraintsOf(last.q) \cup {last.q.expr} : \E c \in Parts(e) : Settled(c)

(* The caches neither change an answer nor forget one: both of the above   *)
(* statements about answers.                                               *)
CachesSound == AnswersExact /\ AnsweredAgain
=============================================================================
