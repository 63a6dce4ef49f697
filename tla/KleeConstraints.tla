-------------------------- MODULE KleeConstraints --------------------------
(***************************************************************************)
(* The path constraints (lib/Expr/Constraints.cpp): a sequence of          *)
(* expressions that are simplified against one another when one is added.  *)
(* The visitors rebuild an expression bottom up (lib/Expr/ExprVisitor.cpp).*)
(***************************************************************************)
EXTENDS KleeExpr
LOCAL INSTANCE SequencesExt

(* ExprReplaceVisitor: src is replaced by dst on the way down and, after   *)
(* the kids were visited, on the way up.                                   *)
ReplacedBy(e, src, dst) == IF e = src THEN dst ELSE e

RECURSIVE Replace(_, _, _)
Replace(e, src, dst) ==
    IF isConst(e) THEN e
    ELSE IF e = src THEN dst
    ELSE ReplacedBy(Rebuilt(e, OnKids(e, LAMBDA k : Replace(k, src, dst))), src, dst)

(* ExprReplaceVisitor2 is a recursive visitor: an expression whose kids    *)
(* changed is visited again before it is looked up.  eqs is the map of     *)
(* simplifyExpr, a function from expressions to constants.                 *)
RECURSIVE ReplaceKnown(_, _)

LookedUp(e, eqs) == IF e \in DOMAIN eqs THEN eqs[e] ELSE e

Revisited(e, new, eqs) == IF new = e THEN e ELSE ReplaceKnown(new, eqs)

ReplaceKnown(e, eqs) ==
    IF isConst(e) THEN e
    ELSE LookedUp(Revisited(e, Rebuilt(e, OnKids(e, LAMBDA k : ReplaceKnown(k, eqs))), eqs),
                  eqs)

(* What a constraint lets simplifyExpr replace, and by what.               *)
Key(c)   == IF HasConstLeft(c, "Eq") THEN Right(c) ELSE c
Known(c) == IF HasConstLeft(c, "Eq") THEN Left(c) ELSE True

(* std::map::insert keeps the first entry of a key.                        *)
Equalities(cs) ==
    [k \in {Key(cs[i]) : i \in DOMAIN cs} |->
        Known(cs[CHOOSE i \in DOMAIN cs :
                     /\ Key(cs[i]) = k
                     /\ \A j \in 1 .. i - 1 : Key(cs[j]) # k])]

simplifyExpr(cs, e) == ReplaceKnown(e, Equalities(cs))

----------------------------------------------------------------------------
(* The constraints under construction; ok is FALSE once the assertion      *)
(* against a false constraint has failed.                                  *)
NoConstraints == [cs |-> <<>>, ok |-> TRUE]

Pushed(m, e) == [m EXCEPT !.cs = Append(@, e)]

RECURSIVE addConstraintInternal(_, _)

Rewritten(m, c, e) == IF e # c THEN addConstraintInternal(m, e) ELSE Pushed(m, c)

rewriteConstraints(m, src, dst) ==
    FoldLeft(LAMBDA acc, c : Rewritten(acc, c, Replace(c, src, dst)),
             [m EXCEPT !.cs = <<>>], m.cs)

addConstraintInternal(m, e) ==
    CASE isConst(e)            -> [m EXCEPT !.ok = @ /\ isTrue(e)]
      [] e.kind = "And"        -> addConstraintInternal(addConstraintInternal(m, Left(e)), Right(e))
      [] HasConstLeft(e, "Eq") -> Pushed(rewriteConstraints(m, Right(e), Left(e)), e)
      [] OTHER                 -> Pushed(m, e)

addConstraint(m, e) == addConstraintInternal(m, simplifyExpr(m.cs, e))
=============================================================================
