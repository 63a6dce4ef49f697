--------------------------- MODULE MCExploration ---------------------------
(* Guest programs for model checking Exploration.                          *)
EXTENDS Exploration

Cond(names, P(_)) ==
    [op |-> "br",
     bv |-> [names |-> names, sat |-> {s \in [names -> Values] : P(s)}]]

End(op) == [op |-> op]

X0 == Cond({"x"}, LAMBDA s : s["x"] = 0)
X1 == Cond({"x"}, LAMBDA s : s["x"] < 2)
Y0 == Cond({"y"}, LAMBDA s : s["y"] = 0)
XY == Cond({"x", "y"}, LAMBDA s : s["x"] < s["y"])

Leaf(op, have) == [req |-> {}, have |-> have, op |-> op, bv |-> NoBv,
                   t |-> 0, f |-> 0]
Br(bv, have, t, f) == [req |-> bv.names \ have, have |-> have, op |-> "br",
                       bv |-> bv, t |-> t, f |-> f]

(* Three levels of branches: 1 -> (2, 3), 2 -> (4, 5), 4 -> (6, 7).  A     *)
(* position given an End instead of a condition ends the run there.        *)
Tree(c1, c2, c3, c4) ==
    LET seg(c, have, t, f) == IF c.op = "br" THEN Br(c.bv, have, t, f)
                              ELSE Leaf(c.op, have)
        s1 == seg(c1, {}, 2, 3)
        h1 == s1.have \cup s1.req
        s2 == seg(c2, h1, 4, 5)
        h2 == h1 \cup s2.req
        s4 == seg(c4, h2, 6, 7)
        h4 == h2 \cup s4.req
        s3 == seg(c3, h1, 8, 9)
        h3 == h1 \cup s3.req
    IN <<s1, s2, s3, s4, Leaf("err", h2), Leaf("exit", h4), Leaf("err", h4),
         Leaf("exit", h3), Leaf("err", h3)>>

Conds == {X0, X1, Y0, XY}

DeterministicPrograms ==
    {Tree(c1, c2, c3, c4) : c1 \in {X0, XY}, c2 \in Conds \cup {End("exit")},
                            c3 \in {Y0, End("err")}, c4 \in {XY, End("exit")}}
      \cup {Tree(End("err"), X0, X0, X0)}

(* Guests a concolic run cannot follow: one whose control depends on a     *)
(* concretized value, one that makes the same name symbolic twice, and one *)
(* that executes EBREAK on one of its paths.                               *)
Conc(c, have, t, f) == [Br(c.bv, have, t, f) EXCEPT !.op = "conc"]

Concretizing ==
    <<Conc(XY, {}, 2, 3), Br(X0.bv, {"x", "y"}, 4, 5), Br(Y0.bv, {"x", "y"}, 4, 6),
      Leaf("exit", {"x", "y"}), Leaf("err", {"x", "y"}), Br(X1.bv, {"x", "y"}, 4, 5)>>

Repeating ==
    <<Br(X0.bv, {}, 2, 3), [Br(X1.bv, {"x"}, 4, 5) EXCEPT !.req = {"x"}],
      [Br(X0.bv, {"x"}, 4, 5) EXCEPT !.req = {"x"}], Leaf("exit", {"x"}), Leaf("err", {"x"})>>

Breaking == Tree(X0, Y0, End("brk"), XY)

(* The same guest under time limits, told apart by an unreachable segment. *)
Impatient(code) == Append(code, Leaf("exit", {}))

TimedPrograms ==
    {Concretizing, Repeating, Breaking}
      \cup {Impatient(Tree(c1, Y0, End("err"), c4)) : c1 \in {X0, XY}, c4 \in {X1, End("exit")}}

AllPrograms == DeterministicPrograms \cup TimedPrograms

ASSUME \A code \in DeterministicPrograms : Deterministic(code)
=============================================================================
