------------------------ MODULE ExplorationRefinement ------------------------
(***************************************************************************)
(* The exploration loop implements PathCoverage.  The paths of a program   *)
(* are computed here by running it on every input, without the tree, the   *)
(* solver or the stores that Exploration uses.                             *)
(***************************************************************************)
EXTENDS TestcaseReplay

RECURSIVE PathFrom(_, _, _)
PathFrom(code, g, input) ==
    LET c == Holds(code[g].bv, input) IN
    CASE code[g].op = "br"   -> <<c>> \o PathFrom(code, Succ(code, g, c), input)
      [] code[g].op = "conc" -> PathFrom(code, Succ(code, g, c), input)
      [] OTHER -> << >>

RECURSIVE PointsFrom(_, _, _)
PointsFrom(code, g, input) ==
    IF code[g].op = "br"
    THEN <<g>> \o PointsFrom(code, Succ(code, g, Holds(code[g].bv, input)), input)
    ELSE <<g>>

(* Of guests without concretized branches, this is the path that Takes     *)
(* describes; there is no other, since p and w are determined by i.        *)
ASSUME PathsAreTaken ==
    \A code \in DeterministicPrograms, i \in [Names -> Values] :
        Takes(code, i, PathFrom(code, 1, i), PointsFrom(code, 1, i))

PathsOf == [code \in Programs |-> {PathFrom(code, 1, i) : i \in [Names -> Values]}]

Coverage == INSTANCE PathCoverage WITH
    exact <- Exhaustive(prog),
    todo <- PathsOf[prog] \ {executed[k] : k \in 1..Len(executed)},
    done <- pc \notin {"budget", "sim", "solve"}

(* explore_paths executes every path of the guest exactly once and returns *)
(* only when none is left, whichever nodes getRandomPath picks, whichever  *)
(* assignments the solver finds and whatever rand() returns; of a guest it *)
(* cannot follow, it ends.                                                 *)
ImplementsPathCoverage == Coverage!Spec
=============================================================================
