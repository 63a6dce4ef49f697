----------------------------- MODULE PathCoverage -----------------------------
(***************************************************************************)
(* What a path exploration promises: the feasible paths of the guest are   *)
(* executed one by one, none twice, and the exploration is done when none  *)
(* is left.  Of a guest it cannot follow exactly, or not for long enough,  *)
(* it only promises to come to an end.                                     *)
(***************************************************************************)
VARIABLES exact,  \* the guest can be followed, and time does not run out
          todo,   \* feasible paths not executed yet
          done    \* the exploration has returned

vars == <<exact, todo, done>>

Init == exact \in BOOLEAN /\ todo # {} /\ done = FALSE

Execute == /\ ~done
           /\ \E p \in todo : todo' = todo \ {p}
           /\ UNCHANGED <<exact, done>>

Finish == /\ ~done /\ todo = {}
          /\ done' = TRUE
          /\ UNCHANGED <<exact, todo>>

Abandon == /\ ~done /\ ~exact
           /\ todo' \subseteq todo
           /\ done' = TRUE
           /\ exact' = exact

Next == Execute \/ Finish \/ Abandon

Spec == Init /\ [][Next]_vars /\ WF_vars(Next)
=============================================================================
