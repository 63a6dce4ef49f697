--------------------------- MODULE MCSolverChain ---------------------------
(***************************************************************************)
(* Module SolverChain on bytes of two bits, an array A of two elements and *)
(* an array B of one: 64 inputs.                                           *)
(***************************************************************************)
EXTENDS SolverChain

MCArrays == {"A", "B"}
MCSizeOf(a) == IF a = "A" THEN 2 ELSE 1

A0 == ReadAlloc("A", 0)
A1 == ReadAlloc("A", 1)
B0 == ReadAlloc("B", 0)
W  == TempRead("A", 2)
C(v, w) == Constant(v, w)

Small   == Build("Ult", W, C(6, 4))
Same    == Build("Eq", A0, B0)
High    == Build("Ule", C(2, 2), A1)
IsTwo   == Build("Eq", C(2, 2), B0)
Between == Build("Ult", Build("Add", C(13, 4), W), C(3, 4))
Neg     == Build("Slt", BuildSExt(B0, 4), C(0, 4))
AboveMax == Build("Ult", C(15, 4), W)
Gap     == Build("Ult", Build("Add", C(13, 4), BuildSExt(B0, 4)), C(3, 4))
Either  == Build("Or", Build("Ult", C(2, 2), A1), Same)

MCPaths == {<<>>, <<<<Same, TRUE>>, <<IsTwo, FALSE>>>>,
            <<<<High, TRUE>>, <<Small, FALSE>>>>, <<<<High, TRUE>>, <<Same, FALSE>>>>,
            <<<<AboveMax, FALSE>>>>}

MCConditions == {High, IsTwo, Neg, Between, Either, AboveMax, Gap}
MCValues     == {W, Build("Add", A0, B0)}
=============================================================================
