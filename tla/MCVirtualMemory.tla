-------------------------- MODULE MCVirtualMemory --------------------------
(* Two tables of two entries: the root in page 0, another one in page 1;   *)
(* pages 2 and 3 are memory, no port decodes pages 4 and up.               *)
EXTENDS VirtualMemory, TLC

pte(flags, ppn) == [flags |-> flags, ppn |-> ppn]

MCPorts == <<<<0, 3>>, <<2, 2>>>>

MCTables ==
    {(<<0, 0>> :> a @@ <<0, 1>> :> b @@ <<1, 0>> :> c @@ <<1, 1>> :> d) :
        a \in {pte({"V"}, 1), pte({"V", "R", "W", "X"}, 2), pte({"V", "R"}, 3)},
        b \in {pte({"V"}, 4), pte({"V", "R", "W", "X", "U"}, 2)},
        c \in {pte({"V", "R", "W", "U"}, 3), pte({"V", "X", "U"}, 3)},
        d \in {pte({"V", "R"}, 2), pte({"V", "W"}, 3)}}

MCNewEntries == {pte({}, 0)}
=============================================================================
