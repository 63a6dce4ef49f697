------------------------------ MODULE MCCsrFile ------------------------------
(* The CSRs for TLC: the registers with views and masks are written with   *)
(* all bits and with a pattern that leads to supervisor mode; addresses of *)
(* every kind are read.                                                    *)
EXTENDS CsrFile

MCReads == {\h106, \h302, \h001, \h002, \h003, \h000, \h100, \h300,
            \h004, \h104, \h304, \h044, \h144, \h344, \h141, \h341, \h180, \h301, \h306, \h7A0, \h7A1,
            \hB00, \hB02, \hB82, \hB03, \hC00, \hC01, \hC02, \hC81, \hC1F,
            \hF14, \h3B1, \h105, \h200, \h5C0}
MCWrites == {\h000, \h100, \h300, \h104, \h304, \h144, \h344, \h302, \h002,
             \h180, \h306, \h106, \hC01}
MCWords == {Bits, {1, 5, 11, 20}}
MCClock == <<<<{}, {}>>, <<Bits, {}>>, <<{0}, {0}>>, <<{2}, {0}>>>>
=============================================================================
