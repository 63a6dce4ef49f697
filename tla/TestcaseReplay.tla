---------------------------- MODULE TestcaseReplay ----------------------------
(***************************************************************************)
(* The life of a test case: an exploration writes the inputs of a failing  *)
(* run to a file (dump_input); later a new process is started on that file *)
(* (SYMEX_TESTCASE, run_test).  The text of a file is the list of lines    *)
(* TestCase::toFile writes: name, type tag and value of every variable the *)
(* run had requested.                                                      *)
(***************************************************************************)
EXTENDS MCExploration, SequencesExt

(* toFile: one line per variable of the store.                             *)
toFile(store) ==
    SetToSeq({[name |-> n, type |-> "uint32_t", value |-> store[n]] :
                 n \in {m \in Names : store[m] # None}})

(* Mutant: the last line is lost.                                          *)
fromFileShort(lines) ==
    [n \in Names |->
        IF \E k \in 1..(Len(lines) - 1) : lines[k].name = n
        THEN lines[CHOOSE k \in 1..Len(lines) : lines[k].name = n].value
        ELSE None]

(* fromFile: a line binds its name; a later line for a name would win.     *)
fromFile(lines) ==
    [n \in Names |->
        IF \E k \in DOMAIN lines : lines[k].name = n
        THEN lines[CHOOSE k \in DOMAIN lines :
                     /\ lines[k].name = n
                     /\ \A j \in DOMAIN lines : lines[j].name = n => j <= k].value
        ELSE None]

(* A new process is given one file: nothing of the exploration survives,   *)
(* and from here on that file is the only one that matters.                *)
RunTest ==
    /\ pc \in {"finished", "exited"}
    /\ \E f \in files :
         /\ files' = {f}
         /\ next_run' = fromFile(toFile(f.store)) /\ last_run' = Empty
    /\ pc' = "test"
    /\ tree' = [p \in {<< >>} |-> Placeholder(1)] /\ cur' = << >>
    /\ gpc' = 1 /\ vals' = Empty
    /\ paths_found' = 0 /\ result' = 0 /\ errors_found' = 0
    /\ goal' = << >>
    /\ UNCHANGED <<prog, executed>>

(* The run ends; testcase_path is null, so nothing is dumped again.        *)
TestEnds ==
    /\ pc = "test" /\ Segment.op \in {"exit", "err", "brk"}
    /\ \E rnd \in [Segment.req -> Values] : GetSymbolic(Segment.req, rnd)
    /\ pc' = "tested"
    /\ UNCHANGED <<prog, tree, cur, gpc, outVars, goal, executed>>

RNext == Next \/ RunTest \/ TestEnds

(* A process that has been started is not interrupted.                     *)
RSpec == Init /\ [][RNext]_vars /\ WF_vars(Next \/ TestEnds)

(* A test case replays the error it was written for, although it holds     *)
(* only the variables the failing run had requested before the error.      *)
(* (Of guests that a concolic run can follow; others read a value that is  *)
(* not in the file, or twice.)                                             *)
ReplayReproducesError ==
    pc = "tested" /\ Deterministic(prog) => \A f \in files : gpc = f.at

(* With an error found and SYMEX_ERREXIT unset, the exploration keeps a    *)
(* test case for every error point an input can reach.                     *)
EveryErrorHasTestcase ==
    pc = "finished" =>
        \A k \in 1..Len(executed) :
            LET at == tree[executed[k]].at IN
            prog[at].op = "err" /\ prog[at].have \cup prog[at].req # {} =>
                \E f \in files : f.at = at

(* Errors are kept, and a test case shows its error again: both of the     *)
(* above statements.                                                       *)
TestcasesExact == ReplayReproducesError /\ EveryErrorHasTestcase
=============================================================================
