----------------------------- MODULE Exploration -----------------------------
(***************************************************************************)
(* The concolic exploration loop: explore_paths (symbolic_explore.cpp),    *)
(* the execution tree of clover::Trace (trace.cpp, branch.cpp), the input  *)
(* stores of clover::ExecutionContext (context.cpp) and the error reports. *)
(*                                                                         *)
(* A condition ("bv") is a record: the names it reads and the assignments  *)
(* of those names that make it true.  A guest program is a function from   *)
(* program points to segments.  A segment is what the ISS executes up to   *)
(* the next event the explorer can see:                                    *)
(*   req   names passed to make_symbolic in the segment                    *)
(*   have  names made symbolic before the segment                          *)
(*   op    "br"    branch on a symbolic condition (Trace::add)             *)
(*         "conc"  branch on a concretized value, not seen by the tracer   *)
(*         "err"   SYS_host_error, which then exits                        *)
(*         "exit"  SYS_exit                                                *)
(*         "brk"   EBREAK in the direct runner, sc_elab_and_sim fails      *)
(*   bv    the condition;  t, f  the program points after it               *)
(*                                                                         *)
(* Branch objects are named by their path from the root, a sequence of     *)
(* directions: true_branch of node p is Append(p, TRUE).  pathCondsCurrent *)
(* is cur; the null pointer and the root are both << >>.                   *)
(***************************************************************************)
EXTENDS Integers, Sequences, FiniteSets

CONSTANTS
    Names,             \* names of symbolic variables ("x10", "memory<..>:byte0")
    Values,            \* their concrete values
    None,              \* absent from a ConcreteStore
    NoBv,              \* the null condition of a placeholder node
    Programs,          \* the guest programs considered
    Timed,             \* those explored with SYMEX_TIMEBUDGET and SYMEX_TIMEOUT
    ErrExit            \* SYMEX_ERREXIT is set

WellFormed(code) ==
    /\ 1 \in DOMAIN code
    /\ \A g \in DOMAIN code :
         /\ code[g].op \in {"br", "conc", "err", "exit", "brk"}
         /\ code[g].req \subseteq Names
         /\ code[g].op \in {"br", "conc"} =>
              /\ code[g].bv # NoBv
              /\ {code[g].t, code[g].f} \subseteq DOMAIN code

ASSUME ConstantsAssumption ==
    /\ \A code \in Programs : WellFormed(code)
    /\ None \notin Values
    /\ Values # {}
    /\ Timed \subseteq Programs
    /\ ErrExit \in BOOLEAN

Stores == [Names -> Values \cup {None}]
Empty  == [n \in Names |-> None]

VARIABLES
    prog,          \* the guest program under test
    pc,            \* control point of explore_paths, or of run_test ("test", "tested")
    tree,          \* the Branch objects, by path
    cur,           \* Trace::pathCondsCurrent
    next_run,      \* ExecutionContext::next_run
    last_run,      \* ExecutionContext::last_run
    gpc,           \* program point of the guest
    vals,          \* values of the guest's symbolic variables
    paths_found,   \* local of explore_paths
    result,        \* what explore_paths returned
    errors_found,  \* static of symbolic_explore.cpp
    files,         \* test case files written: [at: program point, store]
    goal,          \* history: path the last solver query asked for
    executed       \* history: paths of the completed runs, in order

ctxVars   == <<next_run, last_run>>
guestVars == <<gpc, vals>>
outVars   == <<paths_found, result, errors_found, files>>
vars == <<prog, pc, tree, cur, ctxVars, guestVars, outVars, goal, executed>>

-----------------------------------------------------------------------------
(* Conditions and the solver                                               *)

Holds(bv, store) == [n \in bv.names |-> store[n]] \in bv.sat

Prefix(p, k) == SubSeq(p, 1, k)

StrictPrefixes(p) == {Prefix(p, k) : k \in 0..(Len(p) - 1)}

(* findSymbolicObjects over the query: the names occurring on the path.    *)
Objects(t, p) == UNION {t[q].bv.names : q \in StrictPrefixes(p)}

(* Mutant: the query forgets the constraints above the negated branch.     *)
AssignmentsLastOnly(t, p) ==
    {a \in [Names -> Values \cup {None}] :
        /\ \A n \in Names : (a[n] # None) <=> (n \in t[Prefix(p, Len(p) - 1)].bv.names)
        /\ Holds(t[Prefix(p, Len(p) - 1)].bv, a) = p[Len(p)]}

(* newQuery and getAssignment: assignments of the occurring names under    *)
(* which every condition on the path p has the direction p says.           *)
Satisfies(t, p, store) ==
    \A k \in 1..Len(p) : Holds(t[Prefix(p, k - 1)].bv, store) = p[k]

Assignments(t, p) ==
    {a \in Stores : /\ \A n \in Names : (a[n] # None) <=> (n \in Objects(t, p))
                    /\ Satisfies(t, p, a)}

-----------------------------------------------------------------------------
(* Trace and Branch                                                        *)

Placeholder(point) == [bv |-> NoBv, wasNegated |-> FALSE, at |-> point]

isPlaceholder(t, p) == t[p].bv = NoBv

(* Trace::add: fill in a placeholder, create the missing child, descend.   *)
(* The field "at" is history: the program point the node was created at.   *)
TraceAdd(t, node, condition, bv, point) ==
    LET child == Append(node, condition) IN
    [p \in DOMAIN t \cup {child} |->
        IF p = node
        THEN [bv |-> IF isPlaceholder(t, p) THEN bv ELSE t[p].bv,
              wasNegated |-> t[p].wasNegated, at |-> t[p].at]
        ELSE IF p \in DOMAIN t THEN t[p] ELSE Placeholder(point)]

(* Mutant: only a missing false branch makes a node worth negating.        *)
OpenFalseOnly(t, p) == /\ ~isPlaceholder(t, p)
                       /\ ~t[p].wasNegated
                       /\ Append(p, FALSE) \notin DOMAIN t

(* A node getRandomPath may stop at.                                       *)
Open(t, p) == /\ ~isPlaceholder(t, p)
              /\ ~t[p].wasNegated
              /\ \E d \in BOOLEAN : Append(p, d) \notin DOMAIN t

(* getRandomPath descends in random order and stops at the first open node *)
(* it meets, so it may return any open node with no open node above it.    *)
Candidates(t) == {p \in DOMAIN t : /\ Open(t, p)
                                   /\ \A q \in StrictPrefixes(p) : ~Open(t, q)}

(* Mutant: the direction on the path is not negated.                       *)
FlippedNot(t, p) == Append(p, Append(p, TRUE) \in DOMAIN t)

(* The path the query for node p asks for: the direction not taken yet.    *)
Flipped(t, p) == Append(p, Append(p, TRUE) \notin DOMAIN t)

-----------------------------------------------------------------------------
(* ExecutionContext                                                        *)

(* findRemoveOrRandom for the names in req; rnd is what rand() returns.    *)
Chosen(req, rnd) ==
    [n \in Names |-> IF n \in req
                     THEN IF next_run[n] # None THEN next_run[n] ELSE rnd[n]
                     ELSE vals[n]]

GetSymbolic(req, rnd) ==
    /\ vals' = Chosen(req, rnd)
    /\ next_run' = [n \in Names |-> IF n \in req THEN None ELSE next_run[n]]
    /\ last_run' = [n \in Names |-> IF n \in req THEN Chosen(req, rnd)[n]
                                                 ELSE last_run[n]]

(* setupNewValues(store): merge into next_run, forget the last run.        *)
SetupNewValues(store) ==
    /\ next_run' = [n \in Names |-> IF store[n] # None THEN store[n]
                                                       ELSE next_run[n]]
    /\ last_run' = Empty

-----------------------------------------------------------------------------
(* explore_paths                                                           *)

Init ==
    /\ prog \in Programs
    /\ pc = "budget"
    /\ tree = [p \in {<< >>} |-> Placeholder(1)]
    /\ cur = << >>
    /\ next_run = Empty /\ last_run = Empty
    /\ gpc = 1 /\ vals = Empty
    /\ paths_found = 0 /\ result = 0
    /\ errors_found = 0 /\ files = {}
    /\ goal = << >> /\ executed = << >>

BudgetExceeded ==
    /\ pc = "budget" /\ prog \in Timed
    /\ pc' = "finished"
    /\ result' = paths_found
    /\ UNCHANGED <<prog, tree, cur, ctxVars, guestVars, paths_found,
                   errors_found, files, goal, executed>>

(* The head of the loop: count the run, reset the tracer, and restart the  *)
(* simulation from scratch.                                                *)
StartRun ==
    /\ pc = "budget"
    /\ pc' = "sim"
    /\ paths_found' = paths_found + 1
    /\ cur' = << >>
    /\ gpc' = 1 /\ vals' = Empty
    /\ UNCHANGED <<prog, tree, ctxVars, result, errors_found, files, goal,
                   executed>>

Segment == prog[gpc]

(* A run of the guest ends and sc_elab_and_sim returns 0.                  *)
RunEnds == executed' = Append(executed, cur)

SymbolicBranch ==
    /\ pc \in {"sim", "test"} /\ Segment.op = "br"
    /\ \E rnd \in [Segment.req -> Values] :
         LET cond == Holds(Segment.bv, Chosen(Segment.req, rnd))
             point == IF cond THEN Segment.t ELSE Segment.f
         IN /\ GetSymbolic(Segment.req, rnd)
            /\ tree' = TraceAdd(tree, cur, cond, Segment.bv, point)
            /\ cur' = Append(cur, cond)
            /\ gpc' = point
    /\ UNCHANGED <<prog, pc, outVars, goal, executed>>

(* A branch whose condition lost its symbolic part, for example because it *)
(* was loaded through a symbolic address: track_and_trace_branch skips it. *)
ConcretizedBranch ==
    /\ pc \in {"sim", "test"} /\ Segment.op = "conc"
    /\ \E rnd \in [Segment.req -> Values] :
         /\ GetSymbolic(Segment.req, rnd)
         /\ gpc' = IF Holds(Segment.bv, Chosen(Segment.req, rnd))
                   THEN Segment.t ELSE Segment.f
    /\ UNCHANGED <<prog, pc, tree, cur, outVars, goal, executed>>

GuestExit ==
    /\ pc = "sim" /\ Segment.op = "exit"
    /\ \E rnd \in [Segment.req -> Values] : GetSymbolic(Segment.req, rnd)
    /\ RunEnds
    /\ pc' = "solve"
    /\ UNCHANGED <<prog, tree, cur, gpc, outVars, goal>>

(* report_handler and dump_input, then the exit of SYS_host_error.  With   *)
(* SYMEX_ERREXIT the process ends at the first error that has an input.    *)
GuestError ==
    /\ pc = "sim" /\ Segment.op = "err"
    /\ \E rnd \in [Segment.req -> Values] : GetSymbolic(Segment.req, rnd)
    /\ errors_found' = errors_found + 1
    /\ files' = IF last_run' = Empty THEN files
                ELSE files \cup {[at |-> gpc, store |-> last_run']}
    /\ RunEnds
    /\ pc' = IF ErrExit /\ last_run' # Empty THEN "exited" ELSE "solve"
    /\ UNCHANGED <<prog, tree, cur, gpc, paths_found, result, goal>>

(* sc_elab_and_sim fails: explore_paths returns its status, 1.             *)
GuestBreak ==
    /\ pc = "sim" /\ Segment.op = "brk"
    /\ \E rnd \in [Segment.req -> Values] : GetSymbolic(Segment.req, rnd)
    /\ RunEnds
    /\ pc' = "finished"
    /\ result' = 1
    /\ UNCHANGED <<prog, tree, cur, gpc, paths_found, errors_found, files,
                   goal>>

(* One turn of the loop in findNewPath: take a node, mark it negated, ask  *)
(* the solver.  An assignment is handed to the context, which starts the   *)
(* next run; without one the loop tries the next node.                     *)
Negate(p) == [tree EXCEPT ![p] = [bv |-> @.bv, wasNegated |-> TRUE, at |-> @.at]]

FindNewPath ==
    /\ pc = "solve"
    /\ \E p \in Candidates(tree) :
         /\ tree' = Negate(p)
         /\ \E a \in Assignments(tree, Flipped(tree, p)) :
              /\ SetupNewValues(a)
              /\ goal' = Flipped(tree, p)
    /\ pc' = "budget"
    /\ UNCHANGED <<prog, cur, guestVars, outVars, executed>>

(* Mutant: only the node of a satisfiable query is marked.                 *)
QueryFailsForgets ==
    /\ pc = "solve"
    /\ \E p \in Candidates(tree) :
         prog \in Timed \/ Assignments(tree, Flipped(tree, p)) = {}
    /\ UNCHANGED vars

QueryFails ==
    /\ pc = "solve"
    /\ \E p \in Candidates(tree) :
         /\ prog \in Timed \/ Assignments(tree, Flipped(tree, p)) = {}
         /\ tree' = Negate(p)
    /\ UNCHANGED <<prog, pc, cur, ctxVars, guestVars, outVars, goal, executed>>

AllBranchesExhausted ==
    /\ pc = "solve" /\ Candidates(tree) = {}
    /\ pc' = "finished"
    /\ result' = paths_found
    /\ UNCHANGED <<prog, tree, cur, ctxVars, guestVars, paths_found,
                   errors_found, files, goal, executed>>

Next ==
    \/ BudgetExceeded
    \/ StartRun
    \/ SymbolicBranch
    \/ ConcretizedBranch
    \/ GuestExit
    \/ GuestError
    \/ GuestBreak
    \/ FindNewPath
    \/ QueryFails
    \/ AllBranchesExhausted

(* explore_paths is one sequential thread that nothing blocks.             *)
Spec == Init /\ [][Next]_vars /\ WF_vars(Next)

-----------------------------------------------------------------------------
(* Guests whose control depends on the traced branches and the requested   *)
(* values alone: no concretized branch, and no name made symbolic twice.   *)
Deterministic(code) ==
    /\ code[1].have = {}
    /\ \A g \in DOMAIN code :
         /\ code[g].op # "conc"
         /\ code[g].have \subseteq Names
         /\ code[g].have \cap code[g].req = {}
         /\ code[g].op = "br" =>
              /\ code[g].bv.names \subseteq code[g].have \cup code[g].req
              /\ \A h \in {code[g].t, code[g].f} :
                   code[h].have = code[g].have \cup code[g].req

(* Guests of which the exploration should find every path: no limit on     *)
(* time, and no EBREAK that ends it.                                       *)
Exhaustive(code) == /\ Deterministic(code) /\ code \notin Timed
                    /\ \A g \in DOMAIN code : code[g].op # "brk"

Paths == Seq(BOOLEAN)

Branch == [bv : {NoBv} \cup {prog[g].bv : g \in DOMAIN prog},
           wasNegated : BOOLEAN, at : DOMAIN prog]

TypeOK ==
    /\ prog \in Programs
    /\ pc \in {"budget", "sim", "solve", "finished", "exited"}
    /\ cur \in Paths /\ goal \in Paths /\ executed \in Seq(Paths)
    /\ DOMAIN tree \subseteq Paths /\ {<< >>, cur} \subseteq DOMAIN tree
    /\ tree \in [DOMAIN tree -> Branch]
    /\ next_run \in Stores /\ last_run \in Stores /\ vals \in Stores
    /\ gpc \in DOMAIN prog
    /\ paths_found \in Nat /\ result \in Nat /\ errors_found \in Nat

(* The Branch objects form a tree: the root exists, a node other than the  *)
(* root hangs below a node with a condition, a node has a condition        *)
(* exactly when Trace::add has gone through it (then it has a child), and  *)
(* only such nodes are ever negated.  getRandomPath relies on it when it   *)
(* reads the existing child off true_branch alone (branch.cpp:39-42).      *)
TreeWellFormed ==
    /\ \A p \in DOMAIN tree : p # << >> =>
         /\ Prefix(p, Len(p) - 1) \in DOMAIN tree
         /\ ~isPlaceholder(tree, Prefix(p, Len(p) - 1))
    /\ \A p \in DOMAIN tree :
         IF isPlaceholder(tree, p)
         THEN ~tree[p].wasNegated /\ \A d \in BOOLEAN : Append(p, d) \notin DOMAIN tree
         ELSE \E d \in BOOLEAN : Append(p, d) \in DOMAIN tree

(* A run set up by findNewPath takes exactly the branches the query asked  *)
(* for, whatever rand() gives the names the query does not mention, and    *)
(* uses up every value the solver provided: no value of next_run is left   *)
(* over for a later run.  (Of guests that a concolic run can follow.)      *)
RunFollowsGoal ==
    Deterministic(prog) /\ pc = "solve" =>
                    /\ Len(goal) <= Len(cur) /\ Prefix(cur, Len(goal)) = goal
                    /\ next_run = Empty

NoPathTwice ==
    /\ \A i, j \in 1..Len(executed) : executed[i] = executed[j] => i = j
    /\ pc \in {"budget", "solve"} => paths_found = Len(executed)

(* No path is executed twice, so the number printed as "Unique paths       *)
(* found" is the number of different paths executed.                       *)
PathsUnique == Deterministic(prog) => NoPathTwice

(* When findNewPath gives up ("all branches exhausted"), every input of    *)
(* the program would follow a path that has been executed.                 *)
ExplorationComplete ==
    pc = "finished" /\ Exhaustive(prog) =>
        \A i \in [Names -> Values] :
            \E k \in 1..Len(executed) : Satisfies(tree, executed[k], i)

(* Nodes are never lost, a condition once recorded is never replaced, and  *)
(* a node once negated stays negated ("Don't negate nodes twice").         *)
TreeGrows ==
    [][\A p \in DOMAIN tree :
         /\ p \in DOMAIN tree'
         /\ ~isPlaceholder(tree, p) => tree'[p].bv = tree[p].bv
         /\ tree[p].wasNegated => tree'[p].wasNegated]_vars

-----------------------------------------------------------------------------
(* The paths of a guest, told from its code alone.                         *)

Succ(code, g, d) == IF d THEN code[g].t ELSE code[g].f

(* On input i the guest takes the directions p at its symbolic branches    *)
(* and passes the program points w.                                        *)
Takes(code, i, p, w) ==
    /\ Len(w) = Len(p) + 1 /\ w[1] = 1
    /\ \A k \in 1..Len(p) : /\ code[w[k]].op = "br"
                            /\ Holds(code[w[k]].bv, i) = p[k]
                            /\ w[k + 1] = Succ(code, w[k], p[k])
    /\ code[w[Len(w)]].op # "br"

FeasiblePaths(code) ==
    {p \in Paths : \E i \in [Names -> Values], w \in Seq(DOMAIN code) : Takes(code, i, p, w)}

-----------------------------------------------------------------------------
(* The inductive invariant behind RunFollowsGoal and PathsUnique.          *)

IsPrefixOf(p, q) == Len(p) <= Len(q) /\ Prefix(q, Len(p)) = p

(* Every node above a node exists and carries a condition.                 *)
AncestorsInner ==
    \A p \in DOMAIN tree : \A q \in StrictPrefixes(p) :
        q \in DOMAIN tree /\ ~isPlaceholder(tree, q)

(* The tree is an unfolding of the program, and what has been asked of the *)
(* guest on the way to a node is what the program has requested by then.   *)
TreeMatchesProgram ==
    /\ tree[<< >>].at = 1
    /\ \A p \in DOMAIN tree :
         /\ ~isPlaceholder(tree, p) => /\ prog[tree[p].at].op = "br"
                                       /\ tree[p].bv = prog[tree[p].at].bv
         /\ \A d \in BOOLEAN : Append(p, d) \in DOMAIN tree =>
              tree[Append(p, d)].at = Succ(prog, tree[p].at, d)
         /\ Objects(tree, p) \subseteq prog[tree[p].at].have

(* A path the last query may have asked for: new, below inner nodes.       *)
NewPath(p) == /\ p # << >> /\ p \notin DOMAIN tree
              /\ \A q \in StrictPrefixes(p) :
                   q \in DOMAIN tree /\ ~isPlaceholder(tree, q)

(* The guest still has to reach the goal, holding or about to be given the *)
(* values of an assignment that leads there.                               *)
Heading ==
    /\ NewPath(goal) /\ IsPrefixOf(cur, goal) /\ cur # goal
    /\ \E a \in Assignments(tree, goal) :
         \A n \in Names :
            IF vals[n] = None THEN next_run[n] = a[n]
            ELSE next_run[n] = None /\ (a[n] # None => vals[n] = a[n])

Arrived == IsPrefixOf(goal, cur) /\ next_run = Empty

DetInv ==
    /\ AncestorsInner
    /\ TreeMatchesProgram
    /\ pc = "budget" =>
         \/ goal = << >> /\ next_run = Empty
         \/ NewPath(goal) /\ next_run \in Assignments(tree, goal)
    /\ pc = "sim" => /\ gpc = tree[cur].at
                     /\ \A n \in Names : (vals[n] # None) <=> (n \in prog[gpc].have)
                     /\ Heading \/ Arrived
    /\ pc = "solve" => Arrived
    /\ \A k \in 1..Len(executed) :
         /\ executed[k] \in DOMAIN tree
         /\ prog[tree[executed[k]].at].op # "br"
         /\ pc \in {"budget", "sim"} => ~IsPrefixOf(goal, executed[k])
    /\ NoPathTwice
    /\ pc = "sim" => paths_found = Len(executed) + 1
=============================================================================
