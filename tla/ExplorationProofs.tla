-------------------------- MODULE ExplorationProofs --------------------------
(***************************************************************************)
(* The tree of an exploration and the paths it executes, for every set of  *)
(* names, values and guest programs that satisfies ConstantsAssumption.    *)
(***************************************************************************)
EXTENDS Exploration, TLAPS

(* Facts about paths: a child determines its parent and its direction, and *)
(* every path but the empty one is a child.                                *)
LEMMA ChildOf ==
    ASSUME NEW p \in Paths, NEW d \in BOOLEAN
    PROVE  /\ Append(p, d) \in Paths /\ Append(p, d) # << >>
           /\ Len(Append(p, d)) = Len(p) + 1
           /\ Append(p, d) # p
           /\ Prefix(Append(p, d), Len(p)) = p
           /\ Prefix(Append(p, d), Len(Append(p, d)) - 1) = p
BY DEF Paths, Prefix

(* Nodes of the tree with the same name have the same parent and side.     *)
LEMMA ChildUnique ==
    ASSUME NEW p \in Paths, NEW d \in BOOLEAN, NEW q \in Paths, NEW e \in BOOLEAN,
           Append(p, d) = Append(q, e)
    PROVE  p = q /\ d = e
<1>1. Len(p) = Len(q)
  BY DEF Paths
<1>2. Prefix(Append(p, d), Len(p)) = p /\ Prefix(Append(q, e), Len(q)) = q
  BY ChildOf, Zenon
<1>3. Append(p, d)[Len(p) + 1] = d /\ Append(q, e)[Len(q) + 1] = e
  BY DEF Paths
<1>4. QED
  BY <1>1, <1>2, <1>3

(* What GetSymbolic leaves behind are stores again.                        *)
LEMMA GetSymbolicType ==
    ASSUME next_run \in Stores, last_run \in Stores, vals \in Stores,
           NEW req \in SUBSET Names, NEW rnd \in [req -> Values],
           GetSymbolic(req, rnd)
    PROVE  next_run' \in Stores /\ last_run' \in Stores /\ vals' \in Stores
<1>1. Chosen(req, rnd) \in Stores
  BY DEF Chosen, Stores
<1>2. QED
  BY <1>1 DEF GetSymbolic, Stores

(* Trace::add keeps every node, adds the child it descends to, and changes *)
(* nothing but the condition of a placeholder.                             *)
LEMMA TraceAddFacts ==
    ASSUME TypeOK, NEW c \in BOOLEAN, NEW g \in DOMAIN prog,
           NEW h \in DOMAIN prog,
           tree' = TraceAdd(tree, cur, c, prog[g].bv, h)
    PROVE  /\ DOMAIN tree' = DOMAIN tree \cup {Append(cur, c)}
           /\ DOMAIN tree' \subseteq Paths
           /\ tree' \in [DOMAIN tree' -> Branch]
           /\ \A p \in DOMAIN tree : p # cur => tree'[p] = tree[p]
           /\ tree'[cur].bv = IF isPlaceholder(tree, cur) THEN prog[g].bv
                              ELSE tree[cur].bv
           /\ tree'[cur].wasNegated = tree[cur].wasNegated
           /\ tree'[cur].at = tree[cur].at
           /\ Append(cur, c) \notin DOMAIN tree =>
                 tree'[Append(cur, c)] = Placeholder(h)
<1> DEFINE child == Append(cur, c)
<1>1. cur \in Paths /\ child \in Paths /\ child # cur /\ cur \in DOMAIN tree
  BY DEF Paths, TypeOK
<1>2. \A p \in DOMAIN tree :
         /\ tree[p] \in Branch
         /\ tree[p].bv \in {NoBv} \cup {prog[k].bv : k \in DOMAIN prog}
         /\ tree[p].wasNegated \in BOOLEAN /\ tree[p].at \in DOMAIN prog
  BY DEF TypeOK, Branch
<1> DEFINE node(p) == [bv |-> IF isPlaceholder(tree, p) THEN prog[g].bv
                              ELSE tree[p].bv,
                       wasNegated |-> tree[p].wasNegated, at |-> tree[p].at]
           new(p) == IF p = cur THEN node(p)
                     ELSE IF p \in DOMAIN tree THEN tree[p] ELSE Placeholder(h)
<1>3. tree' = [p \in DOMAIN tree \cup {child} |-> new(p)]
  BY DEF TraceAdd
<1>4. node(cur) \in Branch /\ Placeholder(h) \in Branch
  BY <1>1, <1>2 DEF Branch, Placeholder
<1>5. \A p \in DOMAIN tree \cup {child} : new(p) \in Branch
  BY <1>2, <1>4
<1>6. DOMAIN tree' = DOMAIN tree \cup {child} /\ tree' \in [DOMAIN tree' -> Branch]
  <2> HIDE DEF new
  <2> QED BY <1>3, <1>5
<1>7. tree'[cur] = node(cur)
  BY <1>1, <1>3
<1>8. \A p \in DOMAIN tree : p # cur => tree'[p] = tree[p]
  BY <1>3
<1>9. child \notin DOMAIN tree => tree'[child] = Placeholder(h)
  BY <1>1, <1>3
<1>10. DOMAIN tree' \subseteq Paths
  BY <1>1, <1>6, Zenon DEF TypeOK
<1>11. QED
  BY <1>6, <1>7, <1>8, <1>9, <1>10

(* Marking a node negated changes only its flag.                           *)
LEMMA NegateFacts ==
    ASSUME TypeOK, NEW q \in DOMAIN tree, tree' = Negate(q), prog' = prog
    PROVE  /\ DOMAIN tree' = DOMAIN tree
           /\ tree' \in [DOMAIN tree' -> Branch']
           /\ \A p \in DOMAIN tree : /\ tree'[p].bv = tree[p].bv
                                     /\ tree'[p].at = tree[p].at
                                     /\ p # q => tree'[p] = tree[p]
           /\ tree'[q].wasNegated = TRUE
<1>1. tree' = [p \in DOMAIN tree |->
                 IF p = q THEN [bv |-> tree[p].bv, wasNegated |-> TRUE,
                                at |-> tree[p].at] ELSE tree[p]]
  BY Zenon DEF Negate, TypeOK, Branch
<1>2. Branch' = Branch
  BY DEF Branch
<1>3. \A p \in DOMAIN tree : tree[p] \in Branch
  BY DEF TypeOK
<1>4. \A p \in DOMAIN tree : [bv |-> tree[p].bv, wasNegated |-> TRUE,
                             at |-> tree[p].at] \in Branch
  BY <1>3 DEF Branch
<1>5. tree' \in [DOMAIN tree -> Branch]
  BY <1>1, <1>3, <1>4
<1>6. QED
  BY <1>1, <1>2, <1>5

(* What every symbolic branch of the guest does to the tracer.             *)
LEMMA BranchStep ==
    ASSUME TypeOK, SymbolicBranch
    PROVE  \E c \in BOOLEAN, rnd \in [Segment.req -> Values] :
             LET h == IF c THEN Segment.t ELSE Segment.f IN
             /\ Segment.req \in SUBSET Names
             /\ Segment.bv # NoBv
             /\ c = Holds(Segment.bv, Chosen(Segment.req, rnd))
             /\ GetSymbolic(Segment.req, rnd)
             /\ h \in DOMAIN prog
             /\ tree' = TraceAdd(tree, cur, c, Segment.bv, h)
             /\ cur' = Append(cur, c)
             /\ gpc' = h
<1>1. /\ gpc \in DOMAIN prog
      /\ Segment.req \in SUBSET Names /\ Segment.bv # NoBv
      /\ Segment.t \in DOMAIN prog /\ Segment.f \in DOMAIN prog
  BY ConstantsAssumption DEF TypeOK, WellFormed, Segment, SymbolicBranch
<1>2. PICK rnd \in [Segment.req -> Values] :
        LET c == Holds(Segment.bv, Chosen(Segment.req, rnd))
            h == IF c THEN Segment.t ELSE Segment.f
        IN /\ GetSymbolic(Segment.req, rnd)
           /\ tree' = TraceAdd(tree, cur, c, Segment.bv, h)
           /\ cur' = Append(cur, c)
           /\ gpc' = h
  BY DEF SymbolicBranch
<1>3. Holds(Segment.bv, Chosen(Segment.req, rnd)) \in BOOLEAN
  BY DEF Holds
<1>4. QED
  BY <1>1, <1>2, <1>3

(* The values, nodes and counters of explore_paths keep their types.       *)
THEOREM TypeCorrect == Spec => []TypeOK
<1>1. Init => TypeOK
  <2> SUFFICES ASSUME Init PROVE TypeOK
    OBVIOUS
  <2>1. /\ << >> \in Paths /\ executed \in Seq(Paths)
        /\ Empty \in Stores /\ 1 \in DOMAIN prog
    BY ConstantsAssumption DEF Init, Paths, Empty, Stores, WellFormed
  <2>2. Placeholder(1) \in Branch
    BY <2>1 DEF Placeholder, Branch
  <2>3. tree \in [DOMAIN tree -> Branch] /\ DOMAIN tree = {<< >>}
    BY <2>2 DEF Init
  <2>4. QED
    BY <2>1, <2>3 DEF Init, TypeOK
<1>2. TypeOK /\ [Next]_vars => TypeOK'
  <2> SUFFICES ASSUME TypeOK, [Next]_vars PROVE TypeOK'
    OBVIOUS
  <2>1. prog' = prog /\ Branch' = Branch
    BY Zenon DEF Next, vars, BudgetExceeded, StartRun, SymbolicBranch,
           ConcretizedBranch, GuestExit, GuestError, GuestBreak, FindNewPath,
           QueryFails, AllBranchesExhausted, Branch
  <2>2. /\ gpc \in DOMAIN prog /\ 1 \in DOMAIN prog
        /\ Segment.req \in SUBSET Names /\ Empty \in Stores /\ << >> \in Paths
    BY ConstantsAssumption DEF TypeOK, WellFormed, Segment, Empty, Stores, Paths
  <2>3. CASE BudgetExceeded
    BY <2>1, <2>3 DEF BudgetExceeded, TypeOK, ctxVars, guestVars
  <2>4. CASE StartRun
    BY <2>1, <2>2, <2>4 DEF StartRun, TypeOK, ctxVars
  <2>5. CASE SymbolicBranch
    <3>1. PICK c \in BOOLEAN, rnd \in [Segment.req -> Values] :
             LET h == IF c THEN Segment.t ELSE Segment.f IN
             /\ GetSymbolic(Segment.req, rnd)
             /\ h \in DOMAIN prog
             /\ tree' = TraceAdd(tree, cur, c, Segment.bv, h)
             /\ cur' = Append(cur, c)
             /\ gpc' = h
      BY <2>5, BranchStep
    <3>2. next_run' \in Stores /\ last_run' \in Stores /\ vals' \in Stores
      BY <2>2, <3>1, GetSymbolicType DEF TypeOK
    <3>3. /\ DOMAIN tree' = DOMAIN tree \cup {Append(cur, c)}
          /\ DOMAIN tree' \subseteq Paths
          /\ tree' \in [DOMAIN tree' -> Branch]
      BY <2>2, <3>1, TraceAddFacts, Zenon DEF Segment
    <3>4. QED
      BY <2>1, <2>5, <3>1, <3>2, <3>3, Zenon DEF SymbolicBranch, TypeOK, outVars, Paths
  <2>6. CASE ConcretizedBranch
    <3>1. Segment.t \in DOMAIN prog /\ Segment.f \in DOMAIN prog
      BY <2>6, ConstantsAssumption DEF TypeOK, WellFormed, Segment, ConcretizedBranch
    <3>2. next_run' \in Stores /\ last_run' \in Stores /\ vals' \in Stores
      BY <2>2, <2>6, GetSymbolicType DEF TypeOK, ConcretizedBranch
    <3>3. QED
      BY <2>1, <2>6, <3>1, <3>2 DEF ConcretizedBranch, TypeOK, outVars
  <2>7. CASE GuestExit \/ GuestError \/ GuestBreak
    <3>1. next_run' \in Stores /\ last_run' \in Stores /\ vals' \in Stores
      BY <2>2, <2>7, GetSymbolicType DEF TypeOK, GuestExit, GuestError, GuestBreak
    <3>2. executed' \in Seq(Paths)
      <4>1. executed' = Append(executed, cur)
        BY <2>7 DEF GuestExit, GuestError, GuestBreak, RunEnds
      <4>2. cur \in Paths /\ executed \in Seq(Paths)
        BY DEF TypeOK
      <4>3. QED
        BY <4>1, <4>2
    <3>3. QED
      BY <2>1, <2>7, <3>1, <3>2
         DEF GuestExit, GuestError, GuestBreak, TypeOK, outVars
  <2>8. CASE FindNewPath
    <3>1. PICK p \in Candidates(tree) :
            /\ tree' = Negate(p)
            /\ \E a \in Assignments(tree, Flipped(tree, p)) :
                 /\ SetupNewValues(a)
                 /\ goal' = Flipped(tree, p)
      BY <2>8 DEF FindNewPath
    <3>2. p \in DOMAIN tree
      BY DEF Candidates
    <3>3. DOMAIN tree' = DOMAIN tree /\ tree' \in [DOMAIN tree' -> Branch']
      BY <2>1, <3>1, <3>2, NegateFacts, Zenon
    <3>4. next_run' \in Stores /\ last_run' \in Stores
      BY <2>2, <3>1 DEF SetupNewValues, Assignments, TypeOK, Stores
    <3>5. goal' \in Paths
      BY <3>1, <3>2 DEF Flipped, TypeOK, Paths
    <3>6. QED
      BY <2>1, <2>8, <3>3, <3>4, <3>5 DEF FindNewPath, TypeOK, guestVars, outVars
  <2>9. CASE QueryFails
    <3>1. PICK p \in DOMAIN tree : tree' = Negate(p)
      BY <2>9 DEF QueryFails, Candidates
    <3>2. DOMAIN tree' = DOMAIN tree /\ tree' \in [DOMAIN tree' -> Branch']
      BY <2>1, <3>1, NegateFacts, Zenon
    <3>3. QED
      BY <2>1, <2>9, <3>2 DEF QueryFails, TypeOK, ctxVars, guestVars, outVars
  <2>10. CASE AllBranchesExhausted
    BY <2>1, <2>10 DEF AllBranchesExhausted, TypeOK, ctxVars, guestVars
  <2>11. CASE UNCHANGED vars
    BY <2>1, <2>11 DEF vars, TypeOK, ctxVars, guestVars, outVars
  <2>12. QED
    BY <2>3, <2>4, <2>5, <2>6, <2>7, <2>8, <2>9, <2>10, <2>11 DEF Next
<1>3. QED
  BY <1>1, <1>2, PTL DEF Spec

(* Nodes of the execution tree are never lost or given another condition,  *)
(* and stay negated once findNewPath has negated them.                     *)
THEOREM TreeOnlyGrows == Spec => TreeGrows
<1> DEFINE Step == \A p \in DOMAIN tree :
                     /\ p \in DOMAIN tree'
                     /\ ~isPlaceholder(tree, p) => tree'[p].bv = tree[p].bv
                     /\ tree[p].wasNegated => tree'[p].wasNegated
<1>1. TypeOK /\ [Next]_vars => [Step]_vars
  <2> SUFFICES ASSUME TypeOK, Next PROVE Step
    OBVIOUS
  <2>1. CASE SymbolicBranch
    <3>1. PICK c \in BOOLEAN : \E h \in DOMAIN prog :
            tree' = TraceAdd(tree, cur, c, Segment.bv, h)
      BY <2>1, BranchStep
    <3>2. PICK h \in DOMAIN prog : tree' = TraceAdd(tree, cur, c, Segment.bv, h)
      BY <3>1
    <3>3. gpc \in DOMAIN prog
      BY DEF TypeOK
    <3>4. QED
      BY <3>2, <3>3, TraceAddFacts, Zenon DEF Segment, isPlaceholder
  <2>2. CASE FindNewPath \/ QueryFails
    <3>1. PICK q \in DOMAIN tree : tree' = Negate(q)
      BY <2>2 DEF FindNewPath, QueryFails, Candidates
    <3>2. prog' = prog
      BY <2>2 DEF FindNewPath, QueryFails
    <3>3. QED
      BY <3>1, <3>2, NegateFacts, Zenon
  <2>3. CASE tree' = tree
    BY <2>3
  <2>4. QED
    BY <2>1, <2>2, <2>3
       DEF Next, BudgetExceeded, StartRun, ConcretizedBranch, GuestExit,
           GuestError, GuestBreak, AllBranchesExhausted
<1>2. QED
  BY <1>1, TypeCorrect, PTL DEF Spec, TreeGrows

(* The Branch objects always form a proper tree.                           *)
THEOREM TreeIsWellFormed == Spec => []TreeWellFormed
<1>1. Init => TreeWellFormed
  BY DEF Init, TreeWellFormed, Placeholder, isPlaceholder
<1>2. TypeOK /\ TreeWellFormed /\ [Next]_vars => TreeWellFormed'
  <2> SUFFICES ASSUME TypeOK, TreeWellFormed, [Next]_vars PROVE TreeWellFormed'
    OBVIOUS
  <2>1. CASE SymbolicBranch
    <3>1. PICK c \in BOOLEAN, h \in DOMAIN prog :
            tree' = TraceAdd(tree, cur, c, Segment.bv, h)
      BY <2>1, BranchStep
    <3> DEFINE child == Append(cur, c)
    <3>2. gpc \in DOMAIN prog /\ cur \in DOMAIN tree /\ cur \in Paths
      BY DEF TypeOK
    <3>3. /\ DOMAIN tree' = DOMAIN tree \cup {child}
          /\ \A p \in DOMAIN tree : p # cur => tree'[p] = tree[p]
          /\ tree'[cur].wasNegated = tree[cur].wasNegated
          /\ tree'[cur].bv # NoBv
          /\ child \notin DOMAIN tree => tree'[child] = Placeholder(h)
      BY <2>1, <3>1, <3>2, TraceAddFacts, BranchStep, Zenon DEF Segment, isPlaceholder
    <3>4. /\ child \in Paths /\ child # << >> /\ child # cur
          /\ Prefix(child, Len(child) - 1) = cur
      BY <3>2, ChildOf DEF Paths
    <3>5. ASSUME NEW p \in DOMAIN tree', p # << >>
          PROVE  /\ Prefix(p, Len(p) - 1) \in DOMAIN tree'
                 /\ ~isPlaceholder(tree', Prefix(p, Len(p) - 1))
      BY <3>2, <3>3, <3>4, <3>5, Zenon DEF TreeWellFormed, isPlaceholder
    <3>6. ASSUME NEW p \in DOMAIN tree'
          PROVE IF isPlaceholder(tree', p)
                THEN /\ ~tree'[p].wasNegated
                     /\ \A d \in BOOLEAN : Append(p, d) \notin DOMAIN tree'
                ELSE \E d \in BOOLEAN : Append(p, d) \in DOMAIN tree'
      <4>1. CASE p = cur
        BY <3>2, <3>3, <4>1 DEF isPlaceholder
      <4>2. CASE p # cur /\ p \in DOMAIN tree
        <5>1. tree'[p] = tree[p] /\ p \in Paths
          BY <3>3, <4>2 DEF TypeOK
        <5>2. \A d \in BOOLEAN : Append(p, d) # child
          BY <3>2, <4>2, <5>1, ChildUnique
        <5>3. QED
          BY <3>3, <4>2, <5>1, <5>2 DEF TreeWellFormed, isPlaceholder
      <4>3. CASE p = child /\ child \notin DOMAIN tree
        <5>1. isPlaceholder(tree', p) /\ ~tree'[p].wasNegated
          BY <3>3, <4>3 DEF isPlaceholder, Placeholder
        <5>2. ASSUME NEW d \in BOOLEAN PROVE Append(p, d) \notin DOMAIN tree'
          <6>1. p \in Paths
            BY <3>4, <4>3
          <6>2. /\ Append(p, d) # p /\ Append(p, d) # << >>
                /\ Prefix(Append(p, d), Len(Append(p, d)) - 1) = p
            BY <6>1, ChildOf, Zenon
          <6>3. Append(p, d) \notin DOMAIN tree
            BY <4>3, <6>2, Zenon DEF TreeWellFormed
          <6>4. QED
            BY <3>3, <4>3, <6>2, <6>3
        <5>3. QED
          BY <5>1, <5>2
      <4>4. QED
        BY <3>3, <3>6, <4>1, <4>2, <4>3, Zenon
    <3>7. QED
      BY <3>5, <3>6 DEF TreeWellFormed
  <2>2. CASE FindNewPath \/ QueryFails
    <3>1. PICK q \in DOMAIN tree : tree' = Negate(q) /\ ~isPlaceholder(tree, q)
      BY <2>2 DEF FindNewPath, QueryFails, Candidates, Open
    <3>2. prog' = prog
      BY <2>2 DEF FindNewPath, QueryFails
    <3>3. /\ DOMAIN tree' = DOMAIN tree
          /\ \A p \in DOMAIN tree :
               /\ isPlaceholder(tree', p) <=> isPlaceholder(tree, p)
               /\ isPlaceholder(tree, p) => tree'[p] = tree[p]
      BY <3>1, <3>2, NegateFacts, Zenon DEF isPlaceholder
    <3>4. QED
      BY <3>3 DEF TreeWellFormed
  <2>3. CASE tree' = tree
    BY <2>3 DEF TreeWellFormed, isPlaceholder
  <2>4. QED
    BY <2>1, <2>2, <2>3
       DEF Next, vars, BudgetExceeded, StartRun, ConcretizedBranch, GuestExit,
           GuestError, GuestBreak, AllBranchesExhausted
<1>3. QED
  BY <1>1, <1>2, TypeCorrect, PTL DEF Spec

(***************************************************************************)
(* No path is executed twice.                                              *)
(***************************************************************************)

-----------------------------------------------------------------------------
(* Paths and their prefixes                                                *)

(* A prefix of a path is a path, and prefixes of it are prefixes of the    *)
(* path.                                                                   *)
LEMMA PrefixFacts ==
    ASSUME NEW p \in Paths, NEW k \in 0..Len(p)
    PROVE  /\ Prefix(p, k) \in Paths /\ Len(Prefix(p, k)) = k
           /\ \A i \in 1..k : Prefix(p, k)[i] = p[i]
           /\ \A j \in 0..k : Prefix(Prefix(p, k), j) = Prefix(p, j)
           /\ Prefix(p, Len(p)) = p
BY DEF Paths, Prefix

(* Descending to a child keeps the prefixes of the parent.                 *)
LEMMA PrefixOfChild ==
    ASSUME NEW p \in Paths, NEW d \in BOOLEAN, NEW k \in 0..Len(p)
    PROVE  Prefix(Append(p, d), k) = Prefix(p, k)
BY DEF Paths, Prefix

(* The strict prefixes of a child are its parent and the parent's own.     *)
LEMMA StrictPrefixesOfChild ==
    ASSUME NEW p \in Paths, NEW d \in BOOLEAN
    PROVE  StrictPrefixes(Append(p, d)) = StrictPrefixes(p) \cup {p}
<1>1. Len(Append(p, d)) = Len(p) + 1 /\ Len(p) \in Nat
  BY DEF Paths
<1>2. 0..(Len(Append(p, d)) - 1) = 0..(Len(p) - 1) \cup {Len(p)}
  BY <1>1
<1>3. \A k \in 0..Len(p) : Prefix(Append(p, d), k) = Prefix(p, k)
  BY PrefixOfChild
<1>4. Prefix(p, Len(p)) = p
  BY <1>1, PrefixFacts
<1>5. QED
  BY <1>1, <1>2, <1>3, <1>4 DEF StrictPrefixes

(* The strict prefixes of a path are shorter paths.                        *)
LEMMA StrictPrefixType ==
    ASSUME NEW p \in Paths, NEW q \in StrictPrefixes(p)
    PROVE  /\ q \in Paths /\ Len(q) < Len(p) /\ q = Prefix(p, Len(q))
           /\ StrictPrefixes(q) \subseteq StrictPrefixes(p)
           /\ q # p
<1>1. PICK k \in 0..(Len(p) - 1) : q = Prefix(p, k)
  BY DEF StrictPrefixes
<1>2. Len(p) \in Nat /\ k \in 0..Len(p) /\ k < Len(p)
  BY DEF Paths
<1>3. q \in Paths /\ Len(q) = k /\ \A j \in 0..k : Prefix(q, j) = Prefix(p, j)
  BY <1>1, <1>2, PrefixFacts
<1>4. StrictPrefixes(q) \subseteq StrictPrefixes(p)
  BY <1>2, <1>3 DEF StrictPrefixes
<1>5. QED
  BY <1>1, <1>2, <1>3, <1>4

(* A path that is a prefix of another one is that path or strictly above.  *)
LEMMA PrefixOrEqual ==
    ASSUME NEW p \in Paths, NEW q \in Paths, IsPrefixOf(p, q)
    PROVE  p = q \/ p \in StrictPrefixes(q)
<1>1. Len(p) \in Nat /\ Len(q) \in Nat /\ Len(p) <= Len(q) /\ p = Prefix(q, Len(p))
  BY DEF IsPrefixOf, Paths
<1>2. CASE Len(p) = Len(q)
  BY <1>1, <1>2, PrefixFacts
<1>3. CASE Len(p) < Len(q)
  <2>1. Len(p) \in 0..(Len(q) - 1)
    BY <1>1, <1>3
  <2>2. QED
    BY <1>1, <2>1 DEF StrictPrefixes
<1>4. QED
  BY <1>1, <1>2, <1>3

(* A strict prefix continues with one of the two directions.               *)
LEMMA NextOnPath ==
    ASSUME NEW p \in Paths, NEW q \in Paths, IsPrefixOf(p, q), p # q
    PROVE  /\ Len(p) < Len(q) /\ Len(p) + 1 \in 1..Len(q)
           /\ q[Len(p) + 1] \in BOOLEAN
           /\ p \in StrictPrefixes(q)
           /\ IsPrefixOf(Append(p, q[Len(p) + 1]), q)
<1>1. p \in StrictPrefixes(q)
  BY PrefixOrEqual
<1>2. Len(p) < Len(q) /\ p = Prefix(q, Len(p)) /\ Len(p) \in Nat /\ Len(q) \in Nat
  BY <1>1, StrictPrefixType DEF Paths
<1>3. Len(p) + 1 \in 1..Len(q) /\ q[Len(p) + 1] \in BOOLEAN
  BY <1>2 DEF Paths
<1>4. Append(p, q[Len(p) + 1]) = Prefix(q, Len(p) + 1)
  BY <1>2, <1>3 DEF Paths, Prefix
<1>5. Len(Append(p, q[Len(p) + 1])) = Len(p) + 1
  BY <1>3, ChildOf
<1>6. QED
  BY <1>1, <1>2, <1>3, <1>4, <1>5 DEF IsPrefixOf

(* The query for a path depends on the conditions above it only.           *)
LEMMA SameQuery ==
    ASSUME NEW t, NEW u, NEW p \in Paths,
           \A q \in StrictPrefixes(p) : u[q].bv = t[q].bv
    PROVE  /\ Objects(u, p) = Objects(t, p)
           /\ Assignments(u, p) = Assignments(t, p)
           /\ \A a : Satisfies(u, p, a) <=> Satisfies(t, p, a)
<1>1. \A k \in 1..Len(p) : Prefix(p, k - 1) \in StrictPrefixes(p)
  <2> SUFFICES ASSUME NEW k \in 1..Len(p)
               PROVE  Prefix(p, k - 1) \in StrictPrefixes(p)
    OBVIOUS
  <2>1. k - 1 \in 0..(Len(p) - 1)
    BY DEF Paths
  <2>2. QED
    BY <2>1 DEF StrictPrefixes
<1>2. Objects(u, p) = Objects(t, p)
  BY DEF Objects
<1>3. \A a : Satisfies(u, p, a) <=> Satisfies(t, p, a)
  BY <1>1 DEF Satisfies
<1>4. QED
  BY <1>2, <1>3 DEF Assignments

(* A tree step that keeps every node, its point and its condition keeps    *)
(* what DetInv says of paths below inner nodes.                            *)
LEMMA NewPathKept ==
    ASSUME NEW p \in Paths, NewPath(p),
           DOMAIN tree \subseteq DOMAIN tree', p \notin DOMAIN tree',
           \A q \in DOMAIN tree : ~isPlaceholder(tree, q) => tree'[q].bv = tree[q].bv
    PROVE  /\ p # << >> /\ p \notin DOMAIN tree'
           /\ \A q \in StrictPrefixes(p) :
                q \in DOMAIN tree' /\ ~isPlaceholder(tree', q)
           /\ Assignments(tree', p) = Assignments(tree, p)
<1>1. \A q \in StrictPrefixes(p) : /\ q \in DOMAIN tree' /\ ~isPlaceholder(tree', q)
                                   /\ tree'[q].bv = tree[q].bv
  BY DEF NewPath, isPlaceholder
<1>2. QED
  BY <1>1, SameQuery, Zenon DEF NewPath

-----------------------------------------------------------------------------
(* DetInv is inductive                                                     *)

(* DetInv holds before the first run, when the tree is the root alone.     *)
LEMMA DetInit ==
    ASSUME Init PROVE DetInv
<1>1. /\ DOMAIN tree = {<< >>} /\ isPlaceholder(tree, << >>)
      /\ tree[<< >>].at = 1 /\ executed = << >>
      /\ pc = "budget" /\ goal = << >> /\ next_run = Empty /\ paths_found = 0
  BY DEF Init, Placeholder, isPlaceholder
<1>2. StrictPrefixes(<< >>) = {}
  BY DEF StrictPrefixes
<1>3. Objects(tree, << >>) = {}
  BY <1>2 DEF Objects
<1>4. \A d \in BOOLEAN : Append(<< >>, d) # << >>
  OBVIOUS
<1>5. AncestorsInner /\ TreeMatchesProgram
  BY <1>1, <1>2, <1>3, <1>4 DEF AncestorsInner, TreeMatchesProgram
<1>6. NoPathTwice
  BY <1>1 DEF NoPathTwice
<1>7. QED
  BY <1>1, <1>5, <1>6 DEF DetInv

(* Starting a run: the guest is at the root with nothing requested yet.    *)
LEMMA DetStartRun ==
    ASSUME TypeOK, DetInv, Deterministic(prog), StartRun
    PROVE  DetInv'
<1>1. /\ pc = "budget" /\ pc' = "sim" /\ cur' = << >> /\ gpc' = 1
      /\ vals' = Empty /\ paths_found' = paths_found + 1
      /\ tree' = tree /\ prog' = prog /\ next_run' = next_run
      /\ goal' = goal /\ executed' = executed
  BY DEF StartRun, ctxVars
<1>2. AncestorsInner' /\ TreeMatchesProgram'
  BY <1>1 DEF DetInv, AncestorsInner, TreeMatchesProgram, isPlaceholder, Succ
<1>3. tree[<< >>].at = 1 /\ prog[1].have = {}
  BY DEF DetInv, TreeMatchesProgram, Deterministic
<1>4. \A n \in Names : vals'[n] = None
  BY <1>1 DEF Empty
<1>5. goal \in Paths /\ << >> \in Paths /\ Len(goal) \in Nat
      /\ Prefix(goal, 0) = << >>
  BY DEF TypeOK, Paths, Prefix
<1>6. Heading' \/ Arrived'
  <2>1. CASE goal = << >> /\ next_run = Empty
    BY <1>1, <1>5, <2>1 DEF Arrived, IsPrefixOf
  <2>2. CASE NewPath(goal) /\ next_run \in Assignments(tree, goal)
    <3>1. IsPrefixOf(cur', goal') /\ cur' # goal' /\ NewPath(goal)'
      BY <1>1, <1>5, <2>2 DEF NewPath, IsPrefixOf, isPlaceholder
    <3>2. QED
      BY <1>1, <1>4, <2>2, <3>1 DEF Heading
  <2>3. QED
    BY <1>1, <2>1, <2>2 DEF DetInv
<1>7. NoPathTwice' /\ paths_found' = Len(executed') + 1
  BY <1>1 DEF DetInv, NoPathTwice
<1>8. QED
  BY <1>1, <1>2, <1>3, <1>4, <1>6, <1>7 DEF DetInv

(* While it heads for the goal, the guest evaluates the next condition as  *)
(* the solver's assignment does, so it takes the direction of the goal.    *)
LEMMA HeadingStays ==
    ASSUME TypeOK, DetInv, Deterministic(prog), pc = "sim", Heading,
           Segment.op = "br", NEW rnd \in [Segment.req -> Values]
    PROVE  /\ Holds(Segment.bv, Chosen(Segment.req, rnd)) = goal[Len(cur) + 1]
           /\ ~isPlaceholder(tree, cur)
           /\ \A n \in Names : n \notin Segment.req /\ next_run[n] # None
                /\ Append(cur, goal[Len(cur) + 1]) = goal => FALSE
<1> DEFINE d == goal[Len(cur) + 1]
<1>1. cur \in Paths /\ goal \in Paths /\ gpc \in DOMAIN prog /\ cur \in DOMAIN tree
  BY DEF TypeOK
<1>2. /\ IsPrefixOf(cur, goal) /\ cur # goal /\ Len(cur) + 1 \in 1..Len(goal)
      /\ d \in BOOLEAN /\ cur \in StrictPrefixes(goal)
  BY <1>1, NextOnPath DEF Heading
<1>3. ~isPlaceholder(tree, cur)
  BY <1>2 DEF Heading, NewPath
<1>4. gpc = tree[cur].at /\ tree[cur].bv = Segment.bv
  BY <1>1, <1>3 DEF DetInv, TreeMatchesProgram, Segment
<1>5. /\ Segment.bv.names \subseteq Segment.have \cup Segment.req
      /\ Segment.have \cap Segment.req = {} /\ Segment.have \subseteq Names
      /\ Segment.req \subseteq Names
  BY <1>1, ConstantsAssumption DEF Deterministic, Segment, TypeOK, WellFormed
<1>6. \A n \in Names : (vals[n] # None) <=> (n \in Segment.have)
  BY DEF DetInv, Segment
<1>7. PICK a \in Assignments(tree, goal) :
        \A n \in Names :
            IF vals[n] = None THEN next_run[n] = a[n]
            ELSE next_run[n] = None /\ (a[n] # None => vals[n] = a[n])
  BY DEF Heading
<1>8. /\ \A n \in Names : (a[n] # None) <=> (n \in Objects(tree, goal))
      /\ Satisfies(tree, goal, a)
  BY DEF Assignments
<1>9. Prefix(goal, Len(cur) + 1 - 1) = cur
  BY <1>1, <1>2 DEF IsPrefixOf, Paths
<1>10. Holds(Segment.bv, a) = d
  BY <1>2, <1>4, <1>8, <1>9 DEF Satisfies
<1>11. Segment.bv.names \subseteq Objects(tree, goal)
  BY <1>2, <1>4 DEF Objects
<1>12. \A n \in Segment.bv.names : Chosen(Segment.req, rnd)[n] = a[n]
  <2> SUFFICES ASSUME NEW n \in Segment.bv.names
               PROVE  Chosen(Segment.req, rnd)[n] = a[n]
    OBVIOUS
  <2>1. n \in Names /\ a[n] # None
    BY <1>5, <1>8, <1>11
  <2>2. CASE n \in Segment.req
    BY <1>5, <1>6, <1>7, <2>1, <2>2 DEF Chosen
  <2>3. CASE n \notin Segment.req
    BY <1>5, <1>6, <1>7, <2>1, <2>3 DEF Chosen
  <2>4. QED
    BY <2>2, <2>3
<1>13. Holds(Segment.bv, Chosen(Segment.req, rnd)) = d
  BY <1>10, <1>12 DEF Holds
<1>14. ASSUME NEW n \in Names, n \notin Segment.req, next_run[n] # None,
              Append(cur, d) = goal
       PROVE  FALSE
  <2>1. vals[n] = None /\ a[n] # None
    BY <1>7, <1>14
  <2>2. n \in Objects(tree, goal) /\ n \notin Segment.have
    BY <1>6, <1>8, <2>1
  <2>3. StrictPrefixes(goal) = StrictPrefixes(cur) \cup {cur}
    BY <1>1, <1>2, <1>14, StrictPrefixesOfChild, Zenon
  <2>4. Objects(tree, goal) = Objects(tree, cur) \cup Segment.bv.names
    BY <1>4, <2>3 DEF Objects
  <2>5. Objects(tree, cur) \subseteq Segment.have
    BY <1>1, <1>4 DEF DetInv, TreeMatchesProgram, Segment
  <2>6. QED
    BY <1>5, <1>14, <2>2, <2>4, <2>5
<1>15. QED
  BY <1>3, <1>13, <1>14

(* A symbolic branch unfolds the program by one node.                      *)
LEMMA DetTreeBranch ==
    ASSUME TypeOK, DetInv, Deterministic(prog), SymbolicBranch,
           NEW c \in BOOLEAN, Segment.bv # NoBv,
           Succ(prog, gpc, c) \in DOMAIN prog,
           tree' = TraceAdd(tree, cur, c, Segment.bv, Succ(prog, gpc, c))
    PROVE  /\ AncestorsInner' /\ TreeMatchesProgram'
           /\ \A p \in DOMAIN tree : tree'[p].at = tree[p].at
           /\ tree'[Append(cur, c)].at = Succ(prog, gpc, c)
<1> DEFINE child == Append(cur, c)
<1>1. /\ cur \in Paths /\ gpc \in DOMAIN prog /\ cur \in DOMAIN tree
      /\ DOMAIN tree \subseteq Paths /\ << >> \in DOMAIN tree
  BY DEF TypeOK
<1>2. pc = "sim" /\ prog' = prog /\ Segment.op = "br"
  BY DEF SymbolicBranch, TypeOK
<1>3. /\ DOMAIN tree' = DOMAIN tree \cup {child}
      /\ DOMAIN tree' \subseteq Paths
      /\ \A p \in DOMAIN tree : p # cur => tree'[p] = tree[p]
      /\ tree'[cur].bv = IF isPlaceholder(tree, cur) THEN Segment.bv ELSE tree[cur].bv
      /\ tree'[cur].at = tree[cur].at
      /\ child \notin DOMAIN tree => tree'[child] = Placeholder(Succ(prog, gpc, c))
  BY <1>1, TraceAddFacts, Zenon DEF Segment
<1>4. /\ gpc = tree[cur].at
      /\ ~isPlaceholder(tree, cur) => tree[cur].bv = Segment.bv
  BY <1>1, <1>2 DEF DetInv, TreeMatchesProgram, Segment
<1>5. tree'[cur].bv = Segment.bv
  BY <1>3, <1>4
<1>6. \A p \in DOMAIN tree : tree'[p].at = tree[p].at
  BY <1>3
<1>7. child \in Paths /\ child # cur /\ StrictPrefixes(child) = StrictPrefixes(cur) \cup {cur}
  BY <1>1, ChildOf, StrictPrefixesOfChild
<1>8. tree'[child].at = Succ(prog, gpc, c)
  <2>1. CASE child \in DOMAIN tree
    <3>1. tree[child].at = Succ(prog, tree[cur].at, c)
      BY <1>1, <2>1 DEF DetInv, TreeMatchesProgram
    <3>2. QED
      BY <1>4, <1>6, <2>1, <3>1, SMTT(30)
  <2>2. CASE child \notin DOMAIN tree
    BY <1>3, <2>2 DEF Placeholder
  <2>3. QED
    BY <2>1, <2>2
(* Conditions already recorded above a node do not change.                 *)
<1>9. \A p \in DOMAIN tree : ~isPlaceholder(tree, p) => tree'[p].bv = tree[p].bv
  BY <1>3
<1>10. AncestorsInner'
  <2> SUFFICES ASSUME NEW p \in DOMAIN tree', NEW q \in StrictPrefixes(p)
               PROVE  q \in DOMAIN tree' /\ ~isPlaceholder(tree', q)
    BY DEF AncestorsInner
  <2>1. \A r \in DOMAIN tree : ~isPlaceholder(tree, r) =>
           r \in DOMAIN tree' /\ ~isPlaceholder(tree', r)
    BY <1>3, <1>9 DEF isPlaceholder
  <2>2. cur \in DOMAIN tree' /\ ~isPlaceholder(tree', cur)
    BY <1>1, <1>3, <1>5 DEF isPlaceholder
  <2>3. q = cur \/ (q \in DOMAIN tree /\ ~isPlaceholder(tree, q))
    BY <1>1, <1>3, <1>7, Zenon DEF DetInv, AncestorsInner
  <2>4. QED
    BY <2>1, <2>2, <2>3
<1>11. \A p \in DOMAIN tree : Objects(tree', p) = Objects(tree, p)
  <2> SUFFICES ASSUME NEW p \in DOMAIN tree
               PROVE  Objects(tree', p) = Objects(tree, p)
    OBVIOUS
  <2>1. \A q \in StrictPrefixes(p) : tree'[q].bv = tree[q].bv
    BY <1>9 DEF DetInv, AncestorsInner
  <2>2. QED
    BY <1>1, <2>1, SameQuery
<1>12. Objects(tree', child) = Objects(tree, cur) \cup Segment.bv.names
  <2>1. Objects(tree', child) = Objects(tree', cur) \cup tree'[cur].bv.names
    BY <1>7 DEF Objects
  <2>2. QED
    BY <1>1, <1>5, <1>11, <2>1
<1>13. Objects(tree', child) \subseteq prog[tree'[child].at].have
  <2>1. Objects(tree, cur) \subseteq Segment.have
    BY <1>1, <1>4, Zenon DEF DetInv, TreeMatchesProgram, Segment
  <2>2. /\ prog[Succ(prog, gpc, c)].have = Segment.have \cup Segment.req
        /\ Segment.bv.names \subseteq Segment.have \cup Segment.req
    BY <1>1, <1>2, SMTT(30) DEF Deterministic, Segment, Succ
  <2>3. QED
    BY <1>8, <1>12, <2>1, <2>2
<1>14. ASSUME NEW p \in DOMAIN tree'
       PROVE  /\ ~isPlaceholder(tree', p) => /\ prog[tree'[p].at].op = "br"
                                             /\ tree'[p].bv = prog[tree'[p].at].bv
              /\ \A d \in BOOLEAN : Append(p, d) \in DOMAIN tree' =>
                   tree'[Append(p, d)].at = Succ(prog, tree'[p].at, d)
              /\ Objects(tree', p) \subseteq prog[tree'[p].at].have
  <2>1. Objects(tree', p) \subseteq prog[tree'[p].at].have
    BY <1>3, <1>6, <1>11, <1>13, ZenonT(30) DEF DetInv, TreeMatchesProgram
  <2>2. ~isPlaceholder(tree', p) => /\ prog[tree'[p].at].op = "br"
                                   /\ tree'[p].bv = prog[tree'[p].at].bv
    <3>1. CASE p = cur
      BY <1>2, <1>4, <1>5, <1>3, <3>1, Zenon DEF Segment
    <3>2. CASE p # cur /\ p \in DOMAIN tree
      <4>1. tree'[p] = tree[p]
        BY <1>3, <3>2
      <4>2. ~isPlaceholder(tree, p) => /\ prog[tree[p].at].op = "br"
                                      /\ tree[p].bv = prog[tree[p].at].bv
        BY <3>2, SMTT(30) DEF DetInv, TreeMatchesProgram
      <4>3. QED
        BY <4>1, <4>2 DEF isPlaceholder
    <3>3. CASE p = child /\ child \notin DOMAIN tree
      BY <1>3, <3>3 DEF isPlaceholder, Placeholder
    <3>4. QED
      BY <1>3, <3>1, <3>2, <3>3, Zenon
  <2>3. ASSUME NEW d \in BOOLEAN, Append(p, d) \in DOMAIN tree'
        PROVE  tree'[Append(p, d)].at = Succ(prog, tree'[p].at, d)
    <3>1. CASE Append(p, d) \in DOMAIN tree
      <4>1. p \in StrictPrefixes(Append(p, d))
        BY <1>3, StrictPrefixesOfChild
      <4>2. p \in DOMAIN tree
        BY <3>1, <4>1, ZenonT(30) DEF DetInv, AncestorsInner
      <4>3. tree[Append(p, d)].at = Succ(prog, tree[p].at, d)
        BY <2>3, <3>1, <4>2, SMTT(30) DEF DetInv, TreeMatchesProgram
      <4>4. QED
        BY <1>6, <3>1, <4>2, <4>3
    <3>2. CASE Append(p, d) = child
      <4>1. p \in Paths /\ cur \in Paths /\ c \in BOOLEAN
        BY <1>1, <1>3
      <4>2. p = cur /\ d = c
        BY <2>3, <3>2, <4>1, ChildUnique
      <4>3. QED
        BY <1>3, <1>4, <1>8, <4>2
    <3>3. QED
      BY <1>3, <2>3, <3>1, <3>2
  <2>4. QED
    BY <2>1, <2>2, <2>3
<1>15. TreeMatchesProgram'
  <2>1. tree'[<< >>].at = 1
    BY <1>1, <1>6, SMTT(30) DEF DetInv, TreeMatchesProgram
  <2>2. QED
    BY <1>2, <1>14, <2>1, ZenonT(30) DEF TreeMatchesProgram
<1>16. QED
  BY <1>6, <1>8, <1>10, <1>15

(* A symbolic branch keeps the run on its way to the goal or beyond it.    *)
LEMMA DetSymbolicBranch ==
    ASSUME TypeOK, DetInv, Deterministic(prog), SymbolicBranch
    PROVE  DetInv'
<1>1. /\ cur \in Paths /\ goal \in Paths /\ gpc \in DOMAIN prog
      /\ cur \in DOMAIN tree /\ next_run \in Stores /\ vals \in Stores
      /\ DOMAIN tree \subseteq Paths
  BY DEF TypeOK
<1>2. /\ pc = "sim" /\ pc' = "sim" /\ prog' = prog /\ Segment.op = "br"
      /\ paths_found' = paths_found /\ goal' = goal /\ executed' = executed
  BY SMTT(30) DEF SymbolicBranch, outVars, TypeOK
<1>3. PICK c \in BOOLEAN, rnd \in [Segment.req -> Values] :
         /\ Segment.req \in SUBSET Names
         /\ Segment.bv # NoBv
         /\ c = Holds(Segment.bv, Chosen(Segment.req, rnd))
         /\ GetSymbolic(Segment.req, rnd)
         /\ Succ(prog, gpc, c) \in DOMAIN prog
         /\ tree' = TraceAdd(tree, cur, c, Segment.bv, Succ(prog, gpc, c))
         /\ cur' = Append(cur, c)
         /\ gpc' = Succ(prog, gpc, c)
  BY BranchStep DEF Succ, Segment
<1> DEFINE child == Append(cur, c)
<1>4. /\ AncestorsInner' /\ TreeMatchesProgram'
      /\ \A p \in DOMAIN tree : tree'[p].at = tree[p].at
      /\ tree'[child].at = Succ(prog, gpc, c)
  BY <1>3, DetTreeBranch, Zenon
<1>5. /\ DOMAIN tree' = DOMAIN tree \cup {child}
      /\ \A p \in DOMAIN tree : ~isPlaceholder(tree, p) => tree'[p].bv = tree[p].bv
  BY <1>1, <1>3, TraceAddFacts, ZenonT(30) DEF Segment
<1>6. /\ Segment.have \cap Segment.req = {} /\ Segment.have \subseteq Names
      /\ prog[Succ(prog, gpc, c)].have = Segment.have \cup Segment.req
      /\ \A n \in Names : (vals[n] # None) <=> (n \in Segment.have)
  BY <1>1, <1>2, Zenon DEF Deterministic, DetInv, Segment, Succ
<1>7. \A n \in Names :
         /\ vals'[n] = IF n \in Segment.req
                       THEN IF next_run[n] # None THEN next_run[n] ELSE rnd[n]
                       ELSE vals[n]
         /\ next_run'[n] = IF n \in Segment.req THEN None ELSE next_run[n]
         /\ n \in Segment.req => vals'[n] # None
  BY <1>1, <1>3, ConstantsAssumption, SMTT(30) DEF GetSymbolic, Chosen
<1>8. gpc' = tree'[cur'].at
  BY <1>3, <1>4
<1>9. \A n \in Names : (vals'[n] # None) <=> (n \in prog[gpc'].have)
  BY <1>3, <1>6, <1>7, Zenon
<1>10. Heading' \/ Arrived'
  <2>1. CASE Arrived
    <3>1. next_run' = Empty
      BY <1>3, <2>1 DEF Arrived, GetSymbolic, Empty
    <3>2. IsPrefixOf(goal, child)
      <4>1. Len(goal) \in 0..Len(cur) /\ Len(child) = Len(cur) + 1
        BY <1>1, <2>1, ChildOf DEF Arrived, IsPrefixOf, Paths
      <4>2. Prefix(child, Len(goal)) = Prefix(cur, Len(goal))
        BY <1>1, <4>1, PrefixOfChild
      <4>3. QED
        BY <1>1, <2>1, <4>1, <4>2 DEF Arrived, IsPrefixOf, Paths
    <3>3. QED
      BY <1>2, <1>3, <3>1, <3>2, SMTT(30) DEF Arrived
  <2>2. CASE Heading
    <3>1. /\ c = goal[Len(cur) + 1] /\ ~isPlaceholder(tree, cur)
          /\ \A n \in Names : n \notin Segment.req /\ next_run[n] # None
                /\ child = goal => FALSE
      BY <1>2, <1>3, <2>2, HeadingStays
    <3>2. IsPrefixOf(child, goal) /\ child \in Paths
      BY <1>1, <2>2, <3>1, NextOnPath, ChildOf DEF Heading
    <3>3. CASE child = goal
      <4>1. \A n \in Names : next_run'[n] = None
        BY <1>7, <3>1, <3>3, SMTT(30)
      <4>2. next_run' = Empty
        BY <1>3, <4>1 DEF GetSymbolic, Empty
      <4>3. IsPrefixOf(goal, child)
        BY <1>1, <3>3, PrefixFacts DEF IsPrefixOf, Paths
      <4>4. QED
        BY <1>2, <1>3, <4>2, <4>3, SMTT(30) DEF Arrived
    <3>4. CASE child # goal
      <4>1. goal \notin DOMAIN tree'
        BY <1>5, <2>2, <3>4, SMTT(30) DEF Heading, NewPath
      <4>2. /\ NewPath(goal)'
            /\ Assignments(tree', goal) = Assignments(tree, goal)
        BY <1>1, <1>2, <1>5, <2>2, <4>1, NewPathKept, SMTT(30) DEF Heading, NewPath
      <4>3. PICK a \in Assignments(tree, goal) :
              \A n \in Names :
                IF vals[n] = None THEN next_run[n] = a[n]
                ELSE next_run[n] = None /\ (a[n] # None => vals[n] = a[n])
        BY <2>2, SMTT(30) DEF Heading
      <4>4. \A n \in Names :
              IF vals'[n] = None THEN next_run'[n] = a[n]
              ELSE next_run'[n] = None /\ (a[n] # None => vals'[n] = a[n])
        <5> SUFFICES ASSUME NEW n \in Names
                     PROVE IF vals'[n] = None THEN next_run'[n] = a[n]
                           ELSE /\ next_run'[n] = None
                                /\ a[n] # None => vals'[n] = a[n]
          OBVIOUS
        <5>1. CASE n \in Segment.req
          BY <1>6, <1>7, <4>3, <5>1
        <5>2. CASE n \notin Segment.req
          BY <1>7, <4>3, <5>2
        <5>3. QED
          BY <5>1, <5>2
      <4>5. QED
        BY <1>2, <1>3, <3>2, <3>4, <4>2, <4>4, Zenon DEF Heading
    <3>5. QED
      BY <3>3, <3>4, SMTT(30)
  <2>3. QED
    BY <1>2, <2>1, <2>2 DEF DetInv
<1>11. \A k \in 1..Len(executed) :
         /\ executed[k] \in DOMAIN tree'
         /\ prog[tree'[executed[k]].at].op # "br"
         /\ ~IsPrefixOf(goal, executed[k])
  BY <1>2, <1>4, <1>5, Zenon DEF DetInv
<1>12. NoPathTwice' /\ paths_found' = Len(executed') + 1
  BY <1>2 DEF DetInv, NoPathTwice
<1>13. QED
  BY <1>2, <1>4, <1>8, <1>9, <1>10, <1>11, <1>12 DEF DetInv

(* A run that ends has reached its goal, so its path is new.               *)
LEMMA DetRunEnds ==
    ASSUME TypeOK, DetInv, Deterministic(prog),
           GuestExit \/ GuestError \/ GuestBreak
    PROVE  DetInv'
<1>1. /\ cur \in Paths /\ goal \in Paths /\ gpc \in DOMAIN prog
      /\ cur \in DOMAIN tree /\ executed \in Seq(Paths)
  BY DEF TypeOK
<1>2. /\ pc = "sim" /\ pc' \in {"solve", "finished", "exited"}
      /\ Segment.op # "br"
      /\ tree' = tree /\ cur' = cur /\ prog' = prog /\ goal' = goal
      /\ executed' = Append(executed, cur) /\ paths_found' = paths_found
      /\ \E rnd : GetSymbolic(Segment.req, rnd)
  BY Zenon DEF GuestExit, GuestError, GuestBreak, RunEnds, outVars
<1>3. gpc = tree[cur].at
  BY <1>2, Zenon DEF DetInv
<1>4. ~Heading
  <2> SUFFICES ASSUME Heading PROVE FALSE
    OBVIOUS
  <2>1. cur \in StrictPrefixes(goal)
    BY <1>1, NextOnPath, Zenon DEF Heading
  <2>2. QED
    BY <1>1, <1>2, <1>3, <2>1, Zenon DEF Heading, NewPath, DetInv, TreeMatchesProgram, Segment
<1>5. Arrived
  BY <1>2, <1>4, Zenon DEF DetInv
<1>6. Arrived'
  <2>1. next_run' = Empty
    BY <1>2, <1>5 DEF Arrived, GetSymbolic, Empty
  <2>2. QED
    BY <1>2, <1>5, <2>1 DEF Arrived
<1>7. /\ Len(executed') = Len(executed) + 1 /\ Len(executed) \in Nat
      /\ \A k \in 1..Len(executed) : executed'[k] = executed[k]
      /\ executed'[Len(executed) + 1] = cur
  BY <1>1, <1>2
<1>8. \A k \in 1..Len(executed) : executed[k] # cur
  BY <1>2, <1>5 DEF Arrived, DetInv
<1>9. NoPathTwice'
  <2>1. \A i, j \in 1..Len(executed) : executed[i] = executed[j] => i = j
    BY DEF DetInv, NoPathTwice
  <2>2. paths_found' = Len(executed')
    BY <1>2, <1>7 DEF DetInv
  <2>3. \A i, j \in 1..Len(executed') : executed'[i] = executed'[j] => i = j
    <3> SUFFICES ASSUME NEW i \in 1..Len(executed'), NEW j \in 1..Len(executed'),
                        executed'[i] = executed'[j]
                 PROVE  i = j
      OBVIOUS
    <3>1. CASE i \in 1..Len(executed) /\ j \in 1..Len(executed)
      BY <1>7, <2>1, <3>1
    <3>2. CASE i = Len(executed) + 1 \/ j = Len(executed) + 1
      BY <1>7, <1>8, <3>2
    <3>3. QED
      BY <1>7, <3>1, <3>2
  <2>4. QED
    BY <2>2, <2>3 DEF NoPathTwice
<1>10. \A k \in 1..Len(executed') : /\ executed'[k] \in DOMAIN tree'
                                   /\ prog'[tree'[executed'[k]].at].op # "br"
  <2> SUFFICES ASSUME NEW k \in 1..Len(executed')
               PROVE  /\ executed'[k] \in DOMAIN tree'
                      /\ prog'[tree'[executed'[k]].at].op # "br"
    OBVIOUS
  <2>1. CASE k \in 1..Len(executed)
    BY <1>2, <1>7, <2>1 DEF DetInv
  <2>2. CASE k = Len(executed) + 1
    BY <1>1, <1>2, <1>3, <1>7, <2>2 DEF Segment
  <2>3. QED
    BY <1>7, <2>1, <2>2
<1>11. AncestorsInner' /\ TreeMatchesProgram'
  BY <1>2, Zenon DEF DetInv, AncestorsInner, TreeMatchesProgram, isPlaceholder
<1>12. QED
  BY <1>2, <1>6, <1>9, <1>10, <1>11, Zenon DEF DetInv

(* The invariant survives the marking of a node.                           *)
LEMMA DetNegate ==
    ASSUME TypeOK, DetInv, NEW q \in DOMAIN tree, tree' = Negate(q), prog' = prog
    PROVE  /\ AncestorsInner' /\ TreeMatchesProgram'
           /\ DOMAIN tree' = DOMAIN tree
           /\ \A p \in DOMAIN tree : /\ tree'[p].bv = tree[p].bv
                                     /\ tree'[p].at = tree[p].at
                                     /\ isPlaceholder(tree', p) <=> isPlaceholder(tree, p)
<1>1. /\ DOMAIN tree' = DOMAIN tree
      /\ \A p \in DOMAIN tree : tree'[p].bv = tree[p].bv /\ tree'[p].at = tree[p].at
  BY NegateFacts, Zenon
<1>2. \A p \in DOMAIN tree : isPlaceholder(tree', p) <=> isPlaceholder(tree, p)
  BY <1>1, SMTT(30) DEF isPlaceholder
<1>3. AncestorsInner'
  BY <1>1, <1>2 DEF DetInv, AncestorsInner
<1>4. \A p \in DOMAIN tree : Objects(tree', p) = Objects(tree, p)
  <2> SUFFICES ASSUME NEW p \in DOMAIN tree
               PROVE  Objects(tree', p) = Objects(tree, p)
    OBVIOUS
  <2>1. \A r \in StrictPrefixes(p) : tree'[r].bv = tree[r].bv
    BY <1>1 DEF DetInv, AncestorsInner
  <2>2. QED
    BY <2>1 DEF Objects
<1>5. << >> \in DOMAIN tree
  BY DEF TypeOK
<1>6. tree'[<< >>].at = 1
  BY <1>1, <1>5, SMTT(30) DEF DetInv, TreeMatchesProgram
<1>7. ASSUME NEW p \in DOMAIN tree'
      PROVE  /\ ~isPlaceholder(tree', p) => /\ prog[tree'[p].at].op = "br"
                                            /\ tree'[p].bv = prog[tree'[p].at].bv
             /\ \A d \in BOOLEAN : Append(p, d) \in DOMAIN tree' =>
                  tree'[Append(p, d)].at = Succ(prog, tree'[p].at, d)
             /\ Objects(tree', p) \subseteq prog[tree'[p].at].have
  <2>1. p \in DOMAIN tree
    BY <1>1, <1>7
  <2>2. /\ ~isPlaceholder(tree, p) => /\ prog[tree[p].at].op = "br"
                                      /\ tree[p].bv = prog[tree[p].at].bv
        /\ \A d \in BOOLEAN : Append(p, d) \in DOMAIN tree =>
              tree[Append(p, d)].at = Succ(prog, tree[p].at, d)
        /\ Objects(tree, p) \subseteq prog[tree[p].at].have
    BY <2>1, Zenon DEF DetInv, TreeMatchesProgram
  <2>3. tree'[p].bv = tree[p].bv /\ tree'[p].at = tree[p].at
    BY <1>1, <2>1
  <2>4. ~isPlaceholder(tree', p) => /\ prog[tree'[p].at].op = "br"
                                   /\ tree'[p].bv = prog[tree'[p].at].bv
    BY <1>2, <2>1, <2>2, <2>3
  <2>5. \A d \in BOOLEAN : Append(p, d) \in DOMAIN tree' =>
           tree'[Append(p, d)].at = Succ(prog, tree'[p].at, d)
    BY <1>1, <2>2, <2>3
  <2>6. Objects(tree', p) \subseteq prog[tree'[p].at].have
    BY <1>4, <2>1, <2>2, <2>3
  <2>7. QED
    BY <2>4, <2>5, <2>6
<1>8. TreeMatchesProgram'
  BY <1>6, <1>7 DEF TreeMatchesProgram
<1>9. QED
  BY <1>1, <1>2, <1>3, <1>8

(* The path a query asks for is new.                                       *)
LEMMA FlippedIsNew ==
    ASSUME TypeOK, AncestorsInner, NEW q \in Candidates(tree)
    PROVE  /\ q \in DOMAIN tree /\ q \in Paths
           /\ Flipped(tree, q) \in Paths
           /\ StrictPrefixes(Flipped(tree, q)) = StrictPrefixes(q) \cup {q}
           /\ NewPath(Flipped(tree, q))
<1>1. /\ q \in DOMAIN tree /\ q \in Paths /\ ~isPlaceholder(tree, q)
      /\ \E d \in BOOLEAN : Append(q, d) \notin DOMAIN tree
  BY DEF Candidates, Open, TypeOK
<1> DEFINE e == Append(q, TRUE) \notin DOMAIN tree
<1>2. e \in BOOLEAN /\ Flipped(tree, q) = Append(q, e)
  BY DEF Flipped
<1>3. Append(q, e) \notin DOMAIN tree
  <2>1. CASE e
    <3>1. e = TRUE
      BY <2>1, Zenon
    <3>2. QED
      BY <2>1, <3>1, Zenon
  <2>2. CASE ~e
    <3>1. e = FALSE
      BY <2>2, Zenon
    <3>2. \E d \in {TRUE, FALSE} : Append(q, d) \notin DOMAIN tree
      BY <1>1, Zenon
    <3>3. QED
      BY <2>2, <3>1, <3>2, Zenon
  <2>3. QED
    BY <2>1, <2>2, Zenon
<1> HIDE DEF e
<1>4. /\ Append(q, e) \in Paths /\ Append(q, e) # << >>
      /\ StrictPrefixes(Append(q, e)) = StrictPrefixes(q) \cup {q}
  BY <1>1, <1>2, ChildOf, StrictPrefixesOfChild, Zenon
<1>5. QED
  BY <1>1, <1>2, <1>3, <1>4 DEF NewPath, AncestorsInner

(* A successful findNewPath preserves DetInv: the path asked for is new,   *)
(* and the store it sets up satisfies the query.                           *)
LEMMA DetFindNewPath ==
    ASSUME TypeOK, DetInv, FindNewPath
    PROVE  DetInv'
<1>1. /\ pc = "solve" /\ pc' = "budget" /\ prog' = prog
      /\ executed' = executed /\ paths_found' = paths_found
  BY DEF FindNewPath, outVars
<1>2. PICK q \in Candidates(tree) :
        /\ tree' = Negate(q)
        /\ goal' = Flipped(tree, q)
        /\ \E a \in Assignments(tree, Flipped(tree, q)) : SetupNewValues(a)
  BY DEF FindNewPath
<1>3. PICK a \in Assignments(tree, goal') : SetupNewValues(a)
  BY <1>2
<1>4. /\ q \in DOMAIN tree /\ goal' \in Paths
      /\ NewPath(goal')
  BY <1>2, FlippedIsNew, Zenon DEF DetInv
<1>5. /\ AncestorsInner' /\ TreeMatchesProgram' /\ DOMAIN tree' = DOMAIN tree
      /\ \A p \in DOMAIN tree : /\ tree'[p].bv = tree[p].bv
                                /\ tree'[p].at = tree[p].at
                                /\ isPlaceholder(tree', p) <=> isPlaceholder(tree, p)
  BY <1>1, <1>2, <1>4, DetNegate
<1>6. next_run' = a
  <2>1. next_run = Empty /\ a \in Stores
    BY <1>1, Zenon DEF DetInv, Arrived, Assignments
  <2>2. \A n \in Names : next_run'[n] = a[n]
    BY <1>3, <2>1 DEF SetupNewValues, Empty
  <2>3. QED
    BY <1>3, <2>1, <2>2 DEF SetupNewValues, Stores
<1>7. NewPath(goal)' /\ next_run' \in Assignments(tree, goal)'
  <2>1. Assignments(tree', goal') = Assignments(tree, goal')
    BY <1>4, <1>5, NewPathKept DEF NewPath
  <2>2. QED
    BY <1>3, <1>4, <1>5, <1>6, <2>1, SMTT(30) DEF NewPath
<1>8. ASSUME NEW k \in 1..Len(executed)
      PROVE  ~IsPrefixOf(goal', executed[k])
  <2>1. executed[k] \in DOMAIN tree /\ executed[k] \in Paths
    BY DEF DetInv, TypeOK
  <2>2. QED
    BY <1>4, <2>1, PrefixOrEqual DEF NewPath, DetInv, AncestorsInner
<1>9. \A k \in 1..Len(executed) : /\ executed[k] \in DOMAIN tree'
                                 /\ prog[tree'[executed[k]].at].op # "br"
  BY <1>5, ZenonT(30) DEF DetInv
<1>10. NoPathTwice'
  BY <1>1, Zenon DEF DetInv, NoPathTwice
<1>11. QED
  BY <1>1, <1>5, <1>7, <1>8, <1>9, <1>10, Zenon DEF DetInv

(* A query that fails marks a node and changes nothing DetInv speaks of.   *)
LEMMA DetQueryFails ==
    ASSUME TypeOK, DetInv, QueryFails
    PROVE  DetInv'
<1>1. /\ pc = "solve" /\ pc' = pc /\ prog' = prog /\ cur' = cur /\ goal' = goal
      /\ executed' = executed /\ paths_found' = paths_found /\ next_run' = next_run
  BY DEF QueryFails, outVars, ctxVars
<1>2. PICK q \in DOMAIN tree : tree' = Negate(q)
  BY DEF QueryFails, Candidates
<1>3. /\ AncestorsInner' /\ TreeMatchesProgram' /\ DOMAIN tree' = DOMAIN tree
      /\ \A p \in DOMAIN tree : tree'[p].at = tree[p].at
  BY <1>1, <1>2, DetNegate, SMTT(30)
<1>4. Arrived' /\ NoPathTwice'
  BY <1>1, ZenonT(30) DEF DetInv, Arrived, NoPathTwice
<1>5. \A k \in 1..Len(executed) : /\ executed[k] \in DOMAIN tree'
                                 /\ prog[tree'[executed[k]].at].op # "br"
  BY <1>3, Zenon DEF DetInv
<1>6. QED
  BY <1>1, <1>3, <1>4, <1>5, Zenon DEF DetInv

(* The exploration ends without touching the tree or the run.              *)
LEMMA DetFinish ==
    ASSUME TypeOK, DetInv, BudgetExceeded \/ AllBranchesExhausted
    PROVE  DetInv'
<1>1. /\ pc' = "finished" /\ pc \in {"budget", "solve"}
      /\ prog' = prog /\ tree' = tree /\ executed' = executed
      /\ paths_found' = paths_found
  BY DEF BudgetExceeded, AllBranchesExhausted
<1>2. QED
  BY <1>1, ZenonT(30) DEF DetInv, AncestorsInner, TreeMatchesProgram, isPlaceholder, NoPathTwice

(* DetInv depends on the variables only.                                   *)
LEMMA DetStutter ==
    ASSUME DetInv, UNCHANGED vars
    PROVE  DetInv'
<1>1. /\ prog' = prog /\ pc' = pc /\ tree' = tree /\ cur' = cur /\ goal' = goal
      /\ next_run' = next_run /\ gpc' = gpc /\ vals' = vals
      /\ executed' = executed /\ paths_found' = paths_found
  BY DEF vars, ctxVars, guestVars, outVars
<1>2. AncestorsInner' = AncestorsInner
  BY <1>1, SMTT(30) DEF AncestorsInner, isPlaceholder
<1>3. TreeMatchesProgram' = TreeMatchesProgram
  BY <1>1 DEF TreeMatchesProgram, isPlaceholder
<1>4. NewPath(goal)' = NewPath(goal)
  BY <1>1 DEF NewPath, isPlaceholder
<1>5. Heading' = Heading
  BY <1>1, <1>4 DEF Heading
<1>6. Arrived' = Arrived /\ NoPathTwice' = NoPathTwice
  BY <1>1 DEF Arrived, NoPathTwice
<1>7. QED
  BY <1>1, <1>2, <1>3, <1>4, <1>5, <1>6, Zenon DEF DetInv

(* For deterministic guests the invariant holds throughout.                *)
LEMMA DetInvariant == Spec => [](Deterministic(prog) => DetInv)
<1>1. Init => (Deterministic(prog) => DetInv)
  BY DetInit
<1>2. TypeOK /\ (Deterministic(prog) => DetInv) /\ [Next]_vars
        => (Deterministic(prog) => DetInv)'
  <2> SUFFICES ASSUME TypeOK, Deterministic(prog) => DetInv, [Next]_vars,
                      Deterministic(prog')
               PROVE  DetInv'
    OBVIOUS
  <2>0. prog' = prog
    BY Zenon DEF Next, BudgetExceeded, StartRun, SymbolicBranch, ConcretizedBranch, GuestExit,
           GuestError, GuestBreak, FindNewPath, QueryFails, AllBranchesExhausted, vars
  <2>1. Deterministic(prog) /\ DetInv
    BY <2>0, SMTT(30)
  <2>2. ~ConcretizedBranch
    BY <2>1 DEF ConcretizedBranch, Deterministic, Segment, TypeOK
  <2>3. QED
    BY <2>1, <2>2, DetFinish, DetStartRun, DetSymbolicBranch, DetRunEnds,
       DetFindNewPath, DetQueryFails, DetStutter DEF Next
<1>3. QED
  BY <1>1, <1>2, TypeCorrect, PTL DEF Spec

(* explore_paths never executes a path of a deterministic guest twice, and *)
(* counts exactly the runs it made.                                        *)
THEOREM ExecutedPathsUnique == Spec => []PathsUnique
<1>1. (Deterministic(prog) => DetInv) => PathsUnique
  BY Zenon DEF DetInv, PathsUnique
<1>2. QED
  BY <1>1, DetInvariant, PTL

(* Every run of a deterministic guest that findNewPath has set up takes    *)
(* the branches its query asked for and consumes every value it was given. *)
THEOREM RunsFollowTheirGoal == Spec => []RunFollowsGoal
<1>1. (Deterministic(prog) => DetInv) => RunFollowsGoal
  BY Zenon DEF DetInv, RunFollowsGoal, Arrived, IsPrefixOf
<1>2. QED
  BY <1>1, DetInvariant, PTL
=============================================================================
