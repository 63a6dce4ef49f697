------------------------- MODULE CompletenessProofs -------------------------
(***************************************************************************)
(* An exploration that ends because no branch is left to negate has        *)
(* executed every path of the guest, for every set of names, values and    *)
(* guest programs that satisfies ConstantsAssumption.                      *)
(***************************************************************************)
EXTENDS ExplorationProofs, WellFoundedInduction

Inputs == [Names -> Values]

(* Where the tree ends, a run has ended: only the run in progress, or the  *)
(* root before the first run, is at a leaf that has not been executed.     *)
LeavesExecuted ==
    \A p \in DOMAIN tree : isPlaceholder(tree, p) =>
        \/ \E k \in 1..Len(executed) : executed[k] = p
        \/ pc = "sim" /\ p = cur
        \/ pc = "budget" /\ p = << >>

(* A direction that a negated node lacks is one that no input takes, or    *)
(* the one that the run in progress was set up to take.                    *)
NegatedIsSettled ==
    \A p \in DOMAIN tree : \A d \in BOOLEAN :
        /\ ~isPlaceholder(tree, p) /\ tree[p].wasNegated
        /\ Append(p, d) \notin DOMAIN tree
        => \/ \A i \in Inputs : ~Satisfies(tree, Append(p, d), i)
           \/ pc \in {"budget", "sim"} /\ goal = Append(p, d)

Exhausted == pc = "finished" => Candidates(tree) = {}

(* The tree is of bounded depth.                                           *)
Shallow == \E n \in Nat : \A p \in DOMAIN tree : Len(p) <= n

CompleteInv == LeavesExecuted /\ NegatedIsSettled /\ Exhausted /\ Shallow
-----------------------------------------------------------------------------
(* Inputs and the paths they take                                          *)

(* A non-empty set of naturals has a least element.                        *)
LEMMA LeastElement ==
    ASSUME NEW T \in SUBSET Nat, T # {}
    PROVE  \E x \in T : \A y \in T : x <= y
<1>1. PICK x \in T : \A y \in T : <<y, x>> \notin OpToRel(<, Nat)
  BY WFMin, NatLessThanWellFounded, Zenon
<1>2. \A y \in T : ~(y < x)
  BY <1>1, Zenon DEF OpToRel
<1>3. QED
  BY <1>2

(* An input takes a child of a node when it reaches the node and the       *)
(* condition of the node has the direction of the child.                   *)
LEMMA SatisfiesChild ==
    ASSUME NEW t, NEW p \in Paths, NEW d \in BOOLEAN, NEW a
    PROVE  Satisfies(t, Append(p, d), a) <=>
              Satisfies(t, p, a) /\ Holds(t[p].bv, a) = d
<1> DEFINE c == Append(p, d)
           n == Len(p)
<1>1. n \in Nat /\ Len(c) = n + 1 /\ c[n + 1] = d /\ \A k \in 1..n : c[k] = p[k]
  BY DEF Paths
<1>2. \A k \in 1..n : Prefix(c, k - 1) = Prefix(p, k - 1)
  <2>1. \A k \in 0..n : Prefix(c, k) = Prefix(p, k)
    BY PrefixOfChild
  <2>2. \A k \in 1..n : k - 1 \in 0..n
    BY <1>1
  <2>3. QED
    BY <2>1, <2>2
<1>3. Prefix(c, n + 1 - 1) = p
  BY <1>1, ChildOf
<1> DEFINE R(k) == Holds(t[Prefix(c, k - 1)].bv, a) = c[k]
<1> HIDE DEF c, n
<1>4. Satisfies(t, c, a) <=> \A k \in 1..(n + 1) : R(k)
  BY <1>1 DEF Satisfies
<1>5. R(n + 1) <=> Holds(t[p].bv, a) = d
  BY <1>1, <1>3
<1>6. (\A k \in 1..n : R(k)) <=> Satisfies(t, p, a)
  BY <1>1, <1>2, Zenon DEF Satisfies, n
<1> HIDE DEF R
<1>7. (\A k \in 1..(n + 1) : R(k)) <=> (\A k \in 1..n : R(k)) /\ R(n + 1)
  <2>1. \A k : k \in 1..(n + 1) <=> k \in 1..n \/ k = n + 1
    BY <1>1
  <2>2. QED
    BY <2>1, Zenon
<1>8. QED
  BY <1>4, <1>5, <1>6, <1>7, Zenon DEF c

(* When an input takes a path, the solver has an assignment for it: the    *)
(* query mentions the names on the path and no others.                     *)
LEMMA InputAnswersQuery ==
    ASSUME NEW t, NEW p \in Paths, NEW i \in Inputs, Satisfies(t, p, i),
           Objects(t, p) \subseteq Names
    PROVE  Assignments(t, p) # {}
<1> DEFINE a == [n \in Names |-> IF n \in Objects(t, p) THEN i[n] ELSE None]
<1>1. a \in Stores /\ \A n \in Names : (a[n] # None) <=> (n \in Objects(t, p))
  BY ConstantsAssumption DEF Inputs, Stores
<1>2. ASSUME NEW k \in 1..Len(p)
      PROVE  Holds(t[Prefix(p, k - 1)].bv, a) = p[k]
  <2> DEFINE q == Prefix(p, k - 1)
  <2>1. q \in StrictPrefixes(p)
    <3>1. k - 1 \in 0..(Len(p) - 1)
      BY DEF Paths
    <3>2. QED
      BY <3>1 DEF StrictPrefixes
  <2>2. t[q].bv.names \subseteq Objects(t, p)
    BY <2>1 DEF Objects
  <2>3. \A n \in t[q].bv.names : a[n] = i[n]
    BY <2>2, SMTT(30)
  <2>4. Holds(t[q].bv, a) = Holds(t[q].bv, i)
    <3> HIDE DEF a, q
    <3>1. [n \in t[q].bv.names |-> a[n]] = [n \in t[q].bv.names |-> i[n]]
      BY <2>3
    <3>2. QED
      BY <3>1, Zenon DEF Holds
  <2>5. QED
    BY <2>4 DEF Satisfies
<1> HIDE DEF a
<1>3. Satisfies(t, p, a)
  BY <1>2 DEF Satisfies
<1>4. a \in Assignments(t, p)
  BY <1>1, <1>3 DEF Assignments
<1>5. QED
  BY <1>4

(* The names on the path a query asks for are names.                       *)
LEMMA QueryNames ==
    ASSUME TypeOK, DetInv, Deterministic(prog), NEW p \in DOMAIN tree,
           ~isPlaceholder(tree, p), NEW d \in BOOLEAN
    PROVE  Objects(tree, Append(p, d)) \subseteq Names
<1>1. p \in Paths /\ tree[p].at \in DOMAIN prog
  BY DEF TypeOK, Branch
<1>2. Objects(tree, Append(p, d)) = Objects(tree, p) \cup tree[p].bv.names
  BY <1>1, StrictPrefixesOfChild, SMTT(30) DEF Objects
<1>3. /\ prog[tree[p].at].op = "br" /\ tree[p].bv = prog[tree[p].at].bv
      /\ Objects(tree, p) \subseteq prog[tree[p].at].have
  BY Zenon DEF DetInv, TreeMatchesProgram
<1>4. /\ prog[tree[p].at].have \subseteq Names /\ prog[tree[p].at].req \subseteq Names
      /\ prog[tree[p].at].bv.names \subseteq prog[tree[p].at].have \cup prog[tree[p].at].req
  BY <1>1, <1>3, ConstantsAssumption DEF Deterministic, TypeOK, WellFormed
<1>5. QED
  BY <1>2, <1>3, <1>4

-----------------------------------------------------------------------------
(* CompleteInv implies completeness                                        *)

(* An open node has a highest open node above it, or is one: getRandomPath *)
(* misses none.                                                            *)
LEMMA NoCandidateNoOpen ==
    ASSUME TypeOK, AncestorsInner, Candidates(tree) = {}
    PROVE  \A p \in DOMAIN tree : ~Open(tree, p)
<1> SUFFICES ASSUME NEW r \in DOMAIN tree, Open(tree, r) PROVE FALSE
  OBVIOUS
<1> DEFINE O == {p \in DOMAIN tree : Open(tree, p)}
           T == {Len(p) : p \in O}
<1>1. \A p \in DOMAIN tree : p \in Paths /\ Len(p) \in Nat
  BY DEF TypeOK, Paths
<1>2. T \in SUBSET Nat /\ T # {}
  BY <1>1, Zenon
<1>3. PICK x \in T : \A y \in T : x <= y
  BY <1>2, LeastElement, Zenon
<1>4. PICK p \in O : x = Len(p)
  BY <1>3
<1>5. ASSUME NEW q \in StrictPrefixes(p), Open(tree, q)
      PROVE  FALSE
  <2>1. p \in Paths /\ p \in DOMAIN tree
    BY <1>1, <1>4
  <2>2. q \in DOMAIN tree
    BY <1>5, <2>1 DEF AncestorsInner
  <2>3. Len(q) < Len(p) /\ Len(q) \in Nat /\ Len(p) \in Nat
    BY <1>1, <1>5, <2>1, <2>2, StrictPrefixType
  <2>4. Len(q) \in T
    BY <1>5, <2>2
  <2>5. QED
    BY <1>3, <1>4, <2>3, <2>4
<1>6. p \in Candidates(tree)
  BY <1>4, <1>5 DEF Candidates
<1>7. QED
  BY <1>6

(* An input goes down the tree as far as it can; where it cannot go on is  *)
(* a leaf, since a missing direction of an inner node is one that no input *)
(* takes.                                                                  *)
LEMMA InputReachesLeaf ==
    ASSUME TypeOK, AncestorsInner, NegatedIsSettled, Shallow, pc = "finished",
           Candidates(tree) = {}, NEW i \in Inputs
    PROVE  \E p \in DOMAIN tree : isPlaceholder(tree, p) /\ Satisfies(tree, p, i)
<1>1. PICK n \in Nat : \A p \in DOMAIN tree : Len(p) <= n
  BY DEF Shallow
<1>2. \A p \in DOMAIN tree : p \in Paths /\ Len(p) \in Nat
  BY DEF TypeOK, Paths
<1> DEFINE S == {p \in DOMAIN tree : Satisfies(tree, p, i)}
           T == {n - Len(p) : p \in S}
<1>3. << >> \in S
  BY DEF TypeOK, Satisfies
<1>4. T \in SUBSET Nat /\ T # {}
  BY <1>1, <1>2, <1>3
<1>5. PICK x \in T : \A y \in T : x <= y
  BY <1>4, LeastElement, Zenon
<1>6. PICK p \in S : x = n - Len(p)
  BY <1>5
<1>7. p \in DOMAIN tree /\ p \in Paths /\ Satisfies(tree, p, i)
  BY <1>2, <1>6
<1>8. ASSUME ~isPlaceholder(tree, p) PROVE FALSE
  <2> DEFINE d == Holds(tree[p].bv, i)
  <2>1. d \in BOOLEAN
    BY DEF Holds
  <2>2. Satisfies(tree, Append(p, d), i)
    BY <1>7, <2>1, SatisfiesChild
  <2> HIDE DEF d
  <2>3. CASE Append(p, d) \in DOMAIN tree
    <3>1. n - Len(Append(p, d)) \in T
      <4>1. Append(p, d) \in S
        BY <2>2, <2>3
      <4>2. QED
        BY <4>1, Zenon
    <3>2. Len(Append(p, d)) = Len(p) + 1
      BY <1>7, <2>1, ChildOf
    <3>3. Len(p) \in Nat
      BY <1>2, <1>7
    <3>4. x <= n - Len(Append(p, d))
      BY <1>5, <3>1, Zenon
    <3>5. x = n - Len(p)
      BY <1>6
    <3> HIDE DEF S, T
    <3>6. QED
      BY <3>2, <3>3, <3>4, <3>5
  <2>4. CASE Append(p, d) \notin DOMAIN tree
    <3>1. ~Open(tree, p)
      BY <1>7, NoCandidateNoOpen
    <3>2. tree[p].wasNegated
      BY <1>8, <2>1, <2>4, <3>1 DEF Open
    <3>3. QED
      BY <1>7, <1>8, <2>1, <2>2, <2>4, <3>2, SMTT(30) DEF NegatedIsSettled
  <2>5. QED
    BY <2>3, <2>4
<1>9. QED
  BY <1>7, <1>8

LEMMA CompleteInvSuffices ==
    ASSUME TypeOK, DetInv, CompleteInv, pc = "finished", NEW i \in Inputs
    PROVE  \E k \in 1..Len(executed) : Satisfies(tree, executed[k], i)
<1>1. PICK p \in DOMAIN tree : isPlaceholder(tree, p) /\ Satisfies(tree, p, i)
  BY InputReachesLeaf DEF CompleteInv, Exhausted, DetInv
<1>2. \E k \in 1..Len(executed) : executed[k] = p
  BY <1>1 DEF CompleteInv, LeavesExecuted
<1>3. QED
  BY <1>1, <1>2
-----------------------------------------------------------------------------
(* CompleteInv is inductive                                                *)

(* What is settled stays settled when the tree grows.                      *)
LEMMA SettledStays ==
    ASSUME TypeOK, AncestorsInner, NegatedIsSettled,
           \A q \in DOMAIN tree : ~isPlaceholder(tree, q) => tree'[q].bv = tree[q].bv,
           NEW p \in DOMAIN tree, ~isPlaceholder(tree, p), tree[p].wasNegated,
           NEW d \in BOOLEAN, Append(p, d) \notin DOMAIN tree
    PROVE  \/ \A i \in Inputs : ~Satisfies(tree', Append(p, d), i)
           \/ pc \in {"budget", "sim"} /\ goal = Append(p, d)
<1>1. p \in Paths /\ Append(p, d) \in Paths
      /\ StrictPrefixes(Append(p, d)) = StrictPrefixes(p) \cup {p}
  BY ChildOf, StrictPrefixesOfChild DEF TypeOK
<1>2. \A q \in StrictPrefixes(Append(p, d)) : tree'[q].bv = tree[q].bv
  BY <1>1 DEF AncestorsInner
<1>3. \A i : Satisfies(tree', Append(p, d), i) <=> Satisfies(tree, Append(p, d), i)
  BY <1>1, <1>2, SameQuery, Zenon
<1>4. QED
  BY <1>3 DEF NegatedIsSettled

LEMMA CompleteInit ==
    ASSUME Init PROVE CompleteInv
<1>1. /\ DOMAIN tree = {<< >>} /\ isPlaceholder(tree, << >>) /\ pc = "budget"
  BY DEF Init, Placeholder, isPlaceholder
<1>2. LeavesExecuted /\ NegatedIsSettled /\ Exhausted
  BY <1>1 DEF LeavesExecuted, NegatedIsSettled, Exhausted
<1>3. Shallow
  <2>1. \A p \in DOMAIN tree : Len(p) <= 0
    BY <1>1
  <2>2. QED
    BY <2>1 DEF Shallow
<1>4. QED
  BY <1>2, <1>3 DEF CompleteInv

(* A run starts at the root.                                               *)
LEMMA CompleteStartRun ==
    ASSUME CompleteInv, StartRun
    PROVE  CompleteInv'
<1>1. /\ pc = "budget" /\ pc' = "sim" /\ cur' = << >>
      /\ tree' = tree /\ goal' = goal /\ executed' = executed
  BY DEF StartRun
<1>2. LeavesExecuted'
  BY <1>1 DEF CompleteInv, LeavesExecuted, isPlaceholder
<1>3. NegatedIsSettled'
  BY <1>1 DEF CompleteInv, NegatedIsSettled, isPlaceholder
<1>4. Exhausted' /\ Shallow'
  BY <1>1 DEF CompleteInv, Exhausted, Shallow
<1>5. QED
  BY <1>2, <1>3, <1>4 DEF CompleteInv

(* Trace::add turns the leaf of the run into an inner node that is not     *)
(* negated, and a leaf it adds is where the run is.                        *)
LEMMA CompleteSymbolicBranch ==
    ASSUME TypeOK, TreeWellFormed, DetInv, CompleteInv, SymbolicBranch
    PROVE  CompleteInv'
<1>1. /\ cur \in Paths /\ gpc \in DOMAIN prog /\ cur \in DOMAIN tree
      /\ \A p \in DOMAIN tree : p \in Paths /\ Len(p) \in Nat
  BY DEF TypeOK, Paths
<1>2. pc = "sim" /\ pc' = "sim" /\ goal' = goal /\ executed' = executed
  BY DEF SymbolicBranch, TypeOK
<1>3. PICK c \in BOOLEAN, h \in DOMAIN prog :
         /\ Segment.bv # NoBv
         /\ tree' = TraceAdd(tree, cur, c, Segment.bv, h)
         /\ cur' = Append(cur, c)
  BY BranchStep
<1> DEFINE child == Append(cur, c)
<1>4. /\ DOMAIN tree' = DOMAIN tree \cup {child}
      /\ \A p \in DOMAIN tree : p # cur => tree'[p] = tree[p]
      /\ tree'[cur].bv = IF isPlaceholder(tree, cur) THEN Segment.bv ELSE tree[cur].bv
      /\ tree'[cur].wasNegated = tree[cur].wasNegated
      /\ child \notin DOMAIN tree => tree'[child] = Placeholder(h)
  BY <1>1, <1>3, TraceAddFacts, ZenonT(30) DEF Segment
<1>5. /\ ~isPlaceholder(tree', cur)
      /\ \A q \in DOMAIN tree : ~isPlaceholder(tree, q) => tree'[q].bv = tree[q].bv
  BY <1>3, <1>4, Zenon DEF isPlaceholder
<1>6. child # cur /\ Len(child) = Len(cur) + 1
  BY <1>1, ChildOf
<1>7. LeavesExecuted'
  <2> SUFFICES ASSUME NEW p \in DOMAIN tree', isPlaceholder(tree', p)
               PROVE  (\E k \in 1..Len(executed) : executed[k] = p) \/ p = child
    BY <1>2, <1>3 DEF LeavesExecuted
  <2>1. CASE p \in DOMAIN tree
    <3>1. p # cur /\ isPlaceholder(tree, p)
      BY <1>4, <1>5, <2>1, SMTT(30) DEF isPlaceholder
    <3>2. QED
      BY <1>2, <2>1, <3>1 DEF CompleteInv, LeavesExecuted
  <2>2. QED
    BY <1>4, <2>1, SMTT(30)
<1>8. NegatedIsSettled'
  <2> SUFFICES ASSUME NEW p \in DOMAIN tree', NEW d \in BOOLEAN,
                      ~isPlaceholder(tree', p), tree'[p].wasNegated,
                      Append(p, d) \notin DOMAIN tree'
               PROVE  \/ \A i \in Inputs : ~Satisfies(tree', Append(p, d), i)
                      \/ goal = Append(p, d)
    BY <1>2 DEF NegatedIsSettled
  <2>1. p \in DOMAIN tree
    <3>1. Placeholder(h).bv = NoBv
      BY DEF Placeholder
    <3>2. QED
      BY <1>4, <3>1, Zenon DEF isPlaceholder
  <2>2. tree[p].wasNegated /\ Append(p, d) \notin DOMAIN tree
    BY <1>4, <2>1
  <2>3. ~isPlaceholder(tree, p)
    BY <2>1, <2>2 DEF TreeWellFormed
  <2>4. QED
    BY <1>5, <2>1, <2>2, <2>3, SettledStays, SMTT(30) DEF CompleteInv, DetInv
<1>9. Shallow'
  <2>1. PICK n \in Nat : \A p \in DOMAIN tree : Len(p) <= n
    BY DEF CompleteInv, Shallow
  <2>2. \A p \in DOMAIN tree' : Len(p) <= n + 1
    BY <1>1, <1>4, <1>6, <2>1
  <2>3. n + 1 \in Nat
    OBVIOUS
  <2>4. QED
    BY <2>2, <2>3 DEF Shallow
<1>10. QED
  BY <1>2, <1>7, <1>8, <1>9 DEF CompleteInv, Exhausted

(* A run that ends has executed the path to its leaf, and has reached the  *)
(* goal it was set up for: that direction is no longer missing.            *)
LEMMA CompleteRunEnds ==
    ASSUME TypeOK, DetInv, DetInv', Exhaustive(prog), CompleteInv,
           GuestExit \/ GuestError \/ GuestBreak
    PROVE  CompleteInv'
<1>1. /\ cur \in Paths /\ goal \in Paths /\ gpc \in DOMAIN prog
      /\ cur \in DOMAIN tree /\ executed \in Seq(Paths)
  BY SMTT(30) DEF TypeOK
<1>2. ~GuestBreak
  BY <1>1 DEF Exhaustive, GuestBreak, Segment
<1>3. /\ pc = "sim" /\ pc' \in {"solve", "exited"} /\ Segment.op # "br"
      /\ tree' = tree /\ goal' = goal /\ executed' = Append(executed, cur)
  BY <1>2, ZenonT(30) DEF GuestExit, GuestError, RunEnds
<1>4. goal \in DOMAIN tree
  <2>1. ~Heading
    <3> SUFFICES ASSUME Heading PROVE FALSE
      OBVIOUS
    <3>1. cur \in StrictPrefixes(goal)
      BY <1>1, NextOnPath, Zenon DEF Heading
    <3>2. gpc = tree[cur].at
      BY <1>3, Zenon DEF DetInv
    <3>3. QED
      BY <1>1, <1>3, <3>1, <3>2, ZenonT(30)
         DEF Heading, NewPath, DetInv, TreeMatchesProgram, Segment
  <2>2. IsPrefixOf(goal, cur)
    BY <1>3, <2>1, Zenon DEF DetInv, Arrived
  <2>3. QED
    BY <1>1, <2>2, PrefixOrEqual, Zenon DEF DetInv, AncestorsInner
<1>5. LeavesExecuted'
  <2>1. /\ Len(executed') = Len(executed) + 1 /\ Len(executed) \in Nat
        /\ \A k \in 1..Len(executed) : executed'[k] = executed[k]
        /\ executed'[Len(executed) + 1] = cur
    BY <1>1, <1>3
  <2> SUFFICES ASSUME NEW p \in DOMAIN tree, isPlaceholder(tree, p)
               PROVE  \E k \in 1..Len(executed') : executed'[k] = p
    BY <1>3 DEF LeavesExecuted
  <2>2. (\E k \in 1..Len(executed) : executed[k] = p) \/ p = cur
    BY <1>3 DEF CompleteInv, LeavesExecuted
  <2>3. 1..Len(executed) \subseteq 1..Len(executed') /\ Len(executed) + 1 \in 1..Len(executed')
    BY <2>1
  <2>4. QED
    BY <2>1, <2>2, <2>3, Zenon
<1>6. NegatedIsSettled'
  BY <1>3, <1>4, Zenon DEF CompleteInv, NegatedIsSettled, isPlaceholder
<1>7. Exhausted' /\ Shallow'
  BY <1>3 DEF CompleteInv, Exhausted, Shallow
<1>8. QED
  BY <1>5, <1>6, <1>7 DEF CompleteInv

(* Marking a node settles its missing direction: either it becomes the     *)
(* goal of the next run, or the solver has found that no input takes it.   *)
LEMMA CompleteFindNewPath ==
    ASSUME TypeOK, TreeWellFormed, DetInv, Exhaustive(prog), CompleteInv,
           FindNewPath \/ QueryFails
    PROVE  CompleteInv'
<1>1. /\ pc = "solve" /\ pc' \in {"budget", "solve"} /\ prog' = prog
      /\ executed' = executed
  BY DEF FindNewPath, QueryFails
<1>2. PICK q \in Candidates(tree) :
         /\ tree' = Negate(q)
         /\ \/ pc' = "budget" /\ goal' = Flipped(tree, q)
            \/ Assignments(tree, Flipped(tree, q)) = {}
  <2>1. prog \notin Timed
    BY SMTT(30) DEF Exhaustive
  <2>2. QED
    BY <2>1 DEF FindNewPath, QueryFails
<1>3. /\ q \in DOMAIN tree /\ q \in Paths /\ Open(tree, q) /\ ~isPlaceholder(tree, q)
      /\ Flipped(tree, q) \in Paths
  BY FlippedIsNew, Zenon DEF DetInv, Candidates, Open
<1>4. /\ DOMAIN tree' = DOMAIN tree
      /\ \A p \in DOMAIN tree : /\ tree'[p].bv = tree[p].bv
                                /\ p # q => tree'[p] = tree[p]
                                /\ isPlaceholder(tree', p) <=> isPlaceholder(tree, p)
  BY <1>1, <1>2, <1>3, NegateFacts, DetNegate, Zenon
<1>5. LeavesExecuted'
  BY <1>1, <1>4 DEF CompleteInv, LeavesExecuted
<1>6. NegatedIsSettled'
  <2> SUFFICES ASSUME NEW p \in DOMAIN tree, NEW d \in BOOLEAN,
                      ~isPlaceholder(tree, p), tree'[p].wasNegated,
                      Append(p, d) \notin DOMAIN tree
               PROVE  \/ \A i \in Inputs : ~Satisfies(tree', Append(p, d), i)
                      \/ pc' = "budget" /\ goal' = Append(p, d)
    BY <1>4 DEF NegatedIsSettled
  <2>1. CASE p # q
    <3>1. tree[p].wasNegated
      BY <1>4, <2>1, SMTT(30)
    <3>2. \/ \A i \in Inputs : ~Satisfies(tree', Append(p, d), i)
          \/ pc \in {"budget", "sim"} /\ goal = Append(p, d)
      BY <1>4, <3>1, SettledStays, SMTT(30) DEF CompleteInv, DetInv
    <3>3. QED
      BY <1>1, <3>2
  <2>2. CASE p = q
    <3>1. Append(p, d) = Flipped(tree, q)
      <4>1. PICK e \in BOOLEAN : Append(p, e) \in DOMAIN tree
        BY Zenon DEF TreeWellFormed
      <4>2. d # e
        BY <4>1
      <4>3. d = (Append(q, TRUE) \notin DOMAIN tree)
        <5>1. CASE d = TRUE
          BY <2>2, <5>1, Zenon
        <5>2. CASE d = FALSE
          BY <2>2, <4>1, <4>2, <5>2, Zenon
        <5>3. QED
          BY <5>1, <5>2, Zenon
      <4>4. QED
        BY <2>2, <4>3, Zenon DEF Flipped
    <3>2. CASE Assignments(tree, Flipped(tree, q)) = {}
      <4>1. Objects(tree, Append(p, d)) \subseteq Names
        BY QueryNames, SMTT(30) DEF Exhaustive
      <4>2. \A i \in Inputs : ~Satisfies(tree, Append(p, d), i)
        BY <1>3, <3>1, <3>2, <4>1, InputAnswersQuery, SMTT(30)
      <4>3. \A r \in StrictPrefixes(Append(p, d)) : tree'[r].bv = tree[r].bv
        <5>1. StrictPrefixes(Append(p, d)) = StrictPrefixes(p) \cup {p}
          BY <1>3, <2>2, StrictPrefixesOfChild
        <5>2. QED
          BY <1>4, <5>1, ZenonT(30) DEF DetInv, AncestorsInner
      <4>4. \A i : Satisfies(tree', Append(p, d), i) <=> Satisfies(tree, Append(p, d), i)
        BY <1>3, <3>1, <4>3, SameQuery, Zenon
      <4>5. QED
        BY <4>2, <4>4
    <3>3. QED
      BY <1>2, <3>1, <3>2, Zenon
  <2>3. QED
    BY <2>1, <2>2
<1>7. Exhausted' /\ Shallow'
  BY <1>1, <1>4 DEF CompleteInv, Exhausted, Shallow
<1>8. QED
  BY <1>5, <1>6, <1>7 DEF CompleteInv

(* Without a limit on time, only a tree without open nodes ends the loop.  *)
LEMMA CompleteFinish ==
    ASSUME Exhaustive(prog), CompleteInv, BudgetExceeded \/ AllBranchesExhausted
    PROVE  CompleteInv'
<1>1. /\ pc = "solve" /\ pc' = "finished" /\ Candidates(tree) = {}
      /\ tree' = tree /\ goal' = goal /\ executed' = executed
  BY DEF Exhaustive, BudgetExceeded, AllBranchesExhausted
<1>2. LeavesExecuted' /\ NegatedIsSettled'
  BY <1>1 DEF CompleteInv, LeavesExecuted, NegatedIsSettled, isPlaceholder
<1>3. Exhausted' /\ Shallow'
  BY <1>1 DEF CompleteInv, Exhausted, Shallow
<1>4. QED
  BY <1>2, <1>3 DEF CompleteInv

LEMMA CompleteStutter ==
    ASSUME CompleteInv, UNCHANGED vars
    PROVE  CompleteInv'
<1>1. pc' = pc /\ tree' = tree /\ cur' = cur /\ goal' = goal /\ executed' = executed
  BY DEF vars
<1>2. LeavesExecuted' /\ NegatedIsSettled'
  BY <1>1 DEF CompleteInv, LeavesExecuted, NegatedIsSettled, isPlaceholder
<1>3. Exhausted' /\ Shallow'
  BY <1>1 DEF CompleteInv, Exhausted, Shallow
<1>4. QED
  BY <1>2, <1>3 DEF CompleteInv

LEMMA CompleteInvariant == Spec => [](Exhaustive(prog) => CompleteInv)
<1> DEFINE D == Deterministic(prog) => DetInv
           C == Exhaustive(prog) => CompleteInv
<1>1. Init => C
  BY CompleteInit
<1>2. TypeOK /\ TreeWellFormed /\ D /\ D' /\ C /\ [Next]_vars => C'
  <2> SUFFICES ASSUME TypeOK, TreeWellFormed, D, D', C, [Next]_vars, Exhaustive(prog')
               PROVE  CompleteInv'
    OBVIOUS
  <2>1. prog' = prog
    BY Zenon DEF Next, BudgetExceeded, StartRun, SymbolicBranch, ConcretizedBranch, GuestExit,
           GuestError, GuestBreak, FindNewPath, QueryFails, AllBranchesExhausted, vars
  <2>2. Exhaustive(prog) /\ CompleteInv /\ DetInv /\ DetInv'
    BY <2>1, SMTT(30) DEF Exhaustive
  <2>3. ~ConcretizedBranch
    BY <2>2, Zenon DEF ConcretizedBranch, Exhaustive, Deterministic, Segment, TypeOK
  <2>4. QED
    BY <2>2, <2>3, CompleteStartRun, CompleteSymbolicBranch, CompleteRunEnds,
       CompleteFindNewPath, CompleteFinish, CompleteStutter DEF Next
<1>3. QED
  BY <1>1, <1>2, TypeCorrect, TreeIsWellFormed, DetInvariant, PTL DEF Spec

(* When explore_paths gives up because all branches are exhausted, every   *)
(* input of the guest follows a path that has been executed, whichever     *)
(* nodes getRandomPath picked, whichever assignments the solver found and  *)
(* whatever rand() returned.                                               *)
THEOREM ExplorationIsComplete == Spec => []ExplorationComplete
<1>1. TypeOK /\ (Deterministic(prog) => DetInv) /\ (Exhaustive(prog) => CompleteInv)
         => ExplorationComplete
  <2> SUFFICES ASSUME TypeOK, Deterministic(prog) => DetInv,
                      Exhaustive(prog) => CompleteInv,
                      pc = "finished", Exhaustive(prog), NEW i \in Inputs
               PROVE  \E k \in 1..Len(executed) : Satisfies(tree, executed[k], i)
    BY DEF ExplorationComplete, Inputs
  <2>1. DetInv /\ CompleteInv
    BY DEF Exhaustive
  <2>2. QED
    BY <2>1, CompleteInvSuffices
<1>2. QED
  BY <1>1, TypeCorrect, DetInvariant, CompleteInvariant, PTL
-----------------------------------------------------------------------------
(* The exploration implements PathCoverage                                 *)

Covered == {executed[k] : k \in 1..Len(executed)}

Coverage == INSTANCE PathCoverage WITH
    exact <- Exhaustive(prog),
    todo <- FeasiblePaths(prog) \ Covered,
    done <- pc \notin {"budget", "sim", "solve"}

LEMMA PrefixExtends ==
    ASSUME NEW p \in Paths, NEW j \in 1..Len(p)
    PROVE  /\ p[j] \in BOOLEAN /\ Prefix(p, j - 1) \in Paths
           /\ Prefix(p, j) = Append(Prefix(p, j - 1), p[j])
  BY DEF Paths, Prefix

LEMMA EmptyPrefix ==
    ASSUME NEW p \in Paths
    PROVE  Prefix(p, 0) = << >>
  BY SMTT(30) DEF Paths, Prefix

LEMMA Indices ==
    ASSUME NEW m \in Nat, NEW n \in Nat, NEW x \in 1..n, x <= m
    PROVE  /\ x - 1 \in 0..(m - 1) /\ x \in 1..m /\ x - 1 + 1 = x
           /\ x # m => x \in 0..(m - 1)
  OBVIOUS

LEMMA FirstIndex == 0 + 1 = 1
  BY SMTT(30)

(* The path an input takes through the program is the executed path it     *)
(* satisfies: up to the end of either, program and tree make the same      *)
(* decisions at the same points.                                           *)
LEMMA SamePath ==
    ASSUME TypeOK, DetInv, NEW e \in DOMAIN tree, prog[tree[e].at].op # "br",
           NEW i \in Inputs, Satisfies(tree, e, i),
           NEW p \in Paths, NEW w \in Seq(DOMAIN prog), Takes(prog, i, p, w)
    PROVE  p = e
<1>1. e \in Paths /\ Len(e) \in Nat /\ Len(p) \in Nat
  BY SMTT(30) DEF TypeOK, Paths
<1>2. /\ Len(w) = Len(p) + 1 /\ w[1] = 1 /\ prog[w[Len(p) + 1]].op # "br"
      /\ \A k \in 1..Len(p) : /\ prog[w[k]].op = "br"
                              /\ Holds(prog[w[k]].bv, i) = p[k]
                              /\ w[k + 1] = Succ(prog, w[k], p[k])
  BY Zenon DEF Takes
<1>3. ASSUME NEW k \in 0..(Len(e) - 1)
      PROVE  /\ Prefix(e, k) \in DOMAIN tree
             /\ prog[tree[Prefix(e, k)].at].op = "br"
             /\ tree[Prefix(e, k)].bv = prog[tree[Prefix(e, k)].at].bv
  <2>1. Prefix(e, k) \in StrictPrefixes(e)
    BY <1>3, Zenon DEF StrictPrefixes
  <2>2. Prefix(e, k) \in DOMAIN tree /\ ~isPlaceholder(tree, Prefix(e, k))
    BY <2>1, Zenon DEF DetInv, AncestorsInner
  <2>3. QED
    BY <2>2, Zenon DEF DetInv, TreeMatchesProgram
<1> DEFINE Agree(j) == Prefix(e, j) = Prefix(p, j) /\ tree[Prefix(e, j)].at = w[j + 1]
<1>4. Agree(0)
  <2>1. Prefix(e, 0) = << >> /\ Prefix(p, 0) = << >>
    BY <1>1, EmptyPrefix, Zenon
  <2>2. tree[<< >>].at = 1
    BY ZenonT(30) DEF DetInv, TreeMatchesProgram
  <2>3. QED
    BY <1>2, <2>1, <2>2, FirstIndex, ZenonT(30)
<1>5. ASSUME NEW x \in 1..Len(p), x <= Len(e), Agree(x - 1)
      PROVE  Agree(x)
  <2> DEFINE q == Prefix(e, x - 1)
  <2>1. /\ x - 1 \in 0..(Len(e) - 1) /\ x \in 1..Len(e) /\ x - 1 + 1 = x
        /\ x # Len(e) => x \in 0..(Len(e) - 1)
    BY <1>1, <1>5, Indices, ZenonT(30)
  <2>2. q = Prefix(p, x - 1) /\ tree[q].at = w[x]
    BY <1>5, <2>1, ZenonT(30)
  <2>3. q \in DOMAIN tree /\ tree[q].bv = prog[w[x]].bv
    BY <1>3, <2>1, <2>2, Zenon
  <2>4. /\ Prefix(e, x) = Append(q, e[x]) /\ e[x] \in BOOLEAN
        /\ Prefix(p, x) = Append(q, p[x])
    BY <1>1, <2>1, <2>2, PrefixExtends, ZenonT(30)
  <2>5. Prefix(e, x) \in DOMAIN tree
    <3>1. CASE x = Len(e)
      BY <1>1, <3>1, PrefixFacts, SMTT(30)
    <3>2. CASE x # Len(e)
      BY <1>3, <2>1, <3>2, ZenonT(30)
    <3>3. QED
      BY <3>1, <3>2, ZenonT(30)
  <2> HIDE DEF q
  <2>6. e[x] = p[x]
    <3>1. Holds(tree[q].bv, i) = e[x]
      BY <2>1, SMTT(30) DEF Satisfies, q
    <3>2. Holds(prog[w[x]].bv, i) = p[x]
      BY <1>2, Zenon
    <3>3. QED
      BY <2>3, <3>1, <3>2, SMTT(30)
  <2>7. tree[Prefix(e, x)].at = Succ(prog, tree[q].at, e[x])
    BY <2>3, <2>4, <2>5, ZenonT(30) DEF DetInv, TreeMatchesProgram
  <2>8. tree[Prefix(e, x)].at = w[x + 1]
    BY <1>2, <2>2, <2>6, <2>7, Zenon
  <2>9. QED
    BY <2>4, <2>6, <2>8, Zenon
<1> HIDE DEF Agree
<1>6. \A j \in Nat : j <= Len(e) /\ j <= Len(p) => Agree(j)
  <2> DEFINE Bad == {j \in Nat : j <= Len(e) /\ j <= Len(p) /\ ~Agree(j)}
  <2> SUFFICES ASSUME Bad # {} PROVE FALSE
    BY Zenon
  <2>1. Bad \in SUBSET Nat
    OBVIOUS
  <2>2. PICK x \in Bad : \A y \in Bad : x <= y
    BY <2>1, LeastElement, ZenonT(30)
  <2>3. x \in Nat /\ x <= Len(e) /\ x <= Len(p) /\ ~Agree(x)
    BY <2>2
  <2>4. x # 0
    BY <1>4, <2>3, Zenon
  <2>5. /\ x - 1 \in Nat /\ x - 1 <= Len(e) /\ x - 1 <= Len(p) /\ x \in 1..Len(p)
        /\ ~(x <= x - 1)
    BY <1>1, <2>3, <2>4
  <2>6. Agree(x - 1)
    BY <2>2, <2>5, ZenonT(30)
  <2>7. QED
    BY <1>5, <2>3, <2>5, <2>6, ZenonT(30)
<1>7. Len(p) <= Len(e)
  <2> SUFFICES ASSUME Len(e) < Len(p) PROVE FALSE
    BY <1>1, SMTT(30)
  <2>1. tree[Prefix(e, Len(e))].at = w[Len(e) + 1]
    BY <1>1, <1>6, SMTT(30) DEF Agree
  <2>2. Prefix(e, Len(e)) = e
    BY <1>1, PrefixFacts, SMTT(30)
  <2>3. Len(e) + 1 \in 1..Len(p)
    BY <1>1, SMTT(30)
  <2>4. QED
    BY <1>2, <2>1, <2>2, <2>3, ZenonT(30)
<1>8. Len(e) <= Len(p)
  <2> SUFFICES ASSUME Len(p) < Len(e) PROVE FALSE
    BY <1>1, SMTT(30)
  <2>1. tree[Prefix(e, Len(p))].at = w[Len(p) + 1]
    BY <1>1, <1>6, SMTT(30) DEF Agree
  <2>2. Len(p) \in 0..(Len(e) - 1)
    BY <1>1
  <2>3. QED
    BY <1>2, <1>3, <2>1, <2>2, SMTT(30)
<1>9. Len(p) = Len(e)
  BY <1>1, <1>7, <1>8
<1>10. Prefix(e, Len(e)) = Prefix(p, Len(p))
  BY <1>1, <1>6, <1>9 DEF Agree
<1>11. QED
  BY <1>1, <1>10, PrefixFacts, SMTT(30)

(* When no input follows a path that has not been executed, no feasible    *)
(* path is left.                                                           *)
LEMMA NothingLeft ==
    TypeOK /\ DetInv /\ Exhaustive(prog) /\ pc = "finished" /\ ExplorationComplete
        => FeasiblePaths(prog) \ Covered = {}
<1> SUFFICES ASSUME TypeOK, DetInv, Exhaustive(prog), pc = "finished",
                    ExplorationComplete, NEW p \in FeasiblePaths(prog)
             PROVE  p \in Covered
  OBVIOUS
<1>1. PICK i \in Inputs, w \in Seq(DOMAIN prog) : p \in Paths /\ Takes(prog, i, p, w)
  BY DEF FeasiblePaths, Inputs
<1>2. PICK k \in 1..Len(executed) : Satisfies(tree, executed[k], i)
  BY DEF ExplorationComplete, Inputs
<1>3. executed[k] \in DOMAIN tree /\ prog[tree[executed[k]].at].op # "br"
  BY SMTT(30) DEF DetInv
<1>4. p = executed[k]
  BY <1>1, <1>2, <1>3, SamePath
<1>5. QED
  BY <1>4 DEF Covered

(* explore_paths executes feasible paths until none is left and only then  *)
(* returns, if it can follow the guest and no time limit ends it; of other *)
(* guests it may leave paths.  (Of guests that end on some input; with     *)
(* SYMEX_ERREXIT the first error ends the process instead.)                *)
THEOREM ExplorationCovers ==
    ASSUME ErrExit = FALSE, \A code \in Programs : FeasiblePaths(code) # {}
    PROVE  Spec => Coverage!Init /\ [][Coverage!Next]_(Coverage!vars)
<1> DEFINE D == Deterministic(prog) => DetInv
           todo == FeasiblePaths(prog) \ Covered
           done == pc \notin {"budget", "sim", "solve"}
<1>1. Init => Coverage!Init
  <2> SUFFICES ASSUME Init PROVE Coverage!Init
    OBVIOUS
  <2>1. prog \in Programs /\ pc = "budget" /\ Covered = {}
    BY DEF Init, Covered
  <2>2. Exhaustive(prog) \in BOOLEAN
    BY DEF Exhaustive
  <2>3. todo # {} /\ done = FALSE
    BY <2>1, SMTT(30)
  <2>4. QED
    BY <2>2, <2>3 DEF Coverage!Init
<1>2. TypeOK /\ TypeOK' /\ D' /\ ExplorationComplete' /\ [Next]_vars
         => [Coverage!Next]_(Coverage!vars)
  <2> SUFFICES ASSUME TypeOK, TypeOK', D', ExplorationComplete', [Next]_vars
               PROVE  Coverage!Next \/ UNCHANGED Coverage!vars
    OBVIOUS
  <2>1. prog' = prog
    BY Zenon DEF Next, BudgetExceeded, StartRun, SymbolicBranch, ConcretizedBranch, GuestExit,
           GuestError, GuestBreak, FindNewPath, QueryFails, AllBranchesExhausted, vars
  <2>2. /\ (Exhaustive(prog))' = Exhaustive(prog)
        /\ (FeasiblePaths(prog))' = FeasiblePaths(prog)
    BY <2>1
  <2>3. CASE UNCHANGED <<pc, executed>>
    <3>1. todo' = todo /\ done' = done
      BY <2>2, <2>3, SMTT(30) DEF Covered
    <3>2. QED
      BY <2>2, <3>1 DEF Coverage!vars
  <2>4. CASE executed' = executed /\ pc \in {"budget", "solve"} /\ pc' \in {"budget", "sim"}
    <3>1. todo' = todo /\ done' = done
      BY <2>2, <2>4 DEF Covered
    <3>2. QED
      BY <2>2, <3>1 DEF Coverage!vars
  <2>5. CASE GuestExit \/ GuestError
    <3>1. pc = "sim" /\ pc' = "solve" /\ executed' = Append(executed, cur)
      BY <2>5, SMTT(30) DEF GuestExit, GuestError, RunEnds
    <3>2. Covered' = Covered \cup {cur}
      <4>1. executed \in Seq(Paths)
        BY SMTT(30) DEF TypeOK
      <4>2. /\ Len(executed') = Len(executed) + 1 /\ Len(executed) \in Nat
            /\ \A k \in 1..Len(executed) : executed'[k] = executed[k]
            /\ executed'[Len(executed) + 1] = cur
        BY <3>1, <4>1, SMTT(30)
      <4>3. \A k : k \in 1..Len(executed') <=> k \in 1..Len(executed) \/ k = Len(executed) + 1
        BY <4>2
      <4>4. QED
        BY <4>2, <4>3, Zenon DEF Covered
    <3>3. todo' = todo \ {cur}
      BY <2>2, <3>2
    <3>4. done = FALSE /\ done' = done
      BY <3>1
    <3>5. CASE cur \in todo
      BY <2>2, <3>3, <3>4, <3>5 DEF Coverage!Next, Coverage!Execute
    <3>6. CASE cur \notin todo
      <4>1. todo' = todo
        BY <3>3, <3>6
      <4>2. QED
        BY <2>2, <3>4, <4>1 DEF Coverage!vars
    <3>7. QED
      BY <3>5, <3>6, SMTT(30)
  <2>6. CASE BudgetExceeded \/ AllBranchesExhausted
    <3>1. /\ pc \in {"budget", "solve"} /\ pc' = "finished" /\ executed' = executed
      BY <2>6 DEF BudgetExceeded, AllBranchesExhausted
    <3>2. todo' = todo /\ done = FALSE /\ done' = TRUE
      BY <2>2, <3>1 DEF Covered
    <3>3. CASE Exhaustive(prog)
      <4>1. Exhaustive(prog') /\ DetInv'
        BY <2>1, <3>3 DEF Exhaustive
      <4>2. todo' = {}
        <5>1. (TypeOK /\ DetInv /\ Exhaustive(prog) /\ pc = "finished" /\ ExplorationComplete
                 => FeasiblePaths(prog) \ Covered = {})'
          BY NothingLeft, PTL
        <5>2. QED
          BY <3>1, <4>1, <5>1
      <4>3. QED
        BY <2>2, <3>2, <4>2, SMTT(30) DEF Coverage!Next, Coverage!Finish
    <3>4. CASE ~Exhaustive(prog)
      BY <2>2, <3>2, <3>4 DEF Coverage!Next, Coverage!Abandon
    <3>5. QED
      BY <3>3, <3>4
  <2>7. CASE GuestBreak
    <3>1. pc = "sim" /\ pc' = "finished" /\ executed' = Append(executed, cur)
      BY <2>7 DEF GuestBreak, RunEnds
    <3>2. ~Exhaustive(prog)
      BY <2>7 DEF GuestBreak, Exhaustive, Segment, TypeOK
    <3>3. Covered \subseteq Covered'
      <4>1. executed \in Seq(Paths)
        BY SMTT(30) DEF TypeOK
      <4>2. \A k \in 1..Len(executed) : k \in 1..Len(executed') /\ executed'[k] = executed[k]
        BY <3>1, <4>1
      <4>3. QED
        BY <4>2 DEF Covered
    <3>4. todo' \subseteq todo /\ done = FALSE /\ done' = TRUE
      BY <2>2, <3>1, <3>3
    <3>5. QED
      BY <2>2, <3>2, <3>4, SMTT(30) DEF Coverage!Next, Coverage!Abandon
  <2>8. QED
    BY <2>3, <2>4, <2>5, <2>6, <2>7, SMTT(30)
    DEF Next, vars, StartRun, SymbolicBranch, ConcretizedBranch, FindNewPath, QueryFails, TypeOK
<1>3. QED
  BY <1>1, <1>2, TypeCorrect, DetInvariant, ExplorationIsComplete, PTL DEF Spec
=============================================================================
