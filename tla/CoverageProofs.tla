--------------------------- MODULE CoverageProofs ---------------------------
(***************************************************************************)
(* Theorems about Coverage: the two walks over an image find its basic     *)
(* blocks as far as its jumps are uncompressed, a block is entered at the  *)
(* beginning of a basic block only, and marked exactly when an instruction *)
(* of it has been executed, for images of any size.                        *)
(***************************************************************************)
EXTENDS Coverage, Integers, TLAPS

(* The image of this execution, in the terms of Coverage.                  *)
ImageFacts ==
    /\ Len(img.funcs) \in Nat /\ Len(img.funcs) > 0
    /\ DOMAIN img.funcs = 1..Len(img.funcs)
    /\ DOMAIN img.instr \subseteq Nat
    /\ \A n \in DOMAIN img.funcs :
          /\ Lo(n) \in Nat /\ Hi(n) \in Nat /\ Lo(n) \in Body(n)
          /\ \A m \in DOMAIN img.funcs :
                n # m => Hi(n) <= Lo(m) \/ Hi(m) <= Lo(n)
    /\ \A a \in DOMAIN img.instr : \E n \in DOMAIN img.funcs : a \in Body(n)
    /\ \A a \in DOMAIN img.instr :
          /\ Instr(a).size \in Nat /\ After(a) \in Nat /\ a < After(a)
          /\ \A b \in DOMAIN img.instr : ~(a < b /\ b < After(a))
          /\ \E k \in Nat : k > 0 /\ DOMAIN Instr(a).sources = 1..k
    /\ \A n \in DOMAIN img.funcs : \A a \in Body(n) :
          /\ \/ After(a) = Hi(n)
             \/ After(a) < Hi(n) /\ After(a) \in Body(n)
          /\ Instr(a).kind \in {"branch", "jal"} =>
                /\ \A x : x \in {Instr(a).dest} \cap (Lo(n)..(Hi(n) - 1))
                            <=> x = Instr(a).dest /\ x \in Body(n)
                /\ \/ Instr(a).dest \in Body(n)
                   \/ Instr(a).dest \in DOMAIN img.instr =>
                         \E m \in DOMAIN img.funcs : Instr(a).dest = Lo(m)

(* An image has a first function, where a run begins.                      *)
LEMMA FirstFunction ==
    ASSUME ImageFacts PROVE 1 \in DOMAIN img.funcs /\ Lo(1) \in Body(1) /\ Lo(1) \in Nat
<1>1. 1 \in DOMAIN img.funcs
  <2>1. Len(img.funcs) \in Nat /\ Len(img.funcs) > 0 /\ DOMAIN img.funcs = 1..Len(img.funcs)
    BY Zenon DEF ImageFacts
  <2> QED BY <2>1
<1>2. \A n \in DOMAIN img.funcs : Lo(n) \in Nat /\ Lo(n) \in Body(n)
  BY Zenon DEF ImageFacts
<1> QED BY <1>1, <1>2

(* An image that is well formed, in the terms of Coverage.                 *)
LEMMA ImageFactsHold == ASSUME WellFormed(img) PROVE ImageFacts
<1>1. /\ Len(img.funcs) \in Nat /\ Len(img.funcs) > 0 /\ DOMAIN img.funcs = 1..Len(img.funcs)
      /\ DOMAIN img.instr \subseteq Nat
  BY DEF WellFormed
<1>2. ASSUME NEW n \in DOMAIN img.funcs
      PROVE  /\ Lo(n) = img.funcs[n].lo /\ Hi(n) = img.funcs[n].hi
             /\ Lo(n) \in Nat /\ Hi(n) \in Nat
             /\ \A a : a \in Body(n) <=> a \in DOMAIN img.instr /\ InFunction(img, n, a)
  <2>2. Lo(n) = img.funcs[n].lo /\ Hi(n) = img.funcs[n].hi
    BY DEF Lo, Hi
  <2>3. img.funcs[n].lo \in Nat /\ img.funcs[n].hi \in Nat
    BY Zenon DEF WellFormed
  <2>4. \A a : a \in Body(n) <=> a \in DOMAIN img.instr /\ InFunction(img, n, a)
    BY <2>2 DEF Body, InFunction
  <2> QED BY <2>2, <2>3, <2>4
<1>3. \A a : Instr(a) = img.instr[a] /\ After(a) = a + img.instr[a].size
  BY DEF Instr, After
<1>4. ASSUME NEW n \in DOMAIN img.funcs
      PROVE  /\ Lo(n) \in Body(n)
             /\ \A m \in DOMAIN img.funcs :
                   n # m => Hi(n) <= Lo(m) \/ Hi(m) <= Lo(n)
  <2>1. /\ img.funcs[n].lo \in DOMAIN img.instr /\ img.funcs[n].lo < img.funcs[n].hi
        /\ \A m \in DOMAIN img.funcs : n # m => \/ img.funcs[n].hi <= img.funcs[m].lo
                                                \/ img.funcs[m].hi <= img.funcs[n].lo
    BY Zenon DEF WellFormed
  <2>2. InFunction(img, n, Lo(n))
    BY <1>2, <2>1 DEF InFunction
  <2> QED BY <1>2, <2>1, <2>2
<1>5. \A a \in DOMAIN img.instr : \E n \in DOMAIN img.funcs : a \in Body(n)
  BY <1>2 DEF WellFormed
<1>6. ASSUME NEW a \in DOMAIN img.instr
      PROVE  /\ Instr(a).size \in Nat /\ After(a) \in Nat /\ a < After(a)
             /\ \A b \in DOMAIN img.instr : ~(a < b /\ b < After(a))
             /\ \E k \in Nat : k > 0 /\ DOMAIN Instr(a).sources = 1..k
  <2>1. /\ img.instr[a].size \in Nat /\ img.instr[a].size > 0
        /\ \A b \in DOMAIN img.instr : ~(a < b /\ b < a + img.instr[a].size)
        /\ Len(img.instr[a].sources) \in Nat /\ Len(img.instr[a].sources) > 0
        /\ DOMAIN img.instr[a].sources = 1..Len(img.instr[a].sources)
    BY Zenon DEF WellFormed
  <2>2. a \in Nat
    BY <1>1
  <2> QED BY <1>3, <2>1, <2>2
<1>7. ASSUME NEW n \in DOMAIN img.funcs, NEW a \in Body(n)
      PROVE  /\ \/ After(a) = Hi(n)
                \/ After(a) < Hi(n) /\ After(a) \in Body(n)
             /\ Instr(a).kind \in {"branch", "jal"} =>
                   /\ \A x : x \in {Instr(a).dest} \cap (Lo(n)..(Hi(n) - 1))
                               <=> x = Instr(a).dest /\ x \in Body(n)
                   /\ \/ Instr(a).dest \in Body(n)
                      \/ Instr(a).dest \in DOMAIN img.instr =>
                            \E m \in DOMAIN img.funcs : Instr(a).dest = Lo(m)
  <2>1. a \in DOMAIN img.instr /\ InFunction(img, n, a) /\ a \in Nat
    BY <1>1, <1>2
  <2>2. /\ \/ a + img.instr[a].size = img.funcs[n].hi
           \/ /\ a + img.instr[a].size < img.funcs[n].hi
              /\ a + img.instr[a].size \in DOMAIN img.instr
        /\ img.instr[a].kind \in {"branch", "jal"} =>
              \/ img.instr[a].dest \in DOMAIN img.instr /\ InFunction(img, n, img.instr[a].dest)
              \/ /\ img.instr[a].dest \notin img.funcs[n].lo..(img.funcs[n].hi - 1)
                 /\ img.instr[a].dest \in DOMAIN img.instr =>
                       \E m \in DOMAIN img.funcs : img.instr[a].dest = img.funcs[m].lo
    BY <2>1, Zenon DEF WellFormed
  <2>3. \/ After(a) = Hi(n)
        \/ After(a) < Hi(n) /\ After(a) \in Body(n)
    <3>1. After(a) = a + img.instr[a].size /\ Hi(n) = img.funcs[n].hi
      BY <1>2, <1>3
    <3>2. ASSUME After(a) < Hi(n), After(a) \in DOMAIN img.instr
          PROVE  InFunction(img, n, After(a))
      <4>1. Lo(n) \in Nat /\ After(a) \in Nat /\ Lo(n) <= a /\ a < After(a)
        BY <1>2, <1>6, <2>1 DEF InFunction
      <4>2. Lo(n) <= After(a)
        BY <2>1, <4>1
      <4> QED BY <1>2, <3>2, <4>2 DEF InFunction
    <3> QED BY <1>2, <2>2, <3>1, <3>2
  <2>4. ASSUME Instr(a).kind \in {"branch", "jal"}
        PROVE  /\ \A x : x \in {Instr(a).dest} \cap (Lo(n)..(Hi(n) - 1))
                           <=> x = Instr(a).dest /\ x \in Body(n)
               /\ \/ Instr(a).dest \in Body(n)
                  \/ Instr(a).dest \in DOMAIN img.instr =>
                        \E m \in DOMAIN img.funcs : Instr(a).dest = Lo(m)
    <3> DEFINE d == img.instr[a].dest
    <3>1. Instr(a) = img.instr[a]
      BY <1>3
    <3>2. /\ Lo(n) = img.funcs[n].lo /\ Hi(n) = img.funcs[n].hi
          /\ Lo(n) \in Nat /\ Hi(n) \in Nat
          /\ d \in Body(n) <=> d \in DOMAIN img.instr /\ InFunction(img, n, d)
      BY <1>2
    <3>3. \/ d \in DOMAIN img.instr /\ InFunction(img, n, d)
          \/ /\ d \notin img.funcs[n].lo..(img.funcs[n].hi - 1)
             /\ d \in DOMAIN img.instr => \E m \in DOMAIN img.funcs : d = img.funcs[m].lo
      BY <2>2, <2>4, <3>1, Zenon
    <3> HIDE DEF d
    <3>4. d \in DOMAIN img.instr => d \in Nat
      BY <1>1
    <3>5. d \in Body(n) <=> d \in Lo(n)..(Hi(n) - 1)
      BY <3>2, <3>3, <3>4 DEF InFunction
    <3>6. \A x : x \in {d} \cap (Lo(n)..(Hi(n) - 1)) <=> x = d /\ x \in Body(n)
      BY <3>5
    <3>7. \/ d \in Body(n)
          \/ d \in DOMAIN img.instr => \E m \in DOMAIN img.funcs : d = Lo(m)
      BY <1>2, <3>2, <3>3
    <3> QED BY <3>1, <3>6, <3>7 DEF d
  <2> QED BY <2>3, <2>4
<1> QED BY <1>1, <1>2, <1>4, <1>5, <1>6, <1>7 DEF ImageFacts

(* An instruction ends where a later one begins, or before.                *)
LEMMA NoOverlap ==
    ASSUME ImageFacts, NEW j \in DOMAIN img.instr, NEW a \in DOMAIN img.instr, j < a
    PROVE  After(j) <= a
<1>1. ~(j < a /\ a < After(j)) /\ After(j) \in Nat /\ a \in Nat
  BY DEF ImageFacts
<1> QED BY <1>1

(* An instruction of a function: where it is and where it ends.            *)
LEMMA BodyFacts ==
    ASSUME ImageFacts, NEW n \in DOMAIN img.funcs, NEW a \in Body(n)
    PROVE  /\ a \in DOMAIN img.instr /\ a \in Nat /\ Lo(n) \in Nat /\ Hi(n) \in Nat
           /\ n \in Nat /\ n >= 1
           /\ Lo(n) <= a /\ a < Hi(n)
           /\ After(a) \in Nat /\ a < After(a) /\ After(a) = a + Instr(a).size
           /\ \/ After(a) = Hi(n)
              \/ After(a) < Hi(n) /\ After(a) \in Body(n)
<1>1. a \in DOMAIN img.instr /\ Lo(n) <= a /\ a < Hi(n)
  BY DEF Body
<1>2. After(a) = a + Instr(a).size
  BY DEF After
<1> QED BY <1>1, <1>2 DEF ImageFacts

(* The jumps the first walk has seen, and the leaders it has found: not    *)
(* yet the instruction it is at, when a jump was before it.                *)
Seen(n, j) == j \in Body(n) /\ (n < fn \/ (n = fn /\ j < addr))
IsJump(j) == opcode(j) \in Jumps
JumpsTo(j, x) == opcode(j) # "jalr" /\ x = Instr(j).dest

Found(x) ==
    \/ \E n \in DOMAIN img.funcs : n <= fn /\ x = Lo(n)
    \/ \E n \in DOMAIN img.funcs : \E j \in Body(n) :
          /\ Seen(n, j) /\ IsJump(j) /\ x \in Body(n)
          /\ (After(j) = x /\ ~(n = fn /\ x = addr)) \/ JumpsTo(j, x)

FirstWalk ==
    /\ fn \in DOMAIN img.funcs /\ addr \in Body(fn)
    /\ \A x : x \in block_leaders <=> Found(x)
    /\ prev_wasjump <=> \E j \in Body(fn) : Seen(fn, j) /\ IsJump(j) /\ After(j) = addr

(* What is found once the instruction has been looked at.                  *)
FoundNext(x) ==
    \/ \E n \in DOMAIN img.funcs : n <= fn /\ x = Lo(n)
    \/ \E n \in DOMAIN img.funcs : \E j \in Body(n) :
          /\ n < fn \/ (n = fn /\ j <= addr)
          /\ IsJump(j) /\ x \in Body(n)
          /\ (After(j) = x /\ ~(n = fn /\ x = After(addr))) \/ JumpsTo(j, x)

(* The leaders of an instruction are those the walk adds.                  *)
LEMMA LeadersAdded ==
    ASSUME ImageFacts, FirstWalk, NEW x
    PROVE  x \in block_leaders \cup NewLeaders <=> FoundNext(x)
<1>1. fn \in DOMAIN img.funcs /\ fn \in Nat /\ addr \in Body(fn) /\ addr \in Nat
      /\ addr \in DOMAIN img.instr
      /\ After(addr) \in Nat /\ addr < After(addr)
  BY BodyFacts DEF FirstWalk
<1>2. x \in NewLeaders
         <=> \/ prev_wasjump /\ x = addr
             \/ IsJump(addr) /\ JumpsTo(addr, x) /\ x \in Body(fn)
  <2>1. opcode(addr) \in {"branch", "jal"}
           <=> IsJump(addr) /\ opcode(addr) # "jalr"
    BY DEF IsJump, Jumps
  <2>2. opcode(addr) \in {"branch", "jal"} =>
           (x \in {Instr(addr).dest} \cap (Lo(fn)..(Hi(fn) - 1))
              <=> x = Instr(addr).dest /\ x \in Body(fn))
    <3>1. opcode(addr) \in {"branch", "jal"} => Instr(addr).kind \in {"branch", "jal"}
      BY DEF opcode
    <3> QED BY <1>1, <3>1 DEF ImageFacts
  <2>3. x \in NewLeaders
           <=> \/ prev_wasjump /\ x = addr
               \/ /\ opcode(addr) \in {"branch", "jal"}
                  /\ x \in {Instr(addr).dest} \cap (Lo(fn)..(Hi(fn) - 1))
    <3> DEFINE D == {Instr(addr).dest} \cap (Lo(fn)..(Hi(fn) - 1))
               B == opcode(addr) \in {"branch", "jal"}
    <3>1. NewLeaders = (IF prev_wasjump THEN {addr} ELSE {}) \cup (IF B THEN D ELSE {})
      BY Zenon DEF NewLeaders
    <3> HIDE DEF D, B
    <3>2. x \in NewLeaders <=> (prev_wasjump /\ x = addr) \/ (B /\ x \in D)
      BY <3>1, Zenon
    <3> QED BY <3>2, Zenon DEF D, B
  <2> QED BY <2>1, <2>2, <2>3, Zenon DEF JumpsTo
<1>3. \A j \in Body(fn) : j \in DOMAIN img.instr /\ j \in Nat
  BY <1>1, BodyFacts
<1>4. ASSUME x \in block_leaders PROVE FoundNext(x)
  <2>1. CASE \E n \in DOMAIN img.funcs : n <= fn /\ x = Lo(n)
    BY <2>1 DEF FoundNext
  <2>2. CASE \E n \in DOMAIN img.funcs : \E j \in Body(n) :
               /\ Seen(n, j) /\ IsJump(j) /\ x \in Body(n)
               /\ (After(j) = x /\ ~(n = fn /\ x = addr)) \/ JumpsTo(j, x)
    <3>0. PICK n \in DOMAIN img.funcs : \E j \in Body(n) :
               /\ Seen(n, j) /\ IsJump(j) /\ x \in Body(n)
               /\ (After(j) = x /\ ~(n = fn /\ x = addr)) \/ JumpsTo(j, x)
      BY <2>2
    <3>1. PICK j \in Body(n) :
               /\ Seen(n, j) /\ IsJump(j) /\ x \in Body(n)
               /\ (After(j) = x /\ ~(n = fn /\ x = addr)) \/ JumpsTo(j, x)
      BY <3>0
    <3>2. n < fn \/ (n = fn /\ j < addr)
      BY <3>1 DEF Seen
    <3>3. n = fn => j \in DOMAIN img.instr /\ j \in Nat /\ After(j) <= addr
      <4> SUFFICES ASSUME n = fn
                   PROVE  j \in DOMAIN img.instr /\ j \in Nat /\ After(j) <= addr
        OBVIOUS
      <4>1. j \in DOMAIN img.instr /\ j \in Nat
        BY <1>3
      <4>2. j < addr
        BY <1>1, <3>2
      <4> QED BY <1>1, <4>1, <4>2, NoOverlap
    <3>4. n < fn \/ (n = fn /\ j <= addr)
      BY <1>1, <3>2, <3>3
    <3>5. ~(n = fn /\ After(j) = After(addr))
      BY <1>1, <3>3
    <3>6. (After(j) = x /\ ~(n = fn /\ x = After(addr))) \/ JumpsTo(j, x)
      BY <3>1, <3>5
    <3> QED BY <3>1, <3>4, <3>6 DEF FoundNext
  <2> QED BY <1>4, <2>1, <2>2 DEF FirstWalk, Found
<1>5. ASSUME prev_wasjump, x = addr PROVE FoundNext(x)
  <2>1. PICK j \in Body(fn) : Seen(fn, j) /\ IsJump(j) /\ After(j) = addr
    BY <1>5 DEF FirstWalk
  <2>2. j < addr
    BY <1>1, <2>1 DEF Seen
  <2>3. j <= addr /\ x # After(addr)
    <3>1. j \in Nat
      BY <1>3
    <3> QED BY <1>1, <1>5, <2>2, <3>1
  <2> QED BY <1>1, <1>5, <2>1, <2>3, Zenon DEF FoundNext
<1>6. ASSUME IsJump(addr), JumpsTo(addr, x), x \in Body(fn) PROVE FoundNext(x)
  <2>1. addr <= addr
    BY <1>1
  <2> QED BY <1>1, <1>6, <2>1 DEF FoundNext
<1>7. ASSUME FoundNext(x) PROVE x \in block_leaders \cup NewLeaders
  <2>1. CASE \E n \in DOMAIN img.funcs : n <= fn /\ x = Lo(n)
    BY <2>1 DEF FirstWalk, Found
  <2>2. CASE \E n \in DOMAIN img.funcs : \E j \in Body(n) :
               /\ n < fn \/ (n = fn /\ j <= addr)
               /\ IsJump(j) /\ x \in Body(n)
               /\ (After(j) = x /\ ~(n = fn /\ x = After(addr))) \/ JumpsTo(j, x)
    <3>0. PICK n \in DOMAIN img.funcs : \E j \in Body(n) :
               /\ n < fn \/ (n = fn /\ j <= addr)
               /\ IsJump(j) /\ x \in Body(n)
               /\ (After(j) = x /\ ~(n = fn /\ x = After(addr))) \/ JumpsTo(j, x)
      BY <2>2
    <3>1. PICK j \in Body(n) :
               /\ n < fn \/ (n = fn /\ j <= addr)
               /\ IsJump(j) /\ x \in Body(n)
               /\ (After(j) = x /\ ~(n = fn /\ x = After(addr))) \/ JumpsTo(j, x)
      BY <3>0
    <3>2. CASE n = fn /\ j = addr
      BY <1>2, <3>1, <3>2
    <3>3. CASE ~(n = fn /\ j = addr)
      <4>1. Seen(n, j)
        <5>1. CASE n < fn
          BY <5>1 DEF Seen
        <5>2. CASE n = fn /\ j <= addr
          <6>1. j \in Nat /\ j # addr
            BY <1>3, <3>3, <5>2
          <6> QED BY <1>1, <5>2, <6>1 DEF Seen
        <5> QED BY <3>1, <5>1, <5>2
      <4>2. CASE After(j) = x /\ n = fn /\ x = addr
        <5>1. prev_wasjump
          BY <3>1, <4>1, <4>2 DEF FirstWalk
        <5> QED BY <1>2, <4>2, <5>1, Zenon
      <4>3. CASE ~(After(j) = x /\ n = fn /\ x = addr)
        <5>1. Found(x)
          BY <3>1, <4>1, <4>3 DEF Found
        <5> QED BY <5>1 DEF FirstWalk
      <4> QED BY <4>2, <4>3
    <3> QED BY <3>2, <3>3
  <2> QED BY <1>7, <2>1, <2>2 DEF FoundNext
<1> QED BY <1>2, <1>4, <1>5, <1>6, <1>7

(* When the first walk is through, it has found the leaders.               *)
LEMMA FirstWalkEnds ==
    ASSUME ImageFacts, FirstWalk, fn = Len(img.funcs), After(addr) = Hi(fn)
    PROVE  block_leaders \cup NewLeaders = UNION {Leaders(n) : n \in DOMAIN img.funcs}
<1>1. fn \in DOMAIN img.funcs /\ addr \in Body(fn) /\ fn \in Nat
      /\ After(addr) \in Nat /\ addr \in DOMAIN img.instr /\ addr \in Nat
  BY BodyFacts DEF FirstWalk
<1>2. \A n \in DOMAIN img.funcs : n \in Nat /\ n <= fn
  BY DEF ImageFacts
<1>3. \A j \in Body(fn) : j \in Nat /\ j <= addr
  <2> SUFFICES ASSUME NEW j \in Body(fn), addr < j PROVE FALSE
    BY <1>1, BodyFacts
  <2>1. j \in DOMAIN img.instr /\ j \in Nat /\ j < Hi(fn) /\ Hi(fn) \in Nat
    BY <1>1, BodyFacts
  <2>2. After(addr) <= j
    BY <1>1, <2>1, NoOverlap
  <2> QED BY <1>1, <2>1, <2>2
<1>4. After(addr) \notin Body(fn)
  <2> SUFFICES ASSUME Hi(fn) \in Body(fn) PROVE FALSE
    OBVIOUS
  <2> QED BY <1>1, BodyFacts
<1>5. ASSUME NEW x PROVE FoundNext(x) <=> \E n \in DOMAIN img.funcs : x \in Leaders(n)
  <2>1. \A n \in DOMAIN img.funcs : \A j \in Body(n) : n < fn \/ (n = fn /\ j <= addr)
    BY <1>1, <1>2, <1>3
  <2>2. FoundNext(x) <=>
          \/ \E n \in DOMAIN img.funcs : x = Lo(n)
          \/ \E n \in DOMAIN img.funcs : \E j \in Body(n) :
                IsJump(j) /\ x \in Body(n) /\ (After(j) = x \/ JumpsTo(j, x))
    BY <1>2, <1>4, <2>1 DEF FoundNext
  <2>3. \A n \in DOMAIN img.funcs : x \in Leaders(n) <=>
          \/ x = Lo(n)
          \/ \E j \in Body(n) :
                IsJump(j) /\ x \in Body(n) /\ (After(j) = x \/ JumpsTo(j, x))
    <3>1. \A j : IsJump(j) => opcode(j) = Instr(j).kind
      BY DEF IsJump, Jumps, opcode
    <3>2. \A n : \A j \in Body(n) : j \in FoundJumps <=> IsJump(j)
      BY DEF Body, FoundJumps, IsJump
    <3> QED BY <3>1, <3>2 DEF Leaders, LeadersBy, JumpsTo
  <2> QED BY <2>2, <2>3, Zenon
<1>6. \A x : x \in block_leaders \cup NewLeaders
              <=> \E n \in DOMAIN img.funcs : x \in Leaders(n)
  BY <1>5, LeadersAdded
<1> QED BY <1>6

(* What depends on the image only.                                         *)
LEMMA ImageKept ==
    ASSUME img' = img
    PROVE  /\ \A n : Lo(n)' = Lo(n) /\ Hi(n)' = Hi(n) /\ Body(n)' = Body(n)
           /\ \A a : /\ Instr(a)' = Instr(a) /\ After(a)' = After(a)
                     /\ IsJump(a)' <=> IsJump(a)
           /\ \A a, x : JumpsTo(a, x)' <=> JumpsTo(a, x)
           /\ \A n : Leaders(n)' = Leaders(n)
           /\ Entries' = Entries /\ AllJumps' = AllJumps /\ FoundJumps' = FoundJumps
<1>1. \A n : Lo(n)' = Lo(n) /\ Hi(n)' = Hi(n)
  BY DEF Lo, Hi
<1>2. \A a : Instr(a)' = Instr(a)
  BY DEF Instr
<1>3. \A a : After(a)' = After(a) /\ (IsJump(a)' <=> IsJump(a))
  BY <1>2 DEF After, IsJump, Jumps, opcode
<1>4. \A n : Body(n)' = Body(n)
  BY <1>1 DEF Body
<1>5. \A a, x : JumpsTo(a, x)' <=> JumpsTo(a, x)
  BY <1>2 DEF JumpsTo, opcode
<1>6. AllJumps' = AllJumps /\ FoundJumps' = FoundJumps
  BY DEF AllJumps, FoundJumps, opcode, Instr, Jumps
<1>7. ASSUME NEW n PROVE /\ LeadersBy(n, AllJumps)' = LeadersBy(n, AllJumps)
                         /\ LeadersBy(n, FoundJumps)' = LeadersBy(n, FoundJumps)
  BY <1>1, <1>2, <1>3, <1>4, <1>6, Zenon DEF LeadersBy
<1>8. Entries' = Entries
  BY <1>7, Zenon DEF Entries
<1> QED BY <1>1, <1>2, <1>3, <1>4, <1>5, <1>6, <1>7, <1>8 DEF Leaders

(* The instructions before the next one are those up to this one.          *)
LEMMA UpTo ==
    ASSUME ImageFacts, NEW n \in DOMAIN img.funcs, NEW a \in Body(n), NEW j \in Body(n)
    PROVE  j < After(a) <=> j <= a
<1>1. /\ a \in Nat /\ j \in Nat /\ After(a) \in Nat /\ a < After(a)
      /\ a \in DOMAIN img.instr /\ j \in DOMAIN img.instr
  BY BodyFacts
<1>2. a < j => After(a) <= j
  BY <1>1, NoOverlap
<1> QED BY <1>1, <1>2

(* Where a walk goes on.                                                   *)
LEMMA WalkGoes ==
    ASSUME ImageFacts, fn \in DOMAIN img.funcs, addr \in Body(fn), img' = img,
           Walk(addr + Instr(addr).size)
    PROVE  \/ /\ After(addr) \in Body(fn) /\ After(addr) < Hi(fn)
              /\ fn' = fn /\ addr' = After(addr) /\ phase' = phase
           \/ /\ After(addr) = Hi(fn) /\ fn # Len(img.funcs)
              /\ fn' = fn + 1 /\ fn' \in DOMAIN img.funcs /\ addr' = Lo(fn') /\ phase' = phase
           \/ /\ After(addr) = Hi(fn) /\ fn = Len(img.funcs)
              /\ fn' = 1 /\ addr' = Lo(1)
              /\ phase' = IF phase = "add_func" THEN "run" ELSE "add_func"
<1>1. /\ After(addr) = addr + Instr(addr).size
      /\ \/ After(addr) = Hi(fn)
         \/ After(addr) < Hi(fn) /\ After(addr) \in Body(fn)
      /\ fn \in Nat /\ Hi(fn) \in Nat
  BY BodyFacts
<1> DEFINE more == After(addr) < Hi(fn)
           last == fn = Len(img.funcs)
<1>2. /\ fn' = IF more THEN fn ELSE IF last THEN 1 ELSE fn + 1
      /\ addr' = IF more THEN After(addr) ELSE Lo(fn')
      /\ phase' = IF more \/ ~last THEN phase
                  ELSE IF phase = "add_func" THEN "run" ELSE "add_func"
  BY <1>1 DEF Walk, Lo
<1>3. fn # Len(img.funcs) => fn + 1 \in DOMAIN img.funcs
  BY DEF ImageFacts
<1> QED BY <1>1, <1>2, <1>3

(* A step of the first walk.                                               *)
LEMMA FirstWalkStep ==
    ASSUME ImageFacts, FirstWalk, phase = "init_basic_blocks", init_basic_blocks
    PROVE  \/ phase' = "init_basic_blocks" /\ FirstWalk'
           \/ /\ phase' = "add_func" /\ fn' = 1 /\ addr' = Lo(1)
              /\ block_leaders' = UNION {Leaders(n) : n \in DOMAIN img.funcs}
<1> DEFINE next == After(addr)
<1>1. /\ fn \in DOMAIN img.funcs /\ addr \in Body(fn) /\ fn \in Nat /\ fn >= 1
      /\ addr \in Nat /\ next \in Nat /\ addr < next /\ Hi(fn) \in Nat
  BY BodyFacts DEF FirstWalk
<1>2. /\ img' = img /\ Walk(addr + Instr(addr).size)
      /\ prev_wasjump' = (fn' = fn /\ phase' = phase /\ opcode(addr) \in Jumps)
      /\ block_leaders' = block_leaders \cup NewLeaders \cup {Lo(fn')}
  BY DEF init_basic_blocks, Lo
<1>3. \A x : x \in block_leaders' <=> FoundNext(x) \/ x = Lo(fn')
  BY <1>2, LeadersAdded
<1>4. \A n \in DOMAIN img.funcs : n \in Nat
  BY DEF ImageFacts
<1>5. CASE /\ next \in Body(fn) /\ fn' = fn /\ addr' = next /\ phase' = phase
  <2>1. \A n \in DOMAIN img.funcs : \A j \in Body(n) :
           Seen(n, j)' <=> n < fn \/ (n = fn /\ j <= addr)
    BY <1>1, <1>2, <1>5, ImageKept, UpTo DEF Seen
  <2>2. \A x : Found(x)' <=> FoundNext(x)
    BY <1>2, <1>5, <2>1, ImageKept DEF Found, FoundNext
  <2>3. FoundNext(Lo(fn))
    BY <1>1 DEF FoundNext
  <2>4. \A x : x \in block_leaders' <=> Found(x)'
    BY <1>3, <1>5, <2>2, <2>3
  <2>5. prev_wasjump' <=> \E j \in Body(fn) : Seen(fn, j)' /\ IsJump(j) /\ After(j) = next
    <3>1. prev_wasjump' <=> IsJump(addr)
      BY <1>2, <1>5, Zenon DEF IsJump
    <3>2. \A j \in Body(fn) : Seen(fn, j)' <=> j <= addr
      <4>1. ~(fn < fn)
        BY <1>1
      <4> QED BY <1>1, <1>2, <1>5, <4>1, ImageKept, UpTo DEF Seen
    <3>3. ASSUME NEW j \in Body(fn), j <= addr, After(j) = next PROVE j = addr
      <4>1. j \in Nat /\ j \in DOMAIN img.instr /\ addr \in DOMAIN img.instr
        BY <1>1, BodyFacts, Zenon
      <4>2. j < addr => After(j) <= addr
        BY <4>1, NoOverlap
      <4> QED BY <1>1, <3>3, <4>1, <4>2
    <3>4. addr <= addr
      BY <1>1
    <3> QED BY <1>1, <3>1, <3>2, <3>3, <3>4, Zenon
  <2>6. FirstWalk'
    BY <1>1, <1>2, <1>5, <2>4, <2>5, ImageKept DEF FirstWalk
  <2> QED BY <1>5, <2>6
<1>6. CASE /\ next = Hi(fn) /\ fn' = fn + 1 /\ fn' \in DOMAIN img.funcs /\ addr' = Lo(fn')
           /\ phase' = phase
  <2>1. \A j \in Body(fn) : j <= addr /\ j # next
    <3> SUFFICES ASSUME NEW j \in Body(fn) PROVE j <= addr /\ j # next
      OBVIOUS
    <3>1. j < next
      BY <1>1, <1>6, BodyFacts
    <3>2. j < next <=> j <= addr
      BY <1>1, UpTo
    <3>3. j \in Nat
      BY <1>1, BodyFacts, Zenon
    <3> QED BY <1>1, <3>1, <3>2, <3>3
  <2>2. \A j \in Body(fn') : j \in Nat /\ ~(j < Lo(fn'))
    <3> SUFFICES ASSUME NEW j \in Body(fn') PROVE j \in Nat /\ ~(j < Lo(fn'))
      OBVIOUS
    <3> QED BY <1>6, BodyFacts
  <2>3. \A n \in DOMAIN img.funcs : \A j \in Body(n) : Seen(n, j)' <=> n <= fn
    <3> SUFFICES ASSUME NEW n \in DOMAIN img.funcs, NEW j \in Body(n)
                 PROVE  Seen(n, j)' <=> n <= fn
      OBVIOUS
    <3>1. Seen(n, j)' <=> n < fn + 1 \/ (n = fn + 1 /\ j < Lo(fn'))
      BY <1>2, <1>6, ImageKept DEF Seen
    <3>2. n = fn + 1 => ~(j < Lo(fn'))
      BY <1>6, <2>2
    <3> QED BY <1>1, <1>4, <3>1, <3>2
  <2>4. ASSUME NEW x PROVE Found(x)' <=> FoundNext(x) \/ x = Lo(fn')
    <3>1. \A n \in DOMAIN img.funcs : (n <= fn' <=> n <= fn \/ n = fn')
                                      /\ (n <= fn <=> n < fn \/ n = fn)
      BY <1>1, <1>4, <1>6
    <3>2. Found(x)' <=> \/ \E n \in DOMAIN img.funcs : n <= fn' /\ x = Lo(n)
                        \/ \E n \in DOMAIN img.funcs : \E j \in Body(n) :
                              /\ n <= fn /\ IsJump(j) /\ x \in Body(n)
                              /\ After(j) = x \/ JumpsTo(j, x)
      <4>1. \A n \in DOMAIN img.funcs : n <= fn => n # fn'
        BY <1>1, <1>4, <1>6
      <4> QED BY <1>2, <1>6, <2>3, <4>1, ImageKept DEF Found
    <3>3. FoundNext(x) <=> \/ \E n \in DOMAIN img.funcs : n <= fn /\ x = Lo(n)
                           \/ \E n \in DOMAIN img.funcs : \E j \in Body(n) :
                                 /\ n <= fn /\ IsJump(j) /\ x \in Body(n)
                                 /\ After(j) = x \/ JumpsTo(j, x)
      BY <1>1, <2>1, <3>1 DEF FoundNext
    <3> QED BY <1>6, <3>1, <3>2, <3>3
  <2>5. \A x : x \in block_leaders' <=> Found(x)'
    BY <1>3, <2>4
  <2>6. ~prev_wasjump'
    <3>1. fn' # fn
      BY <1>1, <1>6
    <3> QED BY <1>2, <3>1, Zenon
  <2>7. addr' \in Body(fn')
    BY <1>6 DEF ImageFacts
  <2>8. FirstWalk'
    <3>1. Body(fn)' = Body(fn')
      BY <1>2 DEF Body, Lo, Hi
    <3>2. fn' \in DOMAIN img'.funcs /\ addr' \in Body(fn)'
      BY <1>2, <1>6, <2>7, <3>1
    <3>3. ~\E j \in Body(fn)' : Seen(fn, j)'
      <4> SUFFICES ASSUME NEW j \in Body(fn)', Seen(fn, j)' PROVE FALSE
        OBVIOUS
      <4>1. ~(fn' < fn')
        BY <1>1, <1>6
      <4>2. j < addr'
        BY <4>1 DEF Seen
      <4> QED BY <1>6, <2>2, <3>1, <4>2
    <3> QED BY <2>5, <2>6, <3>2, <3>3, Zenon DEF FirstWalk
  <2> QED BY <1>6, <2>8
<1>7. CASE /\ next = Hi(fn) /\ fn = Len(img.funcs) /\ fn' = 1 /\ addr' = Lo(1)
           /\ phase' = IF phase = "add_func" THEN "run" ELSE "add_func"
  <2>1. block_leaders \cup NewLeaders = UNION {Leaders(n) : n \in DOMAIN img.funcs}
    BY <1>7, FirstWalkEnds
  <2>2. 1 \in DOMAIN img.funcs
    BY FirstFunction
  <2>3. Lo(1) \in Leaders(1)
    BY DEF Leaders, LeadersBy
  <2>4. block_leaders' = UNION {Leaders(n) : n \in DOMAIN img.funcs}
    BY <1>2, <1>7, <2>1, <2>2, <2>3
  <2> QED BY <1>7, <2>4
<1> QED BY <1>1, <1>2, <1>5, <1>6, <1>7, WalkGoes

(* The records of blocks: each is a part of a function from one leader to  *)
(* the next.                                                               *)
BlockRecords == [start : Nat, end : Nat, visited : BOOLEAN]

Fits(b, n) ==
    /\ b.start \in block_leaders
    /\ b.end = Hi(n) \/ b.end \in block_leaders
    /\ Lo(n) <= b.start /\ b.start < b.end /\ b.end <= Hi(n)
    /\ \A l \in block_leaders : ~(b.start < l /\ l < b.end)

BlocksFit ==
    /\ blocks \in Seq(BlockRecords)
    /\ \A i \in DOMAIN blocks : \E n \in DOMAIN img.funcs : Fits(blocks[i], n)

LeadersKnown == block_leaders = UNION {Leaders(n) : n \in DOMAIN img.funcs}

InBlock(a) == \E i \in DOMAIN blocks : blocks[i].start <= a /\ a < blocks[i].end

(* The second walk is in the block that begins at block_prev; all before   *)
(* is in blocks.                                                           *)
SecondWalk ==
    /\ fn \in DOMAIN img.funcs /\ addr \in Body(fn)
    /\ block_prev \in block_leaders /\ Lo(fn) <= block_prev /\ block_prev <= addr
    /\ \A l \in block_leaders : ~(block_prev < l /\ l <= addr)
    /\ \A n \in DOMAIN img.funcs : \A a \in Body(n) :
          n < fn \/ (n = fn /\ a < block_prev) => InBlock(a)

(* The leaders are instructions; the first one of a function is one.       *)
LEMMA LeaderFacts ==
    ASSUME ImageFacts, LeadersKnown
    PROVE  /\ block_leaders \subseteq DOMAIN img.instr /\ block_leaders \subseteq Nat
           /\ \A n \in DOMAIN img.funcs : Lo(n) \in block_leaders
<1>1. \A n \in DOMAIN img.funcs : Leaders(n) \subseteq Body(n)
  BY DEF Leaders, LeadersBy, ImageFacts
<1>2. \A n \in DOMAIN img.funcs : Body(n) \subseteq DOMAIN img.instr
  BY DEF Body
<1>3. \A n \in DOMAIN img.funcs : Lo(n) \in Leaders(n)
  BY DEF Leaders, LeadersBy
<1>4. DOMAIN img.instr \subseteq Nat
  BY DEF ImageFacts
<1> QED BY <1>1, <1>2, <1>3, <1>4 DEF LeadersKnown

(* The leaders found begin basic blocks; they are all that do when no jump *)
(* is compressed.                                                          *)
LEMMA EntryFacts ==
    ASSUME LeadersKnown
    PROVE  /\ block_leaders \subseteq Entries
           /\ \A n \in DOMAIN img.funcs : Lo(n) \in Entries
           /\ AllJumps = FoundJumps => block_leaders = Entries
<1>1. FoundJumps \subseteq AllJumps
  BY DEF FoundJumps, AllJumps, opcode, Jumps
<1>2. \A n : Leaders(n) \subseteq LeadersBy(n, AllJumps) /\ Lo(n) \in LeadersBy(n, AllJumps)
  BY <1>1 DEF Leaders, LeadersBy
<1>3. AllJumps = FoundJumps => block_leaders = Entries
  BY DEF LeadersKnown, Leaders, Entries
<1> QED BY <1>2, <1>3 DEF LeadersKnown, Entries

(* The elements of a concatenation.                                        *)
LEMMA Appended ==
    ASSUME NEW S, NEW s \in Seq(S), NEW t \in Seq(S)
    PROVE  /\ s \o t \in Seq(S)
           /\ \A i \in DOMAIN (s \o t) : \/ i \in DOMAIN s /\ (s \o t)[i] = s[i]
                                         \/ \E j \in DOMAIN t : (s \o t)[i] = t[j]
           /\ \A i \in DOMAIN s : i \in DOMAIN (s \o t) /\ (s \o t)[i] = s[i]
           /\ \A j \in DOMAIN t : Len(s) + j \in DOMAIN (s \o t) /\ (s \o t)[Len(s) + j] = t[j]
<1>1. /\ s \o t \in Seq(S) /\ Len(s \o t) = Len(s) + Len(t)
      /\ DOMAIN s = 1..Len(s) /\ DOMAIN t = 1..Len(t) /\ Len(s) \in Nat /\ Len(t) \in Nat
      /\ DOMAIN (s \o t) = 1..(Len(s) + Len(t))
  OBVIOUS
<1>2. \A i \in 1..(Len(s) + Len(t)) : (s \o t)[i] = IF i <= Len(s) THEN s[i] ELSE t[i - Len(s)]
  OBVIOUS
<1>3. ASSUME NEW i \in DOMAIN (s \o t)
      PROVE  \/ i \in DOMAIN s /\ (s \o t)[i] = s[i]
             \/ \E j \in DOMAIN t : (s \o t)[i] = t[j]
  <2>1. CASE i <= Len(s)
    BY <1>1, <1>2, <2>1
  <2>2. CASE ~(i <= Len(s))
    <3>1. i - Len(s) \in DOMAIN t /\ (s \o t)[i] = t[i - Len(s)]
      BY <1>1, <1>2, <2>2
    <3> QED BY <3>1
  <2> QED BY <2>1, <2>2
<1>4. \A i \in DOMAIN s : i \in DOMAIN (s \o t) /\ (s \o t)[i] = s[i]
  BY <1>1, <1>2
<1>5. \A j \in DOMAIN t : Len(s) + j \in DOMAIN (s \o t) /\ (s \o t)[Len(s) + j] = t[j]
  BY <1>1, <1>2
<1> QED BY <1>1, <1>3, <1>4, <1>5

(* The block that ends with the instruction the second walk is at.         *)
NewBlock == [start |-> block_prev, end |-> After(addr), visited |-> FALSE]

(* What a step of the second walk does to the blocks.                      *)
LEMMA BlocksAdded ==
    ASSUME ImageFacts, SecondWalk, LeadersKnown, blocks \in Seq(BlockRecords), add_func
    PROVE  /\ img' = img /\ block_leaders' = block_leaders /\ pc' = pc /\ executed' = executed
           /\ Walk(addr + Instr(addr).size)
           /\ blocks' \in Seq(BlockRecords)
           /\ \A i \in DOMAIN blocks : i \in DOMAIN blocks' /\ blocks'[i] = blocks[i]
           /\ \A i \in DOMAIN blocks' : \/ i \in DOMAIN blocks /\ blocks'[i] = blocks[i]
                                        \/ blocks'[i] = NewBlock /\ EndsBlock(After(addr))
           /\ EndsBlock(After(addr)) => /\ \E i \in DOMAIN blocks' : blocks'[i] = NewBlock
                                                /\ block_prev' = addr'
           /\ ~EndsBlock(After(addr)) => block_prev' = block_prev
<1>1. /\ addr \in DOMAIN img.instr /\ After(addr) = addr + Instr(addr).size
      /\ After(addr) \in Nat /\ block_prev \in Nat
  BY BodyFacts, LeaderFacts DEF SecondWalk
<1> DEFINE sources == Instr(addr).sources
           ends == EndsBlock(After(addr))
           new == [i \in DOMAIN sources |-> NewBlock]
<1>2. /\ img' = img /\ block_leaders' = block_leaders /\ pc' = pc /\ executed' = executed
      /\ Walk(addr + Instr(addr).size)
      /\ blocks' = IF ~ends THEN blocks ELSE blocks \o new
      /\ block_prev' = IF ~ends THEN block_prev ELSE addr'
  BY <1>1 DEF add_func, NewBlock
<1>3. PICK k \in Nat : k > 0 /\ DOMAIN sources = 1..k
  BY <1>1 DEF ImageFacts
<1>4. NewBlock \in BlockRecords
  BY <1>1 DEF NewBlock, BlockRecords
<1>5. new \in Seq(BlockRecords) /\ DOMAIN new = 1..k /\ \A j \in 1..k : new[j] = NewBlock
  BY <1>3, <1>4
<1> HIDE DEF sources, ends, new
<1>6. CASE ~ends
  BY <1>2, <1>6 DEF ends
<1>7. CASE ends
  <2>1. blocks' = blocks \o new
    BY <1>2, <1>7
  <2>2. /\ blocks \o new \in Seq(BlockRecords)
        /\ \A i \in DOMAIN (blocks \o new) : \/ i \in DOMAIN blocks /\ (blocks \o new)[i] = blocks[i]
                                             \/ \E j \in DOMAIN new : (blocks \o new)[i] = new[j]
        /\ \A i \in DOMAIN blocks : i \in DOMAIN (blocks \o new) /\ (blocks \o new)[i] = blocks[i]
        /\ \A j \in DOMAIN new :
              /\ Len(blocks) + j \in DOMAIN (blocks \o new)
              /\ (blocks \o new)[Len(blocks) + j] = new[j]
    BY <1>5, Appended
  <2>3. 1 \in DOMAIN new
    BY <1>3, <1>5
  <2>4. \E i \in DOMAIN blocks' : blocks'[i] = NewBlock
    BY <1>5, <2>1, <2>2, <2>3
  <2> QED BY <1>2, <1>5, <1>7, <2>1, <2>2, <2>4 DEF ends
<1> QED BY <1>6, <1>7

(* The new block fits.                                                     *)
LEMMA NewBlockFits ==
    ASSUME ImageFacts, SecondWalk, LeadersKnown, EndsBlock(After(addr))
    PROVE  Fits(NewBlock, fn)
<1>1. /\ fn \in DOMAIN img.funcs /\ addr \in DOMAIN img.instr /\ addr \in Nat
      /\ After(addr) \in Nat /\ addr < After(addr)
      /\ Hi(fn) \in Nat /\ After(addr) <= Hi(fn)
  BY BodyFacts DEF SecondWalk
<1>2. block_leaders \subseteq DOMAIN img.instr /\ block_leaders \subseteq Nat
  BY LeaderFacts
<1>3. /\ block_prev \in block_leaders /\ Lo(fn) <= block_prev /\ block_prev <= addr
      /\ \A l \in block_leaders : ~(block_prev < l /\ l <= addr)
  BY DEF SecondWalk
<1>4. NewBlock.start = block_prev /\ NewBlock.end = After(addr)
  BY DEF NewBlock
<1>5. ASSUME NEW l \in block_leaders, block_prev < l, l < After(addr)
      PROVE  FALSE
  <2>1. l \in DOMAIN img.instr /\ l \in Nat
    BY <1>2
  <2>2. addr < l => After(addr) <= l
    BY <1>1, <2>1, NoOverlap
  <2> QED BY <1>1, <1>3, <1>5, <2>1, <2>2
<1>6. After(addr) \in block_leaders \/ After(addr) = Hi(fn)
  BY DEF EndsBlock
<1>7. block_prev < After(addr)
  BY <1>1, <1>2, <1>3
<1> QED BY <1>1, <1>3, <1>4, <1>5, <1>6, <1>7 DEF Fits

(* Every instruction up to the end of the new block is in a block.         *)
LEMMA InBlockKept ==
    ASSUME ImageFacts, SecondWalk, LeadersKnown, BlocksFit, add_func,
           NEW n \in DOMAIN img.funcs, NEW a \in Body(n),
           \/ n < fn \/ (n = fn /\ a < block_prev)
           \/ n = fn /\ EndsBlock(After(addr)) /\ a < After(addr)
    PROVE  InBlock(a)'
<1>1. /\ \A i \in DOMAIN blocks : i \in DOMAIN blocks' /\ blocks'[i] = blocks[i]
      /\ EndsBlock(After(addr)) => \E i \in DOMAIN blocks' : blocks'[i] = NewBlock
  BY BlocksAdded DEF BlocksFit
<1>2. CASE n < fn \/ (n = fn /\ a < block_prev)
  <2>1. InBlock(a)
    BY <1>2 DEF SecondWalk
  <2> QED BY <1>1, <2>1 DEF InBlock
<1>3. CASE n = fn /\ EndsBlock(After(addr)) /\ a < After(addr) /\ ~(a < block_prev)
  <2>1. PICK i \in DOMAIN blocks' : blocks'[i] = NewBlock
    BY <1>1, <1>3
  <2>2. a \in Nat /\ block_prev \in Nat
    BY BodyFacts, LeaderFacts DEF SecondWalk
  <2>3. NewBlock.start = block_prev /\ NewBlock.end = After(addr)
    BY DEF NewBlock
  <2>4. blocks'[i].start <= a /\ a < blocks'[i].end
    BY <1>3, <2>1, <2>2, <2>3
  <2> QED BY <2>1, <2>4 DEF InBlock
<1> QED BY <1>2, <1>3

(* A step of the second walk.                                              *)
LEMMA SecondWalkStep ==
    ASSUME ImageFacts, SecondWalk, LeadersKnown, BlocksFit, phase = "add_func", add_func
    PROVE  /\ BlocksFit'
           /\ \/ phase' = "add_func" /\ SecondWalk'
              \/ /\ phase' = "run"
                 /\ \A n \in DOMAIN img.funcs : \A a \in Body(n) : InBlock(a)'
<1> DEFINE next == After(addr)
           ends == EndsBlock(next)
<1>1. /\ fn \in DOMAIN img.funcs /\ addr \in Body(fn) /\ fn \in Nat /\ addr \in DOMAIN img.instr
      /\ addr \in Nat /\ next \in Nat /\ addr < next /\ Hi(fn) \in Nat
  BY BodyFacts DEF SecondWalk
<1>2. /\ block_leaders \subseteq DOMAIN img.instr /\ block_leaders \subseteq Nat
      /\ \A n \in DOMAIN img.funcs : Lo(n) \in block_leaders
  BY LeaderFacts
<1>3. /\ block_prev \in block_leaders /\ Lo(fn) <= block_prev /\ block_prev <= addr
      /\ \A l \in block_leaders : ~(block_prev < l /\ l <= addr)
  BY DEF SecondWalk
<1>4. /\ img' = img /\ block_leaders' = block_leaders
      /\ Walk(addr + Instr(addr).size)
      /\ blocks' \in Seq(BlockRecords)
      /\ \A i \in DOMAIN blocks' : \/ i \in DOMAIN blocks /\ blocks'[i] = blocks[i]
                                   \/ blocks'[i] = NewBlock /\ ends
      /\ ends => block_prev' = addr'
      /\ ~ends => block_prev' = block_prev
  BY BlocksAdded DEF BlocksFit
<1>5. \A n : Lo(n)' = Lo(n) /\ Hi(n)' = Hi(n) /\ Body(n)' = Body(n)
  BY <1>4, ImageKept
<1>6. BlocksFit'
  <2>2. ASSUME NEW i \in DOMAIN blocks'
        PROVE  \E n \in DOMAIN img.funcs : Fits(blocks'[i], n)
    BY <1>1, <1>4, NewBlockFits DEF BlocksFit
  <2>3. ASSUME NEW i \in DOMAIN blocks'
        PROVE  \E n \in DOMAIN img'.funcs : Fits(blocks[i], n)'
    <3>1. PICK n \in DOMAIN img.funcs : Fits(blocks'[i], n)
      BY <2>2
    <3>2. Fits(blocks[i], n)'
      BY <1>4, <1>5, <3>1 DEF Fits
    <3> QED BY <1>4, <3>1, <3>2
  <2> QED BY <1>4, <2>3 DEF BlocksFit
<1>7. next = Hi(fn) => ends
  BY DEF EndsBlock
<1>8. \A n \in DOMAIN img.funcs : \A a \in Body(n) :
         \/ n < fn \/ (n = fn /\ a < block_prev)
         \/ n = fn /\ ends /\ a < next
         => InBlock(a)'
  BY InBlockKept
<1>9. \A n \in DOMAIN img.funcs : \A a \in Body(n) :
         a \in Nat /\ n \in Nat /\ Lo(n) <= a /\ a < Hi(n) /\ Lo(n) \in Nat
  BY BodyFacts
<1> HIDE DEF ends, next
<1>10. CASE /\ next \in Body(fn) /\ next < Hi(fn)
            /\ fn' = fn /\ addr' = next /\ phase' = phase
  <2>1. CASE ends
    <3>1. next \in block_leaders
      BY <1>1, <1>9, <1>10, <2>1 DEF ends, EndsBlock
    <3>2. Lo(fn) <= next
      BY <1>1, <1>9, <1>10
    <3>3. \A n \in DOMAIN img.funcs : \A a \in Body(n) :
             n < fn \/ (n = fn /\ a < next) => InBlock(a)'
      BY <1>8, <2>1
    <3>4. block_prev' = next
      BY <1>4, <1>10, <2>1
    <3>5. \A l \in block_leaders : ~(next < l /\ l <= next)
      BY <1>1, <1>2
    <3>6. SecondWalk'
      BY <1>1, <1>4, <1>5, <1>10, <3>1, <3>2, <3>3, <3>4, <3>5 DEF SecondWalk
    <3> QED BY <1>6, <1>10, <3>6
  <2>2. CASE ~ends
    <3>1. ASSUME NEW l \in block_leaders, block_prev < l, l <= next
          PROVE  FALSE
      <4>1. l \in DOMAIN img.instr /\ l \in Nat /\ l # next
        BY <1>2, <2>2 DEF ends, EndsBlock
      <4>2. addr < l => next <= l
        BY <1>1, <4>1, NoOverlap DEF next
      <4> QED BY <1>1, <1>3, <3>1, <4>1, <4>2
    <3>2. block_prev' = block_prev /\ block_prev <= next
      BY <1>1, <1>2, <1>3, <1>4, <2>2
    <3>3. \A n \in DOMAIN img.funcs : \A a \in Body(n) :
             n < fn \/ (n = fn /\ a < block_prev) => InBlock(a)'
      BY <1>8
    <3>4. SecondWalk'
      BY <1>1, <1>3, <1>4, <1>5, <1>10, <3>1, <3>2, <3>3 DEF SecondWalk
    <3> QED BY <1>6, <1>10, <3>4
  <2> QED BY <2>1, <2>2
<1>11. CASE /\ next = Hi(fn) /\ fn # Len(img.funcs)
            /\ fn' = fn + 1 /\ fn' \in DOMAIN img.funcs /\ addr' = Lo(fn') /\ phase' = phase
  <2>1. ends /\ block_prev' = addr'
    BY <1>4, <1>7, <1>11
  <2>2. \A n \in DOMAIN img.funcs : \A a \in Body(n) :
           n < fn' \/ (n = fn' /\ a < Lo(fn')) => InBlock(a)'
    <3> SUFFICES ASSUME NEW n \in DOMAIN img.funcs, NEW a \in Body(n),
                        n < fn' \/ (n = fn' /\ a < Lo(fn'))
                 PROVE  InBlock(a)'
      OBVIOUS
    <3>1. a \in Nat /\ n \in Nat /\ Lo(n) \in Nat /\ Lo(n) <= a /\ a < Hi(n)
      BY <1>9
    <3>2. n < fn'
      BY <3>1
    <3>3. n < fn \/ n = fn
      BY <1>1, <1>11, <3>1, <3>2
    <3>4. n = fn => a < next
      BY <1>11, <3>1
    <3> QED BY <1>8, <2>1, <3>3, <3>4
  <2>3. /\ Lo(fn') \in Body(fn') /\ Lo(fn') \in Nat
    BY <1>11 DEF ImageFacts
  <2>4. \A l \in block_leaders : ~(Lo(fn') < l /\ l <= Lo(fn'))
    BY <1>2, <2>3
  <2>5. Lo(fn') <= Lo(fn')
    BY <2>3
  <2>6. Lo(fn)' = Lo(fn') /\ Body(fn)' = Body(fn')
    BY <1>4 DEF Lo, Body, Hi
  <2>7. Lo(fn') \in block_leaders
    BY <1>2, <1>11
  <2>8. SecondWalk'
    BY <1>4, <1>5, <1>11, <2>1, <2>2, <2>3, <2>4, <2>5, <2>6, <2>7 DEF SecondWalk
  <2> QED BY <1>6, <1>11, <2>8
<1>12. CASE /\ next = Hi(fn) /\ fn = Len(img.funcs)
            /\ phase' = IF phase = "add_func" THEN "run" ELSE "add_func"
  <2>1. ends
    BY <1>7, <1>12
  <2>2. \A n \in DOMAIN img.funcs : n < fn \/ n = fn
    BY <1>12 DEF ImageFacts
  <2>3. \A n \in DOMAIN img.funcs : \A a \in Body(n) : InBlock(a)'
    BY <1>8, <1>9, <1>12, <2>1, <2>2
  <2> QED BY <1>6, <1>12, <2>3
<1> QED BY <1>1, <1>4, <1>10, <1>11, <1>12, WalkGoes DEF next

(* The control flow of the guest: to the next instruction or to the        *)
(* beginning of a basic block.                                             *)
LEMMA SuccessorsAre ==
    ASSUME ImageFacts, pc \in DOMAIN img.instr,
           NEW b \in Successors(pc) \cap DOMAIN img.instr
    PROVE  b = After(pc) \/ b \in Entries
<1>1. \A n \in DOMAIN img.funcs : /\ \A a \in LeadersBy(n, AllJumps) : a \in Entries
                                  /\ Lo(n) \in Entries
  BY DEF Entries, LeadersBy
<1>2. ASSUME NEW c \in DOMAIN img.instr, Instr(c).kind \in Jumps, b = After(c)
      PROVE  b \in Entries
  <2>1. PICK n \in DOMAIN img.funcs : c \in Body(n)
    BY DEF ImageFacts
  <2>2. CASE b \in Body(n)
    <3>1. b \in LeadersBy(n, AllJumps)
      BY <1>2, <2>1, <2>2 DEF LeadersBy, AllJumps
    <3> QED BY <1>1, <3>1
  <2>3. CASE b = Hi(n)
    <3>1. PICK m \in DOMAIN img.funcs : b \in Body(m)
      BY DEF ImageFacts
    <3>2. /\ b \in Nat /\ Lo(m) \in Nat /\ Hi(m) \in Nat
          /\ Lo(m) <= b /\ b < Hi(m)
      BY <3>1, BodyFacts
    <3>3. /\ c \in Nat /\ Lo(n) \in Nat /\ Hi(n) \in Nat
          /\ Lo(n) <= c /\ c < Hi(n)
      BY <2>1, BodyFacts
    <3>4. n # m => Hi(n) <= Lo(m) \/ Hi(m) <= Lo(n)
      BY DEF ImageFacts
    <3>5. b = Lo(m)
      BY <2>3, <3>2, <3>3, <3>4
    <3> QED BY <1>1, <3>5
  <2> QED BY <1>2, <2>1, <2>2, <2>3, BodyFacts
<1>3. CASE Instr(pc).kind \in {"branch", "jal"} /\ b = Instr(pc).dest
  <2>1. PICK n \in DOMAIN img.funcs : pc \in Body(n)
    BY DEF ImageFacts
  <2>2. \/ Instr(pc).dest \in Body(n)
        \/ \E m \in DOMAIN img.funcs : Instr(pc).dest = Lo(m)
    BY <1>3, <2>1, Zenon DEF ImageFacts
  <2>3. CASE b \in Body(n)
    <3>1. pc \in AllJumps /\ Instr(pc).kind # "jalr"
      BY <1>3 DEF AllJumps, Jumps
    <3>2. b \in LeadersBy(n, AllJumps)
      BY <1>3, <2>1, <2>3, <3>1 DEF LeadersBy
    <3> QED BY <1>1, <3>2
  <2> QED BY <1>1, <1>3, <2>2, <2>3
<1>4. CASE Instr(pc).kind = "jalr"
           /\ \/ \E n \in DOMAIN img.funcs : b = Lo(n)
              \/ \E c \in DOMAIN img.instr :
                    Instr(c).kind \in {"jal", "jalr"} /\ b = After(c)
  <2>1. {"jal", "jalr"} \subseteq Jumps
    BY DEF Jumps
  <2> QED BY <1>1, <1>2, <1>4, <2>1
<1> QED BY <1>3, <1>4 DEF Successors

INSTANCE WellFoundedInduction

(* A nonempty set of numbers has a least one.                              *)
LEMMA LeastNatural ==
    ASSUME NEW T, T \subseteq Nat, T # {}
    PROVE  \E x \in T : \A y \in T : x <= y
<1>1. PICK x \in T : \A y \in T : <<y, x>> \notin OpToRel(<, Nat)
  BY WFMin, NatLessThanWellFounded, Zenon
<1>2. \A y \in T : ~(y < x)
  BY <1>1, Zenon DEF OpToRel
<1> QED BY <1>2

(* What visit does to the blocks.                                          *)
LEMMA VisitFacts ==
    ASSUME blocks \in Seq(BlockRecords), NEW a
    PROVE  /\ visit(blocks, a) \in Seq(BlockRecords)
           /\ DOMAIN visit(blocks, a) = DOMAIN blocks
           /\ \A i \in DOMAIN blocks :
                 /\ visit(blocks, a)[i].start = blocks[i].start
                 /\ visit(blocks, a)[i].end = blocks[i].end
                 /\ visit(blocks, a)[i].visited =>
                       \/ blocks[i].visited
                       \/ a >= blocks[i].start /\ a < blocks[i].end
                 /\ blocks[i].visited => visit(blocks, a)[i].visited
           /\ (\E i \in DOMAIN blocks : a >= blocks[i].start /\ a < blocks[i].end)
                 => \E i \in DOMAIN blocks : /\ visit(blocks, a)[i].visited
                                             /\ a >= blocks[i].start /\ a < blocks[i].end
<1> DEFINE holds == {i \in DOMAIN blocks : a >= blocks[i].start /\ a < blocks[i].end}
           first(i) == i \in holds /\ \A j \in holds : i <= j
           v == visit(blocks, a)
<1>1. v = [i \in DOMAIN blocks |-> [blocks[i] EXCEPT !.visited = @ \/ first(i)]]
  BY DEF visit
<1>2. DOMAIN blocks = 1..Len(blocks) /\ Len(blocks) \in Nat
      /\ \A i \in DOMAIN blocks : blocks[i] \in BlockRecords
  OBVIOUS
<1>3. \A i : first(i) \in BOOLEAN /\ (first(i) => a >= blocks[i].start /\ a < blocks[i].end)
  OBVIOUS
<1> HIDE DEF holds, first, v
<1>4. ASSUME NEW i \in DOMAIN blocks
      PROVE  /\ v[i] \in BlockRecords
             /\ v[i].start = blocks[i].start /\ v[i].end = blocks[i].end
             /\ v[i].visited <=> blocks[i].visited \/ first(i)
  <2>1. blocks[i] \in [start : Nat, end : Nat, visited : BOOLEAN]
    BY <1>2 DEF BlockRecords
  <2>2. v[i] = [blocks[i] EXCEPT !.visited = blocks[i].visited \/ first(i)]
    BY <1>1
  <2>3. v[i] \in [start : Nat, end : Nat, visited : BOOLEAN]
    BY <1>3, <2>1, <2>2
  <2> QED BY <2>1, <2>2, <2>3 DEF BlockRecords
<1>5. DOMAIN v = DOMAIN blocks
  BY <1>1
<1>6. v = [i \in 1..Len(blocks) |-> v[i]]
  BY <1>1, <1>2, <1>5
<1>7. v \in Seq(BlockRecords)
  BY <1>2, <1>4, <1>6
<1>8. (\E i \in DOMAIN blocks : a >= blocks[i].start /\ a < blocks[i].end)
         => \E i \in DOMAIN blocks : v[i].visited /\ a >= blocks[i].start /\ a < blocks[i].end
  <2> SUFFICES ASSUME holds # {}
               PROVE  \E i \in DOMAIN blocks :
                         v[i].visited /\ a >= blocks[i].start /\ a < blocks[i].end
    BY DEF holds
  <2>1. holds \subseteq Nat /\ holds \subseteq DOMAIN blocks
    BY <1>2 DEF holds
  <2>2. PICK i \in holds : \A j \in holds : i <= j
    BY <2>1, LeastNatural, Zenon
  <2>3. first(i)
    BY <2>2 DEF first
  <2> QED BY <1>3, <1>4, <2>1, <2>3
<1> QED BY <1>3, <1>4, <1>5, <1>7, <1>8 DEF v

(* What visit has marked: a block that is marked was entered where a basic *)
(* block begins, as the one that is being executed, and the instructions   *)
(* executed are in marked blocks.                                          *)
Entered(b) == \E a \in executed \cap Entries : b.start <= a /\ a < b.end

Marked ==
    /\ \A i \in DOMAIN blocks :
          /\ blocks[i].visited => Entered(blocks[i])
          /\ blocks[i].start <= pc /\ pc < blocks[i].end =>
                pc \in Entries \/ Entered(blocks[i])
    /\ \A a \in executed :
          \E i \in DOMAIN blocks : blocks[i].visited /\ blocks[i].start <= a /\ a < blocks[i].end

(* The inductive invariant, by the phases of init and run.                 *)
CovInv ==
    /\ WellFormed(img) /\ BlocksFit /\ Marked /\ aborted = FALSE
    /\ pc \in DOMAIN img.instr /\ executed \subseteq DOMAIN img.instr
    /\ \/ /\ phase = "init_basic_blocks" /\ FirstWalk
          /\ blocks = << >> /\ block_prev = Lo(1) /\ pc = Lo(1) /\ executed = {}
       \/ /\ phase = "add_func" /\ LeadersKnown /\ SecondWalk
          /\ pc = Lo(1) /\ executed = {}
       \/ /\ phase = "run" /\ LeadersKnown
          /\ \A n \in DOMAIN img.funcs : \A a \in Body(n) : InBlock(a)

(* What is assumed of the images.                                          *)
CovConstants == \A p \in Images : WellFormed(p)

(* The leader in a block is its start.                                     *)
LEMMA EnteredAtStart ==
    ASSUME ImageFacts, LeadersKnown, BlocksFit, NEW a \in block_leaders, NEW i \in DOMAIN blocks,
           blocks[i].start <= a, a < blocks[i].end
    PROVE  a = blocks[i].start
<1>1. a \in Nat /\ \A l \in block_leaders : ~(blocks[i].start < l /\ l < blocks[i].end)
  BY LeaderFacts DEF BlocksFit, Fits
<1>2. blocks[i].start \in Nat
  BY LeaderFacts DEF BlocksFit, Fits
<1> QED BY <1>1, <1>2

(* Facts of an image and its leaders, in the next state.                   *)
FactsHold == WellFormed(img) => ImageFacts
LeadersHold ==
    ImageFacts /\ LeadersKnown =>
        /\ block_leaders \subseteq DOMAIN img.instr /\ block_leaders \subseteq Nat
        /\ \A n \in DOMAIN img.funcs : Lo(n) \in block_leaders

(* They are the lemmas above.                                              *)
LEMMA AllHold == FactsHold /\ LeadersHold
BY ImageFactsHold, LeaderFacts DEF FactsHold, LeadersHold

(* So they hold in the next state.                                         *)
LEMMA AllHoldPrimed == FactsHold' /\ LeadersHold'
BY AllHold, PTL

(* Nothing but the start of the first function has been found.             *)
LEMMA CovInit == ASSUME CovConstants, Init PROVE CovInv
<1>1. WellFormed(img) /\ ImageFacts
  BY ImageFactsHold DEF CovConstants, Init
<1>2. /\ phase = "init_basic_blocks" /\ fn = 1 /\ addr = Lo(1) /\ prev_wasjump = FALSE
      /\ block_leaders = {Lo(1)} /\ block_prev = Lo(1) /\ blocks = << >>
      /\ pc = Lo(1) /\ executed = {} /\ aborted = FALSE
  BY DEF Init
<1>3. 1 \in DOMAIN img.funcs /\ Lo(1) \in Body(1) /\ Lo(1) \in Nat
  BY <1>1, FirstFunction
<1>4. blocks \in Seq(BlockRecords) /\ DOMAIN blocks = {}
  BY <1>2
<1>5. BlocksFit /\ Marked
  BY <1>2, <1>4 DEF BlocksFit, Marked
<1>6. Lo(1) \in DOMAIN img.instr
  BY <1>1, <1>3, BodyFacts
<1>7. FirstWalk
  <2>1. ASSUME NEW n \in DOMAIN img.funcs, NEW j \in Body(n)
        PROVE  ~Seen(n, j)
    <3>1. n \in Nat /\ n >= 1 /\ j \in Nat /\ Lo(n) <= j /\ Lo(n) \in Nat
      BY <1>1, BodyFacts
    <3> QED BY <1>2, <3>1 DEF Seen
  <2>2. \A n \in DOMAIN img.funcs : n <= fn <=> n = 1
    BY <1>1, <1>2 DEF ImageFacts
  <2>3. \A x : Found(x) <=> x = Lo(1)
    BY <1>3, <2>1, <2>2 DEF Found
  <2>4. ~\E j \in Body(fn) : Seen(fn, j)
    BY <1>2, <1>3, <2>1
  <2> QED BY <1>2, <1>3, <2>3, <2>4 DEF FirstWalk
<1> QED BY <1>1, <1>2, <1>5, <1>6, <1>7 DEF CovInv

(* A step of the first walk; after the last, the second one can begin.     *)
LEMMA CovFirst == ASSUME CovInv, init_basic_blocks PROVE CovInv'
<1>1. WellFormed(img) /\ ImageFacts
  BY ImageFactsHold DEF CovInv
<1>2. /\ phase = "init_basic_blocks" /\ FirstWalk /\ blocks = << >> /\ block_prev = Lo(1)
      /\ pc = Lo(1) /\ executed = {} /\ aborted = FALSE /\ pc \in DOMAIN img.instr
  BY DEF CovInv, init_basic_blocks
<1>3. /\ img' = img /\ block_prev' = block_prev /\ blocks' = blocks /\ pc' = pc
      /\ executed' = executed /\ aborted' = aborted
  BY DEF init_basic_blocks
<1>4. Lo(1)' = Lo(1) /\ Body(1)' = Body(1)
  BY <1>3, ImageKept
<1>5. WellFormed(img)'
  BY <1>1, <1>3
<1>6. blocks' \in Seq(BlockRecords) /\ DOMAIN blocks' = {}
  BY <1>2, <1>3
<1>7. BlocksFit' /\ Marked'
  BY <1>2, <1>3, <1>6 DEF BlocksFit, Marked
<1>8. CASE phase' = "init_basic_blocks" /\ FirstWalk'
  BY <1>2, <1>3, <1>4, <1>5, <1>7, <1>8 DEF CovInv
<1>9. CASE /\ phase' = "add_func" /\ fn' = 1 /\ addr' = Lo(1)
           /\ block_leaders' = UNION {Leaders(n) : n \in DOMAIN img.funcs}
  <2>1. \A n : Leaders(n)' = Leaders(n) /\ Body(n)' = Body(n)
    BY <1>3, ImageKept
  <2>2. LeadersKnown'
    BY <1>3, <1>9, <2>1 DEF LeadersKnown
  <2>3. ImageFacts'
    BY <1>5, AllHoldPrimed DEF FactsHold
  <2>4. 1 \in DOMAIN img.funcs /\ Lo(1) \in Body(1) /\ Lo(1) \in Nat
    BY <1>1, FirstFunction
  <2>5. block_leaders' \subseteq Nat /\ Lo(1) \in block_leaders'
    BY <1>3, <1>4, <2>2, <2>3, <2>4, AllHoldPrimed DEF LeadersHold
  <2>6. ASSUME NEW n \in DOMAIN img.funcs, NEW a \in Body(n)
        PROVE  ~(n < 1 \/ (n = 1 /\ a < Lo(1)))
    BY <1>1, BodyFacts
  <2>7. Lo(fn)' = Lo(1) /\ Body(fn)' = Body(1)
    BY <1>3, <1>9 DEF Lo, Body, Hi
  <2>8. \A l \in block_leaders' : ~(Lo(1) < l /\ l <= Lo(1))
    BY <2>4, <2>5
  <2>9. Lo(1) <= Lo(1)
    BY <2>4
  <2>10. SecondWalk'
    BY <1>2, <1>3, <1>9, <2>1, <2>4, <2>5, <2>6, <2>7, <2>8, <2>9 DEF SecondWalk
  <2> QED BY <1>2, <1>3, <1>4, <1>5, <1>7, <1>9, <2>2, <2>10 DEF CovInv
<1> QED BY <1>1, <1>2, <1>8, <1>9, FirstWalkStep

(* A step of the second walk; after the last, everything is in a block.    *)
LEMMA CovSecond == ASSUME CovInv, add_func PROVE CovInv'
<1>1. WellFormed(img) /\ ImageFacts /\ BlocksFit /\ blocks \in Seq(BlockRecords) /\ Marked
  BY ImageFactsHold DEF CovInv, BlocksFit
<1>2. /\ phase = "add_func" /\ LeadersKnown /\ SecondWalk /\ pc = Lo(1) /\ executed = {}
      /\ pc \in DOMAIN img.instr /\ aborted = FALSE
  BY ZenonT(30) DEF CovInv, add_func
<1>3. /\ img' = img /\ block_leaders' = block_leaders /\ pc' = pc /\ executed' = executed
      /\ \A i \in DOMAIN blocks' : \/ i \in DOMAIN blocks /\ blocks'[i] = blocks[i]
                                   \/ blocks'[i] = NewBlock
  BY <1>1, <1>2, BlocksAdded
<1>4. Lo(1)' = Lo(1) /\ Entries' = Entries
      /\ \A n : Body(n)' = Body(n) /\ Leaders(n)' = Leaders(n)
  BY <1>3, ImageKept
<1>5. WellFormed(img)' /\ ImageFacts'
  BY <1>1, <1>3, AllHoldPrimed DEF FactsHold
<1>6. LeadersKnown'
  BY <1>2, <1>3, <1>4 DEF LeadersKnown
<1>7. BlocksFit'
  BY <1>1, <1>2, SecondWalkStep
<1>8. Marked'
  <2>1. pc' \in Entries'
    <3>1. 1 \in DOMAIN img.funcs
      BY <1>1, FirstFunction
    <3> QED BY <1>2, <1>3, <1>4, <3>1, EntryFacts
  <2>2. ASSUME NEW i \in DOMAIN blocks'
        PROVE  ~blocks'[i].visited
    <3>1. CASE i \in DOMAIN blocks /\ blocks'[i] = blocks[i]
      BY <1>1, <1>2, <3>1 DEF Marked, Entered
    <3>2. CASE blocks'[i] = NewBlock
      BY <3>2 DEF NewBlock
    <3> QED BY <1>3, <3>1, <3>2
  <2> QED BY <1>2, <1>3, <2>1, <2>2 DEF Marked
<1>9. aborted' = FALSE
  <2>1. /\ addr \in Nat /\ block_prev <= addr /\ block_prev \in Nat
        /\ After(addr) = addr + Instr(addr).size /\ addr < After(addr)
        /\ After(addr) \in Nat
    BY <1>1, <1>2, BodyFacts, LeaderFacts DEF SecondWalk
  <2>2. block_prev < addr + Instr(addr).size
    BY <2>1
  <2>3. aborted' = (aborted \/ (/\ EndsBlock(addr + Instr(addr).size)
                                /\ ~(block_prev < addr + Instr(addr).size)))
    BY DEF add_func
  <2> QED BY <1>2, <2>2, <2>3, Zenon
<1>10. CASE phase' = "add_func" /\ SecondWalk'
  BY <1>2, <1>3, <1>4, <1>5, <1>6, <1>7, <1>8, <1>9, <1>10 DEF CovInv
<1>11. CASE phase' = "run" /\ \A n \in DOMAIN img.funcs : \A a \in Body(n) : InBlock(a)'
  BY <1>2, <1>3, <1>4, <1>5, <1>6, <1>7, <1>8, <1>9, <1>11 DEF CovInv
<1> QED BY <1>1, <1>2, <1>10, <1>11, SecondWalkStep

(* cover marks the block of the instruction; the next instruction is in    *)
(* the same block or begins a basic block.                                 *)
LEMMA CovExecute == ASSUME CovInv, Execute PROVE CovInv'
<1>1. WellFormed(img) /\ ImageFacts /\ BlocksFit /\ blocks \in Seq(BlockRecords) /\ Marked
  BY ImageFactsHold DEF CovInv, BlocksFit
<1>2. /\ phase = "run" /\ LeadersKnown /\ aborted = FALSE
      /\ pc \in DOMAIN img.instr /\ executed \subseteq DOMAIN img.instr
      /\ \A n \in DOMAIN img.funcs : \A a \in Body(n) : InBlock(a)
  BY DEF CovInv, Execute
<1>3. /\ img' = img /\ phase' = phase /\ block_leaders' = block_leaders /\ aborted' = aborted
      /\ pc' \in Successors(pc) \cap DOMAIN img.instr
      /\ executed' = executed \cup {pc}
      /\ blocks' = IF Instr(pc).sources = << >> THEN blocks ELSE visit(blocks, pc)
  BY Zenon DEF Execute, walkVars, cover
<1>4. Instr(pc).sources # << >>
  <2>1. PICK k \in Nat : k > 0 /\ DOMAIN Instr(pc).sources = 1..k
    BY <1>1, <1>2, Zenon DEF ImageFacts
  <2>2. 1 \in DOMAIN Instr(pc).sources
    BY <2>1
  <2> QED BY <2>2
<1>5. /\ blocks' \in Seq(BlockRecords) /\ DOMAIN blocks' = DOMAIN blocks
      /\ \A i \in DOMAIN blocks :
            /\ blocks'[i].start = blocks[i].start /\ blocks'[i].end = blocks[i].end
            /\ blocks'[i].visited => \/ blocks[i].visited
                                     \/ pc >= blocks[i].start /\ pc < blocks[i].end
            /\ blocks[i].visited => blocks'[i].visited
      /\ (\E i \in DOMAIN blocks : pc >= blocks[i].start /\ pc < blocks[i].end)
            => \E i \in DOMAIN blocks : /\ blocks'[i].visited
                                        /\ pc >= blocks[i].start /\ pc < blocks[i].end
  BY <1>1, <1>3, <1>4, VisitFacts, Zenon
<1>6. /\ \A n : /\ Body(n)' = Body(n) /\ Leaders(n)' = Leaders(n)
                /\ Lo(n)' = Lo(n) /\ Hi(n)' = Hi(n)
      /\ Entries' = Entries
  BY <1>3, ImageKept
<1>7. WellFormed(img)'
  BY <1>1, <1>3
<1>8. LeadersKnown'
  BY <1>2, <1>3, <1>6 DEF LeadersKnown
<1>9. BlocksFit'
  <2>1. ASSUME NEW i \in DOMAIN blocks, NEW n \in DOMAIN img.funcs, Fits(blocks[i], n)
        PROVE  Fits(blocks[i], n)'
    BY <1>3, <1>5, <1>6, <2>1, Zenon DEF Fits
  <2>2. \A i \in DOMAIN blocks : \E n \in DOMAIN img.funcs : Fits(blocks[i], n)
    BY <1>1 DEF BlocksFit
  <2>3. \A i \in DOMAIN blocks' : \E n \in DOMAIN img'.funcs : Fits(blocks[i], n)'
    BY <1>3, <1>5, <2>1, <2>2, Zenon
  <2> QED BY <1>5, <2>3 DEF BlocksFit
<1>10. \A n \in DOMAIN img.funcs : \A a \in Body(n) : InBlock(a)'
  <2>1. \A a : InBlock(a) => InBlock(a)'
    BY <1>5 DEF InBlock
  <2> QED BY <1>2, <2>1
<1>11. Marked'
  <2>1. pc \in Nat /\ \A i \in DOMAIN blocks : /\ blocks[i].start \in Nat /\ blocks[i].end \in Nat
                                               /\ blocks[i].start \in DOMAIN img.instr
    <3>1. block_leaders \subseteq DOMAIN img.instr
      BY <1>1, <1>2, LeaderFacts
    <3>2. \A i \in DOMAIN blocks : blocks[i].start \in block_leaders
      BY <1>1, Zenon DEF BlocksFit, Fits
    <3>3. \A i \in DOMAIN blocks : blocks[i] \in BlockRecords
      BY <1>1
    <3> QED BY <1>1, <1>2, <3>1, <3>2, <3>3, Zenon DEF ImageFacts, BlockRecords
  <2>2. \A i \in DOMAIN blocks : pc >= blocks[i].start <=> blocks[i].start <= pc
    BY <2>1
  <2>3. ASSUME NEW i \in DOMAIN blocks,
               Entered(blocks[i]) \/ (/\ pc \in Entries
                                      /\ blocks[i].start <= pc /\ pc < blocks[i].end)
        PROVE  Entered(blocks[i])'
    BY <1>3, <1>5, <1>6, <2>3 DEF Entered
  <2>4. ASSUME NEW i \in DOMAIN blocks'
        PROVE  /\ blocks'[i].visited => Entered(blocks[i])'
               /\ blocks'[i].start <= pc' /\ pc' < blocks'[i].end =>
                     pc' \in Entries' \/ Entered(blocks[i])'
    <3>1. i \in DOMAIN blocks /\ blocks'[i].start = blocks[i].start /\ blocks'[i].end = blocks[i].end
      BY <1>5
    <3>2. (blocks[i].start <= pc /\ pc < blocks[i].end) => Entered(blocks[i])'
      BY <1>1, <2>3, <3>1 DEF Marked
    <3>3. blocks[i].visited => Entered(blocks[i])'
      BY <1>1, <2>3, <3>1 DEF Marked
    <3>4. blocks'[i].visited => Entered(blocks[i])'
      BY <1>5, <2>2, <3>1, <3>2, <3>3
    <3>5. ASSUME blocks[i].start <= pc', pc' < blocks[i].end, pc' \notin Entries
          PROVE  Entered(blocks[i])'
      <4>1. pc' = After(pc)
        BY <1>1, <1>2, <1>3, <3>5, SuccessorsAre
      <4>2. pc' # blocks[i].start
        <5>1. blocks[i].start \in block_leaders
          BY <1>1, <3>1, Zenon DEF BlocksFit, Fits
        <5> QED BY <1>2, <3>5, <5>1, EntryFacts
      <4>3. pc < After(pc) /\ After(pc) \in Nat
        BY <1>1, <1>2, Zenon DEF ImageFacts
      <4>4. pc < blocks[i].start => After(pc) <= blocks[i].start
        BY <1>1, <1>2, <2>1, <3>1, NoOverlap
      <4>5. blocks[i].start <= pc /\ pc < blocks[i].end
        BY <2>1, <3>1, <3>5, <4>1, <4>2, <4>3, <4>4
      <4> QED BY <3>2, <4>5
    <3> QED BY <1>6, <3>1, <3>4, <3>5
  <2>5. ASSUME NEW a \in executed'
        PROVE  \E i \in DOMAIN blocks' : /\ blocks'[i].visited
                                         /\ blocks'[i].start <= a /\ a < blocks'[i].end
    <3>1. CASE a \in executed
      <4>1. PICK i \in DOMAIN blocks : /\ blocks[i].visited
                                       /\ blocks[i].start <= a /\ a < blocks[i].end
        BY <1>1, <3>1 DEF Marked
      <4> QED BY <1>5, <4>1
    <3>2. CASE a = pc
      <4>1. PICK n \in DOMAIN img.funcs : pc \in Body(n)
        BY <1>1, <1>2, Zenon DEF ImageFacts
      <4>2. InBlock(pc)
        BY <1>2, <4>1
      <4>3. \E i \in DOMAIN blocks : pc >= blocks[i].start /\ pc < blocks[i].end
        BY <2>2, <4>2 DEF InBlock
      <4>4. PICK i \in DOMAIN blocks : /\ blocks'[i].visited
                                       /\ pc >= blocks[i].start /\ pc < blocks[i].end
        BY <1>5, <4>3
      <4> QED BY <1>5, <2>2, <3>2, <4>4
    <3> QED BY <1>3, <3>1, <3>2
  <2> QED BY <2>4, <2>5 DEF Marked
<1>12. pc' \in DOMAIN img'.instr /\ executed' \subseteq DOMAIN img'.instr
  BY <1>2, <1>3
<1> QED BY <1>2, <1>3, <1>6, <1>7, <1>8, <1>9, <1>10, <1>11, <1>12, Zenon DEF CovInv

(* A new run begins at the first function.                                 *)
LEMMA CovNewRun == ASSUME CovInv, NewRun PROVE CovInv'
<1>1. WellFormed(img) /\ ImageFacts /\ BlocksFit /\ blocks \in Seq(BlockRecords) /\ Marked
  BY ImageFactsHold DEF CovInv, BlocksFit
<1>2. /\ phase = "run" /\ LeadersKnown /\ aborted = FALSE /\ executed \subseteq DOMAIN img.instr
      /\ \A n \in DOMAIN img.funcs : \A a \in Body(n) : InBlock(a)
  BY DEF CovInv, NewRun
<1>3. /\ img' = img /\ phase' = phase /\ block_leaders' = block_leaders /\ aborted' = aborted
      /\ pc' = Lo(1) /\ executed' = executed /\ blocks' = blocks
  BY DEF NewRun, walkVars
<1>4. /\ \A n : /\ Body(n)' = Body(n) /\ Leaders(n)' = Leaders(n)
                /\ Lo(n)' = Lo(n) /\ Hi(n)' = Hi(n)
      /\ Entries' = Entries
  BY <1>3, ImageKept
<1>5. WellFormed(img)' /\ LeadersKnown'
  BY <1>1, <1>2, <1>3, <1>4 DEF LeadersKnown
<1>6. BlocksFit'
  BY <1>1, <1>3, <1>4, Zenon DEF BlocksFit, Fits
<1>7. pc' \in Entries /\ pc' \in DOMAIN img.instr
  <2>1. 1 \in DOMAIN img.funcs
    BY <1>1, FirstFunction
  <2> QED BY <1>1, <1>2, <1>3, <2>1, LeaderFacts, EntryFacts
<1>8. Marked'
  BY <1>1, <1>3, <1>4, <1>7 DEF Marked, Entered
<1>9. \A n \in DOMAIN img.funcs : \A a \in Body(n) : InBlock(a)'
  BY <1>2, <1>3 DEF InBlock
<1> QED BY <1>2, <1>3, <1>4, <1>5, <1>6, <1>7, <1>8, <1>9, Zenon DEF CovInv

(* Nothing happens.                                                        *)
LEMMA CovStutter == ASSUME CovInv, UNCHANGED vars PROVE CovInv'
<1>1. /\ img' = img /\ phase' = phase /\ fn' = fn /\ addr' = addr /\ prev_wasjump' = prev_wasjump
      /\ block_leaders' = block_leaders /\ block_prev' = block_prev /\ blocks' = blocks
      /\ pc' = pc /\ executed' = executed /\ aborted' = aborted
  BY DEF vars, walkVars
<1>2. /\ \A n : /\ Body(n)' = Body(n) /\ Leaders(n)' = Leaders(n)
                /\ Lo(n)' = Lo(n) /\ Hi(n)' = Hi(n)
      /\ \A a : After(a)' = After(a) /\ (IsJump(a)' <=> IsJump(a))
      /\ \A a, x : JumpsTo(a, x)' <=> JumpsTo(a, x)
      /\ Entries' = Entries
  BY <1>1, ImageKept
<1>3. \A n, j : Seen(n, j)' <=> Seen(n, j)
  BY <1>1, <1>2 DEF Seen
<1>4. \A x : Found(x)' <=> Found(x)
  BY <1>1, <1>2, <1>3, Zenon DEF Found
<1>5. Body(fn)' = Body(fn) /\ Lo(fn)' = Lo(fn)
  BY <1>1 DEF Body, Lo, Hi
<1>6. FirstWalk => FirstWalk'
  <2> SUFFICES ASSUME FirstWalk PROVE FirstWalk'
    OBVIOUS
  <2>1. \A j : Seen(fn, j)' <=> Seen(fn, j)
    BY <1>1, <1>5 DEF Seen
  <2>2. (\E j \in Body(fn) : Seen(fn, j) /\ IsJump(j) /\ After(j) = addr)'
           <=> \E j \in Body(fn) : Seen(fn, j) /\ IsJump(j) /\ After(j) = addr
    BY <1>1, <1>2, <1>5, <2>1
  <2> QED BY <1>1, <1>4, <1>5, <2>2 DEF FirstWalk
<1>7. \A a : InBlock(a)' <=> InBlock(a)
  BY <1>1 DEF InBlock
<1>8. SecondWalk => SecondWalk'
  BY <1>1, <1>2, <1>5, <1>7 DEF SecondWalk
<1>9. (LeadersKnown => LeadersKnown') /\ (BlocksFit => BlocksFit') /\ (Marked => Marked')
  BY <1>1, <1>2, Zenon DEF LeadersKnown, BlocksFit, Fits, Marked, Entered
<1>10. WellFormed(img) => WellFormed(img)'
  BY <1>1
<1> QED BY <1>1, <1>2, <1>6, <1>7, <1>8, <1>9, <1>10 DEF CovInv

(* The invariant is inductive.                                             *)
LEMMA CovStep == ASSUME CovInv, [Next]_vars PROVE CovInv'
BY CovFirst, CovSecond, CovExecute, CovNewRun, CovStutter DEF Next

(* Two blocks are the same range or disjoint.                              *)
LEMMA BlocksApart ==
    ASSUME ImageFacts, LeadersKnown, BlocksFit, NEW i \in DOMAIN blocks, NEW j \in DOMAIN blocks
    PROVE  \/ blocks[i].start = blocks[j].start /\ blocks[i].end = blocks[j].end
           \/ blocks[i].end <= blocks[j].start \/ blocks[j].end <= blocks[i].start
<1>1. PICK n \in DOMAIN img.funcs : Fits(blocks[i], n)
  BY DEF BlocksFit
<1>2. PICK m \in DOMAIN img.funcs : Fits(blocks[j], m)
  BY DEF BlocksFit
<1>3. /\ blocks[i].start \in Nat /\ blocks[i].end \in Nat
      /\ blocks[j].start \in Nat /\ blocks[j].end \in Nat
  <2>1. blocks[i] \in BlockRecords /\ blocks[j] \in BlockRecords
    BY DEF BlocksFit
  <2> QED BY <2>1 DEF BlockRecords
<1>4. /\ Lo(n) \in Nat /\ Hi(n) \in Nat /\ Lo(m) \in Nat /\ Hi(m) \in Nat
      /\ n # m => Hi(n) <= Lo(m) \/ Hi(m) <= Lo(n)
  BY Zenon DEF ImageFacts
<1>5. /\ Lo(n) <= blocks[i].start /\ blocks[i].end <= Hi(n)
      /\ Lo(m) <= blocks[j].start /\ blocks[j].end <= Hi(m)
  BY <1>1, <1>2, Zenon DEF Fits
<1>6. CASE n # m
  BY <1>3, <1>4, <1>5, <1>6
<1>7. CASE n = m
  <2>1. /\ ~(blocks[i].start < blocks[j].start /\ blocks[j].start < blocks[i].end)
        /\ ~(blocks[j].start < blocks[i].start /\ blocks[i].start < blocks[j].end)
    BY <1>1, <1>2, Zenon DEF Fits
  <2>2. /\ blocks[i].end = Hi(n) \/ ~(blocks[j].start < blocks[i].end /\ blocks[i].end < blocks[j].end)
        /\ blocks[j].end = Hi(n) \/ ~(blocks[i].start < blocks[j].end /\ blocks[j].end < blocks[i].end)
    BY <1>1, <1>2, <1>7, Zenon DEF Fits
  <2>3. blocks[i].start < blocks[i].end /\ blocks[j].start < blocks[j].end
    BY <1>1, <1>2, Zenon DEF Fits
  <2> QED BY <1>3, <1>4, <1>5, <1>7, <2>1, <2>2, <2>3
<1> QED BY <1>6, <1>7

(* What the invariant says of the blocks.                                  *)
LEMMA CovExact == ASSUME CovInv PROVE BlocksExact
<1>1. ImageFacts /\ BlocksFit
  BY ImageFactsHold DEF CovInv
<1>2. LeadersExact
  BY EntryFacts DEF CovInv, LeadersExact, LeadersKnown
<1>3. CASE blocks = << >> /\ phase = "init_basic_blocks"
  <2>1. DOMAIN blocks = {}
    BY <1>3
  <2>2. BlocksPartition
    BY <1>3, <2>1 DEF BlocksPartition
  <2> QED BY <1>2, <2>2 DEF BlocksExact
<1>4. CASE LeadersKnown
  <2>1. \A i, j \in DOMAIN blocks :
           \/ blocks[i].start = blocks[j].start /\ blocks[i].end = blocks[j].end
           \/ blocks[i].end <= blocks[j].start \/ blocks[j].end <= blocks[i].start
    BY <1>1, <1>4, BlocksApart
  <2>2. ASSUME NEW i \in DOMAIN blocks
        PROVE  {a \in block_leaders : blocks[i].start <= a /\ a < blocks[i].end} = {blocks[i].start}
    <3>1. /\ blocks[i].start \in block_leaders /\ blocks[i].start < blocks[i].end
          /\ \A a \in block_leaders :
                blocks[i].start <= a /\ a < blocks[i].end => a = blocks[i].start
      BY <1>1, <1>4, EnteredAtStart, ZenonT(30) DEF BlocksFit, Fits
    <3>2. blocks[i].start \in Nat
      BY <1>1, <1>4, <3>1, LeaderFacts
    <3>3. blocks[i].start <= blocks[i].start
      BY <3>2
    <3> QED BY <3>1, <3>3
  <2>3. phase = "run" =>
           \A n \in DOMAIN img.funcs : \A a \in Body(n) :
              \E i \in DOMAIN blocks : blocks[i].start <= a /\ a < blocks[i].end
    BY DEF CovInv, InBlock
  <2>4. BlocksPartition
    BY <2>1, <2>2, <2>3, Zenon DEF BlocksPartition
  <2> QED BY <1>2, <2>4 DEF BlocksExact
<1> QED BY <1>3, <1>4 DEF CovInv

(* A range counts as executed, by one of its block objects, exactly when   *)
(* one of its instructions has been.                                       *)
VisitedExact ==
    \A i \in DOMAIN blocks :
        (\E a \in executed : blocks[i].start <= a /\ a < blocks[i].end)
           <=> \E j \in DOMAIN blocks : /\ blocks[j].start = blocks[i].start
                                        /\ blocks[j].end = blocks[i].end /\ blocks[j].visited

(* What the invariant says of the blocks that are marked.                  *)
LEMMA CovVisited == ASSUME CovInv PROVE BlocksEnteredAtLeader /\ VisitedExact
<1>1. ImageFacts /\ BlocksFit /\ Marked /\ executed \subseteq DOMAIN img.instr
  BY ImageFactsHold DEF CovInv
<1>2. BlocksEnteredAtLeader
  <2> SUFFICES ASSUME NEW i \in DOMAIN blocks, blocks[i].visited
               PROVE  /\ \E a \in executed \cap Entries :
                            blocks[i].start <= a /\ a < blocks[i].end
                      /\ AllJumps = FoundJumps => blocks[i].start \in executed
    BY Zenon DEF BlocksEnteredAtLeader
  <2>1. PICK a \in executed \cap Entries : blocks[i].start <= a /\ a < blocks[i].end
    BY <1>1 DEF Marked, Entered
  <2>2. LeadersKnown
    <3>1. DOMAIN << >> = {}
      OBVIOUS
    <3> QED BY <3>1 DEF CovInv
  <2>3. AllJumps = FoundJumps => a = blocks[i].start
    BY <1>1, <2>1, <2>2, EntryFacts, EnteredAtStart
  <2> QED BY <2>1, <2>3
<1>3. \A j \in DOMAIN blocks : /\ blocks[j].start \in Nat /\ blocks[j].end \in Nat
                               /\ blocks[j].start < blocks[j].end
  <2>1. \A j \in DOMAIN blocks : blocks[j] \in BlockRecords /\ blocks[j].start < blocks[j].end
    BY <1>1 DEF BlocksFit, Fits
  <2> QED BY <2>1 DEF BlockRecords
<1>4. ASSUME NEW i \in DOMAIN blocks, NEW a \in executed,
             blocks[i].start <= a, a < blocks[i].end
      PROVE  \E j \in DOMAIN blocks : /\ blocks[j].start = blocks[i].start
                                      /\ blocks[j].end = blocks[i].end /\ blocks[j].visited
  <2>1. LeadersKnown
    <3>1. DOMAIN << >> = {}
      OBVIOUS
    <3> QED BY <1>4, <3>1 DEF CovInv
  <2>2. PICK j \in DOMAIN blocks : blocks[j].visited /\ blocks[j].start <= a /\ a < blocks[j].end
    BY <1>1 DEF Marked
  <2>3. a \in Nat
    BY <1>1, Zenon DEF ImageFacts
  <2>4. blocks[j].start = blocks[i].start /\ blocks[j].end = blocks[i].end
    BY <1>1, <1>3, <1>4, <2>1, <2>2, <2>3, BlocksApart
  <2> QED BY <2>2, <2>4
<1>5. ASSUME NEW i \in DOMAIN blocks, NEW j \in DOMAIN blocks, blocks[j].visited,
             blocks[j].start = blocks[i].start, blocks[j].end = blocks[i].end
      PROVE  \E a \in executed : blocks[i].start <= a /\ a < blocks[i].end
  <2>1. Entered(blocks[j])
    BY <1>1, <1>5 DEF Marked
  <2> QED BY <1>5, <2>1 DEF Entered
<1> QED BY <1>2, <1>4, <1>5, Zenon DEF VisitedExact

(* The two walks of init find exactly the leaders that uncompressed jumps  *)
(* give rise to, all there are when no jump is compressed, the ranges      *)
(* between them, and all instructions.                                     *)
THEOREM BlocksAlwaysExact == ASSUME CovConstants PROVE Spec => []BlocksExact
BY CovInit, CovStep, CovExact, PTL DEF Spec

(* A block that cover has marked was entered where a basic block begins,   *)
(* at its first instruction when no jump is compressed, and what is marked *)
(* is what has been executed, over all runs.                               *)
THEOREM BlocksAlwaysEnteredAtLeader ==
    ASSUME CovConstants PROVE Spec => [](BlocksEnteredAtLeader /\ VisitedExact)
BY CovInit, CovStep, CovVisited, PTL DEF Spec

(* The assertion of add_func, that a block is not empty, never fails.      *)
THEOREM AssertionNeverFails == ASSUME CovConstants PROVE Spec => [](aborted = FALSE)
<1>1. CovInv => aborted = FALSE
  BY DEF CovInv
<1> QED BY <1>1, CovInit, CovStep, PTL DEF Spec
=============================================================================
