------------------------------ MODULE Coverage ------------------------------
(***************************************************************************)
(* The coverage records of core/rv32/coverage.cpp and basic_block.cpp.     *)
(*                                                                         *)
(* init walks twice over the instructions of every function of the debug   *)
(* information: init_basic_blocks collects the leaders of basic blocks,    *)
(* add_func creates the records of functions, lines and blocks.  While the *)
(* guest runs, cover is called for every instruction that completes; the   *)
(* records are kept over all the runs of an exploration.                   *)
(*                                                                         *)
(* An image gives the functions as address ranges and the instructions by  *)
(* address (in units of two bytes) with what the walks look at: the size,  *)
(* the kind, the destination and the sources, innermost first.  A          *)
(* compressed instruction has size 1.                                      *)
(***************************************************************************)
EXTENDS Naturals, Sequences, FiniteSets

CONSTANTS Images,    \* the guests
          Operands,  \* what may be true of an instruction's operands
          MaxCover   \* bound on the instructions that are executed

VARIABLES img,
          phase,         \* "init_basic_blocks", "add_func" or "run"
          fn,            \* the function being walked over
          addr, prev_wasjump, block_leaders, block_prev,
          blocks,        \* BasicBlockList
          funcs, lines,  \* of the one SourceFile; unknown names have no entry
          pc,            \* the instruction the guest executes next
          executed,      \* history: the instructions that have completed
          covered,       \* and their number
          aborted        \* the assertion of add_func has failed

walkVars == <<phase, fn, addr, prev_wasjump, block_leaders, block_prev>>
vars == <<img, walkVars, blocks, funcs, lines, pc, executed, covered, aborted>>

Instr(a) == img.instr[a]
Lo(n) == img.funcs[n].lo
Hi(n) == img.funcs[n].hi
Jumps == {"branch", "jal", "jalr"}

NewFunction == [first_instr |-> 0, exec_count |-> 0, blocks |-> << >>]
NewLine == [first_instr |-> 0, exec_count |-> 0, blocks |-> << >>,
            symbolic_once |-> FALSE, tainted_once |-> FALSE, initial_conc |-> FALSE]

Init ==
    /\ img \in Images
    /\ phase = "init_basic_blocks" /\ fn = 1 /\ addr = Lo(1) /\ prev_wasjump = FALSE
    /\ block_leaders = {Lo(1)} /\ block_prev = Lo(1)
    /\ blocks = << >> /\ funcs = << >> /\ lines = << >>
    /\ pc = Lo(1) /\ executed = {} /\ covered = 0 /\ aborted = FALSE

(* Both walks go on to the next instruction, the next function, the next   *)
(* walk.                                                                   *)
Walk(next) ==
    LET more == next < Hi(fn)
        last == fn = Len(img.funcs)
    IN  /\ fn' = IF more THEN fn ELSE IF last THEN 1 ELSE fn + 1
        /\ addr' = IF more THEN next ELSE Lo(fn')
        /\ phase' = IF more \/ ~last THEN phase
                    ELSE IF phase = "add_func" THEN "run" ELSE "add_func"

(* The opcode as the first walk compares it: compressed instructions are   *)
(* not expanded ("TODO: decode_and_expand_compressed for compressed"), so  *)
(* that none of them is taken for a jump.                                  *)
opcode(a) == IF Instr(a).size = 1 THEN "plain" ELSE Instr(a).kind

(* The leaders an instruction gives rise to, and a mutant that forgets the *)
(* one behind a jump.                                                      *)
NewLeadersNoFollower ==
    IF opcode(addr) \in {"branch", "jal"}
    THEN {Instr(addr).dest} \cap (Lo(fn)..(Hi(fn) - 1)) ELSE {}

NewLeaders ==
    (IF prev_wasjump THEN {addr} ELSE {})
      \cup (IF opcode(addr) \in {"branch", "jal"}
            THEN {Instr(addr).dest} \cap (Lo(fn)..(Hi(fn) - 1)) ELSE {})

init_basic_blocks ==
    /\ phase = "init_basic_blocks"
    /\ Walk(addr + Instr(addr).size)
    /\ prev_wasjump' = (fn' = fn /\ phase' = phase /\ opcode(addr) \in Jumps)
    /\ block_leaders' = block_leaders \cup NewLeaders \cup {Lo(fn')}
    /\ UNCHANGED <<img, block_prev, blocks, funcs, lines, pc, executed, covered, aborted>>

(* The records of a function and of a line are created when the walk first *)
(* meets them.                                                             *)
FuncsOf(a) == {Instr(a).sources[i].func : i \in DOMAIN Instr(a).sources}
LinesOf(a) == {Instr(a).sources[i].line : i \in DOMAIN Instr(a).sources}

AddFunctions(fs) ==
    [f \in DOMAIN fs \cup FuncsOf(addr) |->
        IF f \in DOMAIN fs THEN fs[f] ELSE [NewFunction EXCEPT !.first_instr = addr]]

AddLines(ls) ==
    [l \in DOMAIN ls \cup LinesOf(addr) |->
        IF l \in DOMAIN ls THEN ls[l] ELSE [NewLine EXCEPT !.first_instr = addr]]

(* One block object per source of the block's last instruction, the i-th   *)
(* behind the n that exist.  The line in "SourceLine sl =                  *)
(* sf.lines.at(s.line)" is a copy, so that the block is recorded with the  *)
(* function only.                                                          *)
AddBlocks(fs, sources, n) ==
    [f \in DOMAIN fs |->
        [fs[f] EXCEPT !.blocks = @ \o SelectSeq([i \in DOMAIN sources |-> n + i],
                                                LAMBDA b : sources[b - n].func = f)]]

(* Where a block ends.                                                    *)
EndsBlock(next) == next \in block_leaders \/ next = Hi(fn)

add_func ==
    LET sources == Instr(addr).sources
        next == addr + Instr(addr).size
        ends == EndsBlock(next)
        known == AddFunctions(funcs)
    IN  /\ phase = "add_func"
        /\ lines' = AddLines(lines)
        /\ funcs' = IF ends THEN AddBlocks(known, sources, Len(blocks)) ELSE known
        /\ blocks' = IF ~ends THEN blocks
                     ELSE blocks \o [i \in DOMAIN sources |->
                              [start |-> block_prev, end |-> next, visited |-> FALSE]]
        /\ aborted' = (aborted \/ (ends /\ ~(block_prev < next)))
        /\ Walk(next)
        /\ block_prev' = IF ~ends THEN block_prev ELSE addr'
        /\ UNCHANGED <<img, prev_wasjump, block_leaders, pc, executed, covered>>

-----------------------------------------------------------------------------
(* Mutant: the start of a block does not belong to it.                     *)
visit_no_start(bs, a) ==
    LET holds == {i \in DOMAIN bs : a > bs[i].start /\ a < bs[i].end}
    IN  [i \in DOMAIN bs |-> [bs[i] EXCEPT !.visited =
                                 @ \/ (i \in holds /\ \A j \in holds : i <= j)]]

(* BasicBlockList::visit marks the first block that holds the address.     *)
visit(bs, a) ==
    LET holds == {i \in DOMAIN bs : a >= bs[i].start /\ a < bs[i].end}
    IN  [i \in DOMAIN bs |-> [bs[i] EXCEPT !.visited =
                                 @ \/ (i \in holds /\ \A j \in holds : i <= j)]]

(* The flags of the operands: tainted, symbolic, initially concretized.    *)
Marks(l, tainted, symbolic, init) ==
    [l EXCEPT !.symbolic_once = @ \/ symbolic, !.tainted_once = @ \/ tainted,
              !.initial_conc = @ \/ init]

(* A record counts each source of its first instruction.                   *)
Counted(r, n) == IF r.first_instr = pc THEN [r EXCEPT !.exec_count = @ + n] ELSE r

(* cover visits the records once for every source of the instruction.      *)
cover(tainted, symbolic, init) ==
    LET sources == Instr(pc).sources
        InFunc(f) == Cardinality({i \in DOMAIN sources : sources[i].func = f})
        OnLine(l) == Cardinality({i \in DOMAIN sources : sources[i].line = l})
    IN  /\ funcs' = [f \in DOMAIN funcs |-> Counted(funcs[f], InFunc(f))]
        /\ lines' = [l \in DOMAIN lines |->
                        IF l \notin LinesOf(pc) THEN lines[l]
                        ELSE Marks(Counted(lines[l], OnLine(l)), tainted, symbolic, init)]
        /\ blocks' = IF sources = << >> THEN blocks ELSE visit(blocks, pc)
        /\ executed' = executed \cup {pc} /\ covered' = covered + 1

(* Where the guest continues, whatever the size of the instruction: JALR   *)
(* calls a function or returns behind some call, as init_basic_blocks      *)
(* assumes.                                                                *)
After(a) == a + Instr(a).size
Successors(a) ==
    {After(a) : x \in {Instr(a).kind} \cap {"plain", "branch"}}
      \cup {Instr(a).dest : x \in {Instr(a).kind} \cap {"branch", "jal"}}
      \cup {b \in DOMAIN img.instr :
               /\ Instr(a).kind = "jalr"
               /\ \/ \E n \in DOMAIN img.funcs : b = Lo(n)
                  \/ \E c \in DOMAIN img.instr : Instr(c).kind \in {"jal", "jalr"} /\ b = After(c)}

Execute ==
    /\ phase = "run" /\ covered < MaxCover
    /\ \E b \in Operands :
          cover("tainted" \in b, "symbolic" \in b, "init" \in b)
    /\ pc' \in Successors(pc) \cap DOMAIN img.instr
    /\ UNCHANGED <<img, walkVars, aborted>>

(* A run ends after any instruction; the next one starts anew.             *)
NewRun ==
    /\ phase = "run" /\ pc' = Lo(1)
    /\ UNCHANGED <<img, walkVars, blocks, funcs, lines, executed, covered, aborted>>

Next == init_basic_blocks \/ add_func \/ Execute \/ NewRun

Spec == Init /\ [][Next]_vars
-----------------------------------------------------------------------------
(* What init takes for granted of an image: functions do not overlap and   *)
(* hold all instructions, which follow each other without gaps and have    *)
(* sources; a jump goes to an instruction of its function or to the start  *)
(* of one, or out of the image.                                            *)
InFunction(p, n, a) == p.funcs[n].lo <= a /\ a < p.funcs[n].hi

WellFormed(p) ==
    /\ Len(p.funcs) \in Nat /\ Len(p.funcs) > 0 /\ DOMAIN p.funcs = 1..Len(p.funcs)
    /\ DOMAIN p.instr \subseteq Nat
    /\ \A n \in DOMAIN p.funcs :
          /\ p.funcs[n].lo \in Nat /\ p.funcs[n].hi \in Nat
          /\ p.funcs[n].lo \in DOMAIN p.instr /\ p.funcs[n].lo < p.funcs[n].hi
          /\ \A m \in DOMAIN p.funcs : n # m => \/ p.funcs[n].hi <= p.funcs[m].lo
                                                \/ p.funcs[m].hi <= p.funcs[n].lo
    /\ \A a \in DOMAIN p.instr : \E n \in DOMAIN p.funcs : InFunction(p, n, a)
    /\ \A a \in DOMAIN p.instr :
          /\ p.instr[a].size \in Nat /\ p.instr[a].size > 0
          /\ \A b \in DOMAIN p.instr : ~(a < b /\ b < a + p.instr[a].size)
          /\ Len(p.instr[a].sources) \in Nat /\ Len(p.instr[a].sources) > 0
          /\ DOMAIN p.instr[a].sources = 1..Len(p.instr[a].sources)
          /\ \A n \in DOMAIN p.funcs : InFunction(p, n, a) =>
                /\ \/ a + p.instr[a].size = p.funcs[n].hi
                   \/ /\ a + p.instr[a].size < p.funcs[n].hi
                      /\ a + p.instr[a].size \in DOMAIN p.instr
                /\ p.instr[a].kind \in {"branch", "jal"} =>
                      \/ p.instr[a].dest \in DOMAIN p.instr /\ InFunction(p, n, p.instr[a].dest)
                      \/ /\ p.instr[a].dest \notin p.funcs[n].lo..(p.funcs[n].hi - 1)
                         /\ p.instr[a].dest \in DOMAIN p.instr =>
                               \E m \in DOMAIN p.funcs : p.instr[a].dest = p.funcs[m].lo

(* The records refer to each other and to the image.                       *)
TypeOK ==
    /\ fn \in DOMAIN img.funcs /\ addr \in DOMAIN img.instr /\ pc \in DOMAIN img.instr
    /\ block_leaders \subseteq DOMAIN img.instr
    /\ \A i \in DOMAIN blocks : blocks[i].visited \in BOOLEAN
    /\ \A f \in DOMAIN funcs :
          \A i \in DOMAIN funcs[f].blocks : funcs[f].blocks[i] \in DOMAIN blocks
    /\ ~aborted

(* The leaders of a function as the literature defines them, by its jumps: *)
(* its first instruction, the destinations of the jumps that lie in it,    *)
(* and its instructions that follow a jump.  Entries counts all the jumps, *)
(* Leaders those the first walk can tell.                                  *)
Body(n) == {a \in DOMAIN img.instr : Lo(n) <= a /\ a < Hi(n)}
AllJumps == {a \in DOMAIN img.instr : Instr(a).kind \in Jumps}
FoundJumps == {a \in DOMAIN img.instr : opcode(a) \in Jumps}

LeadersBy(n, jumps) ==
    {Lo(n)} \cup {a \in Body(n) : \E j \in Body(n) \cap jumps :
                     After(j) = a \/ (Instr(j).kind # "jalr" /\ Instr(j).dest = a)}
Leaders(n) == LeadersBy(n, FoundJumps)
Entries == UNION {LeadersBy(n, AllJumps) : n \in DOMAIN img.funcs}

(* The first walk finds exactly the leaders that uncompressed jumps give   *)
(* rise to, which in an image without compressed jumps are all of them.    *)
LeadersExact ==
    phase # "init_basic_blocks" =>
        /\ block_leaders = UNION {Leaders(n) : n \in DOMAIN img.funcs}
        /\ AllJumps = FoundJumps => block_leaders = Entries

(* The blocks cut every function at the leaders found: two blocks are the  *)
(* same range or disjoint, every instruction of a function lies in one,    *)
(* and no block has such a leader but its first instruction.               *)
BlocksPartition ==
    /\ \A i, j \in DOMAIN blocks :
          \/ blocks[i].start = blocks[j].start /\ blocks[i].end = blocks[j].end
          \/ blocks[i].end <= blocks[j].start \/ blocks[j].end <= blocks[i].start
    /\ \A i \in DOMAIN blocks : {a \in block_leaders : blocks[i].start <= a /\ a < blocks[i].end}
                                  = {blocks[i].start}
    /\ phase = "run" =>
          \A n \in DOMAIN img.funcs : \A a \in Body(n) :
             \E i \in DOMAIN blocks : blocks[i].start <= a /\ a < blocks[i].end

(* A block that counts as executed was entered at an instruction that      *)
(* begins a basic block, and in an image without compressed jumps at the   *)
(* block's first one: no control flow leads into its middle.  A compressed *)
(* jump into the middle, or out of it, leaves one block where there are    *)
(* two, which counts as executed when either is.                           *)
BlocksEnteredAtLeader ==
    \A i \in DOMAIN blocks : blocks[i].visited =>
        /\ \E a \in executed \cap Entries : blocks[i].start <= a /\ a < blocks[i].end
        /\ AllJumps = FoundJumps => blocks[i].start \in executed

(* What Function::to_json reports: the blocks of a function, and those     *)
(* executed, are the ranges of its body cut at the leaders found, and the  *)
(* ones with an executed instruction.  Without inlining, that is: a block  *)
(* whose last instruction has two sources is two objects, of which visit   *)
(* marks one.                                                              *)
FunctionBlocksExact ==
    phase = "run" /\ (\A a \in DOMAIN img.instr : Len(Instr(a).sources) = 1) =>
        \A n \in DOMAIN img.funcs :
            LET f == funcs[Instr(Lo(n)).sources[1].func]
                Reached == {a \in Leaders(n) : \E b \in executed \cap Body(n) :
                               /\ a <= b
                               /\ \A c \in Leaders(n) : c <= b => c <= a}
            IN  /\ Len(f.blocks) = Cardinality(Leaders(n))
                /\ Cardinality({i \in DOMAIN f.blocks : blocks[f.blocks[i]].visited})
                      = Cardinality(Reached)

(* The two walks of init: leaders and blocks are those of the program, as  *)
(* far as its jumps are uncompressed.                                      *)
BlocksExact == LeadersExact /\ BlocksPartition

(* cover and visit: what is reported as executed was, from the beginning   *)
(* of a basic block.                                                       *)
CoverageExact == BlocksEnteredAtLeader /\ FunctionBlocksExact
=============================================================================
