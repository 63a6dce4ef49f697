------------------------------- MODULE MCCore -------------------------------
(***************************************************************************)
(* The parts of the core around the execution of instructions, side by     *)
(* side for TLC: the decoder, the coverage tracker, the memory interface,  *)
(* the register maps, and the loader with the system calls.  The first     *)
(* state says which of them takes the steps of a behaviour; the others     *)
(* stay in an initial state.                                               *)
(***************************************************************************)
EXTENDS Decode

VARIABLES
    which,
    (* Memory *)
    table, bare, sum, mxr, tlb, outcome_m, stored, fresh, flagsFresh, accesses,
    changes,
    (* Tracker *)
    img, phase, fn, addr, prev_wasjump, block_leaders, block_prev, blocks, funcs,
    lines, pc_c, executed, covered, aborted_c,
    (* Maps *)
    regs, window, mem_r, guest, answer_r, accesses_r,
    (* Guest *)
    image, at, mem, hp, start_heap, max_heap, symbolic, a0, open, shall_exit, running,
    aborted, calls

-----------------------------------------------------------------------------
(* Decoder.                                                                *)

MCHalves == {w \in 0 .. 65535 : w % 4 # 3}
MCSampled == {w \in MCHalves : w % 61 = 0}

Opcodes == {o \in Bits(7) : o % 4 = 3}

\* the opcodes some encoding of which looks at funct7 or a part of it
WithFunct7 == {19, 27, 47, 51, 59, 67, 71, 75, 79, 83, 115}

\* every opcode and funct3, with every funct7 or, where it belongs to an
\* immediate, each of its bits; then, where the encodings look at them, the
\* values of rs2, rs1 and rd that some encoding fixes and one that none does
MCWords ==
    <<[op: WithFunct7, rd: {7}, f3: Bits(3), rs1: {9}, rs2: {5}, f7: Bits(7)],
      [op: Opcodes \ WithFunct7, rd: {7}, f3: Bits(3), rs1: {9}, rs2: {5},
       f7: {0, 1, 2, 4, 8, 16, 32, 64, 127}],
      [op: {47, 83, 115}, rd: {7}, f3: Bits(3), rs1: {9}, rs2: 0 .. 3, f7: Bits(7)],
      [op: {115}, rd: {0, 7}, f3: {0}, rs1: {0, 9}, rs2: {0, 1, 2, 5}, f7: {0, 1, 8, 9, 24}]>>

-----------------------------------------------------------------------------
(* Memory.  Two tables of two entries: the root in page 0, another one in  *)
(* page 1; pages 2 and 3 are memory, no port decodes pages 4 and up, which *)
(* 32 bits do not reach.                                                   *)

pte(flags, ppn) == [flags |-> flags, ppn |-> ppn]

MCPorts == <<<<0, 3>>, <<2, 2>>>>

MCTables ==
    {(<<0, 0>> :> a @@ <<0, 1>> :> b[1] @@ <<1, 0>> :> b[2] @@ <<1, 1>> :> b[3]) :
        a \in {pte({"V"}, 1), pte({"V", "R", "W", "X"}, 2)},
        b \in {<<pte({"V"}, 4), pte({"V", "R", "W", "U"}, 3), pte({"V", "W"}, 3)>>,
               <<pte({"V", "R", "W", "X", "U"}, 2), pte({"V", "X", "U"}, 3), pte({"V", "R"}, 2)>>,
               <<pte({"V", "R", "W"}, 6), pte({"V", "X", "U"}, 3), pte({"V", "R", "W"}, 7)>>,
               <<pte({"V", "R"}, 3), pte({"V", "X", "U"}, 3), pte({"V", "R", "W"}, 2)>>}}

Table == CHOOSE t \in MCTables : TRUE

Memory == INSTANCE VirtualMemory WITH
    Fanout <- 2, TLB_ENTRIES <- 2, Ports <- MCPorts, Tables <- MCTables, Root <- 0,
    NewEntries <- {pte({}, 0)}, Debugger <- TRUE, MaxAccesses <- 2, MaxChanges <- 1, outcome <- outcome_m

(* The guest's tables are complete and in memory.                          *)
ASSUME TablesProper == \A t \in MCTables : Memory!Proper(t)

-----------------------------------------------------------------------------
(* Tracker.  Three instructions in one function or two, with every choice  *)
(* of kinds and destinations; the second one may come from a function      *)
(* inlined into the one that holds it.                                     *)

(* The addresses of three instructions, with and without a compressed one. *)
Layouts == {<<0, 2, 4, 6>>, <<0, 2, 3, 5>>}

Kinds(as) ==
    {[kind |-> "plain", dest |-> 0], [kind |-> "jalr", dest |-> 0]}
      \cup [kind : {"branch", "jal"}, dest : {as[i] : i \in 1..3}]

Code(as, split, ks, inlined) ==
    [funcs |-> IF split = 3 THEN <<[lo |-> as[1], hi |-> as[4]]>>
               ELSE <<[lo |-> as[1], hi |-> as[split + 1]],
                      [lo |-> as[split + 1], hi |-> as[4]]>>,
     instr |-> [a \in {as[i] : i \in 1..3} |->
                  LET i == CHOOSE n \in 1..3 : as[n] = a
                      own == [func |-> IF i <= split THEN "f" ELSE "g", line |-> i]
                  IN  [size |-> as[i + 1] - as[i], kind |-> ks[i].kind, dest |-> ks[i].dest,
                       sources |-> IF i \in inlined THEN <<[func |-> "h", line |-> 4], own>>
                                   ELSE <<own>>]]]

(* Any instruction may be a jump, the compressed one too; a jump out of a  *)
(* function goes to the start of one.                                      *)
KindsOf(as, split) ==
    {ks \in [1..3 -> Kinds(as)] : \A i, j \in 1..3 :
        ks[i].dest = as[j] /\ ~(i <= split <=> j <= split) => j \in {1, split + 1}}

Programs ==
    UNION {{Code(as, split, ks, inlined) : ks \in KindsOf(as, split), inlined \in {{}, {2}}} :
              as \in Layouts, split \in {1, 2, 3}}

Program == CHOOSE p \in Programs : TRUE

Tracker == INSTANCE Coverage WITH
    Images <- Programs, Operands <- {{}, {"symbolic", "tainted"}}, MaxCover <- 3,
    pc <- pc_c, aborted <- aborted_c

(* The programs are such as init takes for granted.                        *)
ASSUME ProgramsWellFormed == \A p \in Programs : Tracker!WellFormed(p)

-----------------------------------------------------------------------------
(* Maps.  One register with a mask, a window, and a range.                 *)

Maps == INSTANCE RegisterMaps WITH
    Bank <- {4}, ReadOnly <- {}, Masked <- {5}, Start <- 6, End <- 10, RangeStart <- 12,
    RangeSize <- 4, alignment <- 2, MaxAccesses <- 2,
    mem <- mem_r, answer <- answer_r, accesses <- accesses_r

(* The maps of the device are apart.                                       *)
ASSUME MapsApart == Maps!Apart

-----------------------------------------------------------------------------
(* Guest.  Images with and without zeroed bytes, with overlapping          *)
(* sections, with one that is not loaded, with one that does not fit.      *)

Header(type, addr0, filesz, memsz) ==
    [type |-> type, vaddr |-> addr0, paddr |-> addr0, filesz |-> filesz, memsz |-> memsz]

Files ==
    {<<Header("LOAD", 4, 2, 3)>>,
     <<Header("LOAD", 4, 2, 3), Header("NOTE", 0, 1, 1), Header("LOAD", 6, 1, 3)>>,
     <<Header("LOAD", 4, 1, 4), Header("LOAD", 9, 0, 2)>>,
     <<Header("LOAD", 4, 1, 8)>>,
     <<Header("LOAD", 4, 0, 0), Header("LOAD", 2, 1, 1)>>}

File == <<Header("LOAD", 4, 2, 3)>>

Guest == INSTANCE GuestSystem WITH
    Images <- Files, MemSize <- 8, Offset <- 4, Sign <- 32, Registers <- {5, 10}, A0 <- 10,
    Fds <- {1, 3}, MaxCalls <- 3

-----------------------------------------------------------------------------
memoryVars == <<table, bare, sum, mxr, tlb, outcome_m, stored, fresh, flagsFresh,
                accesses, changes>>
trackerVars == <<img, phase, fn, addr, prev_wasjump, block_leaders, block_prev,
                 blocks, funcs, lines, pc_c, executed, covered, aborted_c>>
registerVars == <<regs, window, mem_r, guest, answer_r, accesses_r>>
guestVars == <<image, at, mem, hp, start_heap, max_heap, symbolic, a0, open,
               shall_exit, running, aborted, calls>>
mcVars == <<which, vars, memoryVars, trackerVars, registerVars, guestVars>>

MCInit ==
    /\ which \in {"memory", "decoder", "tracker", "registers", "guest"}
    /\ Memory!Init /\ (which # "memory" => table = Table /\ ~sum /\ ~mxr)
    /\ Maps!Init
    /\ Guest!Init /\ (which # "guest" => image = File)
    /\ Tracker!Init /\ (which # "tracker" => img = Program)
    /\ IF which = "decoder" THEN Init
       ELSE /\ arch = "RV32" /\ hasC = FALSE /\ coverage = FALSE /\ half = 0
            /\ instr = Undefined.instr /\ op = "UNDEF" /\ pc = 0 /\ rops = {}
            /\ outcome = "fetched"

Only(w) ==
    /\ which = w /\ UNCHANGED which
    /\ w # "memory" => UNCHANGED memoryVars
    /\ w # "decoder" => UNCHANGED vars
    /\ w # "tracker" => UNCHANGED trackerVars
    /\ w # "registers" => UNCHANGED registerVars
    /\ w # "guest" => UNCHANGED guestVars

MCNext ==
    \/ Only("memory") /\ Memory!Next
    \/ Only("decoder") /\ Next
    \/ Only("tracker") /\ Tracker!Next
    \/ Only("registers") /\ Maps!Next
    \/ Only("guest") /\ Guest!Next

MCSpec == MCInit /\ [][MCNext]_mcVars

-----------------------------------------------------------------------------
(* Each statement is that of its module, for the component that moves.     *)

(* VirtualMemory: translations, and the accessed and dirty flags, are      *)
(* those of Sv32, with the TLB in between (translate_virtual_to_physical). *)
TranslationSound == which = "memory" => Memory!TranslationSound

(* Coverage: init finds the leaders and blocks of the program.             *)
BlocksExact == which = "tracker" => Tracker!BlocksExact

(* Coverage: cover and visit report the blocks that were executed.         *)
CoverageExact == which = "tracker" => Tracker!CoverageExact

(* RegisterMaps: a mapped access is a memory access (tlm_map.h).           *)
MappedIsMemory == which = "registers" => Maps!MappedIsMemory

(* GuestSystem: load_executable_image leaves the image in the memory.      *)
ImageLoaded == which = "guest" => Guest!ImageLoaded
=============================================================================
