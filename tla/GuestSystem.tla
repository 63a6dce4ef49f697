---------------------------- MODULE GuestSystem -----------------------------
(***************************************************************************)
(* What surrounds the guest program: the ELF loader, which puts its image  *)
(* into the memory (core/common/elf_loader.h), and the emulation of its    *)
(* system calls (core/rv32/syscall.cpp, syscall.h).                        *)
(*                                                                         *)
(* No platform gives the handler a pointer to the guest's memory           *)
(* (sys.init(nullptr, ...)): a call that needs one fails an assertion.     *)
(* Words have 2 * Sign values: Sign stands for 2^31.                       *)
(***************************************************************************)
EXTENDS Integers, Sequences, FiniteSets

CONSTANTS Images,        \* the files: sequences of program headers
          MemSize, Offset,
          Sign,
          Registers, A0, \* A0 is RegFile::a0
          Fds,           \* file descriptors the guest uses; 0..2 are the standard ones
          MaxCalls

Byte == 0..2             \* 0 is zero, 1 a byte of the file, 2 one never stored

VARIABLES image, at,     \* the file, and the next program header
          mem,           \* the bytes of the target memory
          hp, start_heap, max_heap,
          symbolic,      \* registers and bytes of memory that are symbolic
          a0,            \* the value of register a0
          open,          \* files the host has open
          shall_exit, running, aborted,
          calls

loadVars == <<image, at, mem>>
callVars == <<hp, max_heap, symbolic, a0, open, shall_exit, running, calls>>
vars == <<loadVars, callVars, start_heap, aborted>>

Init ==
    /\ image \in Images /\ at = 1
    /\ mem = [i \in 0..(MemSize - 1) |-> 2]
    /\ hp = 0 /\ start_heap = 0 /\ max_heap = 0
    /\ symbolic = {} /\ a0 = 0 /\ open = {0, 1, 2} /\ shall_exit = FALSE
    /\ running = FALSE /\ aborted = FALSE /\ calls = 0

-----------------------------------------------------------------------------
(* The loader.                                                             *)

(* get_load_sections.                                                      *)
IsLoaded(p) == p.type = "LOAD" /\ ~(p.filesz = 0 /\ p.memsz = 0)

Fits(p) == /\ p.paddr >= Offset
           /\ p.paddr + p.memsz < Offset + MemSize
           /\ p.memsz >= p.filesz

(* Mutant: the rest of a section is not zeroed.                            *)
load_section_no_zero ==
    /\ ~aborted /\ at <= Len(image)
    /\ LET p == image[at]
           idx == p.paddr - Offset IN
       IF ~IsLoaded(p) THEN at' = at + 1 /\ UNCHANGED <<mem, aborted>>
       ELSE IF ~Fits(p) THEN aborted' = TRUE /\ UNCHANGED <<mem, at>>
       ELSE /\ mem' = [i \in DOMAIN mem |->
                          IF i >= idx /\ i < idx + p.filesz THEN 1 ELSE mem[i]]
            /\ at' = at + 1 /\ UNCHANGED aborted
    /\ UNCHANGED <<image, callVars, start_heap>>

(* load_executable_image for one header: load_data, then load_zero.        *)
load_section ==
    /\ ~aborted /\ at <= Len(image)
    /\ LET p == image[at]
           idx == p.paddr - Offset IN
       IF ~IsLoaded(p) THEN at' = at + 1 /\ UNCHANGED <<mem, aborted>>
       ELSE IF ~Fits(p) THEN aborted' = TRUE /\ UNCHANGED <<mem, at>>
       ELSE /\ mem' = [i \in DOMAIN mem |->
                          IF i >= idx /\ i < idx + p.filesz THEN 1
                          ELSE IF i >= idx + p.filesz /\ i < idx + p.memsz THEN 0
                          ELSE mem[i]]
            /\ at' = at + 1 /\ UNCHANGED aborted
    /\ UNCHANGED <<image, callVars, start_heap>>

(* The last program header, whatever its type.                             *)
get_memory_end == image[Len(image)].vaddr + image[Len(image)].memsz
get_heap_addr == get_memory_end + (get_memory_end % 8)

(* SyscallHandler::init, and the start of the simulation.                  *)
init ==
    /\ ~aborted /\ ~running /\ ~shall_exit /\ at > Len(image)
    /\ running' = TRUE
    /\ hp' = get_heap_addr /\ start_heap' = get_heap_addr /\ max_heap' = get_heap_addr
    /\ UNCHANGED <<loadVars, symbolic, a0, open, shall_exit, calls, aborted>>

-----------------------------------------------------------------------------
(* SyscallHandler::execute_syscall.                                        *)

Calling == running /\ ~aborted /\ calls < MaxCalls /\ calls' = calls + 1

(* The answer goes to register a0, which becomes concrete; write_register  *)
(* asserts that it fits an unsigned word, and a negative int does not.     *)
Answer(ans, syms) ==
    IF ans < 0 THEN aborted' = TRUE /\ UNCHANGED <<a0, symbolic>>
    ELSE a0' = ans /\ symbolic' = syms \ {A0} /\ UNCHANGED aborted

(* The lexical_cast to int throws for an address from Sign on, and nobody  *)
(* catches it.                                                             *)
sys_brk ==
    /\ Calling
    /\ \E addr \in {0, 8, 16, Sign} :
          /\ hp' = IF addr = 0 THEN hp ELSE addr
          /\ max_heap' = IF hp' > max_heap THEN hp' ELSE max_heap
          /\ IF hp' >= Sign THEN aborted' = TRUE /\ UNCHANGED <<a0, symbolic>>
             ELSE Answer(hp', symbolic)
    /\ UNCHANGED <<loadVars, start_heap, open, shall_exit, running>>

sys_sym_reg ==
    /\ Calling
    /\ \E index \in Registers \cup {32} :
          Answer(IF index >= 32 THEN -1 ELSE 0,
                 IF index >= 32 THEN symbolic ELSE symbolic \cup {index})
    /\ UNCHANGED <<loadVars, hp, max_heap, start_heap, open, shall_exit, running>>

sys_sym_mem ==
    /\ Calling
    /\ \E addr \in {100, 101}, size \in {1, 2} :
          Answer(0, symbolic \cup addr..(addr + size - 1))
    /\ UNCHANGED <<loadVars, hp, max_heap, start_heap, open, shall_exit, running>>

(* lseek and close of the host answer -1 for a file that is not open.      *)
sys_lseek ==
    /\ Calling
    /\ \E fd \in Fds : Answer(IF fd \in open THEN 0 ELSE -1, symbolic)
    /\ UNCHANGED <<loadVars, hp, max_heap, start_heap, open, shall_exit, running>>

sys_close ==
    /\ Calling
    /\ \E fd \in Fds :
          /\ Answer(IF fd \in open THEN 0 ELSE -1, symbolic)
          /\ open' = IF fd \in 0..2 THEN open ELSE open \ {fd}
    /\ UNCHANGED <<loadVars, hp, max_heap, start_heap, shall_exit, running>>

(* The calls that need the guest's memory fail the assertion of             *)
(* guest_address_to_host_pointer.                                          *)
NoMemory == aborted' = TRUE /\ UNCHANGED <<loadVars, hp, max_heap, start_heap, symbolic,
                                           a0, open, shall_exit, running>>

(* SYS_time may have no place for the answer.                              *)
sys_time ==
    /\ Calling
    /\ \/ NoMemory
       \/ /\ Answer(1, symbolic)
          /\ UNCHANGED <<loadVars, hp, max_heap, start_heap, open, shall_exit, running>>

sys_fstat == Calling /\ NoMemory
sys_gettimeofday == Calling /\ NoMemory
sys_write == Calling /\ NoMemory
sys_read == Calling /\ NoMemory
sys_open == Calling /\ NoMemory

(* SYS_host_error and an unknown number are exceptions.                    *)
sys_unsupported ==
    /\ Calling /\ aborted' = TRUE
    /\ UNCHANGED <<loadVars, hp, max_heap, start_heap, symbolic, a0, open, shall_exit,
                   running>>

(* SYS_exit, SYS_host_test_pass and SYS_host_test_fail.                    *)
sys_exit ==
    /\ Calling
    /\ shall_exit' = TRUE /\ running' = FALSE /\ Answer(0, symbolic)
    /\ UNCHANGED <<loadVars, hp, max_heap, start_heap, open>>

(* The guest writes a register: a concrete value.                          *)
GuestWrites ==
    /\ running /\ ~aborted
    /\ \E r \in Registers : r \in symbolic /\ symbolic' = symbolic \ {r}
    /\ UNCHANGED <<loadVars, hp, max_heap, start_heap, a0, open, shall_exit, running,
                   aborted, calls>>

Syscall == \/ sys_brk \/ sys_sym_reg \/ sys_sym_mem \/ sys_lseek \/ sys_close
           \/ sys_time \/ sys_fstat \/ sys_gettimeofday \/ sys_write \/ sys_read
           \/ sys_open \/ sys_unsupported \/ sys_exit

Next == load_section \/ init \/ Syscall \/ GuestWrites

Spec == Init /\ [][Next]_vars

-----------------------------------------------------------------------------
(* When the guest starts, the memory is the image: bytes of the file where *)
(* a section has them, zeroes where it only has a size ("still, the memory *)
(* needs to be zero initialized"), and nothing stored outside; sections    *)
(* that overlap show the later one.                                        *)
Covers(p, i) == IsLoaded(p) /\ i >= p.paddr - Offset /\ i < p.paddr - Offset + p.memsz

ImageLoaded ==
    running => \A i \in DOMAIN mem :
       LET by == {k \in DOMAIN image : Covers(image[k], i)} IN
       mem[i] = IF by = {} THEN 2
                ELSE LET k == CHOOSE k \in by : \A j \in by : j <= k IN
                     IF i < image[k].paddr - Offset + image[k].filesz THEN 1 ELSE 0

=============================================================================
