------------------------------- MODULE CsrFile -------------------------------
(***************************************************************************)
(* The control and status registers of the instruction set simulator       *)
(* (core/rv32/csr.h) and the instructions that access them (iss.cpp):      *)
(* which addresses exist, which mode may use them, what a read returns and *)
(* which bits a write changes, the traps that follow, the counters.        *)
(*                                                                         *)
(* A register is a word, the set of its bits that are 1, held in a slot    *)
(* <<name, index>>: the index is the level of a register that each mode    *)
(* has, the half of a 64 bit counter, or the number of a PMP register.     *)
(* The address of the instruction, and what traps store of it, are the     *)
(* words Pc and Data; the rest of the guest is in module Hart.             *)
(***************************************************************************)
EXTENDS Integers, Sequences, FiniteSets

CONSTANTS Reads,      \* the addresses that are read
          Writes,     \* the addresses that are written
          Words,      \* the operands of the guest
          Lines,      \* the bits of mip that devices raise
          Clock,      \* values of a 64 bit counter, pairs of words
          Pc, Data,
          MaxInstr    \* the length of the guest, at most Len(Clock) - 1

UserMode == 0
SupervisorMode == 1
MachineMode == 3
Modes == {UserMode, SupervisorMode, MachineMode}
Bits == 0..31

VARIABLES csrs,    \* [slot -> word]
          prv,     \* the current mode
          instrs,  \* instructions executed so far; time passes with them
          cycles   \* cycle_counter, as a position in Clock

vars == <<csrs, prv, instrs, cycles>>

-----------------------------------------------------------------------------
(* The bit-fields of mstatus, and the masks of namespace csr.              *)
mstatus == [uie |-> {0}, sie |-> {1}, mie |-> {3}, upie |-> {4}, spie |-> {5},
            mpie |-> {7}, spp |-> {8}, mpp |-> {11, 12}, fs |-> {13, 14},
            xs |-> {15, 16}, mprv |-> {17}, sum |-> {18}, mxr |-> {19},
            tvm |-> {20}, tw |-> {21}, tsr |-> {22}, sd |-> {31}]

STATUS_MASK(level) ==
    CASE level = MachineMode -> {0, 1, 3, 4, 5, 7, 8} \cup (11..22) \cup {31}
      [] level = SupervisorMode -> {0, 1, 4, 5, 8} \cup (13..16) \cup {18, 19, 31}
      [] level = UserMode -> {0, 4}

(* Mutant: one mask for all levels.                                        *)
ie_mask_flat(level) == {0, 1, 3, 4, 5, 7, 8, 9, 11}

IE_MASK(level) == CASE level = MachineMode -> {0, 1, 3, 4, 5, 7, 8, 9, 11}
                    [] level = SupervisorMode -> {0, 1, 4, 5, 8, 9}
                    [] level = UserMode -> {0, 4, 8}

IP_WRITE_MASK(level) == CASE level = MachineMode -> {0, 1, 4, 5, 8, 9}
                          [] level = SupervisorMode -> {0, 1}
                          [] level = UserMode -> {0}
IP_READ_MASK(level) == IF level = MachineMode THEN IE_MASK(level)
                       ELSE IP_WRITE_MASK(level)

MEDELEG_MASK == (0..9) \cup {11, 12, 13, 15}
SEDELEG_MASK == (0..8) \cup {12, 13, 15}
MTVEC_MASK == Bits \ {1}
MCOUNTEREN_MASK == 0..2
MCOUNTINHIBIT_MASK == {0, 2}
SATP_MASK == (0..21) \cup {31}
FCSR_MASK == 0..7
pc_alignment_mask == Bits \ {0}

(* The addresses: banks of registers that every level has, counters with   *)
(* their halves \h80 apart, and the performance counters and their events. *)
LevelBank(offset) == {256 * level + offset : level \in Modes}
STATUS == LevelBank(\h00)
IE == LevelBank(\h04)
TVEC == LevelBank(\h05)
EPC == LevelBank(\h41)
IP == LevelBank(\h44)
LevelOf(addr) == (addr \div 256) % 4

MISA == \h301
SATP == \h180
FFLAGS == \h001
FRM == \h002
FCSR == \h003
TSELECT == \h7A0
DEBUG == {\h7A0, \h7A1, \h7A2, \h7A3, \h7B0, \h7B1, \h7B2, \h7B3}
TIMES == {\hC01, \hC81, \hB01, \hB81}
MCYCLES == {\hB00, \hB80}
HalfOf(addr) == (addr \div 128) % 2
HpmAddresses == [counter |-> \hC03..\hC1F, counterh |-> \hC83..\hC9F,
                 mcounter |-> \hB03..\hB1F, mcounterh |-> \hB83..\hB9F,
                 mevent |-> \h323..\h33F]
ANY_HPMCOUNTER == UNION {HpmAddresses[k] : k \in DOMAIN HpmAddresses}

(* csr_table::register_mapping, from addresses to slots: the counters, the *)
(* machine's own registers, those that two or all three levels have, and   *)
(* the memory protection.                                                  *)
CounterMap == {<<base + 128 * half + r[1], <<r[2], half>> >> :
                 base \in {\hC00, \hB00}, half \in {0, 1},
                 r \in {<<0, "cycle">>, <<1, "time">>, <<2, "instret">>}}
MachineMap == {<<\hF11, <<"mvendorid", 0>> >>, <<\hF12, <<"marchid", 0>> >>,
               <<\hF13, <<"mimpid", 0>> >>, <<\hF14, <<"mhartid", 0>> >>,
               <<\h320, <<"mcountinhibit", 0>> >>}
ViewMap == {<<\h300, <<"mstatus", 0>> >>, <<\h304, <<"mie", 0>> >>, <<\h344, <<"mip", 0>> >>}
DelegationMap == {<<256 * level + r[1], <<r[2], level>> >> :
                    level \in {SupervisorMode, MachineMode},
                    r \in {<<2, "edeleg">>, <<3, "ideleg">>, <<6, "counteren">>}}
TrapMap == {<<256 * level + r[1], <<r[2], level>> >> :
              level \in Modes,
              r \in {<<\h05, "tvec">>, <<\h40, "scratch">>, <<\h41, "epc">>,
                     <<\h42, "cause">>, <<\h43, "tval">>}}
PmpMap == {<<\h3B0 + i, <<"pmpaddr", i>> >> : i \in 0..15}
          \cup {<<\h3A0 + i, <<"pmpcfg", i>> >> : i \in 0..3}
SingleMap == {<<MISA, <<"misa", 0>> >>, <<SATP, <<"satp", 0>> >>, <<FCSR, <<"fcsr", 0>> >>}
Mapping == UNION {CounterMap, MachineMap, ViewMap, DelegationMap, TrapMap, PmpMap, SingleMap}

Slots == {m[2] : m \in Mapping}
ValidAddrs == {m[1] : m \in Mapping}
is_valid_csr32_addr(addr) == addr \in ValidAddrs
SlotOf(addr) == (CHOOSE m \in Mapping : m[1] = addr)[2]

(* The reset value of misa: RV32 with A, C, F, I, M, N, S and U.           *)
misa_init == {0, 2, 5, 8, 12, 13, 18, 20, 30}

-----------------------------------------------------------------------------
(* The access checks and the two functions of the ISS, on the registers s  *)
(* of a hart in mode p; an answer with ok = FALSE is the illegal           *)
(* instruction trap.                                                       *)

is_invalid_csr_access(s, p, addr, is_write) ==
    \/ addr \in {FFLAGS, FRM, FCSR} /\ 5 \notin s[<<"misa", 0>>]
    \/ is_write /\ (addr \div 1024) % 4 = 3
    \/ p < LevelOf(addr)
    \/ LevelOf(addr) = SupervisorMode /\ 18 \notin s[<<"misa", 0>>]
    \/ LevelOf(addr) = UserMode /\ 20 \notin s[<<"misa", 0>>]

validate_csr_counter_read_access_rights(s, p, addr) ==
    addr \in (\hC00..\hC1F) \cup (\hC80..\hC9F) =>
      /\ p = SupervisorMode => addr % 32 \in s[<<"counteren", MachineMode>>]
      /\ p = UserMode => addr % 32 \in s[<<"counteren", MachineMode>>]
                                        \cap s[<<"counteren", SupervisorMode>>]

(* A read refreshes the copies of the time and, at the machine's address,  *)
(* of the cycles; the debug registers are hardwired.                       *)
Refreshed(s, name, at) == [s EXCEPT ![<<name, 0>>] = Clock[at][1],
                                    ![<<name, 1>>] = Clock[at][2]]
Refresh(s, addr) == CASE addr \in TIMES -> Refreshed(s, "time", instrs + 1)
                      [] addr \in MCYCLES -> Refreshed(s, "cycle", cycles)
                      [] OTHER -> s

IsReadable(s, p, addr) ==
    /\ validate_csr_counter_read_access_rights(s, p, addr)
    /\ addr = SATP => ~(mstatus.tvm \subseteq s[<<"mstatus", 0>>])
    /\ \/ addr \in UNION {STATUS, IP, IE, {FFLAGS, FRM}, ANY_HPMCOUNTER, DEBUG}
       \/ is_valid_csr32_addr(addr)

ValueAt(s, addr) ==
    CASE addr \in STATUS -> s[<<"mstatus", 0>>] \cap STATUS_MASK(LevelOf(addr))
      [] addr \in IP -> s[<<"mip", 0>>] \cap IP_READ_MASK(LevelOf(addr))
      [] addr \in IE -> s[<<"mie", 0>>] \cap IE_MASK(LevelOf(addr))
      [] addr = FCSR -> s[<<"fcsr", 0>>] \cap FCSR_MASK
      [] addr = FFLAGS -> s[<<"fcsr", 0>>] \cap (0..4)
      [] addr = FRM -> {b - 5 : b \in s[<<"fcsr", 0>>] \cap (5..7)}
      [] addr = TSELECT -> {0}
      [] addr \in ANY_HPMCOUNTER \cup (DEBUG \ {TSELECT}) -> {}
      [] OTHER -> s[SlotOf(addr)]

get_csr_value(s, p, addr) ==
    IF IsReadable(s, p, addr)
    THEN [ok |-> TRUE, csrs |-> Refresh(s, addr), value |-> ValueAt(Refresh(s, addr), addr)]
    ELSE [ok |-> FALSE, csrs |-> s, value |-> {}]

(* Mutant: the write of a view replaces the whole register.                *)
write_replaces(s, slot, mask, value) == [s EXCEPT ![slot] = value \cap mask]

write(s, slot, mask, value) ==
    [s EXCEPT ![slot] = (s[slot] \ mask) \cup (value \cap mask)]

(* The slot that a write to an address changes, and which bits of it.      *)
WriteSlot(addr) == CASE addr \in STATUS -> <<"mstatus", 0>>
                     [] addr \in IE -> <<"mie", 0>>
                     [] addr \in IP -> <<"mip", 0>>
                     [] addr \in {FFLAGS, FRM} -> <<"fcsr", 0>>
                     [] OTHER -> SlotOf(addr)

WriteMask(addr) ==
    CASE addr \in TVEC -> MTVEC_MASK
      [] addr \in EPC -> pc_alignment_mask
      [] addr \in STATUS -> STATUS_MASK(LevelOf(addr))
      [] addr \in IP -> IP_WRITE_MASK(LevelOf(addr))
      [] addr \in IE -> IE_MASK(LevelOf(addr))
      [] addr \in {\h303, \h103} -> IE_MASK(MachineMode)
      [] addr = \h302 -> MEDELEG_MASK
      [] addr = \h102 -> SEDELEG_MASK
      [] addr \in {\h306, \h106} -> MCOUNTEREN_MASK
      [] addr = \h320 -> MCOUNTINHIBIT_MASK
      [] addr = SATP -> SATP_MASK
      [] addr = FCSR -> FCSR_MASK
      [] addr = FFLAGS -> 0..4
      [] addr = FRM -> 5..7
      [] OTHER -> Bits

IsHardwired(addr) == addr \in UNION {{MISA}, ANY_HPMCOUNTER, DEBUG}

IsWritable(s, addr) ==
    /\ addr = SATP => ~(mstatus.tvm \subseteq s[<<"mstatus", 0>>])
    /\ \/ addr \in UNION {STATUS, IE, IP, {FFLAGS, FRM}}
       \/ is_valid_csr32_addr(addr)

WriteWord(addr, value) == IF addr = FRM THEN {b + 5 : b \in value} ELSE value

set_csr_value(s, addr, value) ==
    CASE IsHardwired(addr) -> [ok |-> TRUE, csrs |-> s]
      [] ~IsHardwired(addr) /\ IsWritable(s, addr) ->
           [ok |-> TRUE,
            csrs |-> write(s, WriteSlot(addr), WriteMask(addr), WriteWord(addr, value))]
      [] OTHER -> [ok |-> FALSE, csrs |-> s]

-----------------------------------------------------------------------------
(* The registers of a mode that a trap uses: xIE, xPIE and xPP of mstatus. *)
ie(level) == {level}
pie(level) == {4 + level}
BinaryOf(mode) == {i \in {0, 1} : (mode \div 2^i) % 2 = 1}
pp(level, mode) ==
    CASE level = MachineMode -> {11 + i : i \in BinaryOf(mode)}
      [] level = SupervisorMode -> {8 + i : i \in BinaryOf(mode) \cap {0}}
      [] level = UserMode -> {}
ppfield(level) == IF level = MachineMode THEN mstatus.mpp
                  ELSE IF level = SupervisorMode THEN mstatus.spp ELSE {}

switch_to_trap_handler(s, p, target) ==
    LET old == s[<<"mstatus", 0>>]
    IN  [s EXCEPT
           ![<<"epc", target>>] = Pc,
           ![<<"mstatus", 0>>] =
               (old \ (ie(target) \cup pie(target) \cup ppfield(target)))
               \cup (IF ie(target) \subseteq old THEN pie(target) ELSE {})
               \cup pp(target, p)]

(* The trap of an illegal instruction, delegated or not.                   *)
Trap(s, p) ==
    LET target == IF p = MachineMode \/ 2 \notin s[<<"edeleg", MachineMode>>]
                  THEN MachineMode
                  ELSE IF p = SupervisorMode \/ 2 \notin s[<<"edeleg", SupervisorMode>>]
                  THEN SupervisorMode ELSE UserMode
    IN  [mode |-> target,
         csrs |-> switch_to_trap_handler([s EXCEPT ![<<"cause", target>>] = {1},
                                                   ![<<"tval", target>>] = Data],
                                         p, target)]

(* The interrupt that is taken after the instruction, if there is one.     *)
InterruptOrder == <<11, 3, 7, 9, 1, 5, 8, 0, 4>>
BinaryWord(n) == {i \in 0..3 : (n \div 2^i) % 2 = 1}
Interrupt(s, p) ==
    LET pending == s[<<"mie", 0>>] \cap s[<<"mip", 0>>]
        status  == s[<<"mstatus", 0>>]
        of(level) == CASE level = MachineMode -> pending \ s[<<"ideleg", 3>>]
                       [] level = SupervisorMode ->
                            (pending \cap s[<<"ideleg", 3>>]) \ s[<<"ideleg", 1>>]
                       [] level = UserMode ->
                            pending \cap s[<<"ideleg", 3>>] \cap s[<<"ideleg", 1>>]
        taken == {level \in Modes : /\ of(level) # {}
                                    /\ \/ p < level
                                       \/ p = level /\ ie(level) \subseteq status}
        target == CHOOSE level \in taken : \A m \in taken : m <= level
        code == InterruptOrder[CHOOSE i \in 1..9 :
                                 /\ InterruptOrder[i] \in of(target)
                                 /\ \A j \in 1..(i - 1) : InterruptOrder[j] \notin of(target)]
    IN  IF taken = {} THEN [mode |-> p, csrs |-> s]
        ELSE [mode |-> target,
              csrs |-> switch_to_trap_handler(
                         [s EXCEPT ![<<"cause", target>>] = BinaryWord(code) \cup {31}],
                         p, target)]

(* instret, as a 64 bit number, after one more instruction.                *)
Successor(word) == LET zero == CHOOSE b \in Bits \ word : \A a \in 0..(b - 1) : a \in word
                   IN  {b \in word : b > zero} \cup {zero}
increment(s) ==
    IF s[<<"instret", 0>>] # Bits
    THEN [s EXCEPT ![<<"instret", 0>>] = Successor(s[<<"instret", 0>>])]
    ELSE [s EXCEPT ![<<"instret", 0>>] = {},
                   ![<<"instret", 1>>] = IF s[<<"instret", 1>>] = Bits THEN {}
                                         ELSE Successor(s[<<"instret", 1>>])]

-----------------------------------------------------------------------------
Init ==
    /\ csrs = [slot \in Slots |-> IF slot = <<"misa", 0>> THEN misa_init ELSE {}]
    /\ prv = MachineMode /\ instrs = 0 /\ cycles = 1

(* The end of run_step with the registers s and the mode p, and            *)
(* performance_and_sync_update.                                            *)
Finish(s, p) ==
    /\ csrs' = IF 2 \in s[<<"mcountinhibit", 0>>] THEN s ELSE increment(s)
    /\ prv' = p
    /\ instrs' = instrs + 1
    /\ cycles' = IF 0 \in s[<<"mcountinhibit", 0>>] THEN cycles ELSE cycles + 1

(* A CSR instruction: op is the operation on the register, and rd and rs1  *)
(* tell whether it has a destination and a source other than x0 (or the    *)
(* immediate 0).  CSRRW always writes, and reads only for a destination;   *)
(* CSRRS and CSRRC always read, and write only from a source.              *)
Operations == {"CSRRW", "CSRRS", "CSRRC"}
Exec(op, addr, value, rd, rs1) ==
    LET writes == op = "CSRRW" \/ rs1
        read == IF op = "CSRRW" /\ ~rd THEN [ok |-> TRUE, csrs |-> csrs, value |-> {}]
                ELSE get_csr_value(csrs, prv, addr)
        new == CASE op = "CSRRW" -> value
                 [] op = "CSRRS" -> read.value \cup value
                 [] op = "CSRRC" -> read.value \ value
        written == IF writes THEN set_csr_value(read.csrs, addr, new)
                   ELSE [ok |-> TRUE, csrs |-> read.csrs]
    IN  IF is_invalid_csr_access(csrs, prv, addr, writes) \/ ~read.ok \/ ~written.ok
        THEN [ok |-> FALSE, csrs |-> csrs, value |-> {}]
        ELSE [ok |-> TRUE, csrs |-> written.csrs, value |-> read.value]

(* run_step with the outcome of an instruction: the interrupt that follows *)
(* it, or the trap it raised (the assertion of prepare_trap holds).        *)
Step(o) ==
    IF o.ok THEN LET i == Interrupt(o.csrs, prv) IN Finish(i.csrs, i.mode)
    ELSE LET t == Trap(csrs, prv)
         IN  (t.mode = UserMode => prv = UserMode) /\ Finish(t.csrs, t.mode)

CsrRead == \E addr \in Reads : Step(Exec("CSRRS", addr, {}, TRUE, FALSE))
CsrWrite == \E addr \in Writes, value \in Words, op \in Operations, rd \in BOOLEAN :
              Step(Exec(op, addr, value, rd, TRUE))

MRET ==
    LET old  == csrs[<<"mstatus", 0>>]
        mode == (IF 11 \in old THEN 1 ELSE 0) + (IF 12 \in old THEN 2 ELSE 0)
        new  == (old \ (mstatus.mie \cup mstatus.mpp)) \cup mstatus.mpie
                \cup (IF mstatus.mpie \subseteq old THEN mstatus.mie ELSE {})
        i    == Interrupt([csrs EXCEPT ![<<"mstatus", 0>>] = new], mode)
    IN  Finish(i.csrs, i.mode)

(* The interrupt controllers raise and clear their bits of mip.            *)
trigger_interrupt(line) ==
    /\ csrs' = [csrs EXCEPT ![<<"mip", 0>>] =
                  IF line \in @ THEN @ \ {line} ELSE @ \cup {line}]
    /\ UNCHANGED <<prv, instrs, cycles>>

Next == \/ instrs < MaxInstr /\ (CsrRead \/ CsrWrite \/ MRET)
        \/ \E line \in Lines : trigger_interrupt(line)

Spec == Init /\ [][Next]_vars

-----------------------------------------------------------------------------
Instructions == Operations \X Writes \X Words
Outcome(i) == Exec(i[1], i[2], i[3], TRUE, TRUE)
Changed(o) == IF o.ok THEN {r \in Slots : o.csrs[r] # csrs[r]} ELSE {}
Counters == {"cycle", "time", "instret"}

(* The bits of a register that belong to a level, by the bit-fields of     *)
(* csr.h: those of mstatus, mie and mip that the level and the levels      *)
(* below it control, and the registers of the level.                       *)
StatusFields(level) ==
    CASE level = UserMode -> mstatus.uie \cup mstatus.upie
      [] level = SupervisorMode ->
           UNION {mstatus.sie, mstatus.spie, mstatus.spp, mstatus.fs, mstatus.xs,
                  mstatus.sum, mstatus.mxr, mstatus.sd}
      [] OTHER -> Bits
Owned(slot, level) ==
    CASE slot[1] = "mstatus" -> UNION {StatusFields(m) : m \in 0..level}
      [] slot[1] \in {"mie", "mip"} -> {b \in Bits : b % 4 <= level /\ b < 12}
      [] slot[1] \in {"edeleg", "ideleg", "counteren", "tvec", "scratch", "epc",
                      "cause", "tval"} -> IF slot[2] <= level THEN Bits ELSE {}
      [] slot[1] = "satp" -> IF SupervisorMode <= level THEN Bits ELSE {}
      [] slot[1] = "fcsr" -> Bits
      [] OTHER -> IF level = MachineMode THEN Bits ELSE {}

(* No CSR instruction changes more than the mode it runs in controls:      *)
(* through sstatus, sie, sip and their user forms only the fields of those *)
(* levels change in the machine's registers, whatever mix of reads and     *)
(* writes led there.  (The copies of the counters are no state of the      *)
(* guest.)                                                                 *)
LevelsIsolated ==
    \A i \in Instructions :
      LET o == Outcome(i)
      IN  \A slot \in Changed(o) :
            \/ slot[1] \in Counters
            \/ /\ prv >= LevelOf(i[2])
               /\ (o.csrs[slot] \ csrs[slot]) \cup (csrs[slot] \ o.csrs[slot])
                    \subseteq Owned(slot, prv)

(* CSRRS and CSRRC are exact: of the bits of the operand, and of no        *)
(* others, those that are writable at the address become 1 or 0, although  *)
(* the value is read through one mask and written back through another,    *)
(* and interrupt bits that devices hold are not touched.                   *)
SetClearExact ==
    \A i \in {"CSRRS", "CSRRC"} \X Writes \X Words :
      LET o == Outcome(i)
          moved == IF i[2] = FRM THEN {b + 5 : b \in i[3] \cap (0..2)} ELSE i[3]
      IN  \A slot \in Changed(o) :
            \/ slot[1] \in Counters
            \/ IF i[1] = "CSRRS"
               THEN /\ csrs[slot] \subseteq o.csrs[slot]
                    /\ o.csrs[slot] \ csrs[slot] \subseteq moved
               ELSE /\ o.csrs[slot] \subseteq csrs[slot]
                    /\ csrs[slot] \ o.csrs[slot] \subseteq moved

(* A counter is read only in a mode to which mcounteren, and for the user  *)
(* scounteren, opens it, and the value is the current one: the time of the *)
(* CLINT, the cycles of the hart.  (The reserved mode 2, to which mpp may  *)
(* lead, is excepted.)                                                     *)
CountersGuarded ==
    prv \in Modes =>
    \A addr \in Reads : LET o == Exec("CSRRS", addr, {}, TRUE, FALSE) IN
      o.ok => /\ addr \in (\hC00..\hC02) /\ prv < MachineMode =>
                   \A level \in {1, 3} : prv < level =>
                     addr % 32 \in csrs[<<"counteren", level>>]
              /\ addr \in TIMES => o.value = Clock[instrs + 1][1 + HalfOf(addr)]
              /\ addr \in MCYCLES => o.value = Clock[cycles][1 + HalfOf(addr)]

(* A CSR instruction changes what its operand names and reads what its     *)
(* mode may: both of the above statements.                                 *)
AccessesExact == SetClearExact /\ CountersGuarded
=============================================================================
