-------------------------------- MODULE Hart --------------------------------
(***************************************************************************)
(* The privileged machine of the instruction set simulator (core/rv32/     *)
(* iss.cpp): traps, interrupts, delegation, the return from a handler, the *)
(* interrupt part of the CSR file and WFI, for a guest that may execute    *)
(* any instruction at any time.  Peripherals set and clear the bits of mip *)
(* between instructions, and while the hart waits.                         *)
(*                                                                         *)
(* A step of the guest is run_step: the instruction, then the look at the  *)
(* pending interrupts, or the trap the instruction raised.  Interrupts are *)
(* named by their bit in mip, which is also their exception code.          *)
(***************************************************************************)
EXTENDS Naturals, Sequences

CONSTANTS Lines,       \* the interrupts that occur, bits of mip
          Reasons,     \* the exceptions instructions raise, besides ECALL
          Code,        \* addresses of instructions outside the vector tables
          Writable,    \* the kinds of CSRs the guest writes
          Delegable,   \* the exceptions whose delegation it changes
          MppWritten,  \* what it may write to mstatus.mpp
          MaxCsrWrites,
          None

UserMode == 0
SupervisorMode == 1
MachineMode == 3
Modes == {UserMode, SupervisorMode, MachineMode}
ECALL(prv) == 8 + prv

(* SIE_MASK, UIE_MASK, MIP_WRITE_MASK, SIP_MASK, UIP_MASK, MEDELEG_MASK    *)
(* and SEDELEG_MASK of csr.h, as the sets of their bits.                   *)
IE_MASK(level) == CASE level = MachineMode -> {0, 1, 3, 4, 5, 7, 8, 9, 11}
                    [] level = SupervisorMode -> {0, 1, 4, 5, 8, 9}
                    [] level = UserMode -> {0, 4, 8}
IP_MASK(level) == CASE level = MachineMode -> {0, 1, 4, 5, 8, 9}
                    [] level = SupervisorMode -> {0, 1}
                    [] level = UserMode -> {0}
MEDELEG_MASK == (0..9) \cup {11, 12, 13, 15}
SEDELEG_MASK == (0..8) \cup {12, 13, 15}

ASSUME ConstantsAssumption ==
    /\ Lines \subseteq IE_MASK(MachineMode)
    /\ Reasons \subseteq (0..15) \ {10, 14}
    /\ Writable \subseteq {"status", "ie", "ip", "epc", "tvec", "ideleg", "edeleg"}
    /\ MppWritten \subseteq 0..3
    /\ MaxCsrWrites \in Nat
    /\ None \notin Modes
    /\ None \notin [prv : 0..3, ie : BOOLEAN, pc : Code \cup (Modes \X (0..15))]

VARIABLES c,          \* pc, prv and the CSRs; mstatus is split into the
                      \* fields ie (xIE), pie (xPIE) and pp (xPP) by mode
          status,     \* CoreExecStatus
          waiting,    \* the thread of the hart is in wait(wfi_event)
          wfi_event,  \* a notification of wfi_event is outstanding
          aborted,    \* an assertion has failed or an exception escaped
          frame,      \* history: what the last trap to machine mode
                      \* interrupted, until its return
          csr_writes

vars == <<c, status, waiting, wfi_event, aborted, frame, csr_writes>>

Addresses == Code \cup (Modes \X (0..15))
Context(s) == [prv |-> s.prv, ie |-> s.ie[MachineMode], pc |-> s.pc]

-----------------------------------------------------------------------------
(* The functions of the ISS, from one machine state to the next.           *)

compute_pending_interrupts(s) ==
    LET pending   == s.mie \cap s.mip
        m_pending == pending \ s.mideleg
        s_pending == (pending \cap s.mideleg) \ s.sideleg
        u_pending == pending \cap s.mideleg \cap s.sideleg
    IN  IF m_pending # {} /\ (s.prv < MachineMode \/ s.ie[MachineMode])
        THEN [target_mode |-> MachineMode, pending |-> m_pending]
        ELSE IF /\ s_pending # {}
                /\ \/ s.prv < SupervisorMode
                   \/ s.prv = SupervisorMode /\ s.ie[SupervisorMode]
        THEN [target_mode |-> SupervisorMode, pending |-> s_pending]
        ELSE IF u_pending # {} /\ s.prv = UserMode /\ s.ie[UserMode]
        THEN [target_mode |-> UserMode, pending |-> u_pending]
        ELSE [target_mode |-> None, pending |-> {}]

(* meip, msip, mtip, seip, ssip, stip, ueip, usip, utip                    *)
InterruptOrder == <<11, 3, 7, 9, 1, 5, 8, 0, 4>>

(* The exception code of the interrupt that is taken.                      *)
prepare_interrupt(e) ==
    LET first == CHOOSE i \in 1..Len(InterruptOrder) :
                   /\ InterruptOrder[i] \in e.pending
                   /\ \A j \in 1..(i - 1) : InterruptOrder[j] \notin e.pending
    IN  InterruptOrder[first]

(* Where a trap goes: machine mode takes any trap of its own, the others   *)
(* follow the delegation.                                                  *)
prepare_trap(s, reason) ==
    IF s.prv = MachineMode \/ reason \notin s.medeleg THEN MachineMode
    ELSE IF s.prv = SupervisorMode \/ reason \notin s.sedeleg THEN SupervisorMode
    ELSE UserMode

(* Mutant: the interrupt enable is saved after it is cleared.              *)
switch_saves_late(s, target_mode, vector) ==
    [s EXCEPT
        !.prv = target_mode,
        !.epc = [s.epc EXCEPT ![target_mode] = s.pc],
        !.ie = [s.ie EXCEPT ![target_mode] = FALSE],
        !.pie = [s.pie EXCEPT ![target_mode] = FALSE],
        !.pp = IF target_mode = MachineMode
               THEN [s.pp EXCEPT ![MachineMode] = s.prv] ELSE s.pp,
        !.pc = <<target_mode, IF s.vectored[target_mode] THEN vector ELSE 0>>]

(* The entry of the handler: its base for exceptions and in direct mode,   *)
(* the vector of the interrupt (vector > 0) otherwise.  mstatus.spp is one *)
(* bit wide and there is no upp.                                           *)
switch_to_trap_handler(s, target_mode, vector) ==
    [s EXCEPT
        !.prv = target_mode,
        !.epc = [s.epc EXCEPT ![target_mode] = s.pc],
        !.pie = [s.pie EXCEPT ![target_mode] = s.ie[target_mode]],
        !.ie = [s.ie EXCEPT ![target_mode] = FALSE],
        !.pp = IF target_mode = UserMode THEN s.pp
               ELSE IF target_mode = SupervisorMode
               THEN [s.pp EXCEPT ![SupervisorMode] = s.prv % 2]
               ELSE [s.pp EXCEPT ![MachineMode] = s.prv],
        !.pc = <<target_mode, IF s.vectored[target_mode] THEN vector ELSE 0>>]

(* Mutant: the return leaves the interrupt enable as it is.                *)
return_keeps_ie(s) ==
    [s EXCEPT !.prv = s.pp[MachineMode],
              !.pie = [s.pie EXCEPT ![MachineMode] = TRUE],
              !.pc = s.epc[MachineMode],
              !.pp = [s.pp EXCEPT ![MachineMode] = UserMode]]

return_from_trap_handler(s) ==
    [s EXCEPT !.prv = s.pp[MachineMode],
              !.ie = [s.ie EXCEPT ![MachineMode] = s.pie[MachineMode]],
              !.pie = [s.pie EXCEPT ![MachineMode] = TRUE],
              !.pc = s.epc[MachineMode],
              !.pp = [s.pp EXCEPT ![MachineMode] = UserMode]]

-----------------------------------------------------------------------------
Init ==
    /\ c \in [prv : {MachineMode}, pc : Code, ie : [Modes -> {FALSE}],
              pie : [Modes -> {FALSE}], pp : [Modes \ {UserMode} -> {UserMode}],
              epc : [Modes -> Code], vectored : [Modes -> {FALSE}],
              mie : {{}}, mip : {{}}, mideleg : {{}}, sideleg : {{}},
              medeleg : {{}}, sedeleg : {{}}, tw : {FALSE}]
    /\ status = "Runnable" /\ waiting = FALSE /\ wfi_event = FALSE
    /\ aborted = "no" /\ frame = None /\ csr_writes = 0

(* The end of run_step after an instruction that raised no trap and left   *)
(* the machine in s, and the history of the trap that may follow.          *)
Finish(s, old) ==
    LET x == compute_pending_interrupts(s)
    IN  IF x.target_mode = None
        THEN c' = s /\ frame' = old
        ELSE /\ c' = switch_to_trap_handler(s, x.target_mode, prepare_interrupt(x))
             /\ frame' = IF x.target_mode = MachineMode THEN Context(s) ELSE old

(* The end of run_step after a trap: pc is last_pc, the instruction itself. *)
Trap(reason) ==
    LET target == prepare_trap(c, reason)
    IN  /\ aborted' = IF target = UserMode /\ c.prv # UserMode
                       THEN "assertion" ELSE "no"
        /\ c' = switch_to_trap_handler(c, target, 0)
        /\ frame' = IF target = MachineMode THEN Context(c) ELSE frame
        /\ UNCHANGED <<status, waiting, wfi_event, csr_writes>>

Running == status = "Runnable" /\ ~waiting /\ aborted = "no"

(* An instruction that reads and writes registers and memory, or jumps.    *)
Plain ==
    /\ Running
    /\ \E pc \in Code : Finish([c EXCEPT !.pc = pc], frame)
    /\ UNCHANGED <<status, waiting, wfi_event, aborted, csr_writes>>

(* An instruction that raises a trap; ECALL in a mode the simulator does   *)
(* not know escapes as an exception.                                       *)
Exception ==
    /\ Running
    /\ \/ \E reason \in Reasons : Trap(reason)
       \/ c.prv \in Modes /\ Trap(ECALL(c.prv))
       \/ /\ c.prv \notin Modes /\ aborted' = "exception"
          /\ UNCHANGED <<c, status, waiting, wfi_event, frame, csr_writes>>

MRET ==
    /\ Running
    /\ Finish(return_from_trap_handler(c), None)
    /\ UNCHANGED <<status, waiting, wfi_event, aborted, csr_writes>>

(* EBREAK, and ECALL to the exit system call.                              *)
Stop ==
    /\ Running
    /\ status' = "Stopped"
    /\ \E pc \in Code : Finish([c EXCEPT !.pc = pc], frame)
    /\ UNCHANGED <<waiting, wfi_event, aborted, csr_writes>>

(* WFI waits unless an enabled interrupt is pending already.               *)
WFI ==
    /\ Running
    /\ IF c.prv = UserMode \/ (c.prv = SupervisorMode /\ c.tw) THEN Trap(2)
       ELSE /\ IF c.mie \cap c.mip = {}
               THEN /\ \E pc \in Code : c' = [c EXCEPT !.pc = pc]
                    /\ waiting' = TRUE /\ UNCHANGED frame
               ELSE /\ \E pc \in Code : Finish([c EXCEPT !.pc = pc], frame)
                    /\ UNCHANGED waiting
            /\ UNCHANGED <<status, wfi_event, aborted, csr_writes>>

(* The kernel delivers the notification; a waiting hart finishes its step. *)
Wake ==
    /\ wfi_event /\ aborted = "no"
    /\ wfi_event' = FALSE /\ waiting' = FALSE
    /\ IF waiting THEN Finish(c, frame) ELSE UNCHANGED <<c, frame>>
    /\ UNCHANGED <<status, aborted, csr_writes>>

(* The CSRs of a privilege level, as set_csr_value writes them: a bit is   *)
(* set or cleared, mpp is written as a whole.  The supervisor's and the    *)
(* user's registers are views of the machine's.                            *)
StatusWrites(level) ==
    LET Views == {m \in Modes : m <= level}
    IN  {[c EXCEPT !.ie = [c.ie EXCEPT ![m] = b]] : m \in Views, b \in BOOLEAN}
        \cup {[c EXCEPT !.pie = [c.pie EXCEPT ![m] = b]] : m \in Views, b \in BOOLEAN}
        \cup {[c EXCEPT !.pp = [c.pp EXCEPT ![SupervisorMode] = v]] :
                v \in IF SupervisorMode \in Views THEN {0, 1} ELSE {}}
        \cup {[c EXCEPT !.pp = [c.pp EXCEPT ![MachineMode] = v]] :
                v \in IF MachineMode \in Views THEN MppWritten ELSE {}}
        \cup {[c EXCEPT !.tw = b] :
                b \in IF MachineMode \in Views THEN BOOLEAN ELSE {}}

BitWrites(reg, mask) == {reg \cup {b} : b \in mask} \cup {reg \ {b} : b \in mask}

set_csr_value(reg, level) ==
    CASE reg = "status" -> StatusWrites(level)
      [] reg = "ie" -> {[c EXCEPT !.mie = v] :
                          v \in BitWrites(c.mie, Lines \cap IE_MASK(level))}
      [] reg = "ip" -> {[c EXCEPT !.mip = v] :
                          v \in BitWrites(c.mip, Lines \cap IP_MASK(level))}
      [] reg = "epc" -> {[c EXCEPT !.epc = [c.epc EXCEPT ![level] = pc]] : pc \in Code}
      [] reg = "tvec" -> {[c EXCEPT !.vectored = [c.vectored EXCEPT ![level] = b]] :
                            b \in BOOLEAN}
      [] reg = "ideleg" ->
           IF level = MachineMode
           THEN {[c EXCEPT !.mideleg = v] : v \in BitWrites(c.mideleg, Lines)}
           ELSE {[c EXCEPT !.sideleg = v] : v \in BitWrites(c.sideleg, Lines)}
      [] reg = "edeleg" ->
           IF level = MachineMode
           THEN {[c EXCEPT !.medeleg = v] :
                   v \in BitWrites(c.medeleg, Delegable \cap MEDELEG_MASK)}
           ELSE {[c EXCEPT !.sedeleg = v] :
                   v \in BitWrites(c.sedeleg, Delegable \cap SEDELEG_MASK)}

(* A CSR instruction; below the privilege of the CSR it is illegal.        *)
CsrInstruction ==
    /\ Running
    /\ \E reg \in Writable, level \in Modes :
         /\ level = UserMode => reg \notin {"ideleg", "edeleg"}
         /\ IF c.prv < level THEN Trap(2)
            ELSE /\ csr_writes < MaxCsrWrites
                 /\ csr_writes' = csr_writes + 1
                 /\ \E s \in set_csr_value(reg, level), pc \in Code :
                      Finish([s EXCEPT !.pc = pc],
                             IF /\ s.pie[MachineMode] = c.pie[MachineMode]
                                /\ s.pp[MachineMode] = c.pp[MachineMode]
                                /\ s.epc[MachineMode] = c.epc[MachineMode]
                             THEN frame ELSE None)
                 /\ UNCHANGED <<status, waiting, wfi_event, aborted>>

(* Mutant: the waiting hart is not notified.                               *)
trigger_quiet(line, on) ==
    /\ aborted = "no"
    /\ c' = [c EXCEPT !.mip = IF on THEN c.mip \cup {line} ELSE c.mip \ {line}]
    /\ UNCHANGED <<status, waiting, wfi_event, aborted, frame, csr_writes>>

(* trigger_external_interrupt, trigger_timer_interrupt and                 *)
(* trigger_software_interrupt.                                             *)
trigger_interrupt(line, on) ==
    /\ aborted = "no"
    /\ c' = [c EXCEPT !.mip = IF on THEN c.mip \cup {line} ELSE c.mip \ {line}]
    /\ wfi_event' = TRUE
    /\ UNCHANGED <<status, waiting, aborted, frame, csr_writes>>

clear_external_interrupt(line) ==
    /\ aborted = "no"
    /\ c' = [c EXCEPT !.mip = c.mip \ {line}]
    /\ UNCHANGED <<status, waiting, wfi_event, aborted, frame, csr_writes>>

Peripheral ==
    \/ \E line \in Lines \cap {8, 9, 11} :
         trigger_interrupt(line, TRUE) \/ clear_external_interrupt(line)
    \/ \E line \in Lines \cap {3, 7}, on \in BOOLEAN : trigger_interrupt(line, on)

Next == \/ Plain \/ Exception \/ MRET \/ Stop \/ WFI \/ CsrInstruction
        \/ Wake \/ Peripheral

Spec == Init /\ [][Next]_vars

-----------------------------------------------------------------------------
Machine == [prv : 0..3, pc : Addresses, ie : [Modes -> BOOLEAN],
            pie : [Modes -> BOOLEAN],
            pp : [{SupervisorMode, MachineMode} -> 0..3],
            epc : [Modes -> Addresses], vectored : [Modes -> BOOLEAN],
            mie : SUBSET Lines, mip : SUBSET Lines, mideleg : SUBSET Lines,
            sideleg : SUBSET Lines, medeleg : SUBSET (0..15),
            sedeleg : SUBSET (0..15), tw : BOOLEAN]

(* The types of the machine state and of its history.                      *)
TypeOK ==
    /\ c \in Machine
    /\ status \in {"Runnable", "Stopped"}
    /\ waiting \in BOOLEAN /\ wfi_event \in BOOLEAN
    /\ aborted \in {"no", "assertion", "exception"}
    /\ frame \in {None} \cup [prv : 0..3, ie : BOOLEAN, pc : Addresses]
    /\ csr_writes \in 0..MaxCsrWrites

(* What a trap to machine mode saved is there until its return: no nested  *)
(* trap to a lower mode, no interrupt, no write through the supervisor's   *)
(* or the user's views of the CSRs disturbs mepc, mpie or mpp, unless the  *)
(* guest writes one of them itself.                                        *)
MachineFrameIntact ==
    frame # None => /\ c.epc[MachineMode] = frame.pc
                    /\ c.pie[MachineMode] = frame.ie
                    /\ c.pp[MachineMode] = frame.prv

(* MRET resumes what the trap interrupted: the same place, privilege and   *)
(* interrupt enable; or an interrupt is taken at once, which will return   *)
(* there.                                                                  *)
MretResumes ==
    [][frame # None /\ MRET =>
         \/ Context(c') = frame
         \/ \E t \in Modes :
              /\ c'.prv = t
              /\ c'.pc \in {t} \X (0..15)
              /\ c'.epc[t] = frame.pc
              /\ (t = MachineMode => frame' = frame)]_vars

(* A trap or interrupt never goes to a mode less privileged than the one   *)
(* it interrupts, whatever has been delegated: only MRET lowers the        *)
(* privilege, to what mpp holds or, with an interrupt taken at once, to    *)
(* more.  The reserved mode 2, to which mpp may lead, is excepted.         *)
TrapsKeepPrivilege ==
    [][/\ c.prv \in Modes /\ c'.prv < c.prv => MRET
       /\ c.pp[MachineMode] \in Modes /\ c'.prv < c.pp[MachineMode] => ~MRET]_vars

(* A hart that waits in WFI is about to be woken when an enabled interrupt *)
(* is pending, even one raised between its last look at mip and the wait.  *)
WaitingIsNotified == waiting /\ c.mie \cap c.mip # {} => wfi_event
=============================================================================
