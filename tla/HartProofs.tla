----------------------------- MODULE HartProofs -----------------------------
(***************************************************************************)
(* Proofs about Hart, for any set of interrupts, exceptions and addresses, *)
(* and for any guest, and about the MMU between the hart and the bus.      *)
(***************************************************************************)
EXTENDS Hart, Integers, TLAPS

(* Together the invariants are inductive.                                  *)
HartInv == TypeOK /\ MachineFrameIntact /\ WaitingIsNotified

ModeDefs == Modes = {0, 1, 3} /\ MachineMode = 3 /\ SupervisorMode = 1 /\ UserMode = 0

(* The three privilege levels and their encoding.                          *)
LEMMA ModesAre == ModeDefs
  BY DEF ModeDefs, Modes, MachineMode, SupervisorMode, UserMode

(* What compute_pending_interrupts returns: no target, or some of the      *)
(* occurring interrupts for a mode no less privileged than the current.    *)
LEMMA PendingTarget ==
    ASSUME NEW s \in Machine
    PROVE  LET x == compute_pending_interrupts(s)
           IN  \/ x.target_mode = None
               \/ /\ x.target_mode \in Modes
                  /\ x.pending # {} /\ x.pending \subseteq Lines
                  /\ s.prv \in Modes => s.prv <= x.target_mode
<1>1. s.mie \subseteq Lines /\ s.prv \in 0..3
  BY DEF Machine
<1> QED
  BY <1>1, ModesAre DEF compute_pending_interrupts, ModeDefs

(* The first pending interrupt in the order of prepare_interrupt exists    *)
(* and is an exception code.                                               *)
LEMMA InterruptCode ==
    ASSUME NEW e, e.pending # {}, e.pending \subseteq Lines
    PROVE  prepare_interrupt(e) \in 0..15
<1>1. e.pending \subseteq {0, 1, 3, 4, 5, 7, 8, 9, 11}
  BY ConstantsAssumption DEF IE_MASK, MachineMode
<1>2. /\ Len(InterruptOrder) = 9
      /\ InterruptOrder[1] = 11 /\ InterruptOrder[2] = 3 /\ InterruptOrder[3] = 7
      /\ InterruptOrder[4] = 9 /\ InterruptOrder[5] = 1 /\ InterruptOrder[6] = 5
      /\ InterruptOrder[7] = 8 /\ InterruptOrder[8] = 0 /\ InterruptOrder[9] = 4
  BY DEF InterruptOrder
<1> DEFINE First(i) == /\ InterruptOrder[i] \in e.pending
                       /\ \A j \in 1..(i - 1) : InterruptOrder[j] \notin e.pending
<1>3. \E i \in 1..9 : InterruptOrder[i] \in e.pending
  BY <1>1, <1>2
<1>4. \E i \in 1..9 : First(i)
  <2>1. CASE First(1) BY <2>1
  <2>2. CASE First(2) BY <2>2
  <2>3. CASE First(3) BY <2>3
  <2>4. CASE First(4) BY <2>4
  <2>5. CASE First(5) BY <2>5
  <2>6. CASE First(6) BY <2>6
  <2>7. CASE First(7) BY <2>7
  <2>8. CASE First(8) BY <2>8
  <2>9. CASE \A i \in 1..8 : ~First(i)
    <3>1. \A i \in 1..8 : InterruptOrder[i] \notin e.pending
      BY <2>9
    <3> QED BY <3>1, <1>3
  <2> QED BY <2>1, <2>2, <2>3, <2>4, <2>5, <2>6, <2>7, <2>8, <2>9
<1>5. \A i \in 1..9 : InterruptOrder[i] \in 0..15
  BY <1>2
<1> HIDE DEF First
<1>6. (CHOOSE i \in 1..9 : First(i)) \in 1..9
  BY <1>4
<1>7. prepare_interrupt(e) = InterruptOrder[CHOOSE i \in 1..9 : First(i)]
  BY <1>2 DEF prepare_interrupt, First
<1> QED
  BY <1>5, <1>6, <1>7, Zenon

(* A trap leaves a machine state; what it does to the state of machine     *)
(* mode, and where it goes.                                                *)
LEMMA SwitchType ==
    ASSUME NEW s \in Machine, NEW t \in Modes, NEW v \in 0..15
    PROVE  LET r == switch_to_trap_handler(s, t, v)
           IN  /\ r \in Machine
               /\ r.prv = t /\ r.pc \in {t} \X (0..15) /\ r.epc[t] = s.pc
               /\ r.mie = s.mie /\ r.mip = s.mip
               /\ t # MachineMode => /\ r.epc[MachineMode] = s.epc[MachineMode]
                                     /\ r.pie[MachineMode] = s.pie[MachineMode]
                                     /\ r.pp[MachineMode] = s.pp[MachineMode]
               /\ t = MachineMode => /\ r.epc[MachineMode] = s.pc
                                     /\ r.pie[MachineMode] = s.ie[MachineMode]
                                     /\ r.pp[MachineMode] = s.prv
<1> DEFINE w == IF s.vectored[t] THEN v ELSE 0
           pp == IF t = UserMode THEN s.pp
                 ELSE IF t = SupervisorMode
                 THEN [s.pp EXCEPT ![SupervisorMode] = s.prv % 2]
                 ELSE [s.pp EXCEPT ![MachineMode] = s.prv]
<1>1. /\ s.prv \in 0..3 /\ s.pc \in Addresses /\ s.ie \in [Modes -> BOOLEAN]
      /\ s.pie \in [Modes -> BOOLEAN]
      /\ s.pp \in [{SupervisorMode, MachineMode} -> 0..3]
      /\ s.epc \in [Modes -> Addresses]
  BY DEF Machine
<1>2. <<t, w>> \in Addresses /\ <<t, w>> \in {t} \X (0..15)
  BY DEF Addresses
<1>3. s.prv % 2 \in 0..3
  BY <1>1
<1>4. pp \in [{SupervisorMode, MachineMode} -> 0..3]
  BY <1>1, <1>3
<1>5. t \in 0..3
  BY ModesAre DEF ModeDefs
<1>6. switch_to_trap_handler(s, t, v) =
        [s EXCEPT !.prv = t, !.epc = [s.epc EXCEPT ![t] = s.pc],
                  !.pie = [s.pie EXCEPT ![t] = s.ie[t]],
                  !.ie = [s.ie EXCEPT ![t] = FALSE], !.pp = pp, !.pc = <<t, w>>]
  BY DEF switch_to_trap_handler
<1>7. /\ [s.epc EXCEPT ![t] = s.pc] \in [Modes -> Addresses]
      /\ [s.pie EXCEPT ![t] = s.ie[t]] \in [Modes -> BOOLEAN]
      /\ [s.ie EXCEPT ![t] = FALSE] \in [Modes -> BOOLEAN]
  BY <1>1
<1>8. /\ t # MachineMode => pp[MachineMode] = s.pp[MachineMode]
      /\ t = MachineMode => pp[MachineMode] = s.prv
  BY <1>1, ModesAre DEF ModeDefs
<1> HIDE DEF w, pp
<1>9. switch_to_trap_handler(s, t, v) \in Machine
  <2> DEFINE epc == [s.epc EXCEPT ![t] = s.pc]
             pie == [s.pie EXCEPT ![t] = s.ie[t]]
             ie == [s.ie EXCEPT ![t] = FALSE]
             pc == <<t, w>>
  <2>1. /\ epc \in [Modes -> Addresses] /\ pie \in [Modes -> BOOLEAN]
        /\ ie \in [Modes -> BOOLEAN] /\ pc \in Addresses
    BY <1>2, <1>7
  <2> HIDE DEF epc, pie, ie, pc
  <2>2. [s EXCEPT !.prv = t, !.epc = epc, !.pie = pie, !.ie = ie,
                  !.pp = pp, !.pc = pc] \in Machine
    BY <2>1, <1>4, <1>5, Zenon DEF Machine
  <2> QED
    BY <2>2, <1>6 DEF epc, pie, ie, pc
<1> DEFINE r == switch_to_trap_handler(s, t, v)
<1>10. /\ r.prv = t /\ r.pc = <<t, w>> /\ r.pp = pp
       /\ r.mie = s.mie /\ r.mip = s.mip
  BY <1>6 DEF Machine
<1>11. /\ r.epc = [s.epc EXCEPT ![t] = s.pc]
       /\ r.pie = [s.pie EXCEPT ![t] = s.ie[t]]
  BY <1>6 DEF Machine
<1> HIDE DEF r
<1>12. /\ r.epc[t] = s.pc
       /\ t # MachineMode => /\ r.epc[MachineMode] = s.epc[MachineMode]
                             /\ r.pie[MachineMode] = s.pie[MachineMode]
       /\ t = MachineMode => /\ r.epc[MachineMode] = s.pc
                             /\ r.pie[MachineMode] = s.ie[MachineMode]
  BY <1>1, <1>11, ModesAre DEF ModeDefs
<1>13. r \in Machine
  BY <1>9 DEF r
<1> QED
  BY <1>2, <1>8, <1>10, <1>12, <1>13 DEF r

(* return_from_trap_handler restores what machine mode has saved, and      *)
(* keeps the type of the machine.                                          *)
LEMMA ReturnType ==
    ASSUME NEW s \in Machine
    PROVE  LET r == return_from_trap_handler(s)
           IN  /\ r \in Machine
               /\ r.prv = s.pp[MachineMode] /\ r.pc = s.epc[MachineMode]
               /\ r.ie[MachineMode] = s.pie[MachineMode]
<1>1. /\ s.ie \in [Modes -> BOOLEAN] /\ s.pie \in [Modes -> BOOLEAN]
      /\ s.pp \in [{SupervisorMode, MachineMode} -> 0..3]
      /\ s.epc \in [Modes -> Addresses]
  BY DEF Machine
<1>2. MachineMode \in Modes /\ UserMode \in 0..3
  BY DEF Modes, UserMode
<1>3. /\ [s.ie EXCEPT ![MachineMode] = s.pie[MachineMode]] \in [Modes -> BOOLEAN]
      /\ [s.pie EXCEPT ![MachineMode] = TRUE] \in [Modes -> BOOLEAN]
      /\ [s.pp EXCEPT ![MachineMode] = UserMode]
           \in [{SupervisorMode, MachineMode} -> 0..3]
      /\ s.pp[MachineMode] \in 0..3 /\ s.epc[MachineMode] \in Addresses
  BY <1>1, <1>2
<1>4. return_from_trap_handler(s) \in Machine
  BY <1>3, Zenon DEF Machine, return_from_trap_handler
<1> QED
  BY <1>1, <1>2, <1>4 DEF Machine, return_from_trap_handler

-----------------------------------------------------------------------------
Frames == [prv : 0..3, ie : BOOLEAN, pc : Addresses]

(* The saved state of machine mode in s is what the frame f says.          *)
Saved(s, f) == f # None => /\ s.epc[MachineMode] = f.pc
                           /\ s.pie[MachineMode] = f.ie
                           /\ s.pp[MachineMode] = f.prv

(* What a step has to establish of the machine and its history.            *)
StepOK(s, f) == s \in Machine /\ f \in {None} \cup Frames /\ Saved(s, f)

(* What a trap interrupts is a frame.                                      *)
LEMMA ContextType ==
    ASSUME NEW s \in Machine
    PROVE  Context(s) \in Frames
<1>1. MachineMode \in Modes
  BY DEF Modes
<1> QED
  BY <1>1 DEF Context, Machine, Frames

(* The state after a trap or interrupt to mode t, and its history.         *)
LEMMA SwitchOK ==
    ASSUME NEW s \in Machine, NEW t \in Modes, NEW v \in 0..15,
           NEW old \in {None} \cup Frames, Saved(s, old)
    PROVE  StepOK(switch_to_trap_handler(s, t, v),
                  IF t = MachineMode THEN Context(s) ELSE old)
<1> DEFINE r == switch_to_trap_handler(s, t, v)
           f == IF t = MachineMode THEN Context(s) ELSE old
<1>1. f \in {None} \cup Frames
  BY ContextType
<1>2. /\ r \in Machine
      /\ t # MachineMode => /\ r.epc[MachineMode] = s.epc[MachineMode]
                            /\ r.pie[MachineMode] = s.pie[MachineMode]
                            /\ r.pp[MachineMode] = s.pp[MachineMode]
      /\ t = MachineMode => /\ r.epc[MachineMode] = s.pc
                            /\ r.pie[MachineMode] = s.ie[MachineMode]
                            /\ r.pp[MachineMode] = s.prv
  BY SwitchType, Zenon
<1> HIDE DEF r
<1>3. Saved(r, f)
  <2>1. CASE t = MachineMode
    BY <1>2, <2>1 DEF Saved, Context
  <2>2. CASE t # MachineMode
    BY <1>2, <2>2 DEF Saved
  <2> QED BY <2>1, <2>2
<1> HIDE DEF f
<1>4. StepOK(r, f)
  BY <1>1, <1>2, <1>3 DEF StepOK
<1> QED
  BY <1>4 DEF r, f

(* Finish keeps the history right, whatever instruction came before it.    *)
LEMMA FinishOK ==
    ASSUME NEW s, NEW old, StepOK(s, old), Finish(s, old)
    PROVE  StepOK(c', frame')
<1> DEFINE x == compute_pending_interrupts(s)
<1>0. s \in Machine /\ old \in {None} \cup Frames /\ Saved(s, old)
  BY DEF StepOK
<1>1. CASE x.target_mode = None
  <2>1. c' = s /\ frame' = old
    BY <1>1 DEF Finish
  <2> QED BY <2>1
<1>2. CASE x.target_mode # None
  <2>1. /\ c' = switch_to_trap_handler(s, x.target_mode, prepare_interrupt(x))
        /\ frame' = IF x.target_mode = MachineMode THEN Context(s) ELSE old
    BY <1>2 DEF Finish
  <2>2. x.target_mode \in Modes /\ x.pending # {} /\ x.pending \subseteq Lines
    BY <1>0, <1>2, PendingTarget
  <2> HIDE DEF x
  <2>3. prepare_interrupt(x) \in 0..15
    BY <2>2, InterruptCode
  <2>4. StepOK(switch_to_trap_handler(s, x.target_mode, prepare_interrupt(x)),
               IF x.target_mode = MachineMode THEN Context(s) ELSE old)
    BY <1>0, <2>2, <2>3, SwitchOK
  <2> QED BY <2>1, <2>4
<1> QED BY <1>1, <1>2

(* A trap keeps the history right.                                         *)
LEMMA TrapOK ==
    ASSUME NEW reason, StepOK(c, frame), Trap(reason)
    PROVE  StepOK(c', frame')
<1> DEFINE target == prepare_trap(c, reason)
<1>1. c \in Machine /\ frame \in {None} \cup Frames /\ Saved(c, frame)
  BY DEF StepOK
<1>2. c.prv \in 0..3
  BY <1>1 DEF Machine
<1>3. target \in Modes
  BY <1>2, ModesAre DEF prepare_trap, ModeDefs
<1>4. /\ c' = switch_to_trap_handler(c, target, 0)
      /\ frame' = IF target = MachineMode THEN Context(c) ELSE frame
  BY DEF Trap
<1>5. 0 \in 0..15
  OBVIOUS
<1> HIDE DEF target
<1>6. StepOK(switch_to_trap_handler(c, target, 0),
             IF target = MachineMode THEN Context(c) ELSE frame)
  BY <1>1, <1>3, <1>5, SwitchOK
<1> QED BY <1>4, <1>6

(* HartInv is StepOK together with the facts about the other variables.    *)
Control == /\ status \in {"Runnable", "Stopped"}
           /\ waiting \in BOOLEAN /\ wfi_event \in BOOLEAN
           /\ aborted \in {"no", "assertion", "exception"}
           /\ csr_writes \in 0..MaxCsrWrites

(* HartInv as the part about the machine and its histories, the part about *)
(* the thread, and the promise of WFI.                                     *)
LEMMA HartInvSplit ==
    HartInv <=> StepOK(c, frame) /\ Control /\ WaitingIsNotified
  BY DEF HartInv, TypeOK, MachineFrameIntact, StepOK,
         Control, Saved, Frames

(* The same for the state after a step.                                    *)
LEMMA HartInvSplitPrimed ==
    StepOK(c', frame') /\ Control' /\ WaitingIsNotified' => HartInv'
  BY DEF HartInv, TypeOK, MachineFrameIntact, StepOK,
         Control, Saved, Frames

(* The machine after an instruction that only changes pc.                  *)
LEMMA PcOK ==
    ASSUME NEW s, NEW f, StepOK(s, f), NEW pc \in Code
    PROVE  /\ StepOK([s EXCEPT !.pc = pc], f)
           /\ [s EXCEPT !.pc = pc].mie = s.mie /\ [s EXCEPT !.pc = pc].mip = s.mip
<1> DEFINE r == [s EXCEPT !.pc = pc]
<1>0. s \in Machine
  BY DEF StepOK
<1>1. pc \in Addresses
  BY DEF Addresses
<1>2. r \in Machine
  BY <1>0, <1>1 DEF Machine
<1>3. /\ r.epc = s.epc /\ r.pie = s.pie /\ r.pp = s.pp /\ r.mie = s.mie
      /\ r.mip = s.mip
  BY <1>0 DEF Machine
<1> HIDE DEF r
<1>4. StepOK(r, f)
  BY <1>2, <1>3 DEF StepOK, Saved
<1> QED BY <1>3, <1>4 DEF r

(* HartInv holds after reset.                                              *)
LEMMA HartInit == Init => HartInv
<1> SUFFICES ASSUME Init PROVE HartInv
  OBVIOUS
<1>1. c \in Machine
  <2>1. Modes \ {UserMode} = {SupervisorMode, MachineMode}
    BY ModesAre DEF ModeDefs
  <2>2. Code \subseteq Addresses /\ UserMode \in 0..3 /\ MachineMode \in 0..3
    BY DEF Addresses, UserMode, MachineMode
  <2>3. \A f \in [Modes -> {FALSE}] : f \in [Modes -> BOOLEAN]
    BY Zenon
  <2>4. \A f \in [Modes -> Code] : f \in [Modes -> Addresses]
    BY <2>2
  <2>5. \A f \in [Modes \ {UserMode} -> {UserMode}] :
           f \in [{SupervisorMode, MachineMode} -> 0..3]
    BY <2>1, <2>2
  <2> QED BY <2>2, <2>3, <2>4, <2>5, Zenon DEF Init, Machine
<1>2. frame = None /\ ~waiting
  BY DEF Init
<1>4. StepOK(c, frame)
  BY <1>1, <1>2 DEF StepOK, Saved
<1>5. Control
  <2>1. MaxCsrWrites \in Nat /\ csr_writes = 0
    BY ConstantsAssumption DEF Init
  <2>2. csr_writes \in 0..MaxCsrWrites
    BY <2>1
  <2>3. waiting \in BOOLEAN /\ wfi_event \in BOOLEAN
    BY Zenon DEF Init
  <2> QED BY <2>2, <2>3 DEF Init, Control
<1> QED BY <1>2, <1>4, <1>5, HartInvSplit DEF WaitingIsNotified

(* A step of a hart that does not wait, and does not begin to.             *)
LEMMA NotWaiting ==
    ASSUME StepOK(c', frame'), Control, waiting' = FALSE,
           status' \in {"Runnable", "Stopped"},
           wfi_event' = wfi_event,
           aborted' \in {"no", "assertion", "exception"},
           csr_writes' \in 0..MaxCsrWrites
    PROVE  HartInv'
<1>1. Control'
  <2>1. waiting' \in BOOLEAN /\ wfi_event' \in BOOLEAN
    BY Zenon DEF Control
  <2> QED BY <2>1 DEF Control
<1>2. WaitingIsNotified'
  BY DEF WaitingIsNotified
<1> QED BY <1>1, <1>2, HartInvSplitPrimed

(* A trap preserves HartInv.                                               *)
LEMMA TrapInv ==
    ASSUME HartInv, Running, NEW reason, Trap(reason)
    PROVE  HartInv'
<1>1. StepOK(c, frame) /\ Control /\ waiting = FALSE
  BY HartInvSplit DEF Running
<1>2. StepOK(c', frame')
  BY <1>1, TrapOK
<1> QED BY <1>1, <1>2, NotWaiting, Zenon DEF Trap, Control

(* An instruction that only changes pc preserves HartInv.                  *)
LEMMA PlainInv == HartInv /\ Plain => HartInv'
<1> SUFFICES ASSUME HartInv, Plain PROVE HartInv'
  OBVIOUS
<1>1. StepOK(c, frame) /\ Control /\ waiting = FALSE
  BY HartInvSplit DEF Plain, Running
<1>2. PICK pc \in Code : Finish([c EXCEPT !.pc = pc], frame)
  BY DEF Plain
<1>3. StepOK(c', frame')
  BY <1>1, <1>2, PcOK, FinishOK
<1> QED BY <1>1, <1>3, NotWaiting, Zenon DEF Plain, Control

(* SYS_exit and EBREAK, which stop the hart, preserve HartInv.             *)
LEMMA StopInv == HartInv /\ Stop => HartInv'
<1> SUFFICES ASSUME HartInv, Stop PROVE HartInv'
  OBVIOUS
<1>1. StepOK(c, frame) /\ Control /\ waiting = FALSE
  BY HartInvSplit DEF Stop, Running
<1>2. PICK pc \in Code : Finish([c EXCEPT !.pc = pc], frame)
  BY DEF Stop
<1>3. StepOK(c', frame')
  BY <1>1, <1>2, PcOK, FinishOK
<1> QED BY <1>1, <1>3, NotWaiting, Zenon DEF Stop, Control

(* An instruction that raises an exception preserves HartInv.              *)
LEMMA ExceptionInv == HartInv /\ Exception => HartInv'
<1> SUFFICES ASSUME HartInv, Exception PROVE HartInv'
  OBVIOUS
<1>1. CASE \E reason \in Reasons : Trap(reason)
  BY <1>1, TrapInv DEF Exception
<1>2. CASE Trap(ECALL(c.prv))
  BY <1>2, TrapInv DEF Exception
<1>3. CASE /\ aborted' = "exception"
           /\ UNCHANGED <<c, status, waiting, wfi_event, frame, csr_writes>>
  <2>1. StepOK(c, frame) /\ Control /\ waiting = FALSE
    BY HartInvSplit DEF Exception, Running
  <2>2. StepOK(c', frame')
    BY <1>3, <2>1
  <2> QED BY <1>3, <2>1, <2>2, NotWaiting, Zenon DEF Control
<1> QED BY <1>1, <1>2, <1>3 DEF Exception

(* MRET preserves HartInv.                                                 *)
LEMMA MretInv == HartInv /\ MRET => HartInv'
<1> SUFFICES ASSUME HartInv, MRET PROVE HartInv'
  OBVIOUS
<1>1. StepOK(c, frame) /\ Control /\ waiting = FALSE
  BY HartInvSplit DEF MRET, Running, Control
<1>2. return_from_trap_handler(c) \in Machine
  BY <1>1, ReturnType DEF StepOK
<1>3. StepOK(return_from_trap_handler(c), None)
  BY <1>1, <1>2 DEF StepOK, Saved
<1>4. StepOK(c', frame')
  BY <1>3, FinishOK DEF MRET
<1> QED BY <1>1, <1>4, NotWaiting, Zenon DEF MRET, Control

(* WFI preserves HartInv: it looks at mip before it waits.                 *)
LEMMA WfiInv == HartInv /\ WFI => HartInv'
<1> SUFFICES ASSUME HartInv, WFI PROVE HartInv'
  OBVIOUS
<1>1. StepOK(c, frame) /\ Control /\ waiting = FALSE
  BY HartInvSplit DEF WFI, Running, Control
<1>2. CASE Trap(2)
  BY <1>2, TrapInv DEF WFI
<1>3. CASE /\ c.mie \cap c.mip = {}
           /\ \E pc \in Code : c' = [c EXCEPT !.pc = pc]
           /\ waiting' = TRUE
           /\ UNCHANGED <<frame, status, wfi_event, aborted, csr_writes>>
  <2>1. PICK pc \in Code : c' = [c EXCEPT !.pc = pc]
    BY <1>3
  <2>2. StepOK(c', frame') /\ c'.mie = c.mie /\ c'.mip = c.mip
    BY <1>1, <1>3, <2>1, PcOK
  <2>3. Control'
    <3>1. waiting' \in BOOLEAN
      BY <1>3
    <3> QED BY <1>1, <1>3, <3>1 DEF Control
  <2>4. WaitingIsNotified'
    BY <1>3, <2>2 DEF WaitingIsNotified
  <2> QED BY <2>2, <2>3, <2>4, HartInvSplitPrimed
<1>4. CASE /\ \E pc \in Code : Finish([c EXCEPT !.pc = pc], frame)
           /\ UNCHANGED <<waiting, status, wfi_event, aborted, csr_writes>>
  <2>1. PICK pc \in Code : Finish([c EXCEPT !.pc = pc], frame)
    BY <1>4
  <2>2. StepOK(c', frame')
    BY <1>1, <2>1, PcOK, FinishOK
  <2> QED BY <1>1, <1>4, <2>2, NotWaiting, Zenon DEF Control
<1> QED BY <1>2, <1>3, <1>4, Zenon DEF WFI

(* Returning from wait(wfi_event) preserves HartInv.                       *)
LEMMA WakeInv == HartInv /\ Wake => HartInv'
<1> SUFFICES ASSUME HartInv, Wake PROVE HartInv'
  OBVIOUS
<1>1. StepOK(c, frame) /\ Control
  BY HartInvSplit
<1>2. StepOK(c', frame')
  <2>1. CASE waiting
    BY <1>1, <2>1, FinishOK DEF Wake
  <2>2. CASE ~waiting
    BY <1>1, <2>2 DEF Wake
  <2> QED BY <2>1, <2>2
<1>3. Control' /\ WaitingIsNotified'
  <2>1. waiting' = FALSE /\ wfi_event' = FALSE
    BY DEF Wake
  <2>2. waiting' \in BOOLEAN /\ wfi_event' \in BOOLEAN
    BY <2>1, Zenon
  <2> QED BY <1>1, <2>1, <2>2 DEF Wake, Control, WaitingIsNotified
<1> QED BY <1>2, <1>3, HartInvSplitPrimed

(* A CSR write yields a machine state.                                     *)
LEMMA CsrType ==
    ASSUME c \in Machine, NEW reg \in Writable, NEW level \in Modes,
           NEW s \in set_csr_value(reg, level)
    PROVE  s \in Machine
<1>1. /\ c.ie \in [Modes -> BOOLEAN] /\ c.pie \in [Modes -> BOOLEAN]
      /\ c.pp \in [{SupervisorMode, MachineMode} -> 0..3]
      /\ c.epc \in [Modes -> Addresses] /\ c.vectored \in [Modes -> BOOLEAN]
      /\ c.mie \subseteq Lines /\ c.mip \subseteq Lines
      /\ c.mideleg \subseteq Lines /\ c.sideleg \subseteq Lines
      /\ c.medeleg \subseteq 0..15 /\ c.sedeleg \subseteq 0..15
  BY DEF Machine
<1>2. \A r, m : \A v \in BitWrites(r, m) : v \subseteq r \cup m
  BY DEF BitWrites
<1>3. CASE reg = "status"
  <2>1. s \in StatusWrites(level)
    BY <1>3 DEF set_csr_value
  <2>2. ASSUME NEW m \in Modes, NEW b \in BOOLEAN
        PROVE  /\ [c EXCEPT !.ie = [c.ie EXCEPT ![m] = b]] \in Machine
               /\ [c EXCEPT !.pie = [c.pie EXCEPT ![m] = b]] \in Machine
               /\ [c EXCEPT !.tw = b] \in Machine
    <3>1. /\ [c.ie EXCEPT ![m] = b] \in [Modes -> BOOLEAN]
          /\ [c.pie EXCEPT ![m] = b] \in [Modes -> BOOLEAN]
      BY <1>1
    <3> QED BY <3>1, Zenon DEF Machine
  <2>3. ASSUME NEW m \in {SupervisorMode, MachineMode}, NEW v \in 0..3
        PROVE  [c EXCEPT !.pp = [c.pp EXCEPT ![m] = v]] \in Machine
    <3>1. [c.pp EXCEPT ![m] = v] \in [{SupervisorMode, MachineMode} -> 0..3]
      BY <1>1
    <3> QED BY <3>1, Zenon DEF Machine
  <2>4. {0, 1} \subseteq 0..3 /\ MppWritten \subseteq 0..3
    BY ConstantsAssumption
  <2> DEFINE Views == {m \in Modes : m <= level}
             S == IF SupervisorMode \in Views THEN {0, 1} ELSE {}
             P == IF MachineMode \in Views THEN MppWritten ELSE {}
             B == IF MachineMode \in Views THEN BOOLEAN ELSE {}
  <2>5. s \in {[c EXCEPT !.ie = [c.ie EXCEPT ![m] = b]] : m \in Views, b \in BOOLEAN}
           \cup {[c EXCEPT !.pie = [c.pie EXCEPT ![m] = b]] : m \in Views, b \in BOOLEAN}
           \cup {[c EXCEPT !.pp = [c.pp EXCEPT ![SupervisorMode] = v]] : v \in S}
           \cup {[c EXCEPT !.pp = [c.pp EXCEPT ![MachineMode] = v]] : v \in P}
           \cup {[c EXCEPT !.tw = b] : b \in B}
    BY <2>1 DEF StatusWrites
  <2>6. /\ Views \subseteq Modes /\ S \subseteq {0, 1} /\ P \subseteq MppWritten
        /\ B \subseteq BOOLEAN
    OBVIOUS
  <2> HIDE DEF Views, S, P, B
  <2>7. CASE s \in {[c EXCEPT !.ie = [c.ie EXCEPT ![m] = b]] : m \in Views, b \in BOOLEAN}
    <3>1. PICK m \in Views, b \in BOOLEAN : s = [c EXCEPT !.ie = [c.ie EXCEPT ![m] = b]]
      BY <2>7
    <3> QED BY <2>2, <2>6, <3>1, Zenon
  <2>8. CASE s \in {[c EXCEPT !.pie = [c.pie EXCEPT ![m] = b]] : m \in Views, b \in BOOLEAN}
    <3>1. PICK m \in Views, b \in BOOLEAN : s = [c EXCEPT !.pie = [c.pie EXCEPT ![m] = b]]
      BY <2>8
    <3> QED BY <2>2, <2>6, <3>1, Zenon
  <2>9. CASE s \in {[c EXCEPT !.pp = [c.pp EXCEPT ![SupervisorMode] = v]] : v \in S}
    BY <2>3, <2>4, <2>6, <2>9
  <2>10. CASE s \in {[c EXCEPT !.pp = [c.pp EXCEPT ![MachineMode] = v]] : v \in P}
    BY <2>3, <2>4, <2>6, <2>10
  <2>11. CASE s \in {[c EXCEPT !.tw = b] : b \in B}
    <3>1. PICK b \in BOOLEAN : s = [c EXCEPT !.tw = b]
      BY <2>6, <2>11, Zenon
    <3> QED BY <3>1 DEF Machine
  <2>12. \A u, v, w, x, y : s \in u \cup v \cup w \cup x \cup y =>
                              s \in u \/ s \in v \/ s \in w \/ s \in x \/ s \in y
    OBVIOUS
  <2> QED BY <2>5, <2>7, <2>8, <2>9, <2>10, <2>11, <2>12
<1>4. CASE reg = "ie"
  <2>1. PICK v \in BitWrites(c.mie, Lines \cap IE_MASK(level)) :
           s = [c EXCEPT !.mie = v]
    BY <1>4 DEF set_csr_value
  <2>2. v \subseteq Lines
    BY <1>1, <1>2
  <2> QED BY <2>1, <2>2 DEF Machine
<1>5. CASE reg = "ip"
  <2>1. PICK v \in BitWrites(c.mip, Lines \cap IP_MASK(level)) :
           s = [c EXCEPT !.mip = v]
    BY <1>5 DEF set_csr_value
  <2>2. v \subseteq Lines
    BY <1>1, <1>2
  <2> QED BY <2>1, <2>2 DEF Machine
<1>6. CASE reg = "epc"
  <2>1. PICK pc \in Code : s = [c EXCEPT !.epc = [c.epc EXCEPT ![level] = pc]]
    BY <1>6 DEF set_csr_value
  <2>2. [c.epc EXCEPT ![level] = pc] \in [Modes -> Addresses]
    BY <1>1 DEF Addresses
  <2> QED BY <2>1, <2>2, Zenon DEF Machine
<1>7. CASE reg = "tvec"
  <2>1. PICK b \in BOOLEAN : s = [c EXCEPT !.vectored = [c.vectored EXCEPT ![level] = b]]
    BY <1>7 DEF set_csr_value
  <2>2. [c.vectored EXCEPT ![level] = b] \in [Modes -> BOOLEAN]
    BY <1>1
  <2> QED BY <2>1, <2>2, Zenon DEF Machine
<1>8. CASE reg = "ideleg"
  <2>1. \/ \E v \in BitWrites(c.mideleg, Lines) : s = [c EXCEPT !.mideleg = v]
        \/ \E v \in BitWrites(c.sideleg, Lines) : s = [c EXCEPT !.sideleg = v]
    BY <1>8 DEF set_csr_value
  <2>2. /\ \A v \in BitWrites(c.mideleg, Lines) : v \subseteq Lines
        /\ \A v \in BitWrites(c.sideleg, Lines) : v \subseteq Lines
    BY <1>1, <1>2
  <2> QED BY <2>1, <2>2 DEF Machine
<1>9. CASE reg = "edeleg"
  <2>1. \/ \E v \in BitWrites(c.medeleg, Delegable \cap MEDELEG_MASK) :
              s = [c EXCEPT !.medeleg = v]
        \/ \E v \in BitWrites(c.sedeleg, Delegable \cap SEDELEG_MASK) :
              s = [c EXCEPT !.sedeleg = v]
    BY <1>9 DEF set_csr_value
  <2>2. /\ Delegable \cap MEDELEG_MASK \subseteq 0..15
        /\ Delegable \cap SEDELEG_MASK \subseteq 0..15
    BY DEF MEDELEG_MASK, SEDELEG_MASK
  <2>3. \A r, m : r \subseteq 0..15 /\ m \subseteq 0..15 =>
                    \A v \in BitWrites(r, m) : v \subseteq 0..15
    BY <1>2, Zenon
  <2>4. ASSUME NEW v, v \subseteq 0..15
        PROVE  [c EXCEPT !.medeleg = v] \in Machine /\ [c EXCEPT !.sedeleg = v] \in Machine
    BY <2>4 DEF Machine
  <2> QED BY <1>1, <2>1, <2>2, <2>3, <2>4, Zenon
<1> QED
  BY <1>3, <1>4, <1>5, <1>6, <1>7, <1>8, <1>9, ConstantsAssumption

(* A write by the guest to what machine mode saved ends the frame.         *)
LEMMA CsrInv == HartInv /\ CsrInstruction => HartInv'
<1> SUFFICES ASSUME HartInv, CsrInstruction PROVE HartInv'
  OBVIOUS
<1>1. StepOK(c, frame) /\ Control /\ waiting = FALSE
  BY HartInvSplit DEF CsrInstruction, Running, Control
<1>2. CASE Trap(2)
  BY <1>2, TrapInv DEF CsrInstruction
<1>3. CASE \E reg \in Writable, level \in Modes :
             /\ csr_writes < MaxCsrWrites
             /\ csr_writes' = csr_writes + 1
             /\ \E s \in set_csr_value(reg, level), pc \in Code :
                  Finish([s EXCEPT !.pc = pc],
                         IF /\ s.pie[MachineMode] = c.pie[MachineMode]
                            /\ s.pp[MachineMode] = c.pp[MachineMode]
                            /\ s.epc[MachineMode] = c.epc[MachineMode]
                         THEN frame ELSE None)
             /\ UNCHANGED <<status, waiting, wfi_event, aborted>>
  <2>0. PICK reg \in Writable, level \in Modes :
             \E s \in set_csr_value(reg, level), pc \in Code :
                  Finish([s EXCEPT !.pc = pc],
                         IF /\ s.pie[MachineMode] = c.pie[MachineMode]
                            /\ s.pp[MachineMode] = c.pp[MachineMode]
                            /\ s.epc[MachineMode] = c.epc[MachineMode]
                         THEN frame ELSE None)
    BY <1>3
  <2>1. PICK s \in set_csr_value(reg, level), pc \in Code :
                  Finish([s EXCEPT !.pc = pc],
                         IF /\ s.pie[MachineMode] = c.pie[MachineMode]
                            /\ s.pp[MachineMode] = c.pp[MachineMode]
                            /\ s.epc[MachineMode] = c.epc[MachineMode]
                         THEN frame ELSE None)
    BY <2>0
  <2> DEFINE old == IF /\ s.pie[MachineMode] = c.pie[MachineMode]
                       /\ s.pp[MachineMode] = c.pp[MachineMode]
                       /\ s.epc[MachineMode] = c.epc[MachineMode]
                    THEN frame ELSE None
  <2>2. s \in Machine
    BY <1>1, CsrType DEF StepOK
  <2>3. StepOK(s, old)
    BY <1>1, <2>2 DEF StepOK, Saved
  <2> HIDE DEF old
  <2>4. StepOK([s EXCEPT !.pc = pc], old)
    BY <2>3, PcOK
  <2>5. Finish([s EXCEPT !.pc = pc], old)
    BY <2>1 DEF old
  <2>6. StepOK(c', frame')
    BY <2>4, <2>5, FinishOK
  <2>7. csr_writes' \in 0..MaxCsrWrites
    BY <1>1, <1>3, ConstantsAssumption DEF Control
  <2>8. UNCHANGED <<status, waiting, wfi_event, aborted>>
    BY <1>3
  <2> QED BY <1>1, <2>6, <2>7, <2>8, NotWaiting, Zenon DEF Control
<1> QED BY <1>2, <1>3 DEF CsrInstruction

(* A peripheral changes mip only.                                          *)
LEMMA MipOK ==
    ASSUME StepOK(c, frame), NEW v, v \subseteq Lines
    PROVE  StepOK([c EXCEPT !.mip = v], frame)
<1> DEFINE r == [c EXCEPT !.mip = v]
<1>0. c \in Machine
  BY DEF StepOK
<1>1. r \in Machine
  BY <1>0 DEF Machine
<1>2. r.epc = c.epc /\ r.pie = c.pie /\ r.pp = c.pp
  BY <1>0 DEF Machine
<1> HIDE DEF r
<1>3. StepOK(r, frame)
  BY <1>1, <1>2 DEF StepOK, Saved
<1> QED BY <1>3 DEF r

(* A peripheral that raises or lowers an interrupt preserves HartInv.      *)
LEMMA TriggerInv ==
    ASSUME HartInv, NEW line \in Lines, NEW on \in BOOLEAN, trigger_interrupt(line, on)
    PROVE  HartInv'
<1>1. StepOK(c, frame) /\ Control /\ c.mip \subseteq Lines
  BY HartInvSplit DEF StepOK, Machine
<1> DEFINE v == IF on THEN c.mip \cup {line} ELSE c.mip \ {line}
<1>2. v \subseteq Lines
  BY <1>1
<1>3. c' = [c EXCEPT !.mip = v] /\ wfi_event' = TRUE
  BY DEF trigger_interrupt
<1> HIDE DEF v
<1>4. StepOK(c', frame')
  BY <1>1, <1>2, <1>3, MipOK DEF trigger_interrupt
<1>5. Control' /\ WaitingIsNotified'
  <2>1. wfi_event' \in BOOLEAN
    BY <1>3
  <2> QED BY <1>1, <1>3, <2>1 DEF trigger_interrupt, Control, WaitingIsNotified
<1> QED BY <1>4, <1>5, HartInvSplitPrimed

(* The controller that clears an external interrupt preserves HartInv.     *)
LEMMA ClearInv ==
    ASSUME HartInv, NEW line \in Lines, clear_external_interrupt(line)
    PROVE  HartInv'
<1>1. StepOK(c, frame) /\ Control /\ WaitingIsNotified /\ c \in Machine
  BY HartInvSplit DEF StepOK
<1>2. c.mip \ {line} \subseteq Lines
  BY <1>1 DEF Machine
<1>3. c' = [c EXCEPT !.mip = c.mip \ {line}]
  BY DEF clear_external_interrupt
<1>4. StepOK(c', frame')
  BY <1>1, <1>2, <1>3, MipOK DEF clear_external_interrupt
<1>5. c'.mie = c.mie /\ c'.mip = c.mip \ {line}
  BY <1>1, <1>3 DEF Machine
<1>6. WaitingIsNotified'
  BY <1>1, <1>5 DEF WaitingIsNotified, clear_external_interrupt
<1>7. Control'
  BY <1>1 DEF clear_external_interrupt, Control
<1> QED BY <1>4, <1>6, <1>7, HartInvSplitPrimed

(* Every step of the hart and of the peripherals preserves HartInv.        *)
LEMMA HartStep == HartInv /\ [Next]_vars => HartInv'
<1> SUFFICES ASSUME HartInv, [Next]_vars PROVE HartInv'
  OBVIOUS
<1>1. CASE Peripheral
  <2>1. CASE \E line \in Lines \cap {8, 9, 11} :
               trigger_interrupt(line, TRUE) \/ clear_external_interrupt(line)
    BY <2>1, TriggerInv, ClearInv, Zenon
  <2>2. CASE \E line \in Lines \cap {3, 7}, on \in BOOLEAN : trigger_interrupt(line, on)
    BY <2>2, TriggerInv
  <2> QED BY <1>1, <2>1, <2>2, Zenon DEF Peripheral
<1>2. CASE UNCHANGED vars
  BY <1>2 DEF HartInv, vars, TypeOK, MachineFrameIntact, WaitingIsNotified
<1> QED
  BY <1>1, <1>2, PlainInv, ExceptionInv, MretInv, StopInv, WfiInv, CsrInv, WakeInv
  DEF Next

(* HartInv holds in every reachable state.                                 *)
LEMMA HartInvariant == Spec => []HartInv
  BY HartInit, HartStep, PTL DEF Spec

-----------------------------------------------------------------------------
(* The machine state of the ISS keeps its type: in particular a trap, an   *)
(* interrupt or a return always leads to an address of the program or of a *)
(* vector table.                                                           *)
THEOREM MachineStateTyped == Spec => []TypeOK
  BY HartInvariant, PTL DEF HartInv

(* What switch_to_trap_handler saved for machine mode stays until MRET,    *)
(* for every guest that does not write it.                                 *)
THEOREM MachineFrameSurvives == Spec => []MachineFrameIntact
  BY HartInvariant, PTL DEF HartInv

(* A hart in WFI with a pending enabled interrupt has been notified.       *)
THEOREM NoLostWakeup == Spec => []WaitingIsNotified
  BY HartInvariant, PTL DEF HartInv

(* The action of MretResumes follows from the frame being intact.          *)
LEMMA MretStep ==
    HartInv => (MRET /\ frame # None =>
         \/ Context(c') = frame
         \/ \E t \in Modes :
              /\ c'.prv = t
              /\ c'.pc \in {t} \X (0..15)
              /\ c'.epc[t] = frame.pc
              /\ (t = MachineMode => frame' = frame))
<1> SUFFICES ASSUME HartInv, MRET, frame # None
             PROVE  \/ Context(c') = frame
                    \/ \E t \in Modes :
                         /\ c'.prv = t
                         /\ c'.pc \in {t} \X (0..15)
                         /\ c'.epc[t] = frame.pc
                         /\ (t = MachineMode => frame' = frame)
  OBVIOUS
<1> DEFINE s == return_from_trap_handler(c)
           x == compute_pending_interrupts(s)
<1>1. StepOK(c, frame) /\ c \in Machine
  BY HartInvSplit DEF StepOK
<1>2. /\ s \in Machine /\ s.prv = frame.prv /\ s.pc = frame.pc
      /\ s.ie[MachineMode] = frame.ie
  BY <1>1, ReturnType DEF StepOK, Saved
<1>3. Finish(s, None)
  BY DEF MRET
<1> HIDE DEF s
<1>4. Context(s) = frame
  <2>1. frame \in Frames
    BY <1>1 DEF StepOK
  <2> QED BY <1>2, <2>1 DEF Context, Frames
<1>5. CASE x.target_mode = None
  BY <1>3, <1>4, <1>5 DEF Finish
<1>6. CASE x.target_mode # None
  <2>1. /\ c' = switch_to_trap_handler(s, x.target_mode, prepare_interrupt(x))
        /\ frame' = IF x.target_mode = MachineMode THEN Context(s) ELSE None
    BY <1>3, <1>6 DEF Finish
  <2>2. x.target_mode \in Modes /\ x.pending # {} /\ x.pending \subseteq Lines
    BY <1>2, <1>6, PendingTarget
  <2> HIDE DEF x
  <2>3. prepare_interrupt(x) \in 0..15
    BY <2>2, InterruptCode
  <2>4. ASSUME NEW t \in Modes, NEW v \in 0..15
        PROVE  LET r == switch_to_trap_handler(s, t, v)
               IN  r.prv = t /\ r.pc \in {t} \X (0..15) /\ r.epc[t] = s.pc
    BY <1>2, SwitchType, Zenon
  <2>5. /\ c'.prv = x.target_mode /\ c'.pc \in {x.target_mode} \X (0..15)
        /\ c'.epc[x.target_mode] = s.pc
    BY <2>1, <2>2, <2>3, <2>4
  <2> QED BY <1>2, <1>4, <2>1, <2>2, <2>5
<1> QED BY <1>5, <1>6

(* MRET resumes exactly what the trap to machine mode interrupted.         *)
THEOREM MretResumesInterrupted == Spec => MretResumes
<1>1. HartInv /\ [Next]_vars =>
        [frame # None /\ MRET =>
           \/ Context(c') = frame
           \/ \E t \in Modes :
                /\ c'.prv = t
                /\ c'.pc \in {t} \X (0..15)
                /\ c'.epc[t] = frame.pc
                /\ (t = MachineMode => frame' = frame)]_vars
  BY MretStep
<1> QED
  BY <1>1, HartInvariant, PTL DEF Spec, MretResumes

-----------------------------------------------------------------------------
(* The look at the pending interrupts never lowers the privilege.          *)
LEMMA FinishPrivilege ==
    ASSUME NEW s \in Machine, NEW old, Finish(s, old), s.prv \in Modes
    PROVE  c'.prv >= s.prv
<1> DEFINE x == compute_pending_interrupts(s)
<1>1. CASE x.target_mode = None
  BY <1>1, ModesAre DEF Finish, ModeDefs
<1>2. CASE x.target_mode # None
  <2>1. c' = switch_to_trap_handler(s, x.target_mode, prepare_interrupt(x))
    BY <1>2 DEF Finish
  <2>2. /\ x.target_mode \in Modes /\ x.pending # {} /\ x.pending \subseteq Lines
        /\ s.prv <= x.target_mode
    BY <1>2, PendingTarget
  <2> HIDE DEF x
  <2>3. prepare_interrupt(x) \in 0..15
    BY <2>2, InterruptCode
  <2>4. \A t \in Modes, v \in 0..15 : switch_to_trap_handler(s, t, v).prv = t
    BY SwitchType, Zenon
  <2>5. c'.prv = x.target_mode
    BY <2>1, <2>2, <2>3, <2>4
  <2> QED BY <2>2, <2>5, ModesAre DEF ModeDefs
<1> QED BY <1>1, <1>2

(* Nor does a trap, because the delegation of a trap of machine mode is    *)
(* ignored and the supervisor's own traps go no lower.                     *)
LEMMA TrapPrivilege ==
    ASSUME c \in Machine, NEW reason, Trap(reason), c.prv \in Modes
    PROVE  c'.prv >= c.prv
<1> DEFINE target == prepare_trap(c, reason)
<1>1. target \in Modes /\ c.prv <= target
  BY ModesAre DEF prepare_trap, ModeDefs
<1>2. c' = switch_to_trap_handler(c, target, 0)
  BY DEF Trap
<1> HIDE DEF target
<1>3. \A t \in Modes, v \in 0..15 : switch_to_trap_handler(c, t, v).prv = t
  BY SwitchType, Zenon
<1>4. c'.prv = target
  BY <1>1, <1>2, <1>3
<1> QED BY <1>1, <1>4, ModesAre DEF ModeDefs

(* No CSR holds the privilege.                                             *)
LEMMA CsrPrivilege ==
    ASSUME c \in Machine, NEW reg \in Writable, NEW level \in Modes,
           NEW s \in set_csr_value(reg, level)
    PROVE  s.prv = c.prv
<1>1. CASE reg = "status"
  <2>1. s \in StatusWrites(level)
    BY <1>1 DEF set_csr_value
  <2>2. \E v : \/ s = [c EXCEPT !.ie = v] \/ s = [c EXCEPT !.pie = v]
               \/ s = [c EXCEPT !.pp = v] \/ s = [c EXCEPT !.tw = v]
    BY <2>1 DEF StatusWrites
  <2> QED BY <2>2 DEF Machine
<1>2. CASE reg \in {"ie", "ip", "epc", "tvec"}
  BY <1>2 DEF set_csr_value, Machine
<1>3. CASE reg \in {"ideleg", "edeleg"}
  BY <1>3 DEF set_csr_value, Machine
<1> QED BY <1>1, <1>2, <1>3, ConstantsAssumption

(* A step other than MRET does not lower the privilege.                    *)
LEMMA OthersKeepPrivilege ==
    ASSUME HartInv, [Next]_vars, ~MRET, c.prv \in Modes
    PROVE  c'.prv >= c.prv
<1>1. c \in Machine /\ StepOK(c, frame)
  BY HartInvSplit DEF StepOK
<1>2. \A pc \in Code : /\ [c EXCEPT !.pc = pc] \in Machine
                       /\ [c EXCEPT !.pc = pc].prv = c.prv
  BY <1>1 DEF Machine, Addresses
<1>3. c.prv >= c.prv
  BY ModesAre DEF ModeDefs
<1>4. CASE Plain \/ Stop
  <2>1. PICK pc \in Code : Finish([c EXCEPT !.pc = pc], frame)
    BY <1>4 DEF Plain, Stop
  <2> QED BY <1>2, <2>1, FinishPrivilege, Zenon
<1>5. CASE Exception
  BY <1>1, <1>3, <1>5, TrapPrivilege DEF Exception
<1>6. CASE WFI
  BY <1>1, <1>2, <1>3, <1>6, TrapPrivilege, FinishPrivilege, Zenon DEF WFI
<1>7. CASE CsrInstruction
  <2>1. CASE Trap(2)
    BY <1>1, <2>1, TrapPrivilege
  <2>2. CASE \E reg \in Writable, level \in Modes :
               \E s \in set_csr_value(reg, level), pc \in Code, old \in {frame, None} :
                  Finish([s EXCEPT !.pc = pc], old)
    <3>1. PICK reg \in Writable, level \in Modes :
                 \E s \in set_csr_value(reg, level), pc \in Code, old \in {frame, None} :
                    Finish([s EXCEPT !.pc = pc], old)
      BY <2>2
    <3>2. PICK s \in set_csr_value(reg, level), pc \in Code, old \in {frame, None} :
                 Finish([s EXCEPT !.pc = pc], old)
      BY <3>1
    <3>3. s \in Machine /\ s.prv = c.prv
      BY <1>1, CsrType, CsrPrivilege
    <3>4. [s EXCEPT !.pc = pc] \in Machine /\ [s EXCEPT !.pc = pc].prv = c.prv
      BY <3>3 DEF Machine, Addresses
    <3> QED BY <3>2, <3>4, FinishPrivilege, Zenon
  <2> QED BY <1>7, <2>1, <2>2 DEF CsrInstruction
<1>8. CASE Wake
  BY <1>1, <1>3, <1>8, FinishPrivilege DEF Wake
<1>9. CASE Peripheral
  <2>1. \E v : c' = [c EXCEPT !.mip = v]
    BY <1>9 DEF Peripheral, trigger_interrupt, clear_external_interrupt
  <2> QED BY <1>1, <1>3, <2>1 DEF Machine
<1>10. CASE UNCHANGED vars
  BY <1>3, <1>10 DEF vars
<1> QED BY <1>4, <1>5, <1>6, <1>7, <1>8, <1>9, <1>10 DEF Next

(* MRET leads to what mpp holds, or to an interrupt that is no lower.      *)
LEMMA MretPrivilege ==
    ASSUME HartInv, MRET, c.pp[MachineMode] \in Modes
    PROVE  c'.prv >= c.pp[MachineMode]
<1>1. c \in Machine
  BY HartInvSplit DEF StepOK
<1>2. /\ return_from_trap_handler(c) \in Machine
      /\ return_from_trap_handler(c).prv = c.pp[MachineMode]
  BY <1>1, ReturnType
<1>3. Finish(return_from_trap_handler(c), None)
  BY DEF MRET
<1> QED BY <1>2, <1>3, FinishPrivilege

(* prepare_trap and compute_pending_interrupts never send a trap to a less *)
(* privileged mode: only MRET lowers the privilege.                        *)
THEOREM TrapsNeverLowerPrivilege == Spec => TrapsKeepPrivilege
<1>1. HartInv /\ [Next]_vars =>
        [/\ c.prv \in Modes /\ c'.prv < c.prv => MRET
         /\ c.pp[MachineMode] \in Modes /\ c'.prv < c.pp[MachineMode] => ~MRET]_vars
  <2> SUFFICES ASSUME HartInv, [Next]_vars
               PROVE  /\ c.prv \in Modes /\ c'.prv < c.prv => MRET
                      /\ c.pp[MachineMode] \in Modes /\ c'.prv < c.pp[MachineMode] => ~MRET
    OBVIOUS
  <2>1. HartInv'
    BY HartStep
  <2>2. c'.prv \in 0..3
    BY <2>1 DEF HartInv, TypeOK, Machine
  <2>3. \A m \in Modes : c'.prv >= m => ~(c'.prv < m)
    BY <2>2, ModesAre DEF ModeDefs
  <2> QED BY <2>3, OthersKeepPrivilege, MretPrivilege
<1> QED
  BY <1>1, HartInvariant, PTL DEF Spec, TrapsKeepPrivilege

-----------------------------------------------------------------------------
(***************************************************************************)
(* The MMU: translations through the TLB and the dirty flags are those of  *)
(* Sv32, for tables, TLBs and ports of any size and any accesses.          *)
(***************************************************************************)
CONSTANTS Fanout, TLB_ENTRIES, Ports, Tables, Root, NewEntries, Debugger, MaxAccesses, MaxChanges
VARIABLES table, bare, sum, mxr, tlb, outcome, stored, fresh, flagsFresh, accesses, changes

MMU == INSTANCE VirtualMemory

(* What the proof assumes of the constants; what the guest writes to its   *)
(* tables later may be anything.                                           *)
MMUConstants ==
    /\ Fanout \in Nat /\ Fanout > 0 /\ TLB_ENTRIES \in Nat /\ TLB_ENTRIES > 0
    /\ \A t \in Tables : MMU!Proper(t)

Slots == MMU!Modes \X MMU!Types \X (0..TLB_ENTRIES - 1)

(* n is what 32 bits hold of the one page of a set.                        *)
InPages(n, pages) == \E p \in pages : pages = {p} /\ n = p % MMU!PhysicalPages

(* As long as the TLB has missed nothing, it holds what Sv32 says, less    *)
(* the bits above 32, a cached translation of a store is that of an        *)
(* earlier store, and pages stored to are dirty.                           *)
CacheInv ==
    /\ MMU!Proper(table)
    /\ DOMAIN tlb = Slots
    /\ \A v \in MMU!VPages, type \in MMU!Types, m \in MMU!Modes :
          MMU!Cached(v, type, m) =>
             /\ InPages(tlb[MMU!slot(v, type, m)].ppn, MMU!Pages(v, type, m))
             /\ type = "STORE" => <<v, m>> \in stored
    /\ stored \subseteq MMU!VPages \X MMU!Modes
    /\ \A s \in stored : \A l \in MMU!Leaves(s[1]) :
          {"A", "D"} \subseteq table[l.entry].flags

MMUInv == fresh \in BOOLEAN /\ (fresh => CacheInv)

(* Two virtual pages with the same number are the same.                    *)
LEMMA PagesNumbered ==
    ASSUME MMUConstants, NEW v \in MMU!VPages, NEW w \in MMU!VPages, MMU!vpn(v) = MMU!vpn(w)
    PROVE  v = w
<1>1. /\ v = <<v[1], v[2]>> /\ w = <<w[1], w[2]>>
      /\ v[1] \in 0..Fanout - 1 /\ v[2] \in 0..Fanout - 1
      /\ w[1] \in 0..Fanout - 1 /\ w[2] \in 0..Fanout - 1
  BY DEF MMU!VPages, MMU!Indices
<1>2. v[1] * Fanout + v[2] = w[1] * Fanout + w[2]
  BY DEF MMU!vpn
<1>3. ASSUME NEW a \in Nat, NEW b \in Nat, NEW x \in 0..Fanout - 1, NEW y \in 0..Fanout - 1, a < b
      PROVE  a * Fanout + x # b * Fanout + y
  <2>1. PICK k \in Nat : b = a + 1 + k
    BY <1>3
  <2>2. b * Fanout = a * Fanout + Fanout + k * Fanout
    BY <2>1 DEF MMUConstants
  <2>3. k * Fanout \in Nat /\ a * Fanout \in Nat /\ b * Fanout \in Nat
    BY <1>3 DEF MMUConstants
  <2> QED BY <2>2, <2>3 DEF MMUConstants
<1>4. ~(v[1] < w[1]) /\ ~(w[1] < v[1])
  BY <1>1, <1>2, <1>3 DEF MMUConstants
<1>5. v[1] = w[1]
  BY <1>1, <1>4 DEF MMUConstants
<1>6. v[1] * Fanout \in Nat
  BY <1>1 DEF MMUConstants
<1>7. v[2] = w[2]
  <2>1. \A n, x, y \in Nat : n + x = n + y => x = y
    OBVIOUS
  <2>2. v[1] * Fanout + v[2] = v[1] * Fanout + w[2]
    BY <1>2, <1>5, Zenon
  <2>3. v[2] \in Nat /\ w[2] \in Nat
    BY <1>1 DEF MMUConstants
  <2> QED BY <1>6, <2>1, <2>2, <2>3, Zenon
<1> QED BY <1>1, <1>5, <1>7

(* The number of a page is natural, and its slot one of the TLB.           *)
LEMMA SlotsExist ==
    ASSUME MMUConstants, NEW v \in MMU!VPages, NEW type \in MMU!Types, NEW m \in MMU!Modes
    PROVE  MMU!vpn(v) \in Nat /\ MMU!slot(v, type, m) \in Slots
<1>1. v[1] \in Nat /\ v[2] \in Nat
  BY DEF MMU!VPages, MMU!Indices, MMUConstants
<1>2. MMU!vpn(v) \in Nat
  BY <1>1 DEF MMU!vpn, MMUConstants
<1>3. MMU!vpn(v) % TLB_ENTRIES \in 0..TLB_ENTRIES - 1
  BY <1>2 DEF MMUConstants
<1> QED BY <1>2, <1>3 DEF MMU!slot, Slots

(* The entries of the two levels of a walk.                                *)
Upper(v) == <<Root, v[1]>>
Lower(v) == <<table[Upper(v)].ppn, v[2]>>
Valid(e) == e \in DOMAIN table /\ ~MMU!Invalid(table[e])

(* The leaves of a page, by what the walk meets.                           *)
LeafFound(v) ==
    /\ Upper(v) \in DOMAIN table
    /\ ~Valid(Upper(v)) => MMU!Leaves(v) = {}
    /\ Valid(Upper(v)) /\ ~MMU!Pointer(table[Upper(v)])
         => MMU!Leaves(v) = {[entry |-> Upper(v), super |-> TRUE]}
    /\ Valid(Upper(v)) /\ MMU!Pointer(table[Upper(v)])
         => IF Valid(Lower(v)) /\ ~MMU!Pointer(table[Lower(v)])
            THEN MMU!Leaves(v) = {[entry |-> Lower(v), super |-> FALSE]}
            ELSE MMU!Leaves(v) = {}

LeavesFound == MMU!Proper(table) => \A v \in MMU!VPages : LeafFound(v)

(* Leaves, of the reference, finds the leaves the levels of the walk meet. *)
LEMMA LeavesAre == LeavesFound
<1> SUFFICES ASSUME MMU!Proper(table), NEW v \in MMU!VPages PROVE LeafFound(v)
  BY DEF LeavesFound
<1> DEFINE Flags(e) == IF e \in DOMAIN table THEN table[e].flags ELSE {}
           sound(e) == "V" \in Flags(e) /\ ("W" \in Flags(e) => "R" \in Flags(e))
           leafy(e) == Flags(e) \cap {"R", "X"} # {}
<1>1. Upper(v) \in DOMAIN table
  BY DEF MMU!Proper, Upper, MMU!VPages
<1>2. MMU!Leaves(v) =
        {[entry |-> e, super |-> TRUE] : e \in {e \in {Upper(v)} : sound(e) /\ leafy(e)}}
          \cup {[entry |-> e, super |-> FALSE] :
                  e \in {e \in {Lower(v)} : sound(Upper(v)) /\ ~leafy(Upper(v)) /\ sound(e) /\ leafy(e)}}
  BY Zenon DEF MMU!Leaves, Upper, Lower
<1>3. \A e : sound(e) <=> Valid(e)
  BY DEF Valid, MMU!Invalid, MMU!has
<1>4. \A e : Valid(e) => (leafy(e) <=> ~MMU!Pointer(table[e]))
  BY DEF Valid, MMU!Pointer, MMU!has
<1> HIDE DEF Flags, sound, leafy
<1> QED BY <1>1, <1>2, <1>3, <1>4 DEF LeavesFound, LeafFound

(* The pages of a page with no leaf and with one.                          *)
PagesFound(v, type, m) ==
    /\ MMU!Leaves(v) = {} => MMU!Pages(v, type, m) = {}
    /\ \A e, s : MMU!Leaves(v) = {[entry |-> e, super |-> s]} =>
          MMU!Pages(v, type, m) =
            IF /\ MMU!Allowed(table[e].flags, type, m)
               /\ s => table[e].ppn % Fanout = 0
            THEN {table[e].ppn + (IF s THEN v[2] ELSE 0)} ELSE {}

AllPagesFound == \A v, type, m : PagesFound(v, type, m)

(* Pages, of the reference, are given by the leaf.                         *)
LEMMA PagesAre == AllPagesFound
<1> SUFFICES ASSUME NEW v, NEW type, NEW m PROVE PagesFound(v, type, m)
  BY DEF AllPagesFound
<1>1. MMU!Leaves(v) = {} => MMU!Pages(v, type, m) = {}
  BY DEF MMU!Pages
<1>2. ASSUME NEW e, NEW s, MMU!Leaves(v) = {[entry |-> e, super |-> s]}
      PROVE  MMU!Pages(v, type, m) =
                   IF /\ MMU!Allowed(table[e].flags, type, m)
                      /\ s => table[e].ppn % Fanout = 0
                   THEN {table[e].ppn + (IF s THEN v[2] ELSE 0)} ELSE {}
  <2> DEFINE l0 == [entry |-> e, super |-> s]
             fits(l) == /\ MMU!Allowed(table[l.entry].flags, type, m)
                        /\ l.super => table[l.entry].ppn % Fanout = 0
             page(l) == table[l.entry].ppn + (IF l.super THEN v[2] ELSE 0)
  <2>1. MMU!Pages(v, type, m) = {page(l) : l \in {l \in {l0} : fits(l)}}
    BY <1>2, Zenon DEF MMU!Pages
  <2>2. l0.entry = e /\ l0.super = s
    OBVIOUS
  <2>3. fits(l0) <=> MMU!Allowed(table[e].flags, type, m) /\ (s => table[e].ppn % Fanout = 0)
    BY <2>2, Zenon
  <2>4. page(l0) = table[e].ppn + (IF s THEN v[2] ELSE 0)
    BY <2>2, Zenon
  <2> HIDE DEF l0, fits, page
  <2>5. MMU!Pages(v, type, m) = IF fits(l0) THEN {page(l0)} ELSE {}
    BY <2>1
  <2> QED BY <2>3, <2>4, <2>5, Zenon
<1> QED BY <1>1, <1>2 DEF AllPagesFound, PagesFound

(* The checks of a walk at a valid leaf are the permissions of Sv32.       *)
LEMMA ChecksAre ==
    ASSUME NEW p, ~MMU!Invalid(p), ~MMU!Pointer(p),
           NEW type \in MMU!Types, NEW m \in MMU!Modes
    PROVE  MMU!Permits(p, type) /\ MMU!Owned(p, type, m) <=> MMU!Allowed(p.flags, type, m)
  BY Zenon DEF MMU!Invalid, MMU!Pointer, MMU!Permits, MMU!Owned, MMU!Allowed, MMU!has,
         MMU!Types, MMU!Modes

(* A walk finds the page Sv32 defines, in the one leaf of the virtual      *)
(* page, or faults if there is none.                                       *)
LEMMA WalkExact ==
    ASSUME MMUConstants, MMU!Proper(table),
           NEW v \in MMU!VPages, NEW type \in MMU!Types, NEW m \in MMU!Modes
    PROVE  LET w == MMU!walk(v, type, m) IN
           /\ w.cause # "none" => MMU!Pages(v, type, m) = {}
           /\ w.cause = "none" =>
                 /\ MMU!Pages(v, type, m) = {w.page}
                 /\ w.entry \in DOMAIN table
                 /\ w.flags = table[w.entry].flags \cup MMU!ad(type)
                 /\ \A l \in MMU!Leaves(v) : l.entry = w.entry
<1> DEFINE w == MMU!walk(v, type, m)
           Goal == /\ w.cause # "none" => MMU!Pages(v, type, m) = {}
                   /\ w.cause = "none" =>
                         /\ MMU!Pages(v, type, m) = {w.page}
                         /\ w.entry \in DOMAIN table
                         /\ w.flags = table[w.entry].flags \cup MMU!ad(type)
                         /\ \A l \in MMU!Leaves(v) : l.entry = w.entry
<1> SUFFICES Goal
  OBVIOUS
<1>1. type # "none" /\ MMU!Fault(type).cause = type /\ MMU!Fault("LOAD").cause = "LOAD"
  BY DEF MMU!Types, MMU!Fault
<1>2. ASSUME NEW e \in DOMAIN table, NEW s \in BOOLEAN, NEW level,
             (s = TRUE /\ level = 1) \/ (s = FALSE /\ level = 0),
             w = MMU!leaf(v, type, m, e, level),
             IF Valid(e) /\ ~MMU!Pointer(table[e])
             THEN MMU!Leaves(v) = {[entry |-> e, super |-> s]}
             ELSE MMU!Leaves(v) = {}
      PROVE  Goal
  <2>1. CASE ~Valid(e) \/ MMU!Pointer(table[e])
    <3>1. w = MMU!Fault(type)
      BY <1>2, <2>1, Zenon DEF MMU!leaf, Valid
    <3>2. MMU!Pages(v, type, m) = {}
      BY <1>2, <2>1, PagesAre DEF AllPagesFound, PagesFound
    <3> QED BY <1>1, <3>1, <3>2
  <2>2. CASE Valid(e) /\ ~MMU!Pointer(table[e])
    <3>1. MMU!Leaves(v) = {[entry |-> e, super |-> s]}
      BY <1>2, <2>2
    <3>2. MMU!Permits(table[e], type) /\ MMU!Owned(table[e], type, m)
            <=> MMU!Allowed(table[e].flags, type, m)
      BY <2>2, ChecksAre DEF Valid
    <3>3. MMU!Aligned(table[e], level) <=> (s => table[e].ppn % Fanout = 0)
      BY <1>2 DEF MMU!Aligned
    <3>4. CASE MMU!Allowed(table[e].flags, type, m) /\ (s => table[e].ppn % Fanout = 0)
      <4>1. w = [cause |-> "none",
                 page |-> IF level = 1 THEN table[e].ppn + v[2] ELSE table[e].ppn,
                 entry |-> e, flags |-> table[e].flags \cup MMU!ad(type)]
        BY <1>2, <2>2, <3>2, <3>3, <3>4, Zenon DEF MMU!leaf, Valid
      <4>2. MMU!Pages(v, type, m) = {table[e].ppn + (IF s THEN v[2] ELSE 0)}
        BY <3>1, <3>4, PagesAre DEF AllPagesFound, PagesFound
      <4>3. w.page = table[e].ppn + (IF s THEN v[2] ELSE 0)
        BY <1>2, <4>1 DEF MMU!Proper
      <4>4. w.cause = "none" /\ w.entry = e /\ w.flags = table[e].flags \cup MMU!ad(type)
        BY <4>1
      <4>5. \A l \in MMU!Leaves(v) : l.entry = e
        BY <3>1
      <4> HIDE DEF w
      <4> QED BY <1>2, <4>2, <4>3, <4>4, <4>5
    <3>5. CASE ~(MMU!Allowed(table[e].flags, type, m) /\ (s => table[e].ppn % Fanout = 0))
      <4>1. w = MMU!Fault(type)
        BY <1>2, <3>2, <3>3, <3>5, Zenon DEF MMU!leaf
      <4>2. MMU!Pages(v, type, m) = {}
        BY <3>1, <3>5, PagesAre DEF AllPagesFound, PagesFound
      <4> QED BY <1>1, <4>1, <4>2
    <3> QED BY <3>4, <3>5, Zenon
  <2> QED BY <2>1, <2>2, Zenon
<1>3. Upper(v) \in DOMAIN table
  BY LeavesAre DEF LeavesFound, LeafFound
<1>4. CASE ~Valid(Upper(v)) \/ ~MMU!Pointer(table[Upper(v)])
  <2>1. w = MMU!leaf(v, type, m, Upper(v), 1)
    BY <1>3, <1>4, Zenon DEF MMU!walk, Upper, Valid
  <2>2. IF Valid(Upper(v)) /\ ~MMU!Pointer(table[Upper(v)])
        THEN MMU!Leaves(v) = {[entry |-> Upper(v), super |-> TRUE]}
        ELSE MMU!Leaves(v) = {}
    BY <1>4, LeavesAre DEF LeavesFound, LeafFound
  <2>3. PICK s \in BOOLEAN : s = TRUE
    BY Zenon
  <2>4. IF Valid(Upper(v)) /\ ~MMU!Pointer(table[Upper(v)])
        THEN MMU!Leaves(v) = {[entry |-> Upper(v), super |-> s]}
        ELSE MMU!Leaves(v) = {}
    BY <2>2, <2>3, Zenon
  <2> HIDE DEF w, Goal
  <2>5. (s = TRUE /\ 1 = 1) \/ (s = FALSE /\ 1 = 0)
    BY <2>3
  <2> QED BY <1>2, <1>3, <2>1, <2>4, <2>5, Zenon
<1>5. CASE Valid(Upper(v)) /\ MMU!Pointer(table[Upper(v)])
  <2>1. IF Valid(Lower(v)) /\ ~MMU!Pointer(table[Lower(v)])
        THEN MMU!Leaves(v) = {[entry |-> Lower(v), super |-> FALSE]}
        ELSE MMU!Leaves(v) = {}
    BY <1>5, LeavesAre DEF LeavesFound, LeafFound
  <2>2. CASE Lower(v) \in DOMAIN table
    <3>1. MMU!decode(table[Upper(v)].ppn) # 0
      <4>1. MMU!decode(Lower(v)[1]) # 0
        BY <2>2 DEF MMU!Proper
      <4>2. Lower(v)[1] = table[Upper(v)].ppn
        BY DEF Lower
      <4> QED BY <4>1, <4>2
    <3>2. w = MMU!leaf(v, type, m, Lower(v), 0)
      BY <1>5, <2>2, <3>1 DEF MMU!walk, Upper, Lower, Valid
    <3> HIDE DEF w, Goal
    <3> QED BY <1>2, <2>1, <2>2, <3>2, Zenon
  <2>3. CASE Lower(v) \notin DOMAIN table
    <3>1. w = MMU!Fault("LOAD") \/ w = MMU!Fault(type)
      BY <1>5, <2>3 DEF MMU!walk, Upper, Lower, Valid
    <3>2. MMU!Pages(v, type, m) = {}
      BY <2>1, <2>3, PagesAre, Zenon DEF AllPagesFound, PagesFound, Valid
    <3> QED BY <1>1, <3>1, <3>2
  <2> QED BY <2>2, <2>3, Zenon
<1> QED BY <1>3, <1>4, <1>5, Zenon

(* A step that changes no more of the tables than accessed and dirty flags *)
(* it sets.                                                                *)
OnlyFlags ==
    /\ DOMAIN table' = DOMAIN table
    /\ \A e \in DOMAIN table :
          /\ table'[e].ppn = table[e].ppn
          /\ table[e].flags \subseteq table'[e].flags
          /\ table'[e].flags \subseteq table[e].flags \cup {"A", "D"}

(* Such a step changes no translation.                                     *)
LEMMA TranslationsKept ==
    ASSUME MMU!Proper(table), MMU!Proper(table)', OnlyFlags, UNCHANGED <<sum, mxr>>,
           NEW v \in MMU!VPages
    PROVE  /\ MMU!Leaves(v)' = MMU!Leaves(v)
           /\ \A l \in MMU!Leaves(v) : l.entry \in DOMAIN table
           /\ \A type \in MMU!Types, m \in MMU!Modes :
                 MMU!Pages(v, type, m)' = MMU!Pages(v, type, m)
<1>1. \A e \in DOMAIN table :
         /\ MMU!Invalid(table[e])' <=> MMU!Invalid(table[e])
         /\ MMU!Pointer(table[e])' <=> MMU!Pointer(table[e])
         /\ \A type \in MMU!Types, m \in MMU!Modes :
               MMU!Allowed(table[e].flags, type, m)' <=> MMU!Allowed(table[e].flags, type, m)
  <2> SUFFICES ASSUME NEW e \in DOMAIN table
               PROVE  /\ MMU!Invalid(table[e])' <=> MMU!Invalid(table[e])
                      /\ MMU!Pointer(table[e])' <=> MMU!Pointer(table[e])
                      /\ \A type \in MMU!Types, m \in MMU!Modes :
                            MMU!Allowed(table[e].flags, type, m)'
                              <=> MMU!Allowed(table[e].flags, type, m)
    BY Zenon
  <2>1. \A f \in {"V", "R", "W", "X", "U"} : f \in table'[e].flags <=> f \in table[e].flags
    BY DEF OnlyFlags
  <2>2. MMU!Invalid(table[e])' <=> MMU!Invalid(table[e])
    BY <2>1 DEF MMU!Invalid, MMU!has
  <2>3. MMU!Pointer(table[e])' <=> MMU!Pointer(table[e])
    BY <2>1 DEF MMU!Pointer, MMU!has
  <2>4. ASSUME NEW type \in MMU!Types, NEW m \in MMU!Modes
        PROVE  MMU!Allowed(table[e].flags, type, m)' <=> MMU!Allowed(table[e].flags, type, m)
    BY <2>1 DEF MMU!Allowed
  <2> QED BY <2>2, <2>3, <2>4
<1>2. \A e : Valid(e)' <=> Valid(e)
  BY <1>1 DEF Valid, OnlyFlags
<1>3. Upper(v) \in DOMAIN table /\ Upper(v)' = Upper(v) /\ Lower(v)' = Lower(v)
  BY LeavesAre, Zenon DEF LeavesFound, LeafFound, Upper, Lower, OnlyFlags
<1>4. LeafFound(v) /\ LeafFound(v)'
  <2>1. LeavesFound'
    BY LeavesAre, PTL
  <2>2. MMU!VPages' = MMU!VPages
    BY DEF MMU!VPages, MMU!Indices
  <2> QED BY <2>1, <2>2, LeavesAre DEF LeavesFound
<1>5. MMU!Leaves(v)' = MMU!Leaves(v) /\ \A l \in MMU!Leaves(v) : l.entry \in DOMAIN table
  <2>1. MMU!Pointer(table[Upper(v)])' <=> MMU!Pointer(table[Upper(v)])
    BY <1>1, <1>3
  <2>2. CASE ~Valid(Upper(v))
    BY <1>2, <1>3, <1>4, <2>2 DEF LeavesFound, LeafFound
  <2>3. CASE Valid(Upper(v)) /\ ~MMU!Pointer(table[Upper(v)])
    BY <1>2, <1>3, <1>4, <2>1, <2>3, SMTT(30) DEF LeavesFound, LeafFound
  <2>4. CASE Valid(Upper(v)) /\ MMU!Pointer(table[Upper(v)])
    <3>1. Lower(v) \in DOMAIN table
            => (MMU!Pointer(table[Lower(v)])' <=> MMU!Pointer(table[Lower(v)]))
      BY <1>1, <1>3
    <3>2. Valid(Lower(v)) => Lower(v) \in DOMAIN table
      BY DEF Valid
    <3> QED BY <1>2, <1>3, <1>4, <2>1, <2>4, <3>1, <3>2 DEF LeavesFound, LeafFound
  <2> QED BY <2>2, <2>3, <2>4
<1>6. ASSUME NEW type \in MMU!Types, NEW m \in MMU!Modes
      PROVE  MMU!Pages(v, type, m)' = MMU!Pages(v, type, m)
  <2>1. PagesFound(v, type, m) /\ PagesFound(v, type, m)'
    <3>1. AllPagesFound'
      BY PagesAre, PTL
    <3> QED BY <3>1, PagesAre DEF AllPagesFound
  <2>2. CASE MMU!Leaves(v) = {}
    BY <1>5, <2>1, <2>2, ZenonT(30) DEF AllPagesFound, PagesFound
  <2>3. CASE \E e \in DOMAIN table, s \in BOOLEAN : MMU!Leaves(v) = {[entry |-> e, super |-> s]}
    <3>1. PICK e \in DOMAIN table, s \in BOOLEAN : MMU!Leaves(v) = {[entry |-> e, super |-> s]}
      BY <2>3
    <3>2. table'[e].ppn = table[e].ppn
      BY DEF OnlyFlags
    <3>3. MMU!Allowed(table[e].flags, type, m)' <=> MMU!Allowed(table[e].flags, type, m)
      BY <1>1
    <3> DEFINE P == IF MMU!Allowed(table[e].flags, type, m) /\ (s => table[e].ppn % Fanout = 0)
                    THEN {table[e].ppn + (IF s THEN v[2] ELSE 0)} ELSE {}
    <3>4. MMU!Pages(v, type, m) = P
      BY <2>1, <3>1, Zenon DEF PagesFound
    <3>5. MMU!Pages(v, type, m)' = P'
      BY <1>5, <2>1, <3>1, Zenon DEF PagesFound
    <3>6. P' = P
      BY <3>2, <3>3
    <3> QED BY <3>4, <3>5, <3>6
  <2>4. MMU!Leaves(v) = {}
          \/ \E e \in DOMAIN table, s \in BOOLEAN : MMU!Leaves(v) = {[entry |-> e, super |-> s]}
    BY <1>3, <1>4, Zenon DEF LeavesFound, LeafFound, Valid
  <2> QED BY <2>2, <2>3, <2>4
<1> QED BY <1>5, <1>6

(* An access that has walked sets flags of the leaf, and leaves the tables *)
(* proper.                                                                 *)
LEMMA WalkWrites ==
    ASSUME MMU!Proper(table), NEW e \in DOMAIN table, NEW type \in MMU!Types,
           table' = [table EXCEPT ![e].flags = table[e].flags \cup MMU!ad(type)]
    PROVE  /\ MMU!Proper(table)' /\ OnlyFlags
           /\ table'[e].flags = table[e].flags \cup MMU!ad(type)
<1>1. DOMAIN table' = DOMAIN table /\ table' = [x \in DOMAIN table |-> table'[x]]
  BY Zenon DEF MMU!Proper
<1>2. \A x \in DOMAIN table : x # e => table'[x] = table[x]
  BY DEF MMU!Proper
<1>3. table'[e] = [flags |-> table[e].flags \cup MMU!ad(type), ppn |-> table[e].ppn]
  <2>1. table[e] = [flags |-> table[e].flags, ppn |-> table[e].ppn]
    BY DEF MMU!Proper
  <2>2. table'[e] = [table[e] EXCEPT !.flags = table[e].flags \cup MMU!ad(type)]
    BY DEF MMU!Proper
  <2> QED BY <2>1, <2>2
<1>4. OnlyFlags
  <2>1. MMU!ad(type) \subseteq {"A", "D"}
    BY DEF MMU!ad
  <2>2. ASSUME NEW x \in DOMAIN table
        PROVE  /\ table'[x].ppn = table[x].ppn
               /\ table[x].flags \subseteq table'[x].flags
               /\ table'[x].flags \subseteq table[x].flags \cup {"A", "D"}
    <3>1. CASE x = e
      <4>1. table'[e].ppn = table[e].ppn
            /\ table'[e].flags = table[e].flags \cup MMU!ad(type)
        BY <1>3
      <4> QED BY <2>1, <3>1, <4>1
    <3>2. CASE x # e
      BY <1>2, <3>2
    <3> QED BY <3>1, <3>2
  <2> QED BY <1>1, <2>2 DEF OnlyFlags
<1>5. MMU!Proper(table)'
  <2>1. \A x \in DOMAIN table : /\ table'[x] = [flags |-> table'[x].flags, ppn |-> table'[x].ppn]
                                /\ table'[x].ppn \in Nat
    BY <1>2, <1>3, ZenonT(30) DEF MMU!Proper
  <2>2. \A i \in MMU!Indices : <<Root, i>> \in DOMAIN table
    BY DEF MMU!Proper
  <2>3. \A x \in DOMAIN table : MMU!decode(x[1]) # 0
    BY DEF MMU!Proper
  <2> QED BY <1>1, <2>1, <2>2, <2>3, Zenon DEF MMU!Proper
<1> QED BY <1>3, <1>4, <1>5

(* What CacheInv reads.                                                    *)
LEMMA UnchangedKeeps ==
    ASSUME CacheInv, UNCHANGED <<table, tlb, sum, mxr, stored>> PROVE CacheInv'
<1>1. MMU!Proper(table) /\ MMU!Proper(table)' /\ OnlyFlags
  BY SMTT(30) DEF CacheInv, MMU!Proper, OnlyFlags
<1>2. \A x \in MMU!VPages :
         /\ MMU!Leaves(x)' = MMU!Leaves(x)
         /\ \A t \in MMU!Types, n \in MMU!Modes : MMU!Pages(x, t, n)' = MMU!Pages(x, t, n)
  BY <1>1, TranslationsKept
<1>3. \A x \in MMU!VPages, t \in MMU!Types, n \in MMU!Modes :
         MMU!Cached(x, t, n)' <=> MMU!Cached(x, t, n)
  BY DEF MMU!Cached
<1>4. \A x \in stored : x[1] \in MMU!VPages
  BY DEF CacheInv
<1> QED BY <1>1, <1>2, <1>3, <1>4 DEF CacheInv

(* Every access keeps the TLB and the dirty flags right.                   *)
LEMMA AccessKeeps ==
    ASSUME MMUConstants, CacheInv, UNCHANGED <<sum, mxr>>,
           NEW v \in MMU!VPages, NEW type \in MMU!Types, NEW prv, NEW mprv, NEW mpp,
           MMU!effective_mode(type, prv, mprv, mpp) \in MMU!Modes \cup {"M"},
           MMU!v2p(v, type, prv, mprv, mpp)
    PROVE  CacheInv'
<1> DEFINE m == MMU!effective_mode(type, prv, mprv, mpp)
           r == MMU!translate_virtual_to_physical_addr(v, type, prv, mprv, mpp)
           w == MMU!walk(v, type, m)
           translated == ~bare /\ m # "M" /\ r.cause = "none"
           walked == translated /\ ~MMU!Cached(v, type, m)
<1>1. /\ table' = IF walked THEN [table EXCEPT ![r.entry].flags = r.flags] ELSE table
      /\ tlb' = IF walked
                THEN [tlb EXCEPT ![MMU!slot(v, type, m)] =
                         [vpn |-> MMU!vpn(v), ppn |-> r.page % MMU!PhysicalPages]]
                ELSE tlb
      /\ stored' = IF translated /\ type = "STORE" THEN stored \cup {<<v, m>>} ELSE stored
  BY Zenon DEF MMU!v2p
<1>2. walked => r = w
  BY Zenon DEF MMU!translate_virtual_to_physical_addr, MMU!translate
<1>3. translated => m \in MMU!Modes
  OBVIOUS
<1> HIDE DEF m, r, w
<1>4. CASE ~walked
  <2>1. UNCHANGED <<table, tlb, sum, mxr>>
    BY <1>1, <1>4
  <2>2. stored' = stored
    BY <1>1, <1>3, <1>4, SMTT(30) DEF CacheInv
  <2> QED BY <2>1, <2>2, UnchangedKeeps
<1>5. CASE walked
  <2> DEFINE e == w.entry
             home == MMU!slot(v, type, m)
  <2>1. m \in MMU!Modes /\ r = w /\ w.cause = "none" /\ MMU!Proper(table)
    BY <1>2, <1>3, <1>5, Zenon DEF CacheInv
  <2>2. /\ MMU!Pages(v, type, m) = {w.page}
        /\ e \in DOMAIN table
        /\ w.flags = table[e].flags \cup MMU!ad(type)
        /\ \A l \in MMU!Leaves(v) : l.entry = e
    BY <2>1, WalkExact, Zenon DEF w
  <2>3. table' = [table EXCEPT ![e].flags = table[e].flags \cup MMU!ad(type)]
    BY <1>1, <1>5, <2>1, <2>2
  <2> HIDE DEF e
  <2>4. MMU!Proper(table)' /\ OnlyFlags /\ table'[e].flags = table[e].flags \cup MMU!ad(type)
    BY <2>1, <2>2, <2>3, WalkWrites, Zenon
  <2>5. tlb' = [tlb EXCEPT ![home] = [vpn |-> MMU!vpn(v), ppn |-> w.page % MMU!PhysicalPages]]
    BY <1>1, <1>5, <2>1
  <2>6. stored' = IF type = "STORE" THEN stored \cup {<<v, m>>} ELSE stored
    BY <1>1, <1>5
  <2>7. home \in Slots /\ DOMAIN tlb = Slots /\ DOMAIN tlb' = Slots
    BY <2>1, <2>5, SlotsExist, Zenon DEF CacheInv
  <2>8. \A x \in MMU!VPages :
           /\ MMU!Leaves(x)' = MMU!Leaves(x)
           /\ \A l \in MMU!Leaves(x) : l.entry \in DOMAIN table
           /\ \A t \in MMU!Types, n \in MMU!Modes : MMU!Pages(x, t, n)' = MMU!Pages(x, t, n)
    BY <2>1, <2>4, TranslationsKept, Zenon
  <2>9. ASSUME NEW x \in MMU!VPages, NEW t \in MMU!Types, NEW n \in MMU!Modes,
               MMU!Cached(x, t, n)'
        PROVE  /\ InPages(tlb[MMU!slot(x, t, n)].ppn, MMU!Pages(x, t, n))'
               /\ t = "STORE" => <<x, n>> \in stored'
    <3>1. tlb'[MMU!slot(x, t, n)].vpn = MMU!vpn(x) /\ MMU!slot(x, t, n) \in Slots
      BY <2>9, SlotsExist, Zenon DEF MMU!Cached
    <3>2. CASE MMU!slot(x, t, n) = home
      <4>1. t = type /\ n = m
        BY <3>2 DEF MMU!slot
      <4>2. tlb'[MMU!slot(x, t, n)] = [vpn |-> MMU!vpn(v), ppn |-> w.page % MMU!PhysicalPages]
        BY <2>5, <2>7, <3>2, SMTT(30)
      <4>3. x = v
        BY <3>1, <4>2, PagesNumbered, SMTT(30)
      <4>4. tlb'[MMU!slot(x, t, n)].ppn = w.page % MMU!PhysicalPages
        BY <4>2
      <4>5. MMU!Pages(x, t, n)' = MMU!Pages(v, type, m)
        BY <2>8, <4>1, <4>3, Zenon
      <4>6. t = "STORE" => <<x, n>> \in stored'
        BY <2>6, <4>1, <4>3, Zenon
      <4>7. MMU!PhysicalPages' = MMU!PhysicalPages
        BY DEF MMU!PhysicalPages
      <4> QED BY <2>2, <4>4, <4>5, <4>6, <4>7, Zenon DEF InPages
    <3>3. CASE MMU!slot(x, t, n) # home
      <4>1. tlb'[MMU!slot(x, t, n)] = tlb[MMU!slot(x, t, n)]
        BY <2>5, <2>7, <3>1, <3>3
      <4>2. MMU!Cached(x, t, n)
        BY <3>1, <4>1, Zenon DEF MMU!Cached
      <4>3. /\ InPages(tlb[MMU!slot(x, t, n)].ppn, MMU!Pages(x, t, n))
            /\ t = "STORE" => <<x, n>> \in stored
        BY <4>2, Zenon DEF CacheInv
      <4>4. MMU!PhysicalPages' = MMU!PhysicalPages
        BY DEF MMU!PhysicalPages
      <4> QED BY <2>6, <2>8, <4>1, <4>3, <4>4, Zenon DEF InPages
    <3> QED BY <3>2, <3>3
  <2>10. stored' \subseteq MMU!VPages \X MMU!Modes
    <3>1. stored \subseteq MMU!VPages \X MMU!Modes
      BY Zenon DEF CacheInv
    <3>2. <<v, m>> \in MMU!VPages \X MMU!Modes
      BY <2>1, SMTT(30)
    <3> QED BY <2>6, <3>1, <3>2, Zenon
  <2>11. ASSUME NEW s \in stored', NEW l \in MMU!Leaves(s[1])'
         PROVE  {"A", "D"} \subseteq table'[l.entry].flags
    <3>1. s[1] \in MMU!VPages
      BY <2>10
    <3>2. l \in MMU!Leaves(s[1]) /\ l.entry \in DOMAIN table
      BY <2>8, <3>1
    <3>3. CASE s \in stored
      <4>1. {"A", "D"} \subseteq table[l.entry].flags
        BY <3>2, <3>3, ZenonT(30) DEF CacheInv
      <4> QED BY <2>4, <3>2, <4>1, Zenon DEF OnlyFlags
    <3>4. CASE s \notin stored
      <4>1. type = "STORE" /\ s = <<v, m>>
        BY <2>6, <3>4
      <4>2. l.entry = e
        BY <2>2, <3>2, <4>1
      <4> QED BY <2>4, <4>1, <4>2 DEF MMU!ad
    <3> QED BY <3>3, <3>4
  <2> QED BY <2>4, <2>7, <2>9, <2>10, <2>11 DEF CacheInv
<1> QED BY <1>4, <1>5

(* The accesses, in each of their contexts.                                *)
LEMMA AccessStep ==
    ASSUME MMUConstants, MMUInv,
           MMU!load_instr \/ MMU!symbolic_store_data \/ MMU!symbolic_load_data \/ MMU!debug_v2p
    PROVE  MMUInv'
<1>1. PICK v \in MMU!VPages, c0 \in MMU!Contexts, type \in MMU!Types, read \in BOOLEAN :
         MMU!Access(v, type, read, c0[1], c0[2], c0[3])
  BY Zenon DEF MMU!load_instr, MMU!symbolic_store_data, MMU!symbolic_load_data, MMU!debug_v2p, MMU!Types
<1>2. MMU!effective_mode(type, c0[1], c0[2], c0[3]) \in MMU!Modes \cup {"M"}
  <2>1. c0[1] \in {"M", "S", "U"} /\ c0[3] \in {"M", "S", "U"}
    <3>1. \/ c0 = <<"M", FALSE, "M">> \/ c0 = <<"M", TRUE, "S">> \/ c0 = <<"M", TRUE, "U">>
          \/ c0 = <<"S", FALSE, "U">> \/ c0 = <<"U", FALSE, "M">>
      BY Zenon DEF MMU!Contexts
    <3>2. \A a, b, d : c0 = <<a, b, d>> => c0[1] = a /\ c0[3] = d
      OBVIOUS
    <3>3. \/ (c0[1] = "M" /\ c0[3] = "M") \/ (c0[1] = "M" /\ c0[3] = "S")
          \/ (c0[1] = "M" /\ c0[3] = "U") \/ (c0[1] = "S" /\ c0[3] = "U")
          \/ (c0[1] = "U" /\ c0[3] = "M")
      BY <3>1, <3>2, Zenon
    <3> QED BY <3>3
  <2> QED BY <2>1 DEF MMU!effective_mode, MMU!Modes
<1>3. MMU!v2p(v, type, c0[1], c0[2], c0[3]) /\ UNCHANGED <<sum, mxr, fresh>>
  BY <1>1 DEF MMU!Access
<1>4. CacheInv => CacheInv'
  BY <1>2, <1>3, AccessKeeps
<1> QED BY <1>3, <1>4 DEF MMUInv

(* Nothing is cached in an empty TLB.                                      *)
LEMMA NothingCached ==
    ASSUME MMUConstants, tlb = MMU!flush_tlb,
           NEW v \in MMU!VPages, NEW type \in MMU!Types, NEW m \in MMU!Modes
    PROVE  ~MMU!Cached(v, type, m)
<1>1. MMU!slot(v, type, m) \in Slots /\ MMU!vpn(v) \in Nat
  BY SlotsExist
<1>2. tlb[MMU!slot(v, type, m)] = MMU!NoEntry
  BY <1>1 DEF MMU!flush_tlb, Slots
<1>3. MMU!NoEntry.vpn = -1
  BY DEF MMU!NoEntry
<1> QED BY <1>1, <1>2, <1>3 DEF MMU!Cached

(* The TLB is empty at first.                                              *)
LEMMA MMUInit == ASSUME MMUConstants, MMU!Init PROVE MMUInv
<1>1. fresh = TRUE /\ stored = {} /\ tlb = MMU!flush_tlb /\ table \in Tables
  BY DEF MMU!Init
<1>2. MMU!Proper(table)
  BY <1>1 DEF MMUConstants
<1>3. DOMAIN tlb = Slots
  BY <1>1 DEF MMU!flush_tlb, Slots
<1> QED BY <1>1, <1>2, <1>3, NothingCached DEF MMUInv, CacheInv

(* A change of mstatus can be missed only by a TLB that holds something,   *)
(* one of the tables always.                                               *)
LEMMA MMUStep == ASSUME MMUConstants, MMUInv, [MMU!Next]_(MMU!vars) PROVE MMUInv'
<1>1. CASE MMU!load_instr \/ MMU!symbolic_store_data \/ MMU!symbolic_load_data \/ MMU!debug_v2p
  BY <1>1, AccessStep
<1>2. CASE MMU!guest_writes_entry
  BY <1>2, Zenon DEF MMU!guest_writes_entry, MMUInv
<1>3. CASE UNCHANGED <<table, sum, mxr, tlb, stored, fresh>>
  BY <1>3, UnchangedKeeps DEF MMUInv
<1>4. CASE MMU!guest_enables_paging
  BY <1>3, <1>4 DEF MMU!guest_enables_paging
<1>5. CASE MMU!guest_writes_mstatus
  <2>1. /\ fresh' = (fresh /\ tlb = MMU!flush_tlb)
        /\ UNCHANGED <<table, tlb, stored>>
    BY <1>5 DEF MMU!guest_writes_mstatus
  <2>2. ASSUME fresh' PROVE CacheInv'
    <3>1. CacheInv /\ tlb' = MMU!flush_tlb
      BY <2>1, <2>2, Zenon DEF MMUInv
    <3>2. MMU!Proper(table)' /\ DOMAIN tlb' = Slots /\ stored' \subseteq MMU!VPages \X MMU!Modes
      BY <2>1, <3>1 DEF CacheInv, MMU!Proper
    <3>3. \A v \in MMU!VPages, type \in MMU!Types, m \in MMU!Modes : ~MMU!Cached(v, type, m)'
      <4>1. \A v \in MMU!VPages, type \in MMU!Types, m \in MMU!Modes : ~MMU!Cached(v, type, m)
        BY <2>1, <3>1, NothingCached
      <4> QED BY <2>1, <4>1 DEF MMU!Cached
    <3>4. ASSUME NEW x PROVE MMU!Leaves(x)' = MMU!Leaves(x)
      <4>1. table' = table
        BY <2>1
      <4> QED BY <4>1, Zenon DEF MMU!Leaves
    <3>5. \A x \in stored' : \A l \in MMU!Leaves(x[1])' : {"A", "D"} \subseteq table'[l.entry].flags
      BY <2>1, <3>1, <3>4, Zenon DEF CacheInv
    <3> QED BY <3>2, <3>3, <3>5 DEF CacheInv
  <2> QED BY <2>1, <2>2 DEF MMUInv
<1> QED BY <1>1, <1>2, <1>3, <1>4, <1>5 DEF MMU!Next, MMU!vars

(* Every translation of the MMU is the one Sv32 defines, and pages stored  *)
(* to are dirty: TranslationSound of VirtualMemory, for tables, TLBs and   *)
(* ports of any size, and whatever is accessed in which mode and order.    *)
THEOREM TranslationAlwaysSound ==
    ASSUME MMUConstants PROVE MMU!Spec => []MMU!TranslationSound
<1>1. MMU!Init => MMUInv
  BY MMUInit
<1>2. MMUInv /\ [MMU!Next]_(MMU!vars) => MMUInv'
  BY MMUStep
<1>3. MMUInv => MMU!TranslationSound
  <2> SUFFICES ASSUME MMUInv, fresh PROVE MMU!TranslationExact /\ MMU!DirtyTracked
    BY DEF MMU!TranslationSound, MMU!TranslationExact, MMU!DirtyTracked
  <2>1. CacheInv
    BY DEF MMUInv
  <2>2. MMU!DirtyTracked
    BY <2>1, Zenon DEF CacheInv, MMU!DirtyTracked
  <2>3. ASSUME NEW v \in MMU!VPages, NEW type \in MMU!Types, NEW m \in MMU!Modes
        PROVE  MMU!Exact(v, type, m)
    <3> DEFINE r == MMU!translate(v, type, m)
    <3>1. CASE MMU!Cached(v, type, m)
      <4>1. InPages(tlb[MMU!slot(v, type, m)].ppn, MMU!Pages(v, type, m))
        BY <2>1, <3>1, Zenon DEF CacheInv
      <4>2. r.cause = "none" /\ r.page = tlb[MMU!slot(v, type, m)].ppn
        BY <3>1, Zenon DEF MMU!translate
      <4> QED BY <3>1, <4>1, <4>2, Zenon DEF MMU!Exact, InPages
    <3>2. CASE ~MMU!Cached(v, type, m)
      <4>1. r = MMU!walk(v, type, m)
        BY <3>2 DEF MMU!translate
      <4>2. MMU!Proper(table)
        BY <2>1, Zenon DEF CacheInv
      <4>3. /\ r.cause # "none" => MMU!Pages(v, type, m) = {}
            /\ r.cause = "none" => MMU!Pages(v, type, m) = {r.page}
        BY <4>1, <4>2, WalkExact, Zenon
      <4> QED BY <3>2, <4>3, Zenon DEF MMU!Exact
    <3> QED BY <3>1, <3>2
  <2> QED BY <2>2, <2>3 DEF MMU!TranslationExact
<1> QED BY <1>1, <1>2, <1>3, PTL DEF MMU!Spec
=============================================================================
