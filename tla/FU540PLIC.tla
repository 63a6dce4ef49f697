----------------------------- MODULE FU540PLIC ------------------------------
(***************************************************************************)
(* The interrupt controller of the FU540 (platform/common/fu540_plic.cpp): *)
(* several harts, each with machine and (except hart 0) supervisor         *)
(* interrupts, over registers routed by util/memory_map.h.                 *)
(***************************************************************************)
EXTENDS Integers, FiniteSets

CONSTANTS NHarts, NUMIRQ, MAX_PRIO, MAX_THR,
          Words,         \* what the guest writes to a priority or threshold
          MaxTriggers, MaxWrites

Harts == 0..(NHarts - 1)
Irqs == 1..NUMIRQ
Levels(h) == IF h = 0 THEN {"M"} ELSE {"M", "S"}
Contexts == {c \in Harts \X {"M", "S"} : c[2] \in Levels(c[1])}

VARIABLES prios,         \* interrupt_priorities: the words of the range at 0x4
          pending, enabled, threshold,
          e_run,
          eip,           \* the external interrupts raised at the harts
          aborted,       \* an assertion has failed
          owed,          \* history: triggers of an interrupt not claimed yet
          writes, triggers

vars == <<prios, pending, enabled, threshold, e_run, eip, aborted, owed, writes,
          triggers>>

Init ==
    /\ prios = [i \in 0..(NUMIRQ - 1) |-> 0] /\ pending = {}
    /\ enabled = [c \in Contexts |-> {}] /\ threshold = [c \in Contexts |-> 0]
    /\ e_run = FALSE /\ eip = [h \in Harts |-> {}] /\ aborted = FALSE
    /\ owed = {} /\ writes = 0 /\ triggers = 0

Min2(a, b) == IF a < b THEN a ELSE b

-----------------------------------------------------------------------------
(* The registers.  The priority of interrupt i is the word at address 4*i  *)
(* of a range that starts at 4, its word i - 1.                            *)

Access == ~aborted /\ writes < MaxWrites /\ writes' = writes + 1

write_irq_prios ==
    /\ Access
    /\ \E i \in Irqs, w \in Words :
          prios' = [prios EXCEPT ![i - 1] = Min2(w, MAX_PRIO)]
    /\ UNCHANGED <<pending, enabled, threshold, e_run, eip, aborted, owed, triggers>>

write_enabled ==
    /\ Access
    /\ \E c \in Contexts, s \in SUBSET Irqs : enabled' = [enabled EXCEPT ![c] = s]
    /\ UNCHANGED <<prios, pending, threshold, e_run, eip, aborted, owed, triggers>>

write_threshold ==
    /\ Access
    /\ \E c \in Contexts, w \in Words :
          threshold' = [threshold EXCEPT ![c] = Min2(w, MAX_THR)]
    /\ UNCHANGED <<prios, pending, enabled, e_run, eip, aborted, owed, triggers>>

(* A write to the claim register completes.                                *)
write_hartctx ==
    /\ ~aborted
    /\ \E c \in Contexts : eip' = [eip EXCEPT ![c[1]] = @ \ {c[2]}]
    /\ UNCHANGED <<prios, pending, enabled, threshold, e_run, aborted, owed, writes,
                   triggers>>

gateway_trigger_interrupt ==
    /\ ~aborted /\ triggers < MaxTriggers /\ triggers' = triggers + 1
    /\ \E irq \in Irqs : pending' = pending \cup {irq} /\ owed' = owed \cup {irq}
    /\ e_run' = TRUE
    /\ UNCHANGED <<prios, enabled, threshold, eip, aborted, writes>>

-----------------------------------------------------------------------------
(* next_pending_irq reads interrupt_priorities[irq]; there is no such word *)
(* for the last interrupt, where ArrayView's assertion fails.              *)

Candidates(c, ignth) ==
    {irq \in enabled[c] \cap pending :
        irq < NUMIRQ /\ (ignth \/ prios[irq] >= threshold[c])}

OutOfRange(c) == NUMIRQ \in enabled[c] \cap pending

next_pending_irq(c, ignth) ==
    LET some == {irq \in Candidates(c, ignth) : prios[irq] > 0} IN
    IF some = {} THEN 0
    ELSE CHOOSE irq \in some : \A j \in some :
            prios[irq] > prios[j] \/ (prios[irq] = prios[j] /\ irq <= j)

(* has_pending_irq: the supervisor's interrupts first.                     *)
Raises(h) ==
    IF h # 0 /\ next_pending_irq(<<h, "S">>, FALSE) > 0 THEN {"S"}
    ELSE IF next_pending_irq(<<h, "M">>, FALSE) > 0 THEN {"M"} ELSE {}

RunAsserts == \E c \in Contexts : OutOfRange(c) /\ (c[2] = "M" /\ c[1] # 0
                                                    => Raises(c[1]) # {"S"})

run ==
    /\ ~aborted /\ e_run /\ e_run' = FALSE
    /\ IF RunAsserts THEN aborted' = TRUE /\ UNCHANGED eip
       ELSE eip' = [h \in Harts |-> eip[h] \cup Raises(h)] /\ UNCHANGED aborted
    /\ UNCHANGED <<prios, pending, enabled, threshold, owed, writes, triggers>>

(* read_hartctx at the claim register, which the guest may read at any     *)
(* time; clear_pending follows.  A claim that no trigger explains leaves 0 *)
(* in owed.                                                                *)
Claim(irq) ==
    owed' = IF irq = 0 THEN owed ELSE IF irq \in owed THEN owed \ {irq} ELSE {0}

(* Mutant: the claim leaves the interrupt pending.                         *)
read_hartctx_keeps ==
    /\ ~aborted
    /\ \E c \in Contexts :
          IF OutOfRange(c) THEN aborted' = TRUE /\ UNCHANGED owed
          ELSE Claim(next_pending_irq(c, TRUE)) /\ UNCHANGED aborted
    /\ UNCHANGED <<prios, enabled, threshold, e_run, eip, writes, triggers, pending>>

read_hartctx ==
    /\ ~aborted
    /\ \E c \in Contexts :
          IF OutOfRange(c) THEN aborted' = TRUE /\ UNCHANGED <<pending, owed>>
          ELSE /\ Claim(next_pending_irq(c, TRUE))
               /\ pending' = pending \ {next_pending_irq(c, TRUE)}
               /\ UNCHANGED aborted
    /\ UNCHANGED <<prios, enabled, threshold, e_run, eip, writes, triggers>>

Next == \/ write_irq_prios \/ write_enabled \/ write_threshold \/ write_hartctx
        \/ gateway_trigger_interrupt \/ run \/ read_hartctx

Spec == Init /\ [][Next]_vars

-----------------------------------------------------------------------------
(* "successful claim also clears the pending bit": of all harts that see   *)
(* an interrupt pending, one claims it, and no hart claims it again before *)
(* the device has triggered it again.                                      *)
ClaimedOnce == 0 \notin owed
=============================================================================
