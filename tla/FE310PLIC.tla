----------------------------- MODULE FE310PLIC -----------------------------
(***************************************************************************)
(* The platform-level interrupt controller of the HiFive platform          *)
(* (platform/common/fe310_plic.h), in the one-hart instance the platform   *)
(* uses, together with the hart's MEIP bit and the guest that programs the *)
(* controller, takes the interrupt, claims and completes.                  *)
(*                                                                         *)
(* Peripherals call gateway_trigger_interrupt; the controller's thread run *)
(* wakes up a clock cycle later.  In between, the guest may access the     *)
(* registers: the thread of the hart runs ahead of simulated time.         *)
(***************************************************************************)
EXTENDS Naturals, FiniteSets

CONSTANTS Irqs,         \* the interrupt ids, 0 is not one of them
          MaxPriority,  \* template parameter MaxPriority
          Written,      \* what the guest writes to a priority or threshold
          MaxTriggers,  \* bound on the calls of gateway_trigger_interrupt
          MaxWrites,    \* bound on the writes to the configuration
          GuestPolls    \* the guest also claims without having been interrupted

ASSUME ConstantsAssumption ==
    /\ Irqs \subseteq Nat \ {0} /\ IsFiniteSet(Irqs)
    /\ MaxPriority \in Nat \ {0}
    /\ Written \subseteq Nat
    /\ MaxTriggers \in Nat /\ MaxWrites \in Nat
    /\ GuestPolls \in BOOLEAN

VARIABLES interrupt_priorities, pending_interrupts, hart_enabled_interrupts,
          priority_threshold, claim_response,
          hart_eip,     \* the controller's record of having signalled the hart
          e_run,        \* a notification of e_run is outstanding
          meip,         \* csrs.mip.meip of the hart
          handler,      \* where the guest is: in its main program, about to
                        \* claim, or between claim and completion
          aborted,      \* the assertion of post_write_hart_config has failed
          missed,       \* history: a register write made an interrupt
                        \* deliverable, and nothing will look at it
          triggers, writes

regVars == <<interrupt_priorities, hart_enabled_interrupts, priority_threshold>>
vars == <<regVars, pending_interrupts, claim_response, hart_eip, e_run, meip,
          handler, aborted, missed, triggers, writes>>

Minimum(a, b) == IF a <= b THEN a ELSE b

(* What the loop of hart_get_next_pending_interrupt lets through.          *)
Eligible(consider_threshold) ==
    {i \in hart_enabled_interrupts \cap pending_interrupts :
        /\ interrupt_priorities[i] > 0
        /\ consider_threshold => interrupt_priorities[i] > priority_threshold}

(* The smallest id of the highest priority, zero when there is none.       *)
hart_get_next_pending_interrupt(consider_threshold) ==
    LET S == Eligible(consider_threshold)
    IN  IF S = {} THEN 0
        ELSE CHOOSE i \in S : \A j \in S :
               \/ interrupt_priorities[j] < interrupt_priorities[i]
               \/ interrupt_priorities[j] = interrupt_priorities[i] /\ i <= j

hart_has_pending_enabled_interrupts == hart_get_next_pending_interrupt(TRUE) > 0

Init ==
    /\ interrupt_priorities = [i \in Irqs |-> 1]
    /\ pending_interrupts = {} /\ hart_enabled_interrupts = {}
    /\ priority_threshold = 0 /\ claim_response = 0
    /\ hart_eip = FALSE /\ e_run = FALSE /\ meip = FALSE
    /\ handler = "main" /\ aborted = FALSE /\ missed = FALSE
    /\ triggers = 0 /\ writes = 0

gateway_trigger_interrupt(irq_id) ==
    /\ ~aborted /\ triggers < MaxTriggers
    /\ pending_interrupts' = pending_interrupts \cup {irq_id}
    /\ e_run' = TRUE
    /\ triggers' = triggers + 1
    /\ UNCHANGED <<regVars, claim_response, hart_eip, meip, handler, aborted,
                   missed, writes>>

(* The body of the thread run: signal the hart unless it is signalled.     *)
run ==
    /\ ~aborted /\ e_run
    /\ e_run' = FALSE
    /\ LET signal == ~hart_eip /\ hart_has_pending_enabled_interrupts
       IN  /\ hart_eip' = (hart_eip \/ signal)
           /\ meip' = (meip \/ signal)
    /\ missed' = FALSE
    /\ UNCHANGED <<regVars, pending_interrupts, claim_response, handler, aborted,
                   triggers, writes>>

(* The guest programs the controller.  A write notifies nobody.            *)
Configure ==
    /\ ~aborted /\ writes < MaxWrites
    /\ writes' = writes + 1
    /\ \/ \E i \in Irqs, v \in Written :
            /\ interrupt_priorities' =
                 [interrupt_priorities EXCEPT ![i] = Minimum(v, MaxPriority)]
            /\ UNCHANGED <<hart_enabled_interrupts, priority_threshold>>
       \/ \E i \in Irqs :
            /\ hart_enabled_interrupts' \in {hart_enabled_interrupts \cup {i},
                                             hart_enabled_interrupts \ {i}}
            /\ UNCHANGED <<interrupt_priorities, priority_threshold>>
       \/ \E v \in Written :
            /\ priority_threshold' = v
            /\ UNCHANGED <<interrupt_priorities, hart_enabled_interrupts>>
    /\ UNCHANGED <<pending_interrupts, claim_response, hart_eip, e_run, meip,
                   handler, aborted, triggers>>
    /\ missed' = /\ Eligible(TRUE)' # {}
                 /\ missed \/ (Eligible(TRUE) = {} /\ ~hart_eip /\ ~e_run)

(* The hart takes the external interrupt, or the guest decides to poll.    *)
EnterHandler ==
    /\ ~aborted /\ handler = "main"
    /\ meip \/ GuestPolls
    /\ handler' = "claim"
    /\ UNCHANGED <<regVars, pending_interrupts, claim_response, hart_eip, e_run,
                   meip, aborted, missed, triggers, writes>>

(* Mutant: the claim leaves the interrupt pending.                         *)
ClaimKeepsPending ==
    /\ ~aborted /\ handler = "claim"
    /\ claim_response' = hart_get_next_pending_interrupt(FALSE)
    /\ handler' = "complete"
    /\ UNCHANGED <<regVars, pending_interrupts, hart_eip, e_run, meip, aborted,
                   missed, triggers, writes>>

(* pre_read_hart_config, on a read of the claim register: the threshold is *)
(* not considered.                                                         *)
Claim ==
    /\ ~aborted /\ handler = "claim"
    /\ LET min_id == hart_get_next_pending_interrupt(FALSE)
       IN  /\ claim_response' = min_id
           /\ pending_interrupts' = pending_interrupts \ {min_id}
    /\ handler' = "complete"
    /\ UNCHANGED <<regVars, hart_eip, e_run, meip, aborted, missed, triggers, writes>>

(* Mutant: a completion always withdraws the signal.                       *)
CompleteClears ==
    /\ ~aborted /\ handler = "complete"
    /\ handler' = "main" /\ hart_eip' = FALSE /\ meip' = FALSE
    /\ UNCHANGED <<regVars, pending_interrupts, claim_response, e_run, aborted,
                   missed, triggers, writes>>

(* post_write_hart_config, on a write of the claimed id to the register.   *)
Complete ==
    /\ ~aborted /\ handler = "complete"
    /\ handler' = "main"
    /\ IF hart_has_pending_enabled_interrupts
       THEN /\ aborted' = ~hart_eip
            /\ meip' = (meip \/ hart_eip)
            /\ UNCHANGED hart_eip
       ELSE /\ hart_eip' = FALSE /\ meip' = FALSE
            /\ UNCHANGED aborted
    /\ UNCHANGED <<regVars, pending_interrupts, claim_response, e_run, missed,
                   triggers, writes>>

Next == \/ \E irq_id \in Irqs : gateway_trigger_interrupt(irq_id)
        \/ run \/ Configure \/ EnterHandler \/ Claim \/ Complete

(* The SystemC kernel delivers notifications; an interrupted guest goes    *)
(* through its handler.                                                    *)
Spec == /\ Init /\ [][Next]_vars
        /\ WF_vars(run)
        /\ WF_vars(meip /\ EnterHandler) /\ WF_vars(Claim) /\ WF_vars(Complete)

-----------------------------------------------------------------------------
(* The types of the registers and of the state around them.                *)
TypeOK ==
    /\ interrupt_priorities \in [Irqs -> 0..MaxPriority]
    /\ pending_interrupts \subseteq Irqs /\ hart_enabled_interrupts \subseteq Irqs
    /\ priority_threshold \in Nat /\ claim_response \in Irqs \cup {0}
    /\ hart_eip \in BOOLEAN /\ e_run \in BOOLEAN /\ meip \in BOOLEAN
    /\ handler \in {"main", "claim", "complete"}
    /\ aborted \in BOOLEAN /\ missed \in BOOLEAN
    /\ triggers \in 0..MaxTriggers /\ writes \in 0..MaxWrites

(* The controller and the hart agree on whether the interrupt is signalled *)
(* (hart_eip against csrs.mip.meip, which MIP_WRITE_MASK keeps from the    *)
(* guest): trigger_external_interrupt and clear_external_interrupt are     *)
(* called exactly where hart_eip changes.                                  *)
EipMatchesHart == ~aborted => hart_eip = meip

(* No interrupt is lost: when one could be delivered, the hart has been    *)
(* signalled or run is going to look at it, whatever mix of triggers,      *)
(* claims and completions led there.  The exception the code makes: a      *)
(* write to an enable, priority or threshold register that makes a pending *)
(* interrupt deliverable does not notify e_run.                            *)
NoInterruptLost == Eligible(TRUE) # {} => hart_eip \/ e_run \/ missed

(* assert(hart_eip[idx]) in post_write_hart_config: a completion that      *)
(* finds another interrupt pending finds the hart still signalled.         *)
CompletionAssertion == ~aborted

(* Every deliverable interrupt is claimed in the end, or made undeliverable *)
(* by the guest, although others of higher priority may come first.        *)
DeliverableIsServed ==
    \A i \in Irqs : (i \in Eligible(TRUE) /\ ~missed) ~>
                      (i \notin Eligible(TRUE) \/ missed)

(* What makes the assertion hold for a guest that claims only when it has  *)
(* been interrupted: the signal stands until the completion.               *)
SignalledInHandler ==
    ~GuestPolls => ~aborted /\ (handler # "main" => hart_eip)
=============================================================================
