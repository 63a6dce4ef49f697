------------------------------- MODULE CLINT -------------------------------
(***************************************************************************)
(* The core local interrupt controller of the symex and test platforms     *)
(* (core/common/clint.h), driven by simulated time.                        *)
(*                                                                         *)
(* Harts are decoupled from the kernel's time: a hart that runs at now has *)
(* advanced by offset (at most the global quantum) before it synchronises. *)
(* Its accesses carry that offset, so the controller sees a clock that is  *)
(* ahead of the kernel's.  64-bit registers are written in halves of the   *)
(* base Base, as a 32-bit guest has to.                                    *)
(***************************************************************************)
EXTENDS Integers, Sequences, FiniteSetsExt

CONSTANTS Cores,
          scaler,     \* kernel time units per tick of mtime
          Base,       \* number of values of half a register
          Quantum,    \* bound on the offset of a hart
          MaxTime,    \* bound on the kernel's time
          Never       \* irq_event is not notified

ASSUME ConstantsAssumption ==
    /\ Cores # {} /\ scaler \in Nat \ {0} /\ Base \in Nat \ {0, 1}
    /\ Quantum \in Nat /\ MaxTime \in Nat
    /\ Never \notin Nat

VARIABLES now,       \* the kernel's time
          offset,    \* local time of each hart beyond now
          wake,      \* when each hart continues
          mtime, mtimecmp, msip,
          irq_event, \* when the event fires, or Never
          mtip,      \* the timer interrupt bit of each hart
          sip,       \* and its software interrupt bit
          todo,      \* the writes a hart has still to do to set mtimecmp
          careful,   \* whether it writes them as clint.h recommends
          old,       \* history: the comparand before the one being set
          written    \* history: local time of the last write to mtimecmp

vars == <<now, offset, wake, mtime, mtimecmp, msip, irq_event, mtip, sip, todo, careful,
          old, written>>

UINT_MAX == Base * Base - 1
Comparand(w) == w.hi * Base + w.lo

(* sc_event::notify(delay): of two outstanding notifications the earlier   *)
(* one remains.                                                            *)
notify(pending, t) == IF pending = Never \/ t < pending THEN t ELSE pending

-----------------------------------------------------------------------------
Init ==
    /\ now = 0 /\ mtime = 0 /\ irq_event = Never
    /\ offset = [i \in Cores |-> 0] /\ wake = [i \in Cores |-> 0]
    /\ mtimecmp = [i \in Cores |-> [hi |-> 0, lo |-> 0]]
    /\ msip = [i \in Cores |-> 0] /\ sip = [i \in Cores |-> FALSE]
    /\ mtip = [i \in Cores |-> FALSE]
    /\ todo = [i \in Cores |-> << >>] /\ old = [i \in Cores |-> 0]
    /\ careful = [i \in Cores |-> FALSE]
    /\ written = [i \in Cores |-> 0]

Runs(i) == wake[i] = now

(* A hart executes for a while, or gives its offset back to the kernel.    *)
Execute(i) ==
    /\ Runs(i) /\ offset[i] < Quantum
    /\ offset' = [offset EXCEPT ![i] = @ + 1]
    /\ UNCHANGED <<now, wake, mtime, mtimecmp, msip, irq_event, mtip, sip, todo, careful,
                   old, written>>

Sync(i) ==
    /\ Runs(i) /\ offset[i] > 0
    /\ wake' = [wake EXCEPT ![i] = now + offset[i]]
    /\ offset' = [offset EXCEPT ![i] = 0]
    /\ UNCHANGED <<now, mtime, mtimecmp, msip, irq_event, mtip, sip, todo, careful,
                   old, written>>

(* Mutant: an access counts its offset twice.                              *)
pre_read_twice(i) ==
    /\ Runs(i)
    /\ mtime' = (now + 2 * offset[i]) \div scaler
    /\ UNCHANGED <<now, offset, wake, mtimecmp, msip, irq_event, mtip, sip, todo, careful,
                   old, written>>

pre_read_mtime(i) ==
    /\ Runs(i)
    /\ mtime' = (now + offset[i]) \div scaler
    /\ UNCHANGED <<now, offset, wake, mtimecmp, msip, irq_event, mtip, sip, todo, careful,
                   old, written>>

(* Mutant: the low half is written before the high one.                    *)
WritesLowFirst(v) ==
    <<[half |-> "lo", val |-> v.lo], [half |-> "hi", val |-> v.hi]>>

(* The writes by which a guest sets a comparand; the recommended sequence  *)
(* first makes the low half as large as it can be.                         *)
WritesNaive(v) ==
    <<[half |-> "hi", val |-> v.hi], [half |-> "lo", val |-> v.lo]>>

Writes(v) == <<[half |-> "lo", val |-> Base - 1]>> \o WritesNaive(v)

SetComparand(i) ==
    /\ Runs(i) /\ todo[i] = << >>
    /\ \E h, l \in 0..(Base - 1), follows \in BOOLEAN :
          LET v == [hi |-> h, lo |-> l]
          IN  /\ h # 0 \/ l # 0
              /\ todo' = [todo EXCEPT ![i] = IF follows THEN Writes(v) ELSE WritesNaive(v)]
              /\ careful' = [careful EXCEPT ![i] = follows]
    /\ old' = [old EXCEPT ![i] = Comparand(mtimecmp[i])]
    /\ UNCHANGED <<now, offset, wake, mtime, mtimecmp, msip, irq_event, mtip, sip, written>>

post_write_mtimecmp(i) ==
    /\ Runs(i) /\ todo[i] # << >>
    /\ LET w == Head(todo[i])
       IN  mtimecmp' = [mtimecmp EXCEPT ![i] = [@ EXCEPT ![w.half] = w.val]]
    /\ irq_event' = notify(irq_event, now + offset[i])
    /\ written' = [written EXCEPT ![i] = now + offset[i]]
    /\ todo' = [todo EXCEPT ![i] = Tail(@)]
    /\ UNCHANGED <<now, offset, wake, mtime, msip, mtip, sip, careful, old>>

post_write_msip(i) ==
    /\ Runs(i)
    /\ \E v \in 0..3 : msip' = [msip EXCEPT ![i] = v % 2]
    /\ sip' = [sip EXCEPT ![i] = msip'[i] # 0]
    /\ UNCHANGED <<now, offset, wake, mtime, mtimecmp, irq_event, mtip, todo, careful,
                   old, written>>

-----------------------------------------------------------------------------
update_and_get_mtime == Max({mtime, now \div scaler})

Due(cmp, m) == cmp > 0 /\ m >= cmp

(* The thread run, woken by irq_event: the timer interrupt of every hart   *)
(* is set or unset, and the event armed for those that are not due.        *)
run ==
    /\ irq_event = now
    /\ mtime' = update_and_get_mtime
    /\ mtip' = [i \in Cores |-> Due(Comparand(mtimecmp[i]), mtime')]
    /\ LET armed == {c \in {Comparand(mtimecmp[i]) : i \in Cores} :
                        c > 0 /\ c < UINT_MAX /\ ~Due(c, mtime')}
       IN  irq_event' = IF armed = {} THEN Never
                        ELSE now + (Min(armed) - mtime') * scaler
    /\ UNCHANGED <<now, offset, wake, mtimecmp, msip, sip, todo, careful,
                   old, written>>

(* The kernel's time passes when no process can run.                       *)
Elapse ==
    /\ now < MaxTime
    /\ \A i \in Cores : wake[i] > now
    /\ irq_event # Never => irq_event > now
    /\ now' = Min({wake[i] : i \in Cores} \cup ({irq_event} \ {Never}))
    /\ UNCHANGED <<offset, wake, mtime, mtimecmp, msip, irq_event, mtip, sip, todo, careful,
                   old, written>>

Next ==
    \/ run \/ Elapse
    \/ \E i \in Cores :
          \/ Execute(i) \/ Sync(i) \/ pre_read_mtime(i) \/ SetComparand(i)
          \/ post_write_mtimecmp(i) \/ post_write_msip(i)

Spec == Init /\ [][Next]_vars

-----------------------------------------------------------------------------
(* The registers and clocks have their types.                              *)
TypeOK ==
    /\ now \in Nat /\ mtime \in Nat /\ irq_event \in Nat \cup {Never}
    /\ \A i \in Cores :
          /\ offset[i] \in 0..Quantum /\ wake[i] \in Nat /\ msip[i] \in 0..1
          /\ mtimecmp[i].hi \in 0..(Base - 1) /\ mtimecmp[i].lo \in 0..(Base - 1)
          /\ mtip[i] \in BOOLEAN /\ sip[i] = (msip[i] = 1)

(* No timer interrupt is lost or late: as long as the interrupt of a hart  *)
(* with a comparand is not set, irq_event fires less than a tick after the *)
(* comparand is reached, or when the write that set it takes effect.       *)
TimerNotLate ==
    \A i \in Cores :
        LET c == Comparand(mtimecmp[i])
        IN  c > 0 /\ c < UINT_MAX /\ ~mtip[i] =>
                /\ irq_event # Never /\ irq_event >= now
                /\ irq_event <= Max({written[i], c * scaler + scaler - 1})

(* No timer interrupt is early: one that is set belongs to a comparand     *)
(* mtime has reached, unless a write to mtimecmp has yet to take effect,   *)
(* and mtime is ahead of the kernel's time by a quantum at most.           *)
TimerNotEarly ==
    /\ mtime * scaler <= now + Quantum
    /\ \A i \in Cores :
          mtip[i] /\ ~Due(Comparand(mtimecmp[i]), mtime) =>
              irq_event # Never /\ irq_event <= written[i]

(* The sequence that clint.h recommends for writing mtimecmp never sets an *)
(* interrupt that neither the old nor the new comparand calls for (the old *)
(* comparand 0, which the controller takes for none, counts as reached).   *)
NoSpuriousTimer ==
    [][\A i \in Cores :
          careful[i] /\ ~mtip[i] /\ mtip'[i] =>
              \/ todo[i] = << >>
              \/ mtime' >= old[i]
              \/ LET hi == IF Len(todo[i]) = 1 THEN mtimecmp[i].hi
                           ELSE todo[i][Len(todo[i]) - 1].val
                 IN  Due(hi * Base + todo[i][Len(todo[i])].val, mtime')]_vars

(* The timer interrupt comes neither late nor early.                       *)
TimerOnTime == TimerNotLate /\ TimerNotEarly
=============================================================================
