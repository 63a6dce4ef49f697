----------------------------- MODULE RealCLINT -----------------------------
(***************************************************************************)
(* The core local interrupt controller of the HiFive platform, driven by   *)
(* the host's clock (core/common/real_clint.cpp), and the threads of its   *)
(* Timer (timer.cpp).  One hart, as on that platform.                      *)
(*                                                                         *)
(* The SystemC thread executes the write of mtimecmp, which stops the      *)
(* timer's thread and starts another, and the method interrupt; the timer  *)
(* thread sleeps in pieces of at most US_MAX and then notifies an event.   *)
(* clock counts the microseconds since first_mtime.                        *)
(***************************************************************************)
EXTENDS Naturals

CONSTANTS DIVIDEND,    \* microseconds per tick
          US_MAX,      \* the longest piece of sleep
          Comparands,  \* what the guest writes to mtimecmp
          MaxClock,    \* bound on the clock
          MaxWrites    \* bound on the writes

VARIABLES clock,
          mtimecmp, mtip,
          main,       \* the SystemC thread: "idle", or where it is in
                      \* post_write_mtimecmp
          time,       \* the ticks post_write_mtimecmp has read
          event,      \* asyncEvent has been notified
          thread,     \* the timer's thread
          running,    \* Timer::running
          cancelled,  \* pthread_cancel was called for the thread
          count,      \* microseconds the thread has still to sleep
          until,      \* end of the current sleep
          writes

timerVars == <<thread, running, cancelled, count, until>>
vars == <<clock, mtimecmp, mtip, main, time, event, timerVars, writes>>

usec_to_ticks(usec) == usec \div DIVIDEND

(* Mutant: the duration of a tick is rounded down once more.               *)
ticks_to_usec_short(ticks) == ticks * DIVIDEND - 1
ticks_to_usec(ticks) == ticks * DIVIDEND

-----------------------------------------------------------------------------
Init ==
    /\ clock = 0 /\ mtimecmp = 0 /\ mtip = FALSE /\ main = "idle" /\ time = 0
    /\ event = FALSE /\ thread = "none" /\ running = FALSE /\ cancelled = FALSE
    /\ count = 0 /\ until = 0 /\ writes = 0

(* Past the bound the clock only goes on while the thread sleeps.          *)
Tick ==
    /\ clock < IF thread = "asleep" /\ until > MaxClock THEN until ELSE MaxClock
    /\ clock' = clock + 1
    /\ UNCHANGED <<mtimecmp, mtip, main, time, event, timerVars, writes>>

(* post_write_mtimecmp up to the pthread_join of Timer::pause.             *)
post_write_mtimecmp(cmp) ==
    /\ main = "idle" /\ writes < MaxWrites
    /\ mtimecmp' = cmp /\ time' = usec_to_ticks(clock)
    /\ cancelled' = running /\ main' = "pause"
    /\ writes' = writes + 1
    /\ UNCHANGED <<clock, mtip, event, thread, running, count, until>>

(* The join returns, and the interrupt is set, or unset and the timer      *)
(* started; the time is the one read before the join.                      *)
start ==
    /\ main = "pause" /\ (running => thread = "done")
    /\ main' = "idle"
    /\ mtip' = (time >= mtimecmp)
    /\ running' = (time < mtimecmp) /\ cancelled' = FALSE
    /\ thread' = IF time < mtimecmp THEN "created" ELSE "none"
    /\ count' = IF time < mtimecmp THEN ticks_to_usec(mtimecmp - time) ELSE 0
    /\ UNCHANGED <<clock, mtimecmp, time, event, until, writes>>

interrupt ==
    /\ main = "idle" /\ event /\ event' = FALSE
    /\ mtip' = (mtip \/ usec_to_ticks(clock) >= mtimecmp)
    /\ UNCHANGED <<clock, mtimecmp, main, time, timerVars, writes>>

-----------------------------------------------------------------------------
More(c) == c > US_MAX

(* The thread: nanosleep is a cancellation point, on entry and inside.     *)
Sleep ==
    /\ thread = "created" /\ ~cancelled
    /\ thread' = IF count = 0 THEN "aborted" ELSE "asleep"
    /\ until' = clock + (IF More(count) THEN US_MAX ELSE count)
    /\ UNCHANGED <<clock, mtimecmp, mtip, main, time, event, running, cancelled, count, writes>>

Wake ==
    /\ thread = "asleep" /\ clock >= until
    /\ thread' = IF More(count) THEN "created" ELSE "notify"
    /\ count' = IF More(count) THEN count - US_MAX ELSE 0
    /\ UNCHANGED <<clock, mtimecmp, mtip, main, time, event, running, cancelled, until, writes>>

Cancel ==
    /\ thread \in {"created", "asleep"} /\ cancelled
    /\ thread' = "done"
    /\ UNCHANGED <<clock, mtimecmp, mtip, main, time, event, running, cancelled, count,
                   until, writes>>

timercb ==
    /\ thread = "notify" /\ thread' = "done" /\ event' = TRUE
    /\ UNCHANGED <<clock, mtimecmp, mtip, main, time, running, cancelled, count, until, writes>>

Next ==
    \/ Tick \/ start \/ interrupt \/ Sleep \/ Wake \/ Cancel \/ timercb
    \/ \E cmp \in Comparands : post_write_mtimecmp(cmp)

(* The operating system runs the threads and the kernel delivers events;   *)
(* the guest need not write.                                               *)
Spec == /\ Init /\ [][Next]_vars
        /\ WF_vars(start) /\ WF_vars(interrupt) /\ WF_vars(Tick)
        /\ WF_vars(Sleep) /\ WF_vars(Wake) /\ WF_vars(Cancel) /\ WF_vars(timercb)

-----------------------------------------------------------------------------
(* The types of clocks, threads and flags.                                 *)
TypeOK ==
    /\ clock \in Nat /\ mtimecmp \in Comparands \cup {0} /\ time \in Nat
    /\ main \in {"idle", "pause"}
    /\ thread \in {"none", "created", "asleep", "notify", "done", "aborted"}
    /\ mtip \in BOOLEAN /\ event \in BOOLEAN /\ running \in BOOLEAN /\ cancelled \in BOOLEAN
    /\ count \in Nat /\ until \in Nat /\ writes \in 0..MaxWrites

(* The assertion of the timer's thread, ns > count: it never is asked to   *)
(* sleep for no time, whatever the division into pieces.                   *)
SleepAssertion == thread # "aborted"

(* Once a comparand is written, an interrupt that is not set               *)
(* will be: the timer sleeps, and not for less than it takes to *)
(* reach the comparand, for interrupt does not start it again; or the      *)
(* comparand is reached and the event about to be delivered.               *)
NoTimerLost ==
    main = "idle" /\ writes > 0 /\ ~mtip =>
        \/ thread = "created" /\ clock + count >= mtimecmp * DIVIDEND
        \/ thread = "asleep"
              /\ until + (IF More(count) THEN count - US_MAX ELSE 0) >= mtimecmp * DIVIDEND
        \/ (thread = "notify" \/ event) /\ clock >= mtimecmp * DIVIDEND

(* A timer interrupt is never set before its comparand is reached, though  *)
(* the event of an earlier timer may be delivered after the write.         *)
NoTimerEarly ==
    main = "idle" /\ mtip => clock >= mtimecmp * DIVIDEND

(* The timer interrupt is neither lost nor early, and the timer's thread   *)
(* does not fail: the three of the above.                                  *)
TimerExact == NoTimerLost /\ NoTimerEarly /\ SleepAssertion
=============================================================================
