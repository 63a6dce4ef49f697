----------------------------- MODULE MCDevices ------------------------------
(***************************************************************************)
(* The devices that wait for a thread or for the guest, side by side for   *)
(* TLC: the interrupt controller, the timer on the host's clock, the UART  *)
(* and the GPIO port.  The first state says which of them takes the steps  *)
(* of a behaviour; the others stay in their initial states.                *)
(***************************************************************************)
EXTENDS FE310PLIC, Sequences

CONSTANTS KEY_ESC, KEY_EXIT

VARIABLES
    which,
    (* Timer *)
    clock, mtimecmp, mtip, main_t, time, event_t, thread, running, cancelled, count,
    until, writes_t,
    (* Uart *)
    txctrl, rxctrl, ie, tx_fifo, txfull, tx_pc, tx_data, rx_fifo, rxempty, rx_pc, rx_data,
    state_u, event_u, main_u, stop_u, stop_pipe, typed, sent, written, pushed, received,
    signalled, missed_u, configs,
    (* Gpio *)
    value, input_en, output_en, port, pullup_en, rise_intr_en, rise_intr_pending,
    fall_intr_en, fall_intr_pending, state_g, event_g, main_g, mine, server, yours, stop_g,
    backlog, conn, open, late, writes_g, requests, clients

Timer == INSTANCE RealCLINT WITH
    DIVIDEND <- 3, US_MAX <- 2, Comparands <- {0, 1, 2}, MaxClock <- 12, MaxWrites <- 3,
    main <- main_t, event <- event_t, writes <- writes_t

Uart == INSTANCE AbstractUART WITH
    UART_FIFO_DEPTH <- 2, Keys <- {KEY_ESC, KEY_EXIT}, MaxTyped <- 1, MaxSent <- 3,
    Thresholds <- {0, 2}, MaxConfigs <- 0,
    state <- state_u, event <- event_u, main <- main_u, stop <- stop_u, missed <- missed_u

Gpio == INSTANCE GPIO WITH
    Pins <- {0, 1}, Writes <- {{}, {0}}, MaxWrites <- 2, MaxRequests <- 2, MaxClients <- 1,
    state <- state_g, event <- event_g, main <- main_g, stop <- stop_g, writes <- writes_g

timer == <<clock, mtimecmp, mtip, main_t, time, event_t, thread, running, cancelled,
           count, until, writes_t>>
uart == <<txctrl, rxctrl, ie, tx_fifo, txfull, tx_pc, tx_data, rx_fifo, rxempty,
          rx_pc, rx_data, state_u, event_u, main_u, stop_u, stop_pipe, typed, sent,
          written, pushed, received, signalled, missed_u, configs>>
gpio == <<value, input_en, output_en, port, pullup_en, rise_intr_en,
          rise_intr_pending, fall_intr_en, fall_intr_pending, state_g, event_g,
          main_g, mine, server, yours, stop_g, backlog, conn, open, late, writes_g,
          requests, clients>>
mcVars == <<which, vars, timer, uart, gpio>>

MCInit ==
    /\ which \in {"plic", "timer", "uart", "gpio"}
    /\ Init /\ Timer!Init /\ Uart!Init /\ Gpio!Init
    /\ which # "gpio" => ~stop_g

Only(w) ==
    /\ which = w /\ UNCHANGED which
    /\ w # "plic" => UNCHANGED vars
    /\ w # "timer" => UNCHANGED timer
    /\ w # "uart" => UNCHANGED uart
    /\ w # "gpio" => UNCHANGED gpio

MCNext ==
    \/ Only("plic") /\ Next
    \/ Only("timer") /\ Timer!Next
    \/ Only("uart") /\ Uart!Next
    \/ Only("gpio") /\ Gpio!Next

(* The fairness of the four specifications.                                *)
MCSpec ==
    /\ MCInit /\ [][MCNext]_mcVars
    /\ WF_vars(which = "plic" /\ run) /\ WF_vars(which = "plic" /\ meip /\ EnterHandler)
    /\ WF_vars(which = "plic" /\ Claim) /\ WF_vars(which = "plic" /\ Complete)
    /\ WF_timer(which = "timer" /\ Timer!start) /\ WF_timer(which = "timer" /\ Timer!interrupt)
    /\ WF_timer(which = "timer" /\ Timer!Tick) /\ WF_timer(which = "timer" /\ Timer!Sleep)
    /\ WF_timer(which = "timer" /\ Timer!Wake) /\ WF_timer(which = "timer" /\ Timer!Cancel)
    /\ WF_timer(which = "timer" /\ Timer!timercb)
    /\ WF_uart(which = "uart" /\ Uart!Transmit) /\ WF_uart(which = "uart" /\ Uart!Receive)
    /\ WF_uart(which = "uart" /\ (Uart!PostTxfull \/ Uart!interrupt))
    /\ WF_uart(which = "uart" /\ main_u # "run" /\ Uart!Destroy)
    /\ WF_gpio(which = "gpio" /\ Gpio!SystemC) /\ WF_gpio(which = "gpio" /\ Gpio!Server)

-----------------------------------------------------------------------------
(* Each statement is that of its module, for the component that moves.     *)

(* RealCLINT: the timer interrupt is neither lost nor early, although      *)
(* post_write_mtimecmp races the thread of the timer.                      *)
TimerExact == which = "timer" => Timer!TimerExact

(* AbstractUART: every byte sent is written, unless the UART is destroyed. *)
BytesAreWritten == Uart!BytesAreWritten

(* GPIO: input pins follow the clients' requests (asyncOnchange).          *)
InputsFollow == which = "gpio" => Gpio!InputsFollow

(* GPIO: the server's thread ends after quit, if no client keeps it.       *)
QuitEnds == Gpio!QuitEnds
=============================================================================
