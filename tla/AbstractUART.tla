---------------------------- MODULE AbstractUART ----------------------------
(***************************************************************************)
(* The UART of the HiFive platform (platform/common/abstract_uart.cpp and  *)
(* uart.cpp): three threads of the operating system share two FIFOs.       *)
(*                                                                         *)
(*   - the SystemC thread executes the guest's register accesses, the      *)
(*     method interrupt, and at the end the destructor;                    *)
(*   - transmit takes bytes from tx_fifo and writes them to the terminal;  *)
(*   - receive polls the terminal and pushes bytes to rx_fifo.             *)
(*                                                                         *)
(* A critical section of txmtx or rcvmtx is one step, everything else a    *)
(* thread does between two accesses to shared state a step of its own.     *)
(***************************************************************************)
EXTENDS Naturals, Sequences

CONSTANTS UART_FIFO_DEPTH,
          Keys,        \* the bytes that may be typed at the terminal
          KEY_ESC, KEY_EXIT,
          MaxTyped,    \* bound on the bytes typed
          MaxSent,     \* bound on the bytes the guest writes to txdata
          Thresholds,  \* the values of UART_CTRL_CNT the guest chooses from
          MaxConfigs   \* bound on its writes to txctrl, rxctrl and ie

VARIABLES txctrl, rxctrl,     \* UART_CTRL_CNT of the control registers
          ie,                 \* the enabled ones of "rx", "tx"
          tx_fifo, txfull, tx_pc, tx_data,
          rx_fifo, rxempty, rx_pc, rx_data,
          state,              \* of the input state machine of class UART
          event,              \* asyncEvent has been notified
          main,               \* the SystemC thread: running the guest, or a
                              \* line of the destructors
          stop, stop_pipe,
          typed,              \* number of bytes read from the terminal
          sent, written,      \* history: bytes accepted into tx_fifo, bytes
                              \* written to the terminal
          pushed, received,   \* history: bytes that entered rx_fifo, bytes
                              \* the guest has read
          signalled,          \* history: the sources for which the PLIC has
                              \* been triggered since their condition holds
          missed,             \* history: sources a write to txctrl has raised
          configs

confVars == <<txctrl, rxctrl, ie>>
txVars == <<tx_fifo, txfull, tx_pc, tx_data, sent, written>>
rxVars == <<rx_fifo, rxempty, rx_pc, rx_data, state, typed, pushed, received>>
endVars == <<main, stop, stop_pipe>>
vars == <<confVars, txVars, rxVars, endVars, event, signalled, missed, configs>>

(* The watermark conditions of the method interrupt.                       *)
Watermarks(tx, rx, txc, rxc, enabled) ==
    {w \in enabled : \/ w = "rx" /\ Len(rx) > rxc
                     \/ w = "tx" /\ Len(tx) < txc}

Conditions == Watermarks(tx_fifo, rx_fifo, txctrl, rxctrl, ie)

(* A source whose condition no longer holds may be signalled again.        *)
Forget == /\ signalled' = signalled \cap Conditions'
          /\ missed' = missed \cap Conditions'

-----------------------------------------------------------------------------
Init ==
    /\ txctrl = 0 /\ rxctrl = 0 /\ ie = {}
    /\ tx_fifo = << >> /\ txfull = 0 /\ tx_pc = "loop" /\ tx_data = 0
    /\ rx_fifo = << >> /\ rxempty = UART_FIFO_DEPTH /\ rx_pc = "loop" /\ rx_data = 0
    /\ state = "STATE_NORMAL" /\ event = FALSE
    /\ main = "run" /\ stop = FALSE /\ stop_pipe = FALSE
    /\ typed = 0
    /\ sent = << >> /\ written = << >> /\ pushed = << >> /\ received = << >>
    /\ signalled = {} /\ missed = {} /\ configs = 0

(* The guest writes txdata: a full FIFO ignores the byte, otherwise the    *)
(* semaphore is posted after the critical section.                         *)
WriteTxdata ==
    /\ main = "run" /\ Len(sent) < MaxSent
    /\ Len(tx_fifo) < UART_FIFO_DEPTH
    /\ tx_fifo' = Append(tx_fifo, Len(sent) + 1)
    /\ sent' = Append(sent, Len(sent) + 1)
    /\ main' = "post"
    /\ UNCHANGED <<confVars, txfull, tx_pc, tx_data, written, rxVars, stop,
                   stop_pipe, event, configs>>
    /\ Forget

(* Mutant: the semaphore is binary.                                        *)
PostTxfullBinary ==
    /\ main = "post"
    /\ txfull' = 1 /\ main' = "run"
    /\ UNCHANGED <<confVars, tx_fifo, tx_pc, tx_data, sent, written, rxVars, stop,
                   stop_pipe, event, signalled, missed, configs>>

PostTxfull ==
    /\ main = "post"
    /\ txfull' = txfull + 1 /\ main' = "run"
    /\ UNCHANGED <<confVars, tx_fifo, tx_pc, tx_data, sent, written, rxVars, stop,
                   stop_pipe, event, signalled, missed, configs>>

ReadRxdata ==
    /\ main = "run" /\ rx_fifo # << >>
    /\ received' = Append(received, Head(rx_fifo))
    /\ rx_fifo' = Tail(rx_fifo)
    /\ rxempty' = rxempty + 1
    /\ UNCHANGED <<confVars, txVars, rx_pc, rx_data, state, typed, pushed, endVars,
                   event, configs>>
    /\ Forget

(* Writes to txctrl, rxctrl and ie.  A lower count notifies, for both.     *)
WriteControl ==
    /\ main = "run" /\ configs < MaxConfigs
    /\ configs' = configs + 1
    /\ \/ \E n \in Thresholds :
            /\ txctrl' = n /\ event' = (event \/ n < txctrl)
            /\ UNCHANGED <<rxctrl, ie>>
       \/ \E n \in Thresholds :
            /\ rxctrl' = n /\ event' = (event \/ n < rxctrl)
            /\ UNCHANGED <<txctrl, ie>>
       \/ \E e \in SUBSET {"rx", "tx"} :
            /\ ie' = e /\ event' = TRUE
            /\ UNCHANGED <<txctrl, rxctrl>>
    /\ UNCHANGED <<txVars, rxVars, endVars>>
    /\ signalled' = signalled \cap Conditions'
    /\ missed' = (missed \cap Conditions')
                   \cup IF txctrl' > txctrl THEN Conditions' \ Conditions ELSE {}

(* The method interrupt, when the kernel delivers the event.               *)
interrupt ==
    /\ main = "run" /\ event
    /\ event' = FALSE
    /\ signalled' = Conditions /\ missed' = {}
    /\ UNCHANGED <<confVars, txVars, rxVars, endVars, configs>>

-----------------------------------------------------------------------------
(* The object still is a UART: its virtual functions can be called.        *)
Derived == main \in {"run", "post"}

Alive == main \notin {"exited", "aborted"}

(* The thread transmit.                                                    *)
TransmitStep(from, to) == Alive /\ tx_pc = from /\ tx_pc' = to

TransmitControl ==
    /\ \/ TransmitStep("loop", IF stop THEN "done" ELSE "wait") /\ UNCHANGED txfull
       \/ TransmitStep("wait", "check") /\ txfull > 0 /\ txfull' = txfull - 1
       \/ TransmitStep("check", IF stop THEN "done" ELSE "pop") /\ UNCHANGED txfull
    /\ UNCHANGED <<confVars, tx_fifo, tx_data, sent, written, rxVars, endVars, event,
                   signalled, missed, configs>>

(* Mutant: the newest byte is taken, not the oldest.                       *)
TransmitPopBack ==
    /\ TransmitStep("pop", "notify")
    /\ tx_data' = tx_fifo[Len(tx_fifo)] /\ tx_fifo' = Tail(tx_fifo)
    /\ UNCHANGED <<confVars, txfull, sent, written, rxVars, endVars, event, configs>>
    /\ Forget

TransmitPop ==
    /\ TransmitStep("pop", "notify")
    /\ tx_data' = Head(tx_fifo) /\ tx_fifo' = Tail(tx_fifo)
    /\ UNCHANGED <<confVars, txfull, sent, written, rxVars, endVars, event, configs>>
    /\ Forget

TransmitNotify ==
    /\ TransmitStep("notify", "write") /\ event' = TRUE
    /\ UNCHANGED <<confVars, tx_fifo, txfull, tx_data, sent, written, rxVars, endVars,
                   signalled, missed, configs>>

(* The virtual call of write_data.  Once the destructor of class UART has  *)
(* run, the function is pure and the call ends the process.                *)
write_data ==
    /\ TransmitStep("write", IF Derived THEN "loop" ELSE "write")
    /\ written' = IF Derived THEN Append(written, tx_data) ELSE written
    /\ main' = IF Derived THEN main ELSE "aborted"
    /\ UNCHANGED <<confVars, tx_fifo, txfull, tx_data, sent, rxVars, stop, stop_pipe,
                   event, signalled, missed, configs>>

-----------------------------------------------------------------------------
(* The thread receive; stop_fd is looked at before the terminal.           *)
ReceiveStep(from, to) == Alive /\ rx_pc = from /\ rx_pc' = to

ReceivePoll ==
    /\ \/ ReceiveStep("loop", IF stop THEN "done" ELSE "poll")
       \/ ReceiveStep("poll", "loop") /\ stop_pipe
    /\ UNCHANGED <<confVars, txVars, rx_fifo, rxempty, rx_data, state, typed, pushed,
                   received, endVars, event, signalled, missed, configs>>

(* The virtual call of handle_input up to rxpush: in command mode KEY_EXIT *)
(* ends the process and any key but KEY_ESC is dropped.                    *)
handle_input(buf) ==
    /\ Alive /\ rx_pc = "poll" /\ ~stop_pipe /\ typed < MaxTyped
    /\ LET command == state = "STATE_COMMAND"
       IN  /\ rx_pc' = IF command /\ buf # KEY_ESC THEN "loop" ELSE "rxpush"
           /\ main' = IF ~Derived THEN "aborted"
                      ELSE IF command /\ buf = KEY_EXIT THEN "exited" ELSE main
           /\ state' = IF buf = KEY_ESC /\ ~command THEN "STATE_COMMAND"
                       ELSE "STATE_NORMAL"
    /\ rx_data' = buf /\ typed' = typed + 1
    /\ UNCHANGED <<confVars, txVars, rx_fifo, rxempty, pushed, received, stop,
                   stop_pipe, event, signalled, missed, configs>>

rxpushWait ==
    /\ ReceiveStep("rxpush", "push") /\ rxempty > 0
    /\ rxempty' = rxempty - 1
    /\ UNCHANGED <<confVars, txVars, rx_fifo, rx_data, state, typed, pushed, received,
                   endVars, event, signalled, missed, configs>>

rxpush ==
    /\ ReceiveStep("push", "notify")
    /\ rx_fifo' = Append(rx_fifo, rx_data) /\ pushed' = Append(pushed, rx_data)
    /\ UNCHANGED <<confVars, txVars, rxempty, rx_data, state, typed, received, endVars,
                   event, configs>>
    /\ Forget

(* Mutant: the thread does not notify.                                     *)
rxpushNotifyNot ==
    /\ ReceiveStep("notify", "loop")
    /\ UNCHANGED <<confVars, txVars, rx_fifo, rxempty, rx_data, state, typed, pushed,
                   received, event, endVars, signalled, missed, configs>>

rxpushNotify ==
    /\ ReceiveStep("notify", "loop") /\ event' = TRUE
    /\ UNCHANGED <<confVars, txVars, rx_fifo, rxempty, rx_data, state, typed, pushed,
                   received, endVars, signalled, missed, configs>>

-----------------------------------------------------------------------------
(* After the simulation has ended: the destructor of class UART, then, one *)
(* line at a time, the one of AbstractUART.                                *)
Destroy ==
    /\ \/ main = "run" /\ main' = "stop" /\ UNCHANGED <<txfull, stop, stop_pipe>>
       \/ main = "stop" /\ main' = "unblock_tx" /\ stop' = TRUE
          /\ UNCHANGED <<txfull, stop_pipe>>
       \/ main = "unblock_tx" /\ main' = "join_tx" /\ txfull' = txfull + 1
          /\ UNCHANGED <<stop, stop_pipe>>
       \/ main = "join_tx" /\ tx_pc = "done" /\ main' = "unblock_rx"
          /\ UNCHANGED <<txfull, stop, stop_pipe>>
       \/ main = "unblock_rx" /\ main' = "join_rx" /\ stop_pipe' = TRUE
          /\ UNCHANGED <<txfull, stop>>
       \/ main = "join_rx" /\ rx_pc = "done" /\ main' = "destroyed"
          /\ UNCHANGED <<txfull, stop, stop_pipe>>
    /\ UNCHANGED <<confVars, tx_fifo, tx_pc, tx_data, sent, written, rxVars, event,
                   signalled, missed, configs>>

Transmit == TransmitControl \/ TransmitPop \/ TransmitNotify \/ write_data
Receive == ReceivePoll \/ rxpushWait \/ rxpush \/ rxpushNotify
Guest == WriteTxdata \/ ReadRxdata \/ WriteControl

Next == \/ Guest \/ PostTxfull \/ interrupt \/ Transmit \/ Receive \/ Destroy
        \/ \E buf \in Keys : handle_input(buf)

(* The operating system runs every thread, the kernel delivers events.  A  *)
(* guest need not access the UART, nobody need type anything, and a        *)
(* simulation need not end.                                                *)
Spec == /\ Init /\ [][Next]_vars
        /\ WF_vars(Transmit) /\ WF_vars(Receive)
        /\ WF_vars(PostTxfull \/ interrupt)
        /\ WF_vars(main # "run" /\ Destroy)

-----------------------------------------------------------------------------
(* The types of the registers, threads and FIFOs.                          *)
TypeOK ==
    /\ txctrl \in Thresholds /\ rxctrl \in Thresholds /\ ie \subseteq {"rx", "tx"}
    /\ txfull \in 0..(MaxSent + 1) /\ rxempty \in 0..UART_FIFO_DEPTH
    /\ tx_pc \in {"loop", "wait", "check", "pop", "notify", "write", "done"}
    /\ rx_pc \in {"loop", "poll", "rxpush", "push", "notify", "done"}
    /\ state \in {"STATE_NORMAL", "STATE_COMMAND"}
    /\ event \in BOOLEAN /\ stop \in BOOLEAN /\ stop_pipe \in BOOLEAN
    /\ main \in {"run", "post", "stop", "unblock_tx", "join_tx", "unblock_rx",
                 "join_rx", "destroyed", "exited", "aborted"}
    /\ signalled \subseteq {"rx", "tx"} /\ missed \subseteq {"rx", "tx"}
    /\ typed \in 0..MaxTyped /\ configs \in 0..MaxConfigs

(* The thread transmit never takes the front of an empty queue, not even   *)
(* when it is woken by the destructor's extra post.                        *)
NeverPopsEmpty == tx_pc = "pop" => tx_fifo # << >>

(* Neither FIFO outgrows its depth, although the guest's check of tx_fifo  *)
(* and the semaphore of rx_fifo are the only limits.                       *)
FifosBounded == Len(tx_fifo) <= UART_FIFO_DEPTH /\ Len(rx_fifo) <= UART_FIFO_DEPTH

(* Bytes are neither lost, duplicated nor reordered on their way through   *)
(* the FIFOs and the threads, in both directions.                          *)
BytesInOrder ==
    /\ sent = written \o (IF tx_pc \in {"notify", "write"} THEN <<tx_data>> ELSE << >>)
                      \o tx_fifo
    /\ pushed = received \o rx_fifo

(* A watermark that holds for an enabled interrupt has been signalled to   *)
(* the PLIC or will be: a notification is outstanding or a thread is about *)
(* to give it.  The exception the code makes: a write to txctrl that       *)
(* raises the count makes the condition true and does not notify.          *)
WatermarkSignalled ==
    Conditions \subseteq
        signalled \cup missed
          \cup (IF event \/ "notify" \in {tx_pc, rx_pc} THEN {"rx", "tx"} ELSE {})

(* Every byte the guest has written reaches the terminal, unless the UART  *)
(* is destroyed or the process ends first.                                 *)
BytesAreWritten == (sent # written) ~> (sent = written \/ ~Derived)

(* The destructor unblocks the receive thread and ends.                    *)
DestructorEnds == stop ~> (main \in {"destroyed", "exited", "aborted"})

(* The FIFOs carry every byte, within their depth: BytesInOrder,           *)
(* FifosBounded and NeverPopsEmpty.                                        *)
FifosSound == BytesInOrder /\ FifosBounded /\ NeverPopsEmpty
=============================================================================
