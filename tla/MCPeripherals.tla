--------------------------- MODULE MCPeripherals ----------------------------
(***************************************************************************)
(* Devices side by side for TLC, for their safety: the CLINT, the PLIC of  *)
(* the FU540, SLIP, CAN behind SPI, and the UART.  The first state says    *)
(* which of them takes the steps of a behaviour; the others stay in an     *)
(* initial state.                                                          *)
(***************************************************************************)
EXTENDS CLINT

CONSTANTS END, ESC, ESC_END, ESC_ESC, A, KEY_ESC, KEY_EXIT

VARIABLES
    which,
    (* Fu540 *)
    prios, pending, enabled, threshold, e_run, eip, aborted, owed, writes, triggers,
    (* Slip *)
    line, sndbuf, capacity, overrun, received, sent_s,
    (* Can *)
    rxqueue, ip, state, registers, txBuf, rxBuf, status, stop, selRead, selWrite, mod,
    load, rx_ptr, spi, listener, delivered, sent, todo_c, resp, op, seen, loaded, got,
    ops, unread, raced,
    (* Uart *)
    txctrl, rxctrl, ie, tx_fifo, txfull, tx_pc, tx_data, rx_fifo, rxempty, rx_pc, rx_data,
    state_u, event, main, stop_u, stop_pipe, typed, sent_u, written_u, pushed, received_u,
    signalled, missed, configs

Fu540 == INSTANCE FU540PLIC WITH
    NHarts <- 2, NUMIRQ <- 3, MAX_PRIO <- 2, MAX_THR <- 2, Words <- {1, 3},
    MaxTriggers <- 2, MaxWrites <- 3

Slip == INSTANCE SLIP WITH
    Bytes <- {END, ESC, A}, STEP <- 2, MaxSize <- 4, MaxPackets <- 2, sent <- sent_s

(* Standard identifiers and an extended one; three frames arrive for two   *)
(* buffers, and the driver can poll and read twice, so that what a race    *)
(* for status leaves behind is read.                                       *)
Can == INSTANCE SpiCan WITH
    queue_size <- 2, TXWM <- TRUE, Regs <- {1}, TXB0CTRL <- 1, TxIds <- {1365, 305419896},
    Lengths <- {0, 2}, RxIds <- <<1365, 305419896, 2047>>, MaxOps <- 5, todo <- todo_c

Uart == INSTANCE AbstractUART WITH
    UART_FIFO_DEPTH <- 2, Keys <- {KEY_ESC, KEY_EXIT}, MaxTyped <- 3, MaxSent <- 2,
    Thresholds <- {0, 2}, MaxConfigs <- 2,
    state <- state_u, stop <- stop_u, sent <- sent_u, written <- written_u,
    received <- received_u

fu540 == <<prios, pending, enabled, threshold, e_run, eip, aborted, owed,
           writes, triggers>>
slip == <<line, sndbuf, capacity, overrun, received, sent_s>>
can == <<rxqueue, ip, state, registers, txBuf, rxBuf, status, stop, selRead, selWrite,
         mod, load, rx_ptr, spi, listener, delivered, sent, todo_c, resp, op, seen,
         loaded, got, ops, unread, raced>>
uart == <<txctrl, rxctrl, ie, tx_fifo, txfull, tx_pc, tx_data, rx_fifo, rxempty, rx_pc,
          rx_data, state_u, event, main, stop_u, stop_pipe, typed, sent_u, written_u,
          pushed, received_u, signalled, missed, configs>>
mcVars == <<which, vars, fu540, slip, can, uart>>

MCInit ==
    /\ which \in {"clint", "fu540", "slip", "can", "uart"}
    /\ Init /\ Fu540!Init /\ Slip!Init /\ Can!Init /\ Uart!Init
    /\ which # "can" => registers[1] = 0 /\ listener.pc = "none"

Only(w) ==
    /\ which = w /\ UNCHANGED which
    /\ w # "clint" => UNCHANGED vars
    /\ w # "fu540" => UNCHANGED fu540
    /\ w # "slip" => UNCHANGED slip
    /\ w # "can" => UNCHANGED can
    /\ w # "uart" => UNCHANGED uart

MCNext ==
    \/ Only("clint") /\ Next
    \/ Only("fu540") /\ Fu540!Next
    \/ Only("slip") /\ Slip!Next
    \/ Only("can") /\ Can!Next
    \/ Only("uart") /\ Uart!Next

MCSpec == MCInit /\ [][MCNext]_mcVars

-----------------------------------------------------------------------------
(* Each statement is that of its module, for the component that moves.     *)

(* FU540PLIC: no hart claims an interrupt twice (read_hartctx).            *)
ClaimedOnce == which = "fu540" => Fu540!ClaimedOnce

(* SLIP: packets come back from write_data as handle_input sent them, and  *)
(* fit the buffer.                                                         *)
PacketsIntact == which = "slip" => Slip!PacketsIntact

(* SpiCan: frames pass the CAN controller whole, in both directions.       *)
FramesIntact == which = "can" => Can!FramesIntact

(* AbstractUART: no byte is lost, repeated or reordered, and neither FIFO  *)
(* outgrows its depth or is popped empty.                                  *)
FifosSound == which = "uart" => Uart!FifosSound

(* AbstractUART: no watermark interrupt is lost between the FIFO's change  *)
(* and the method interrupt.                                               *)
WatermarkSignalled == which = "uart" => Uart!WatermarkSignalled
=============================================================================
