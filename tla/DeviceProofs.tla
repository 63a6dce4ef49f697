-------------------------- MODULE DeviceProofs ---------------------------
(***************************************************************************)
(* Proofs about devices that wait for a thread or for the guest: the UART, *)
(* the interrupt controllers of the HiFive platform and of the FU540, and  *)
(* the GPIO port.                                                          *)
(***************************************************************************)
EXTENDS AbstractUART, Integers, TLAPS

(* What the proofs assume of the constants: the FIFOs have a depth, and    *)
(* UART_CTRL_CNT is a number.                                              *)
ConstantsOK == UART_FIFO_DEPTH \in Nat /\ Thresholds \subseteq Nat

Bytes == Keys \cup {0}

TxTypes ==
    /\ tx_fifo \in Seq(Nat) /\ sent \in Seq(Nat) /\ written \in Seq(Nat)
    /\ tx_data \in Nat /\ txfull \in Nat

RxTypes ==
    /\ rx_fifo \in Seq(Bytes) /\ pushed \in Seq(Bytes) /\ received \in Seq(Bytes)
    /\ rx_data \in Bytes /\ rxempty \in Nat

ConfTypes == txctrl \in Nat /\ rxctrl \in Nat /\ ie \subseteq {"rx", "tx"}

----------------------------------------------------------------------------
(* Facts about sequences.                                                  *)

(* Queues with the same elements are equal.                                *)
LEMMA SameElements ==
    ASSUME NEW S, NEW s \in Seq(S), NEW t \in Seq(S), Len(s) = Len(t),
           \A i \in 1..Len(s) : s[i] = t[i]
    PROVE  s = t
<1>1. s = [i \in 1..Len(s) |-> s[i]] /\ t = [i \in 1..Len(t) |-> t[i]]
  OBVIOUS
<1>2. QED
  BY <1>1

(* What appending does to the type and the length.                        *)
LEMMA AppendFacts ==
    ASSUME NEW S, NEW s \in Seq(S), NEW x \in S
    PROVE  /\ Append(s, x) \in Seq(S) /\ Append(s, x) # << >>
           /\ Len(Append(s, x)) = Len(s) + 1
<1>1. Append(s, x) \in Seq(S)
  OBVIOUS
<1>2. Len(Append(s, x)) = Len(s) + 1 /\ Len(s) \in Nat
  OBVIOUS
<1>3. Append(s, x) # << >>
  <2>1. Len(<< >>) = 0
    OBVIOUS
  <2>2. Len(Append(s, x)) # 0
    BY <1>2
  <2> QED BY <2>1, <2>2, Zenon
<1>4. QED
  BY <1>1, <1>2, <1>3, Zenon

(* Appending is concatenation.                                             *)
LEMMA AppendJoins ==
    ASSUME NEW S, NEW s \in Seq(S), NEW x \in S
    PROVE  Append(s, x) = s \o <<x>>
<1>1. <<x>> \in Seq(S) /\ Len(<<x>>) = 1 /\ <<x>>[1] = x
  OBVIOUS
<1>2. /\ Append(s, x) \in Seq(S) /\ s \o <<x>> \in Seq(S)
      /\ Len(Append(s, x)) = Len(s \o <<x>>)
  BY <1>1
<1>3. ASSUME NEW i \in 1..Len(Append(s, x)) PROVE Append(s, x)[i] = (s \o <<x>>)[i]
  BY <1>1
<1>4. QED
  BY <1>2, <1>3, SameElements

(* A byte joins the end of the second of two queues.                       *)
LEMMA ConcatLast ==
    ASSUME NEW S, NEW s \in Seq(S), NEW t \in Seq(S), NEW x \in S
    PROVE  (s \o t) \o <<x>> = s \o (t \o <<x>>)
<1>1. <<x>> \in Seq(S) /\ Len(<<x>>) = 1 /\ <<x>>[1] = x
  OBVIOUS
<1>2. /\ s \o t \in Seq(S) /\ Len(s \o t) = Len(s) + Len(t)
      /\ t \o <<x>> \in Seq(S) /\ Len(t \o <<x>>) = Len(t) + 1
  BY <1>1
<1>3. /\ (s \o t) \o <<x>> \in Seq(S) /\ s \o (t \o <<x>>) \in Seq(S)
      /\ Len((s \o t) \o <<x>>) = Len(s \o (t \o <<x>>))
  BY <1>1, <1>2
<1>4. ASSUME NEW i \in 1..Len((s \o t) \o <<x>>)
      PROVE  ((s \o t) \o <<x>>)[i] = (s \o (t \o <<x>>))[i]
  BY <1>1, <1>2
<1>5. QED
  BY <1>3, <1>4, SameElements

(* The first byte of a queue joins what is in front of it.                 *)
LEMMA ConcatHeadTail ==
    ASSUME NEW S, NEW s \in Seq(S), NEW t \in Seq(S), t # << >>
    PROVE  s \o t = (s \o <<Head(t)>>) \o Tail(t)
<1>1. Head(t) \in S /\ Tail(t) \in Seq(S) /\ Len(Tail(t)) = Len(t) - 1
  OBVIOUS
<1>2. <<Head(t)>> \in Seq(S) /\ s \o <<Head(t)>> \in Seq(S)
      /\ Len(s \o <<Head(t)>>) = Len(s) + 1
  BY <1>1
<1>3. /\ s \o t \in Seq(S) /\ (s \o <<Head(t)>>) \o Tail(t) \in Seq(S)
      /\ Len(s \o t) = Len((s \o <<Head(t)>>) \o Tail(t))
  BY <1>1, <1>2
<1>4. ASSUME NEW i \in 1..Len(s \o t)
      PROVE  (s \o t)[i] = ((s \o <<Head(t)>>) \o Tail(t))[i]
  BY <1>1, <1>2
<1>5. QED
  BY <1>3, <1>4, SameElements
----------------------------------------------------------------------------
(* The invariants.                                                         *)

(* The destructor has posted txfull without a byte.                        *)
Posted == main \in {"join_tx", "unblock_rx", "join_rx", "destroyed"}

(* Every byte of tx_fifo has one token: a unit of the semaphore txfull,    *)
(* the post the guest's write still owes, or the wake-up transmit is       *)
(* acting on.  The destructor adds one token, and only once stop is set.   *)
TxTokens ==
    /\ main = "unblock_tx" \/ Posted => stop
    /\ Alive /\ tx_pc # "done" =>
         txfull + (IF tx_pc \in {"check", "pop"} THEN 1 ELSE 0)
                + (IF main = "post" THEN 1 ELSE 0)
           = Len(tx_fifo) + (IF Posted THEN 1 ELSE 0)
    /\ Alive /\ Posted /\ tx_pc = "pop" => txfull > 0

(* Every place of rx_fifo is taken by a byte, about to be taken by the     *)
(* thread receive, or counted by the semaphore rxempty.                    *)
RxTokens ==
    rxempty + Len(rx_fifo) + (IF rx_pc = "push" THEN 1 ELSE 0) = UART_FIFO_DEPTH

TxOrder ==
    sent = (written \o (IF tx_pc \in {"notify", "write"} THEN <<tx_data>> ELSE << >>))
             \o tx_fifo

RxOrder == pushed = received \o rx_fifo

TxInv == TxTypes /\ TxTokens /\ NeverPopsEmpty /\ Len(tx_fifo) <= UART_FIFO_DEPTH

RxInv == RxTypes /\ RxTokens

UartInv == TxInv /\ RxInv /\ TxOrder /\ RxOrder /\ ConfTypes /\ WatermarkSignalled

----------------------------------------------------------------------------
(* What the steps leave alone.                                             *)

(* The transmit side sees the steps of the others only as an end of the    *)
(* process.                                                                *)
LEMMA OthersLeaveTx ==
    ASSUME \/ ReadRxdata \/ WriteControl \/ interrupt \/ Receive
           \/ \E buf \in Keys : handle_input(buf)
           \/ UNCHANGED vars
    PROVE  /\ UNCHANGED <<txVars, stop>>
           /\ main' = main \/ main' \in {"exited", "aborted"}
<1>1. CASE \E buf \in Keys : handle_input(buf)
  <2>1. PICK buf \in Keys : handle_input(buf)
    BY <1>1
  <2>2. QED
    BY <2>1, Zenon DEF handle_input, txVars
<1>2. CASE ReadRxdata \/ WriteControl \/ interrupt \/ UNCHANGED vars
  BY <1>2 DEF ReadRxdata, WriteControl, interrupt, vars, txVars, endVars
<1>3. CASE Receive
  BY <1>3 DEF Receive, ReceivePoll, rxpushWait, rxpush, rxpushNotify, txVars, endVars
<1>4. QED
  BY <1>1, <1>2, <1>3

(* The receive side does not see the steps of the others.                  *)
LEMMA OthersLeaveRx ==
    ASSUME \/ WriteTxdata \/ PostTxfull \/ WriteControl \/ interrupt \/ Transmit
           \/ Destroy \/ UNCHANGED vars
    PROVE  UNCHANGED rxVars
<1>1. CASE WriteTxdata \/ PostTxfull \/ WriteControl \/ interrupt \/ Destroy
  BY <1>1 DEF WriteTxdata, PostTxfull, WriteControl, interrupt, Destroy
<1>2. CASE Transmit
  BY <1>2 DEF Transmit, TransmitControl, TransmitPop, TransmitNotify, write_data
<1>3. CASE UNCHANGED vars
  BY <1>3 DEF vars
<1>4. QED
  BY <1>1, <1>2, <1>3

----------------------------------------------------------------------------
(* The tokens of the transmit side.                                        *)

LEMMA TxStep ==
    ASSUME ConstantsOK, TxInv, [Next]_vars
    PROVE  TxInv'
<1> USE DEF ConstantsOK, TxInv, TxTypes, TxTokens, NeverPopsEmpty, Posted, Alive
<1>1. CASE WriteTxdata
  <2> DEFINE x == Len(sent) + 1
  <2>1. /\ main = "run" /\ main' = "post"
        /\ UNCHANGED <<txfull, tx_pc, tx_data, written, stop>>
        /\ tx_fifo' = Append(tx_fifo, x) /\ sent' = Append(sent, x)
        /\ Len(tx_fifo) < UART_FIFO_DEPTH
    BY <1>1 DEF WriteTxdata
  <2>2. tx_fifo \in Seq(Nat) /\ sent \in Seq(Nat) /\ x \in Nat
    OBVIOUS
  <2> HIDE DEF x
  <2>3. /\ tx_fifo' \in Seq(Nat) /\ sent' \in Seq(Nat)
        /\ Len(tx_fifo') = Len(tx_fifo) + 1 /\ tx_fifo' # << >>
    <3> HIDE DEF TxInv, TxTypes, TxTokens
    <3>1. QED
      BY <2>1, <2>2, AppendFacts
  <2>4. TxTokens'
    BY <2>1, <2>3
  <2>5. QED
    BY <2>1, <2>2, <2>3, <2>4
<1>2. CASE PostTxfull
  BY <1>2 DEF PostTxfull
<1>3. CASE TransmitControl
  <2>1. UNCHANGED <<tx_fifo, tx_data, sent, written, main, stop>>
    BY <1>3 DEF TransmitControl, endVars
  <2>2. CASE TransmitStep("loop", IF stop THEN "done" ELSE "wait") /\ UNCHANGED txfull
    BY <2>1, <2>2 DEF TransmitStep
  <2>3. CASE TransmitStep("wait", "check") /\ txfull > 0 /\ txfull' = txfull - 1
    BY <2>1, <2>3 DEF TransmitStep
  <2>4. CASE TransmitStep("check", IF stop THEN "done" ELSE "pop") /\ UNCHANGED txfull
    BY <2>1, <2>4 DEF TransmitStep
  <2>5. QED
    BY <1>3, <2>2, <2>3, <2>4 DEF TransmitControl
<1>4. CASE TransmitPop
  <2>1. /\ Alive /\ tx_pc = "pop" /\ tx_pc' = "notify"
        /\ tx_data' = Head(tx_fifo) /\ tx_fifo' = Tail(tx_fifo)
        /\ UNCHANGED <<txfull, sent, written, main, stop>>
    BY <1>4 DEF TransmitPop, TransmitStep, endVars
  <2>2. tx_fifo # << >>
    BY <2>1
  <2>3. /\ Head(tx_fifo) \in Nat /\ Tail(tx_fifo) \in Seq(Nat)
        /\ Len(Tail(tx_fifo)) = Len(tx_fifo) - 1
    BY <2>2
  <2>4. QED
    BY <2>1, <2>3
<1>5. CASE TransmitNotify
  BY <1>5 DEF TransmitNotify, TransmitStep, endVars
<1>6. CASE write_data
  <2>1. /\ tx_pc = "write" /\ UNCHANGED <<tx_fifo, txfull, tx_data, sent, stop>>
        /\ tx_pc' = IF Derived THEN "loop" ELSE "write"
        /\ written' = IF Derived THEN Append(written, tx_data) ELSE written
        /\ main' = IF Derived THEN main ELSE "aborted"
    BY <1>6 DEF write_data, TransmitStep
  <2>2. CASE Derived
    <3>1. written' \in Seq(Nat)
      BY <2>1, <2>2
    <3>2. QED
      BY <2>1, <2>2, <3>1
  <2>3. CASE ~Derived
    BY <2>1, <2>3
  <2>4. QED
    BY <2>2, <2>3
<1>7. CASE Destroy
  <2>1. UNCHANGED <<tx_fifo, tx_pc, tx_data, sent, written>>
    BY <1>7 DEF Destroy
  <2>2. CASE main = "unblock_tx"
    <3>1. main' = "join_tx" /\ txfull' = txfull + 1 /\ stop' = stop
      BY <1>7, <2>2 DEF Destroy
    <3>2. stop /\ stop'
      BY <2>2, <3>1
    <3>3. TxTypes' /\ NeverPopsEmpty' /\ Len(tx_fifo') <= UART_FIFO_DEPTH
      BY <2>1, <3>1
    <3>4. TxTokens'
      <4>1. Alive /\ ~Posted /\ Posted' /\ main # "post" /\ main' # "post"
        BY <2>2, <3>1
      <4>2. txfull \in Nat /\ Len(tx_fifo) \in Nat
        OBVIOUS
      <4>3. QED
        BY <2>1, <3>1, <3>2, <4>1, <4>2
    <3>5. QED
      BY <3>3, <3>4
  <2>3. CASE main # "unblock_tx"
    BY <1>7, <2>1, <2>3, SMTT(30) DEF Destroy
  <2>4. QED
    BY <2>2, <2>3
<1>8. CASE \/ ReadRxdata \/ WriteControl \/ interrupt \/ Receive
           \/ \E buf \in Keys : handle_input(buf)
           \/ UNCHANGED vars
  <2>1. /\ UNCHANGED <<txVars, stop>>
        /\ main' = main \/ main' \in {"exited", "aborted"}
    BY <1>8, OthersLeaveTx
  <2>2. QED
    BY <2>1 DEF txVars
<1>9. QED
  BY <1>1, <1>2, <1>3, <1>4, <1>5, <1>6, <1>7, <1>8 DEF Next, Guest, Transmit

----------------------------------------------------------------------------
(* The tokens of the receive side.                                         *)

LEMMA RxStep ==
    ASSUME ConstantsOK, RxInv, [Next]_vars
    PROVE  RxInv'
<1> USE DEF ConstantsOK, RxInv, RxTypes, RxTokens
<1>1. CASE ReadRxdata
  <2>1. /\ rx_fifo # << >> /\ received' = Append(received, Head(rx_fifo))
        /\ rx_fifo' = Tail(rx_fifo) /\ rxempty' = rxempty + 1
        /\ UNCHANGED <<rx_pc, rx_data, pushed>>
    BY <1>1 DEF ReadRxdata
  <2>2. /\ Head(rx_fifo) \in Bytes /\ Tail(rx_fifo) \in Seq(Bytes)
        /\ Len(Tail(rx_fifo)) = Len(rx_fifo) - 1
    BY <2>1
  <2>3. received' \in Seq(Bytes)
    BY <2>1, <2>2, AppendFacts
  <2>4. RxTypes' /\ Len(rx_fifo') = Len(rx_fifo) - 1
    BY <2>1, <2>2, <2>3
  <2>5. RxTokens'
    <3>1. rxempty \in Nat /\ Len(rx_fifo) \in Nat /\ RxTokens
      OBVIOUS
    <3>2. rxempty' = rxempty + 1 /\ rx_pc' = rx_pc
      BY <2>1
    <3>3. Len(rx_fifo') = Len(rx_fifo) - 1
      BY <2>4
    <3> HIDE DEF RxInv, RxTypes
    <3>4. QED
      BY <3>1, <3>2, <3>3
  <2>6. QED
    BY <2>4, <2>5
<1>2. CASE ReceivePoll
  BY <1>2, SMTT(30) DEF ReceivePoll, ReceiveStep
<1>3. CASE rxpushWait
  BY <1>3 DEF rxpushWait, ReceiveStep
<1>4. CASE rxpush
  <2>1. /\ rx_pc = "push" /\ rx_pc' = "notify"
        /\ rx_fifo' = Append(rx_fifo, rx_data) /\ pushed' = Append(pushed, rx_data)
        /\ UNCHANGED <<rxempty, rx_data, received>>
    BY <1>4 DEF rxpush, ReceiveStep
  <2>2. /\ rx_fifo' \in Seq(Bytes) /\ pushed' \in Seq(Bytes)
        /\ Len(rx_fifo') = Len(rx_fifo) + 1
    BY <2>1, AppendFacts
  <2>3. QED
    BY <2>1, <2>2
<1>5. CASE rxpushNotify
  BY <1>5 DEF rxpushNotify, ReceiveStep
<1>6. CASE \E buf \in Keys : handle_input(buf)
  <2>1. PICK buf \in Keys : handle_input(buf)
    BY <1>6
  <2>2. /\ rx_pc = "poll" /\ rx_pc' \in {"loop", "rxpush"} /\ rx_data' = buf
        /\ UNCHANGED <<rx_fifo, rxempty, pushed, received>>
    BY <2>1 DEF handle_input
  <2>3. QED
    BY <2>1, <2>2 DEF Bytes
<1>7. CASE \/ WriteTxdata \/ PostTxfull \/ WriteControl \/ interrupt \/ Transmit
           \/ Destroy \/ UNCHANGED vars
  <2>1. UNCHANGED rxVars
    BY <1>7, OthersLeaveRx
  <2>2. QED
    BY <2>1 DEF rxVars
<1>8. QED
  BY <1>1, <1>2, <1>3, <1>4, <1>5, <1>6, <1>7 DEF Next, Guest, Receive

----------------------------------------------------------------------------
(* The order of the bytes.                                                 *)

LEMMA TxOrderStep ==
    ASSUME TxInv, TxOrder, [Next]_vars
    PROVE  TxOrder'
<1> DEFINE held == IF tx_pc \in {"notify", "write"} THEN <<tx_data>> ELSE << >>
<1>1. /\ tx_fifo \in Seq(Nat) /\ sent \in Seq(Nat) /\ written \in Seq(Nat)
      /\ tx_data \in Nat /\ <<tx_data>> \in Seq(Nat) /\ held \in Seq(Nat)
      /\ written \o held \in Seq(Nat)
      /\ sent = (written \o held) \o tx_fifo
  BY DEF TxInv, TxTypes, TxOrder
<1>2. CASE WriteTxdata
  <2> DEFINE x == Len(sent) + 1
  <2>1. /\ UNCHANGED <<tx_pc, tx_data, written>>
        /\ tx_fifo' = Append(tx_fifo, x) /\ sent' = Append(sent, x)
    BY <1>2 DEF WriteTxdata
  <2>2. held' = held /\ x \in Nat
    BY <1>1, <2>1
  <2> HIDE DEF held, x
  <2>3. Append(sent, x) = sent \o <<x>> /\ Append(tx_fifo, x) = tx_fifo \o <<x>>
    BY <1>1, <2>2, AppendJoins, Zenon
  <2>4. ((written \o held) \o tx_fifo) \o <<x>> = (written \o held) \o (tx_fifo \o <<x>>)
    <3> DEFINE front == written \o held
    <3>1. front \in Seq(Nat) /\ tx_fifo \in Seq(Nat) /\ x \in Nat
      BY <1>1, <2>2
    <3> HIDE DEF front
    <3>2. (front \o tx_fifo) \o <<x>> = front \o (tx_fifo \o <<x>>)
      BY <3>1, ConcatLast, SMTT(30)
    <3>3. QED
      BY <3>2 DEF front
  <2>5. sent' = (written' \o held') \o tx_fifo'
    <3>1. sent' = sent \o <<x>> /\ tx_fifo' = tx_fifo \o <<x>> /\ written' = written
      BY <2>1, <2>3
    <3>2. sent = (written \o held) \o tx_fifo
      BY <1>1
    <3>3. QED
      BY <2>2, <2>4, <3>1, <3>2, Zenon
  <2>6. QED
    BY <2>5 DEF TxOrder, held
<1>3. CASE TransmitControl
  <2>1. /\ UNCHANGED <<tx_fifo, tx_data, sent, written>>
        /\ tx_pc \in {"loop", "wait", "check"}
        /\ tx_pc' \in {"done", "wait", "check", "pop"}
    BY <1>3 DEF TransmitControl, TransmitStep
  <2>2. held = << >> /\ held' = << >>
    BY <2>1
  <2>3. QED
    BY <1>1, <2>1, <2>2, Zenon DEF TxOrder
<1>4. CASE TransmitPop
  <2>1. /\ tx_pc = "pop" /\ tx_pc' = "notify"
        /\ tx_data' = Head(tx_fifo) /\ tx_fifo' = Tail(tx_fifo)
        /\ UNCHANGED <<sent, written>>
    BY <1>4 DEF TransmitPop, TransmitStep
  <2>2. tx_fifo # << >>
    BY <2>1 DEF TxInv, NeverPopsEmpty
  <2>3. held = << >> /\ held' = <<Head(tx_fifo)>>
    BY <2>1
  <2>4. written \o << >> = written
    BY <1>1
  <2>5. written \o tx_fifo = (written \o <<Head(tx_fifo)>>) \o Tail(tx_fifo)
    BY <1>1, <2>2, ConcatHeadTail, Zenon
  <2>6. sent' = (written' \o held') \o tx_fifo'
    BY <1>1, <2>1, <2>3, <2>4, <2>5, Zenon
  <2>7. QED
    BY <2>6 DEF TxOrder
<1>5. CASE TransmitNotify
  BY <1>5 DEF TransmitNotify, TransmitStep, TxOrder
<1>6. CASE write_data
  <2>1. /\ tx_pc = "write" /\ UNCHANGED <<tx_fifo, tx_data, sent>>
        /\ tx_pc' = IF Derived THEN "loop" ELSE "write"
        /\ written' = IF Derived THEN Append(written, tx_data) ELSE written
    BY <1>6 DEF write_data, TransmitStep
  <2>2. CASE Derived
    <3>1. held = <<tx_data>> /\ held' = << >>
      BY <2>1, <2>2
    <3>2. written' = written \o <<tx_data>> /\ written' \in Seq(Nat)
      BY <1>1, <2>1, <2>2, AppendJoins, AppendFacts
    <3>3. written' \o << >> = written'
      BY <3>2
    <3>4. sent' = (written' \o held') \o tx_fifo'
      BY <1>1, <2>1, <3>1, <3>2, <3>3, Zenon
    <3>5. QED
      BY <3>4 DEF TxOrder
  <2>3. CASE ~Derived
    BY <2>1, <2>3 DEF TxOrder
  <2>4. QED
    BY <2>2, <2>3
<1>7. CASE PostTxfull \/ Destroy
  BY <1>7, Zenon DEF PostTxfull, Destroy, TxOrder
<1>8. CASE \/ ReadRxdata \/ WriteControl \/ interrupt \/ Receive
           \/ \E buf \in Keys : handle_input(buf)
           \/ UNCHANGED vars
  <2>1. UNCHANGED txVars
    BY <1>8, OthersLeaveTx
  <2>2. QED
    BY <2>1 DEF TxOrder, txVars
<1>9. QED
  BY <1>2, <1>3, <1>4, <1>5, <1>6, <1>7, <1>8 DEF Next, Guest, Transmit

LEMMA RxOrderStep ==
    ASSUME RxInv, RxOrder, [Next]_vars
    PROVE  RxOrder'
<1>1. /\ rx_fifo \in Seq(Bytes) /\ pushed \in Seq(Bytes)
      /\ received \in Seq(Bytes) /\ rx_data \in Bytes
      /\ pushed = received \o rx_fifo
  BY DEF RxInv, RxTypes, RxOrder
<1>2. CASE ReadRxdata
  <2>1. /\ rx_fifo # << >> /\ received' = Append(received, Head(rx_fifo))
        /\ rx_fifo' = Tail(rx_fifo) /\ pushed' = pushed
    BY <1>2 DEF ReadRxdata
  <2>2. received \o rx_fifo = (received \o <<Head(rx_fifo)>>) \o Tail(rx_fifo)
    BY <1>1, <2>1, ConcatHeadTail, SMTT(30)
  <2>3. Head(rx_fifo) \in Bytes
    BY <1>1, <2>1
  <2>4. Append(received, Head(rx_fifo)) = received \o <<Head(rx_fifo)>>
    BY <1>1, <2>3, AppendJoins
  <2>5. QED
    BY <1>1, <2>1, <2>2, <2>4, SMTT(30) DEF RxOrder
<1>3. CASE rxpush
  <2>1. /\ rx_fifo' = Append(rx_fifo, rx_data) /\ pushed' = Append(pushed, rx_data)
        /\ received' = received
    BY <1>3 DEF rxpush
  <2>2. /\ Append(rx_fifo, rx_data) = rx_fifo \o <<rx_data>>
        /\ Append(pushed, rx_data) = pushed \o <<rx_data>>
    BY <1>1, AppendJoins
  <2>3. (received \o rx_fifo) \o <<rx_data>> = received \o (rx_fifo \o <<rx_data>>)
    BY <1>1, ConcatLast
  <2>4. QED
    BY <1>1, <2>1, <2>2, <2>3 DEF RxOrder
<1>4. CASE ReceivePoll \/ rxpushWait \/ rxpushNotify
  BY <1>4, Zenon DEF ReceivePoll, rxpushWait, rxpushNotify, RxOrder
<1>5. CASE \E buf \in Keys : handle_input(buf)
  BY <1>5 DEF handle_input, RxOrder
<1>6. CASE \/ WriteTxdata \/ PostTxfull \/ WriteControl \/ interrupt \/ Transmit
           \/ Destroy \/ UNCHANGED vars
  <2>1. UNCHANGED rxVars
    BY <1>6, OthersLeaveRx
  <2>2. QED
    BY <2>1 DEF rxVars, RxOrder
<1>7. QED
  BY <1>2, <1>3, <1>4, <1>5, <1>6 DEF Next, Guest, Receive

----------------------------------------------------------------------------
(* The watermarks.                                                         *)

LEMMA ConfStep ==
    ASSUME ConstantsOK, ConfTypes, [Next]_vars
    PROVE  ConfTypes'
<1>1. CASE WriteControl
  BY <1>1, Zenon DEF WriteControl, ConfTypes, ConstantsOK
<1>2. CASE UNCHANGED confVars
  BY <1>2 DEF confVars, ConfTypes
<1>3. WriteControl \/ UNCHANGED confVars
  <2>1. CASE \E buf \in Keys : handle_input(buf)
    BY <2>1 DEF handle_input
  <2>2. CASE Guest \/ PostTxfull \/ interrupt \/ Destroy
    BY <2>2 DEF Guest, WriteTxdata, ReadRxdata, PostTxfull, interrupt, Destroy
  <2>3. CASE Transmit
    BY <2>3 DEF Transmit, TransmitControl, TransmitPop, TransmitNotify, write_data
  <2>4. CASE Receive
    BY <2>4 DEF Receive, ReceivePoll, rxpushWait, rxpush, rxpushNotify
  <2>5. CASE vars' = vars
    BY <2>5 DEF vars
  <2> QED BY <2>1, <2>2, <2>3, <2>4, <2>5 DEF Next
<1>4. QED
  BY <1>1, <1>2, <1>3

(* The PLIC has been or will be triggered for a source.                    *)
Covered(w) ==
    w \in signalled \/ w \in missed \/ event \/ tx_pc = "notify" \/ rx_pc = "notify"

LEMMA WatermarkCovered ==
    ASSUME ConfTypes
    PROVE  WatermarkSignalled <=> \A w \in Conditions : Covered(w)
<1>1. Conditions \subseteq {"rx", "tx"}
  BY DEF Conditions, Watermarks, ConfTypes
<1>2. CASE event \/ "notify" \in {tx_pc, rx_pc}
  BY <1>1, <1>2 DEF WatermarkSignalled, Covered
<1>3. CASE ~(event \/ "notify" \in {tx_pc, rx_pc})
  BY <1>3 DEF WatermarkSignalled, Covered
<1>4. QED
  BY <1>2, <1>3

LEMMA WatermarkStep ==
    ASSUME ConstantsOK, TxInv, RxInv, ConfTypes, WatermarkSignalled, [Next]_vars
    PROVE  WatermarkSignalled'
<1>1. /\ txctrl \in Nat /\ rxctrl \in Nat
      /\ Len(tx_fifo) \in Nat /\ Len(rx_fifo) \in Nat
  BY DEF ConfTypes, TxInv, TxTypes, RxInv, RxTypes
<1>2. \A w \in Conditions : Covered(w)
  BY WatermarkCovered
<1>3. SUFFICES ASSUME NEW w \in Conditions'
               PROVE  Covered(w)'
  <2>1. ConfTypes'
    BY ConfStep
  <2>2. (WatermarkSignalled <=> \A w \in Conditions : Covered(w))'
    BY <2>1, WatermarkCovered, PTL
  <2>3. QED
    BY <1>3, <2>2
<1>4. CASE WriteTxdata
  <2>1. Len(tx_fifo') = Len(tx_fifo) + 1
    <3>1. /\ tx_fifo' = Append(tx_fifo, Len(sent) + 1) /\ tx_fifo \in Seq(Nat)
          /\ Len(sent) + 1 \in Nat
      BY <1>4 DEF WriteTxdata, TxInv, TxTypes
    <3>2. QED
      BY <3>1, AppendFacts
  <2>2. UNCHANGED <<confVars, rx_fifo, event, tx_pc, rx_pc>> /\ Forget
    BY <1>4 DEF WriteTxdata, rxVars
  <2>3. w \in Conditions
    BY <1>1, <2>1, <2>2 DEF Conditions, Watermarks, confVars
  <2>4. QED
    BY <1>2, <2>2, <2>3 DEF Covered, Forget
<1>5. CASE ReadRxdata
  <2>1. Len(rx_fifo') = Len(rx_fifo) - 1
    BY <1>5 DEF ReadRxdata, RxInv, RxTypes
  <2>2. UNCHANGED <<confVars, tx_fifo, event, tx_pc, rx_pc>> /\ Forget
    BY <1>5 DEF ReadRxdata, txVars
  <2>3. w \in Conditions
    BY <1>1, <2>1, <2>2 DEF Conditions, Watermarks, confVars
  <2>4. QED
    BY <1>2, <2>2, <2>3 DEF Covered, Forget
<1>6. CASE WriteControl
  <2>1. /\ UNCHANGED <<tx_fifo, rx_fifo, tx_pc, rx_pc>>
        /\ signalled' = signalled \cap Conditions'
        /\ missed' = (missed \cap Conditions')
                       \cup IF txctrl' > txctrl THEN Conditions' \ Conditions ELSE {}
    BY <1>6 DEF WriteControl, txVars, rxVars
  <2>2. CASE \E n \in Thresholds :
               /\ txctrl' = n /\ event' = (event \/ n < txctrl)
               /\ UNCHANGED <<rxctrl, ie>>
    <3>1. PICK n \in Thresholds :
            /\ txctrl' = n /\ event' = (event \/ n < txctrl)
            /\ UNCHANGED <<rxctrl, ie>>
      BY <2>2
    <3>2. n \in Nat
      BY DEF ConstantsOK
    <3>3. CASE n < txctrl
      BY <3>1, <3>3, Zenon DEF Covered
    <3>4. CASE n > txctrl
      BY <1>2, <2>1, <3>1, <3>4, Zenon DEF Covered
    <3>5. CASE n = txctrl
      <4>1. w \in Conditions
        BY <2>1, <3>1, <3>5 DEF Conditions
      <4>2. QED
        BY <1>2, <2>1, <3>1, <4>1, Zenon DEF Covered
    <3>6. QED
      BY <1>1, <3>2, <3>3, <3>4, <3>5
  <2>3. CASE \E n \in Thresholds :
               /\ rxctrl' = n /\ event' = (event \/ n < rxctrl)
               /\ UNCHANGED <<txctrl, ie>>
    <3>1. PICK n \in Thresholds :
            /\ rxctrl' = n /\ event' = (event \/ n < rxctrl)
            /\ UNCHANGED <<txctrl, ie>>
      BY <2>3
    <3>2. n \in Nat
      BY DEF ConstantsOK
    <3>3. CASE n < rxctrl
      BY <3>1, <3>3, Zenon DEF Covered
    <3>4. CASE ~(n < rxctrl)
      <4>1. w \in Conditions
        BY <1>1, <2>1, <3>1, <3>2, <3>4 DEF Conditions, Watermarks
      <4>2. QED
        BY <1>2, <2>1, <3>1, <4>1, Zenon DEF Covered
    <3>5. QED
      BY <3>3, <3>4
  <2>4. CASE event' = TRUE
    BY <2>4 DEF Covered
  <2>5. QED
    BY <1>6, <2>2, <2>3, <2>4, Zenon DEF WriteControl
<1>7. CASE interrupt
  BY <1>7 DEF interrupt, Covered, Conditions, confVars, txVars, rxVars
<1>8. CASE PostTxfull \/ Destroy \/ UNCHANGED vars
  <2>1. UNCHANGED <<confVars, tx_fifo, rx_fifo, event, tx_pc, rx_pc, signalled, missed>>
    BY <1>8 DEF PostTxfull, Destroy, vars, txVars, rxVars
  <2>2. QED
    BY <1>2, <2>1 DEF Covered, Conditions, confVars
<1>9. CASE TransmitControl \/ write_data
  <2>1. /\ UNCHANGED <<confVars, tx_fifo, rx_fifo, event, rx_pc, signalled, missed>>
        /\ tx_pc # "notify"
    BY <1>9 DEF TransmitControl, TransmitStep, write_data, rxVars
  <2>2. QED
    BY <1>2, <2>1 DEF Covered, Conditions, confVars
<1>10. CASE TransmitPop \/ rxpush
  BY <1>10 DEF TransmitPop, TransmitStep, rxpush, ReceiveStep, Covered
<1>11. CASE TransmitNotify \/ rxpushNotify
  BY <1>11 DEF TransmitNotify, rxpushNotify, Covered
<1>12. CASE ReceivePoll \/ rxpushWait
  <2>1. /\ UNCHANGED <<confVars, tx_fifo, rx_fifo, event, tx_pc, signalled, missed>>
        /\ rx_pc # "notify"
    BY <1>12 DEF ReceivePoll, rxpushWait, ReceiveStep, txVars
  <2>2. QED
    BY <1>2, <2>1 DEF Covered, Conditions, confVars
<1>13. CASE \E buf \in Keys : handle_input(buf)
  <2>1. /\ UNCHANGED <<confVars, tx_fifo, rx_fifo, event, tx_pc, signalled, missed>>
        /\ rx_pc # "notify"
    BY <1>13 DEF handle_input, txVars
  <2>2. QED
    BY <1>2, <2>1 DEF Covered, Conditions, confVars
<1>14. QED
  BY <1>4, <1>5, <1>6, <1>7, <1>8, <1>9, <1>10, <1>11, <1>12, <1>13
     DEF Next, Guest, Transmit, Receive

----------------------------------------------------------------------------
LEMMA InitInv ==
    ASSUME ConstantsOK, Init
    PROVE  UartInv
<1> USE DEF ConstantsOK, Init
<1>1. TxInv
  BY DEF TxInv, TxTypes, TxTokens, Posted, NeverPopsEmpty
<1>2. RxInv
  BY DEF RxInv, RxTypes, RxTokens, Bytes
<1>3. TxOrder /\ RxOrder
  BY DEF TxOrder, RxOrder
<1>4. ConfTypes /\ WatermarkSignalled
  BY DEF ConfTypes, WatermarkSignalled, Conditions, Watermarks
<1>5. QED
  BY <1>1, <1>2, <1>3, <1>4 DEF UartInv

(* The tokens, the order of the bytes and the watermarks in every          *)
(* reachable state.                                                        *)
THEOREM Invariance ==
    ASSUME ConstantsOK
    PROVE  Spec => []UartInv
<1>1. Init => UartInv
  BY InitInv
<1>2. UartInv /\ [Next]_vars => UartInv'
  BY TxStep, RxStep, TxOrderStep, RxOrderStep, ConfStep, WatermarkStep DEF UartInv
<1>3. QED
  BY <1>1, <1>2, PTL DEF Spec

(* For FIFOs of any depth: transmit never takes the front of an empty      *)
(* queue, neither FIFO outgrows its depth and no byte is lost, duplicated  *)
(* or reordered between the guest and the terminal.                        *)
THEOREM FifosAlwaysSound ==
    ASSUME ConstantsOK
    PROVE  Spec => []FifosSound
<1>1. UartInv => FifosSound
  <2>1. ASSUME RxInv PROVE Len(rx_fifo) <= UART_FIFO_DEPTH
    BY <2>1 DEF RxInv, RxTypes, RxTokens, ConstantsOK
  <2>2. QED
    BY <2>1 DEF UartInv, FifosSound, BytesInOrder, FifosBounded, TxInv, TxOrder, RxOrder
<1>2. QED
  BY <1>1, Invariance, PTL

(* A watermark condition that holds for an enabled interrupt has been      *)
(* signalled to the PLIC, or a notification is outstanding or about to be  *)
(* given, but for the raised transmit count that does not notify.          *)
THEOREM WatermarkAlwaysSignalled ==
    ASSUME ConstantsOK
    PROVE  Spec => []WatermarkSignalled
<1>1. UartInv => WatermarkSignalled
  BY DEF UartInv
<1>2. QED
  BY <1>1, Invariance, PTL

----------------------------------------------------------------------------
(* The controller of the HiFive platform, for any set of interrupts and    *)
(* any priorities, and the hart it signals.                                *)

INSTANCE WellFoundedInduction

CONSTANTS Irqs, MaxPriority, Written, MaxTriggers, MaxWrites, GuestPolls
VARIABLES interrupt_priorities, pending_interrupts, hart_enabled_interrupts,
          priority_threshold, claim_response, hart_eip, e_run, meip, handler, aborted,
          missed_p, triggers, writes

Plic == INSTANCE FE310PLIC WITH missed <- missed_p

(* What the proofs assume of the constants: interrupts have numbers, zero  *)
(* is none of them, and there is a priority above zero.                    *)
PlicConstants ==
    /\ Irqs \subseteq Nat \ {0} /\ MaxPriority \in Nat \ {0} /\ Written \subseteq Nat
    /\ MaxTriggers \in Nat /\ MaxWrites \in Nat

(* The inductive invariant: agreement with the hart, no lost interrupt and *)
(* the standing signal support each other.                                 *)
PlicInv == Plic!TypeOK /\ Plic!EipMatchesHart /\ Plic!NoInterruptLost /\ Plic!SignalledInHandler

(* A non-empty set of naturals has a least element.                        *)
LEMMA LeastElement ==
    ASSUME NEW T \in SUBSET Nat, T # {}
    PROVE  \E x \in T : \A y \in T : x <= y
<1>1. PICK x \in T : \A y \in T : <<y, x>> \notin OpToRel(<, Nat)
  BY WFMin, NatLessThanWellFounded, Zenon
<1>2. \A y \in T : ~(y < x)
  BY <1>1, Zenon DEF OpToRel
<1>3. QED
  BY <1>2

(* A non-empty set of interrupts has one of the highest priority, and      *)
(* among those one of the smallest number.                                 *)
LEMMA BestExists ==
    ASSUME NEW m \in Nat, NEW S \in SUBSET Nat, S # {}, NEW f,
           \A i \in S : f[i] \in 0..m
    PROVE  \E i \in S : \A j \in S : f[j] < f[i] \/ (f[j] = f[i] /\ i <= j)
<1> DEFINE Gap(i) == m - f[i]
           Gaps == {Gap(i) : i \in S}
<1>1. \A i \in S : i \in Nat /\ f[i] \in Nat /\ Gap(i) \in Nat
  OBVIOUS
<1>2. Gaps \in SUBSET Nat /\ Gaps # {}
  BY <1>1
<1>3. PICK g \in Gaps : \A h \in Gaps : g <= h
  BY <1>2, LeastElement, Zenon
<1> DEFINE Top == {i \in S : Gap(i) = g}
<1>4. Top \in SUBSET Nat /\ Top # {}
  BY <1>1, <1>3, Zenon
<1>5. PICK i \in Top : \A j \in Top : i <= j
  BY <1>4, LeastElement, Zenon
<1>6. ASSUME NEW j \in S
      PROVE  f[j] < f[i] \/ (f[j] = f[i] /\ i <= j)
  <2>1. Gap(i) <= Gap(j)
    BY <1>3, <1>5
  <2>2. f[i] \in Nat /\ f[j] \in Nat
    BY <1>1, <1>5
  <2>3. CASE f[i] = f[j]
    <3>1. j \in Top
      BY <1>5, <2>3
    <3>2. QED
      BY <1>5, <2>3, <3>1
  <2>4. CASE f[i] # f[j]
    BY <2>1, <2>2, <2>4
  <2>5. QED
    BY <2>3, <2>4
<1>7. QED
  BY <1>5, <1>6

(* hart_get_next_pending_interrupt returns one of the eligible interrupts, *)
(* and zero exactly when there is none.                                    *)
LEMMA NextPending ==
    ASSUME PlicConstants, Plic!TypeOK, NEW b \in BOOLEAN
    PROVE  /\ Plic!hart_get_next_pending_interrupt(b) \in Plic!Eligible(b) \cup {0}
           /\ Plic!hart_get_next_pending_interrupt(b) > 0 <=> Plic!Eligible(b) # {}
<1> DEFINE S == Plic!Eligible(b)
           Best(i) == \A j \in S :
               \/ interrupt_priorities[j] < interrupt_priorities[i]
               \/ interrupt_priorities[j] = interrupt_priorities[i] /\ i <= j
<1>1. S \subseteq Irqs
  BY DEF Plic!Eligible, Plic!TypeOK
<1>2. \A i \in S : i \in Nat /\ i > 0 /\ interrupt_priorities[i] \in 0..MaxPriority
  <2>1. \A i \in Irqs : i \in Nat /\ i > 0
    BY DEF PlicConstants
  <2>2. \A i \in Irqs : interrupt_priorities[i] \in 0..MaxPriority
    BY DEF Plic!TypeOK
  <2>3. QED
    BY <1>1, <2>1, <2>2
<1>3. CASE S = {}
  <2>1. Plic!hart_get_next_pending_interrupt(b) = 0
    BY <1>3, Zenon DEF Plic!hart_get_next_pending_interrupt
  <2>2. QED
    BY <1>3, <2>1
<1>4. CASE S # {}
  <2>1. \E k \in S : Best(k)
    BY <1>2, <1>4, BestExists, Zenon DEF PlicConstants
  <2>2. (CHOOSE k \in S : Best(k)) \in S
    BY <2>1
  <2>3. Plic!hart_get_next_pending_interrupt(b) = CHOOSE k \in S : Best(k)
    BY <1>4 DEF Plic!hart_get_next_pending_interrupt
  <2>4. QED
    BY <1>2, <1>4, <2>2, <2>3
<1>5. QED
  BY <1>3, <1>4

(* PlicInv holds after the constructor.                                    *)
LEMMA PlicInit == ASSUME PlicConstants, Plic!Init PROVE PlicInv
<1>1. Plic!TypeOK
  <2>1. /\ 1 \in 0..MaxPriority /\ 0 \in 0..MaxTriggers /\ 0 \in 0..MaxWrites
    BY DEF PlicConstants
  <2>2. interrupt_priorities \in [Irqs -> 0..MaxPriority]
    BY <2>1 DEF Plic!Init
  <2>3. QED
    BY <2>1, <2>2, Zenon DEF Plic!Init, Plic!TypeOK
<1>2. Plic!Eligible(TRUE) = {}
  BY DEF Plic!Init, Plic!Eligible
<1>3. QED
  BY <1>1, <1>2, Zenon DEF Plic!Init, PlicInv, Plic!EipMatchesHart, Plic!NoInterruptLost,
     Plic!SignalledInHandler

(* Eligible depends on the registers and the pending bits only.            *)
LEMMA EligibleUnchanged ==
    ASSUME UNCHANGED <<Plic!regVars, pending_interrupts>>
    PROVE  Plic!Eligible(TRUE)' = Plic!Eligible(TRUE)
BY DEF Plic!Eligible, Plic!regVars

(* A new pending interrupt is followed by a wake-up of run.                *)
LEMMA PlicTrigger ==
    ASSUME PlicConstants, PlicInv, NEW irq_id \in Irqs, Plic!gateway_trigger_interrupt(irq_id)
    PROVE  PlicInv'
<1>1. Plic!TypeOK'
  BY DEF PlicConstants, PlicInv, Plic!TypeOK, Plic!gateway_trigger_interrupt, Plic!regVars
<1>2. Plic!EipMatchesHart' /\ Plic!NoInterruptLost' /\ Plic!SignalledInHandler'
  BY DEF PlicInv, Plic!EipMatchesHart, Plic!NoInterruptLost, Plic!SignalledInHandler,
         Plic!gateway_trigger_interrupt
<1>3. QED
  BY <1>1, <1>2 DEF PlicInv

(* run signals the hart whenever an interrupt is deliverable.              *)
LEMMA PlicRun == ASSUME PlicConstants, PlicInv, Plic!run PROVE PlicInv'
<1>1. Plic!TypeOK
  BY DEF PlicInv
<1>2. Plic!hart_has_pending_enabled_interrupts <=> Plic!Eligible(TRUE) # {}
  BY <1>1, NextPending, Zenon DEF Plic!hart_has_pending_enabled_interrupts
<1>3. Plic!Eligible(TRUE)' = Plic!Eligible(TRUE)
  BY EligibleUnchanged, Zenon DEF Plic!run
<1>4. Plic!hart_has_pending_enabled_interrupts \in BOOLEAN
  BY DEF Plic!hart_has_pending_enabled_interrupts
<1>5. Plic!TypeOK'
  BY <1>1, <1>4, Zenon DEF Plic!TypeOK, Plic!run, Plic!regVars
<1>6. Plic!EipMatchesHart'
  BY DEF PlicInv, Plic!EipMatchesHart, Plic!run
<1>7. Plic!NoInterruptLost'
  BY <1>2, <1>3, Zenon DEF Plic!NoInterruptLost, Plic!run
<1>8. Plic!SignalledInHandler'
  BY Zenon DEF PlicInv, Plic!SignalledInHandler, Plic!run
<1>9. QED
  BY <1>5, <1>6, <1>7, <1>8 DEF PlicInv

(* A register write that makes an interrupt deliverable is recorded.       *)
LEMMA PlicConfigure == ASSUME PlicConstants, PlicInv, Plic!Configure PROVE PlicInv'
<1>1. Plic!TypeOK'
  <2>1. \A v \in Written : Plic!Minimum(v, MaxPriority) \in 0..MaxPriority /\ v \in Nat
    BY DEF PlicConstants, Plic!Minimum
  <2>2. /\ interrupt_priorities' \in [Irqs -> 0..MaxPriority]
        /\ hart_enabled_interrupts' \subseteq Irqs
        /\ priority_threshold' \in Nat
    BY <2>1 DEF PlicInv, Plic!TypeOK, Plic!Configure
  <2>3. missed_p' \in BOOLEAN /\ writes' \in 0..MaxWrites
    BY DEF PlicConstants, PlicInv, Plic!TypeOK, Plic!Configure
  <2>4. QED
    BY <2>2, <2>3 DEF PlicInv, Plic!TypeOK, Plic!Configure
<1>2. Plic!EipMatchesHart' /\ Plic!SignalledInHandler'
  BY DEF PlicInv, Plic!EipMatchesHart, Plic!SignalledInHandler, Plic!Configure
<1>3. Plic!NoInterruptLost'
  BY Zenon DEF PlicInv, Plic!NoInterruptLost, Plic!Configure
<1>4. QED
  BY <1>1, <1>2, <1>3 DEF PlicInv

(* Taking the external interrupt preserves PlicInv.                        *)
LEMMA PlicEnter == ASSUME PlicConstants, PlicInv, Plic!EnterHandler PROVE PlicInv'
<1>1. Plic!Eligible(TRUE)' = Plic!Eligible(TRUE)
  BY EligibleUnchanged, Zenon DEF Plic!EnterHandler
<1>2. Plic!TypeOK'
  BY DEF PlicInv, Plic!TypeOK, Plic!EnterHandler, Plic!regVars
<1>3. Plic!EipMatchesHart' /\ Plic!NoInterruptLost' /\ Plic!SignalledInHandler'
  BY <1>1, Zenon DEF PlicInv, Plic!EipMatchesHart, Plic!NoInterruptLost,
     Plic!SignalledInHandler, Plic!EnterHandler
<1>4. QED
  BY <1>2, <1>3 DEF PlicInv

(* A claim takes a pending interrupt away and leaves the signal standing.  *)
LEMMA PlicClaim == ASSUME PlicConstants, PlicInv, Plic!Claim PROVE PlicInv'
<1>1. Plic!hart_get_next_pending_interrupt(FALSE) \in Irqs \cup {0}
  BY NextPending, Zenon DEF PlicInv, Plic!Eligible, Plic!TypeOK
<1>2. Plic!TypeOK'
  BY <1>1, Zenon DEF PlicInv, Plic!TypeOK, Plic!Claim, Plic!regVars
<1>3. Plic!Eligible(TRUE)' \subseteq Plic!Eligible(TRUE)
  BY Zenon DEF Plic!Claim, Plic!Eligible, Plic!regVars
<1>4. Plic!EipMatchesHart' /\ Plic!NoInterruptLost' /\ Plic!SignalledInHandler'
  BY <1>3, Zenon DEF PlicInv, Plic!EipMatchesHart, Plic!NoInterruptLost,
     Plic!SignalledInHandler, Plic!Claim
<1>5. QED
  BY <1>2, <1>4 DEF PlicInv

(* A completion withdraws the signal only when nothing is deliverable.     *)
LEMMA PlicComplete == ASSUME PlicConstants, PlicInv, Plic!Complete PROVE PlicInv'
<1>1. Plic!TypeOK
  BY DEF PlicInv
<1>2. Plic!hart_has_pending_enabled_interrupts <=> Plic!Eligible(TRUE) # {}
  BY <1>1, NextPending, Zenon DEF Plic!hart_has_pending_enabled_interrupts
<1>3. Plic!Eligible(TRUE)' = Plic!Eligible(TRUE)
  BY EligibleUnchanged, Zenon DEF Plic!Complete
<1>4. Plic!TypeOK'
  BY <1>1, Zenon DEF Plic!TypeOK, Plic!Complete, Plic!regVars
<1>5. CASE Plic!hart_has_pending_enabled_interrupts
  BY <1>3, <1>4, <1>5, Zenon DEF PlicInv, Plic!EipMatchesHart, Plic!NoInterruptLost,
     Plic!SignalledInHandler, Plic!Complete, Plic!TypeOK
<1>6. CASE ~Plic!hart_has_pending_enabled_interrupts
  BY <1>2, <1>3, <1>4, <1>6, Zenon DEF PlicInv, Plic!EipMatchesHart, Plic!NoInterruptLost,
     Plic!SignalledInHandler, Plic!Complete
<1>7. QED
  BY <1>5, <1>6

(* The invariant holds in every behaviour of the controller.               *)
LEMMA PlicInvariant == ASSUME PlicConstants PROVE Plic!Spec => []PlicInv
<1>1. PlicInv /\ [Plic!Next]_(Plic!vars) => PlicInv'
  <2> SUFFICES ASSUME PlicInv, [Plic!Next]_(Plic!vars) PROVE PlicInv'
    OBVIOUS
  <2>1. CASE UNCHANGED Plic!vars
    <3>1. Plic!Eligible(TRUE)' = Plic!Eligible(TRUE)
      BY <2>1, EligibleUnchanged, Zenon DEF Plic!vars
    <3>2. QED
      BY <2>1, <3>1, Zenon DEF PlicInv, Plic!TypeOK, Plic!EipMatchesHart, Plic!NoInterruptLost,
         Plic!SignalledInHandler, Plic!vars, Plic!regVars
  <2>2. QED
    BY <2>1, PlicTrigger, PlicRun, PlicConfigure, PlicEnter, PlicClaim, PlicComplete
       DEF Plic!Next
<1>2. Plic!Init => PlicInv
  BY PlicInit
<1>3. QED
  BY <1>1, <1>2, PTL DEF Plic!Spec

(* The controller's hart_eip and the hart's MEIP bit never disagree.       *)
THEOREM ControllerAndHartAgree ==
    ASSUME PlicConstants
    PROVE  Plic!Spec => []Plic!EipMatchesHart
<1>1. PlicInv => Plic!EipMatchesHart
  BY DEF PlicInv
<1>2. QED
  BY <1>1, PlicInvariant, PTL

(* However triggers, wake-ups, claims and completions interleave, a        *)
(* deliverable interrupt is signalled or about to be looked at by run,     *)
(* unless a register write made it deliverable.                            *)
THEOREM NoInterruptIsLost ==
    ASSUME PlicConstants
    PROVE  Plic!Spec => []Plic!NoInterruptLost
<1>1. PlicInv => Plic!NoInterruptLost
  BY DEF PlicInv
<1>2. QED
  BY <1>1, PlicInvariant, PTL

(* For a guest that claims only when interrupted, the assertion of         *)
(* post_write_hart_config holds.                                           *)
THEOREM CompletionAssertionHolds ==
    ASSUME PlicConstants, ~GuestPolls
    PROVE  Plic!Spec => []Plic!CompletionAssertion
<1>1. PlicInv => Plic!CompletionAssertion
  BY DEF PlicInv, Plic!SignalledInHandler, Plic!CompletionAssertion
<1>2. QED
  BY <1>1, PlicInvariant, PTL

----------------------------------------------------------------------------
(* The controller of the FU540, for any number of harts, interrupts and    *)
(* priorities.                                                             *)

CONSTANTS NHarts, NUMIRQ, MAX_PRIO, MAX_THR, Words
VARIABLES prios, pending, enabled, threshold, eip, owed

FU540 == INSTANCE FU540PLIC

(* What the proof assumes of the constants.                                *)
FU540Constants == NUMIRQ \in Nat /\ MAX_PRIO \in Nat /\ Words \subseteq Nat

(* The inductive invariant: a pending interrupt has a trigger that no hart *)
(* has claimed.                                                            *)
ClaimInv ==
    /\ prios \in [0..(NUMIRQ - 1) -> 0..MAX_PRIO]
    /\ pending \subseteq owed /\ owed \subseteq FU540!Irqs

(* next_pending_irq returns zero or an interrupt that is pending.          *)
LEMMA NextIsPending ==
    ASSUME FU540Constants, ClaimInv, NEW c \in FU540!Contexts, NEW b \in BOOLEAN
    PROVE  FU540!next_pending_irq(c, b) \in pending \cup {0}
<1> DEFINE S == {irq \in FU540!Candidates(c, b) : prios[irq] > 0}
           Best(i) == \A j \in S : prios[i] > prios[j] \/ (prios[i] = prios[j] /\ i <= j)
<1>1. S \subseteq pending
  BY DEF FU540!Candidates
<1>2. S \in SUBSET (0..(NUMIRQ - 1))
  <2>1. \A irq \in S : irq \in FU540!Irqs /\ irq < NUMIRQ
    BY <1>1 DEF FU540!Candidates, ClaimInv
  <2>2. QED
    BY <2>1 DEF FU540!Irqs, FU540Constants
<1>3. CASE S = {}
  BY <1>3 DEF FU540!next_pending_irq
<1>4. CASE S # {}
  <2>1. \E i \in S : Best(i)
    <3>1. S \in SUBSET Nat /\ \A i \in S : prios[i] \in 0..MAX_PRIO
      BY <1>2 DEF ClaimInv, FU540Constants
    <3>2. \E i \in S : \A j \in S : prios[j] < prios[i] \/ (prios[j] = prios[i] /\ i <= j)
      BY <1>4, <3>1, BestExists, Zenon DEF FU540Constants
    <3>3. QED
      BY <3>1, <3>2
  <2>2. (CHOOSE i \in S : Best(i)) \in S
    BY <2>1
  <2>3. FU540!next_pending_irq(c, b) = CHOOSE i \in S : Best(i)
    BY <1>4 DEF FU540!next_pending_irq
  <2>4. QED
    BY <1>1, <2>2, <2>3
<1>5. QED
  BY <1>3, <1>4

LEMMA FU540Step ==
    ASSUME FU540Constants, ClaimInv, [FU540!Next]_(FU540!vars)
    PROVE  ClaimInv'
<1>1. CASE FU540!write_irq_prios
  <2>1. PICK i \in FU540!Irqs, w \in Words :
          prios' = [prios EXCEPT ![i - 1] = FU540!Min2(w, MAX_PRIO)]
    BY <1>1, Zenon DEF FU540!write_irq_prios
  <2>2. FU540!Min2(w, MAX_PRIO) \in 0..MAX_PRIO
    BY DEF FU540!Min2, FU540Constants
  <2>3. UNCHANGED <<pending, owed>>
    BY <1>1 DEF FU540!write_irq_prios
  <2>4. QED
    BY <2>1, <2>2, <2>3, Zenon DEF ClaimInv
<1>2. CASE \/ FU540!write_enabled \/ FU540!write_threshold \/ FU540!write_hartctx
           \/ FU540!run \/ UNCHANGED FU540!vars
  BY <1>2 DEF FU540!write_enabled, FU540!write_threshold, FU540!write_hartctx,
     FU540!run, FU540!vars, ClaimInv
<1>3. CASE FU540!gateway_trigger_interrupt
  BY <1>3 DEF FU540!gateway_trigger_interrupt, ClaimInv
<1>4. CASE FU540!read_hartctx
  <2>1. PICK c \in FU540!Contexts :
          IF FU540!OutOfRange(c) THEN aborted' = TRUE /\ UNCHANGED <<pending, owed>>
          ELSE /\ FU540!Claim(FU540!next_pending_irq(c, TRUE))
               /\ pending' = pending \ {FU540!next_pending_irq(c, TRUE)}
               /\ UNCHANGED aborted
    BY <1>4, Zenon DEF FU540!read_hartctx
  <2>2. prios' = prios
    BY <1>4 DEF FU540!read_hartctx
  <2>3. FU540!next_pending_irq(c, TRUE) \in pending \cup {0}
    BY NextIsPending, Zenon
  <2>4. QED
    BY <2>1, <2>2, <2>3, Zenon DEF FU540!Claim, ClaimInv
<1>5. QED
  BY <1>1, <1>2, <1>3, <1>4 DEF FU540!Next

(* Whatever the number of harts that see an interrupt pending, the trigger *)
(* of a device is claimed by at most one of them, and no claim returns an  *)
(* interrupt that was not triggered since it was last claimed.             *)
THEOREM AlwaysClaimedOnce ==
    ASSUME FU540Constants
    PROVE  FU540!Spec => []FU540!ClaimedOnce
<1>1. FU540!Init => ClaimInv
  BY DEF FU540!Init, ClaimInv, FU540Constants
<1>2. ClaimInv /\ [FU540!Next]_(FU540!vars) => ClaimInv'
  BY FU540Step
<1>3. ClaimInv => FU540!ClaimedOnce
  BY DEF ClaimInv, FU540!ClaimedOnce, FU540!Irqs, FU540Constants
<1>4. QED
  BY <1>1, <1>2, <1>3, PTL DEF FU540!Spec

----------------------------------------------------------------------------
(* The GPIO port and the thread of its server, for any set of pins and any *)
(* values the guest writes.                                                *)

CONSTANTS Pins, Writes, MaxRequests, MaxClients
VARIABLES value, input_en, output_en, port, pullup_en, rise_intr_en, rise_intr_pending,
          fall_intr_en, fall_intr_pending, state_g, event_g, main_g, mine, server, yours,
          stop_g, backlog, conn, open, late, writes_g, requests, clients

Gpio == INSTANCE GPIO WITH state <- state_g, event <- event_g, main <- main_g,
                           stop <- stop_g, writes <- writes_g

(* The pins on which an input lags behind a snapshot of server.state.      *)
Lagging(snapshot) ==
    (Gpio!xor(value, snapshot) \cap input_en) \ (output_en \cup late)

Announced == event_g \/ server = "notify"

(* The inductive invariant says the same of the snapshot that the SystemC  *)
(* thread holds: the one it will write back lags only while a change is    *)
(* announced, and the one it has applied does not lag at all.              *)
GpioInv ==
    /\ Gpio!InputsFollow
    /\ main_g \in {"port", "pullup"} /\ Lagging(mine) # {} => Announced
    /\ main_g = "sync" => Lagging(mine) = {}

(* What the steps of the server's thread and of clients leave alone, and   *)
(* that they take back no announcement.                                    *)
LEMMA ServerSteps ==
    ASSUME \/ Gpio!startListening_checks \/ Gpio!startListening_accepts
           \/ Gpio!read_set_bit \/ Gpio!asyncOnchange \/ Gpio!asyncOnchange_notifies
           \/ Gpio!read_invalid \/ Gpio!read_end
           \/ Gpio!client_connects \/ Gpio!client_disconnects
    PROVE  /\ UNCHANGED <<value, input_en, output_en, late, main_g, mine>>
           /\ Announced => Announced'
           /\ state_g' # state_g => Announced'
<1>1. CASE Gpio!startListening_checks
  BY <1>1, Zenon DEF Gpio!startListening_checks, Gpio!mainUnchanged, Gpio!regVars, Announced
<1>2. CASE Gpio!startListening_accepts
  BY <1>2, Zenon DEF Gpio!startListening_accepts, Gpio!mainUnchanged, Gpio!regVars, Announced
<1>3. CASE Gpio!read_set_bit
  BY <1>3, Zenon DEF Gpio!read_set_bit, Gpio!mainUnchanged, Gpio!regVars, Announced
<1>4. CASE Gpio!asyncOnchange
  BY <1>4, Zenon DEF Gpio!asyncOnchange, Gpio!mainUnchanged, Gpio!regVars, Announced
<1>5. CASE Gpio!asyncOnchange_notifies
  BY <1>5, Zenon DEF Gpio!asyncOnchange_notifies, Gpio!mainUnchanged, Gpio!regVars, Announced
<1>6. CASE Gpio!read_invalid
  BY <1>6, Zenon DEF Gpio!read_invalid, Gpio!mainUnchanged, Gpio!regVars, Announced
<1>7. CASE Gpio!read_end
  BY <1>7, Zenon DEF Gpio!read_end, Gpio!mainUnchanged, Gpio!regVars, Announced
<1>8. CASE Gpio!client_connects
  BY <1>8, Zenon DEF Gpio!client_connects, Gpio!mainUnchanged, Gpio!regVars, Announced
<1>9. CASE Gpio!client_disconnects
  BY <1>9, Zenon DEF Gpio!client_disconnects, Gpio!mainUnchanged, Gpio!regVars, Announced
<1> QED BY <1>1, <1>2, <1>3, <1>4, <1>5, <1>6, <1>7, <1>8, <1>9, Zenon

LEMMA ServerStep ==
    ASSUME GpioInv,
           UNCHANGED <<value, input_en, output_en, late, main_g, mine>>,
           Announced => Announced', state_g' # state_g => Announced'
    PROVE  GpioInv'
  BY SMTT(30) DEF GpioInv, Gpio!InputsFollow, Lagging, Gpio!xor, Announced

LEMMA GuestStep ==
    ASSUME GpioInv, Gpio!Guest
    PROVE  GpioInv'
<1> USE DEF Gpio!GuestWrites, GpioInv, Gpio!InputsFollow, Lagging, Gpio!xor, Announced,
        Gpio!serverVars
<1>1. CASE Gpio!write_input_en
  BY <1>1 DEF Gpio!write_input_en
<1>2. CASE Gpio!write_output_en
  BY <1>2 DEF Gpio!write_output_en
<1>3. CASE Gpio!write_port
  BY <1>3 DEF Gpio!write_port
<1>4. CASE Gpio!write_pullup_en
  BY <1>4 DEF Gpio!write_pullup_en
<1>5. CASE Gpio!write_interrupts
  BY <1>5, SMTT(30) DEF Gpio!write_interrupts, Gpio!regVars
<1> HIDE DEF Gpio!GuestWrites, GpioInv, Gpio!InputsFollow, Lagging, Gpio!xor, Announced,
         Gpio!serverVars
<1> QED BY <1>1, <1>2, <1>3, <1>4, <1>5, Zenon DEF Gpio!Guest

LEMMA SystemCStep ==
    ASSUME GpioInv, Gpio!SystemC \/ Gpio!quit
    PROVE  GpioInv'
<1> USE DEF GpioInv, Gpio!InputsFollow, Lagging, Gpio!xor, Announced, Gpio!serverVars
<1>1. CASE Gpio!write_state
  BY <1>1 DEF Gpio!write_state, Gpio!regVars
<1>2. CASE Gpio!synchronousChange
  BY <1>2 DEF Gpio!synchronousChange, Gpio!Sync, Gpio!diff, Gpio!syncUnchanged
<1>3. CASE Gpio!synchronousChange_again
  BY <1>3 DEF Gpio!synchronousChange_again, Gpio!Sync, Gpio!diff, Gpio!syncUnchanged
<1>4. CASE Gpio!join \/ Gpio!quit
  BY <1>4 DEF Gpio!join, Gpio!quit, Gpio!regVars
<1> HIDE DEF GpioInv, Gpio!InputsFollow, Lagging, Gpio!xor, Announced, Gpio!serverVars
<1> QED BY <1>1, <1>2, <1>3, <1>4, Zenon DEF Gpio!SystemC

(* Whatever the order in which the guest's writes, synchronousChange and   *)
(* the server's thread read and write server.state without a lock: an      *)
(* input that differs from it is about to be looked at, unless it was      *)
(* enabled late.                                                           *)
THEOREM InputsAlwaysFollow == Gpio!Spec => []Gpio!InputsFollow
<1>1. Gpio!Init => GpioInv
  BY DEF Gpio!Init, GpioInv, Gpio!InputsFollow, Gpio!xor, Lagging
<1>2. ASSUME GpioInv, [Gpio!Next]_(Gpio!vars) PROVE GpioInv'
  <2>1. CASE UNCHANGED Gpio!vars
    BY <1>2, <2>1 DEF Gpio!vars, Gpio!regVars, Gpio!serverVars, GpioInv,
       Gpio!InputsFollow, Lagging, Gpio!xor, Announced
  <2>2. CASE Gpio!Server \/ Gpio!read_set_bit \/ Gpio!read_invalid
             \/ Gpio!client_connects \/ Gpio!client_disconnects
    <3>1. /\ UNCHANGED <<value, input_en, output_en, late, main_g, mine>>
          /\ Announced => Announced'
          /\ state_g' # state_g => Announced'
      BY <2>2, ServerSteps, Zenon DEF Gpio!Server
    <3> QED BY <1>2, <3>1, ServerStep, Zenon
  <2>3. CASE Gpio!Guest
    BY <1>2, <2>3, GuestStep, Zenon
  <2>4. CASE Gpio!SystemC \/ Gpio!quit
    BY <1>2, <2>4, SystemCStep, Zenon
  <2> QED BY <1>2, <2>1, <2>2, <2>3, <2>4, Zenon DEF Gpio!Next
<1>3. GpioInv => Gpio!InputsFollow
  BY DEF GpioInv
<1>4. QED
  BY <1>1, <1>2, <1>3, PTL DEF Gpio!Spec
===========================================================================
