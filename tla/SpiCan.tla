------------------------------- MODULE SpiCan -------------------------------
(***************************************************************************)
(* The SPI controller of the HiFive platform (platform/hifive/spi.h) with  *)
(* the CAN controller behind it (platform/hifive/can.cpp).                 *)
(*                                                                         *)
(* The guest's driver clocks bytes through the SPI; every byte is a call   *)
(* of CAN::write, whose result the SPI queues.  A thread of the CAN model  *)
(* receives frames from the host and stores them in the receive buffers;   *)
(* it shares status with the SystemC thread, without a lock.               *)
(*                                                                         *)
(* Identifiers have their real width, without the flag of the host for     *)
(* extended ones (from Extended on), which the code never looks at nor     *)
(* sets; a register keeps one of its bits.                                 *)
(***************************************************************************)
EXTENDS Integers, Sequences, SequencesExt

CONSTANTS queue_size,    \* of the SPI: 16 in the code
          TXWM,          \* the guest has enabled the transmit watermark
          Regs, TXB0CTRL,
          TxIds, Lengths,\* the frames the guest sends
          RxIds,         \* the frames the bus delivers, in this order
          MaxOps         \* operations of the driver; one that is not for
                         \* receiving counts for two

VARIABLES
    rxqueue, ip,                                           \* SPI
    state, registers, txBuf, rxBuf, status, stop,          \* CAN
    selRead, selWrite, mod, load, rx_ptr,                  \* its static variables
    spi,         \* [pc, no, val, ret]: where the SystemC thread is in CAN::write
    listener,    \* [pc, buf, val]: the thread of the CAN model
    delivered,   \* frames taken from RxIds so far
    sent,        \* the last frame sent, and what had been loaded for it
    unread,      \* history: the buffers with a frame that is not yet read
    raced,       \* history: a thread has overwritten the other's status
    todo, resp, op, seen,   \* the driver: bytes to write, bytes read, the
                            \* operation, the receive flags it has seen
    loaded, got, ops

spiVars == <<rxqueue, ip>>
canVars == <<state, registers, txBuf, rxBuf, status, stop>>
staticVars == <<selRead, selWrite, mod, load, rx_ptr>>
driverVars == <<todo, resp, op, seen, loaded, got, ops>>
history == <<unread, raced>>
vars == <<spiVars, canVars, staticVars, driverVars, spi, listener, delivered, sent, history>>

-----------------------------------------------------------------------------
(* The identifier and the four bytes it has in a buffer:                   *)
(* <<SIDH, SIDL, EID8, EID0>>.                                             *)
Extended == 2048

mcp2515_id_to_buf(id, extended) ==
    IF extended
    THEN LET high == (id \div 65536) % 65536 IN
         <<(high \div 32) % 256,
           (((high \div 4) % 8) * 32) + 8 + (high % 4),
           (id \div 256) % 256,
           id % 256>>
    ELSE LET canid == id % 65536 IN
         <<(canid \div 8) % 256, (canid % 8) * 32, 0, 0>>

mcp2515_buf_to_id(buf) ==
    LET sid == buf[1] * 8 + (buf[2] \div 32) IN
    IF (buf[2] \div 8) % 2 = 1
    THEN ((sid * 4 + (buf[2] % 4)) * 256 + buf[3]) * 256 + buf[4]
    ELSE sid

NoFrame == [id |-> <<0, 0, 0, 0>>, length |-> 0, payload |-> <<>>]

(* raw[i] of an MCPFrame; what lies behind the payload is zero.            *)
Raw(f, i) == IF i < 4 THEN f.id[i + 1]
             ELSE IF i = 4 THEN f.length
             ELSE IF i - 4 <= Len(f.payload) THEN f.payload[i - 4] ELSE 0

-----------------------------------------------------------------------------
(* The commands, by their bytes.                                           *)

Commands == [b \in {2, 3, 5, 64, 66, 68, 129, 130, 132, 135, 144, 148, 160, 192} |->
    CASE b = 2 -> "writeRegister" [] b = 3 -> "readRegister" [] b = 5 -> "bitmod"
      [] b = 64 -> "loadTX0" [] b = 66 -> "loadTX1" [] b = 68 -> "loadTX2"
      [] b = 129 -> "sendTX0" [] b = 130 -> "sendTX1" [] b = 132 -> "sendTX2"
      [] b = 135 -> "sendALL" [] b = 144 -> "readRX0" [] b = 148 -> "readRX1"
      [] b = 160 -> "getStatus" [] b = 192 -> "init"]

(* The state after command(byte): an unknown one, and RX_STATUS, change    *)
(* nothing.                                                                *)
command(byte) == IF byte \in DOMAIN Commands THEN Commands[byte] ELSE state

whichBuf == CASE state \in {"loadTX1", "sendTX1", "readRX1"} -> 1
              [] state \in {"loadTX2", "sendTX2"} -> 2
              [] state = "sendALL" -> 3
              [] OTHER -> 0

Init ==
    /\ rxqueue = <<>> /\ ip = FALSE
    /\ state = "init" /\ registers \in [Regs -> {0, 1}]
    /\ txBuf = [n \in 0..2 |-> NoFrame] /\ rxBuf = [n \in 0..1 |-> NoFrame]
    /\ status = {} /\ stop = FALSE
    /\ selRead = -1 /\ selWrite = -1 /\ mod = [state |-> "address", address |-> 0, mask |-> 0]
    /\ load = [state |-> "id", ptr |-> 0] /\ rx_ptr = 0
    /\ spi = [pc |-> "idle", no |-> 0, val |-> {}, ret |-> 0]
    /\ listener \in {[pc |-> p, buf |-> 0, val |-> {}] : p \in {"loop", "none"}}
    /\ delivered = 0 /\ sent = [id |-> 0, payload |-> <<>>, loaded |-> <<>>]
    /\ unread = {} /\ raced = FALSE
    /\ todo = <<>> /\ resp = <<>> /\ op = <<"none">> /\ seen = {}
    /\ loaded = [n \in 0..2 |-> <<>>] /\ got = <<>> /\ ops = 0

-----------------------------------------------------------------------------
(* SPI: the result of CAN::write is queued; the queue drops its oldest     *)
(* byte when it is over its size.                                          *)

push(ret) ==
    /\ rxqueue' = LET q == Append(rxqueue, ret) IN
                  IF Len(q) > queue_size THEN Tail(q) ELSE q
    /\ ip' = (ip \/ TXWM)

(* The driver writes the next byte to txdata.                              *)
Byte(s) == /\ spi.pc = "idle" /\ todo # <<>> /\ Len(rxqueue) < queue_size
           /\ state \in s
           /\ todo' = Tail(todo)
           /\ UNCHANGED <<resp, op, seen, loaded, got, ops, listener, delivered,
                          stop, raced>>

Returns(ret) == push(ret) /\ UNCHANGED spi

can_command ==
    /\ Byte({"init"})
    /\ state' = command(Head(todo)) /\ Returns(0)
    /\ UNCHANGED <<registers, txBuf, rxBuf, status, staticVars, sent, unread>>

readRegister ==
    /\ Byte({"readRegister"})
    /\ LET byte == Head(todo) IN
       IF selRead < 0
       THEN selRead' = byte /\ Returns(0) /\ UNCHANGED state
       ELSE IF byte # 0
       THEN selRead' = -1 /\ state' = command(byte) /\ Returns(0)
       ELSE /\ Returns(IF selRead \in Regs THEN registers[selRead] ELSE 0)
            /\ selRead' = selRead + 1
            /\ UNCHANGED state
    /\ UNCHANGED <<registers, txBuf, rxBuf, status, selWrite, mod, load, rx_ptr, sent, unread>>

writeRegister ==
    /\ Byte({"writeRegister"})
    /\ LET byte == Head(todo) IN
       IF selWrite < 0
       THEN selWrite' = byte /\ UNCHANGED <<state, registers>>
       ELSE IF selWrite \notin Regs
       THEN UNCHANGED <<selWrite, state, registers>>
       ELSE /\ registers' = [registers EXCEPT ![selWrite] = byte]
            /\ selWrite' = -1 /\ state' = "init"
    /\ Returns(0)
    /\ UNCHANGED <<txBuf, rxBuf, status, selRead, mod, load, rx_ptr, sent, unread>>

modifyRegister ==
    /\ Byte({"bitmod"})
    /\ LET byte == Head(todo) IN
       \/ /\ mod.state = "address"
          /\ mod' = [mod EXCEPT !.address = byte, !.state = "mask"]
          /\ UNCHANGED <<registers, state>>
       \/ /\ mod.state = "mask"
          /\ mod' = [mod EXCEPT !.mask = byte, !.state = "data"]
          /\ UNCHANGED <<registers, state>>
       \/ /\ mod.state = "data"
          /\ mod' = [mod EXCEPT !.state = "address"] /\ state' = "init"
          /\ registers' = [registers EXCEPT ![mod.address] =
                              IF byte = 1 THEN 1 ELSE IF mod.mask = 1 THEN 0 ELSE @]
    /\ Returns(0)
    /\ UNCHANGED <<txBuf, rxBuf, status, selRead, selWrite, load, rx_ptr, sent, unread>>

(* The payload ends when payload_ptr meets the length: never, if that is   *)
(* zero.                                                                   *)
loadTxBuf ==
    /\ Byte({"loadTX0", "loadTX1", "loadTX2"})
    /\ LET byte == Head(todo)
           no == whichBuf
           ptr == load.ptr + 1 IN
       \/ /\ load.state = "id"
          /\ txBuf' = [txBuf EXCEPT ![no].id[ptr] = byte]
          /\ load' = IF ptr = 4 THEN [state |-> "length", ptr |-> 0]
                     ELSE [load EXCEPT !.ptr = ptr]
          /\ UNCHANGED state
       \/ /\ load.state = "length"
          /\ txBuf' = [txBuf EXCEPT ![no].length = byte]
          /\ load' = [load EXCEPT !.state = "payload"]
          /\ UNCHANGED state
       \/ /\ load.state = "payload"
          /\ txBuf' = [txBuf EXCEPT ![no].payload =
                          [i \in 1..(IF Len(@) < ptr THEN ptr ELSE Len(@)) |->
                              IF i = ptr THEN byte ELSE @[i]]]
          /\ IF ptr = txBuf[no].length
             THEN load' = [state |-> "id", ptr |-> 0] /\ state' = "init"
             ELSE load' = [load EXCEPT !.ptr = ptr] /\ UNCHANGED state
    /\ Returns(0)
    /\ UNCHANGED <<registers, rxBuf, status, selRead, selWrite, mod, rx_ptr, sent, unread>>

(* sendTxBuf looks for buffer four to send all; write calls it with three, *)
(* which is the memory behind txBuf: rxBuf[0].  The flag of an extended    *)
(* identifier is ignored: the host takes the frame for a standard one, of  *)
(* which it sends eleven bits.                                             *)
sendTxBuf ==
    /\ Byte({"sendTX0", "sendTX1", "sendTX2", "sendALL"})
    /\ LET f == IF whichBuf = 3 THEN rxBuf[0] ELSE txBuf[whichBuf] IN
       sent' = [id |-> mcp2515_buf_to_id(f.id) % Extended,
                payload |-> [i \in 1..f.length |-> Raw(f, 4 + i)],
                loaded |-> IF whichBuf = 3 THEN <<>> ELSE loaded[whichBuf]]
    /\ registers' = [registers EXCEPT ![TXB0CTRL] = 0]
    /\ state' = "readRegister" /\ Returns(0)
    /\ UNCHANGED <<txBuf, rxBuf, status, staticVars, unread>>

(* The last byte of a frame frees the buffer: status is read, ...          *)
readRxBuf ==
    /\ Byte({"readRX0", "readRX1"})
    /\ LET f == rxBuf[whichBuf]
           ret == Raw(f, rx_ptr) IN
       IF rx_ptr + 1 > f.length + 4
       THEN /\ rx_ptr' = 0 /\ state' = "init"
            /\ spi' = [pc |-> "free", no |-> whichBuf, val |-> status \ {whichBuf},
                     ret |-> ret]
            /\ unread' = unread \ {whichBuf}
            /\ UNCHANGED spiVars
       ELSE rx_ptr' = rx_ptr + 1 /\ Returns(ret) /\ UNCHANGED <<state, unread>>
    /\ UNCHANGED <<registers, txBuf, rxBuf, status, selRead, selWrite, mod, load, sent>>

(* ... and written.                                                        *)
readRxBuf_frees ==
    /\ spi.pc = "free"
    /\ status' = spi.val
    /\ spi' = [spi EXCEPT !.pc = "idle"] /\ push(spi.ret)
    /\ raced' = (raced \/ ~(status \subseteq spi.val \cup {spi.no}))
    /\ UNCHANGED <<state, registers, txBuf, rxBuf, stop, staticVars, driverVars, listener,
                   delivered, sent, unread>>

(* The driver reads the two flags of the received buffers.                 *)
getStatus ==
    /\ Byte({"getStatus"})
    /\ Returns((IF 0 \in status THEN 1 ELSE 0) + (IF 1 \in status THEN 2 ELSE 0))
    /\ state' = "init"
    /\ UNCHANGED <<registers, txBuf, rxBuf, status, staticVars, sent, unread>>

Write == \/ can_command \/ readRegister \/ writeRegister \/ modifyRegister
         \/ loadTxBuf \/ sendTxBuf \/ readRxBuf \/ readRxBuf_frees \/ getStatus

(* The driver reads rxdata.  An empty queue answers 1 << 31, which the     *)
(* driver ignores.                                                         *)
read_rxdata ==
    /\ spi.pc = "idle" /\ rxqueue # <<>>
    /\ resp' = Append(resp, Head(rxqueue)) /\ rxqueue' = Tail(rxqueue)
    /\ UNCHANGED <<ip, canVars, staticVars, todo, op, seen, loaded, got, ops, spi,
                   listener, delivered, sent, history>>

-----------------------------------------------------------------------------
(* The listener.  A frame k of the bus has the k-th identifier of RxIds    *)
(* and the payload k.                                                      *)

listenerUnchanged == UNCHANGED <<spiVars, state, registers, txBuf, staticVars, driverVars,
                                 spi, sent>>

listen_stops ==
    /\ listener.pc = "loop" /\ stop
    /\ listener' = [listener EXCEPT !.pc = "ended"]
    /\ listenerUnchanged /\ UNCHANGED <<rxBuf, status, stop, delivered, history>>

(* enqueueIncomingCanFrame: the frame is lost if both buffers are full.    *)
FreeBuf == CHOOSE i \in {0, 1} \ status : \A j \in {0, 1} \ status : i <= j

listen_receives ==
    /\ listener.pc = "loop" /\ ~stop /\ delivered < Len(RxIds)
    /\ delivered' = delivered + 1
    /\ IF {0, 1} \subseteq status THEN UNCHANGED listener
       ELSE listener' = [listener EXCEPT !.pc = "id", !.buf = FreeBuf]
    /\ listenerUnchanged /\ UNCHANGED <<rxBuf, status, stop, history>>

(* Mutant: the flag is set when the identifier is stored, before the       *)
(* payload.                                                                *)
enqueue_id_flags ==
    /\ listener.pc = "id"
    /\ rxBuf' = [rxBuf EXCEPT ![listener.buf] =
                    [NoFrame EXCEPT !.id = mcp2515_id_to_buf(RxIds[delivered], FALSE)]]
    /\ status' = status \cup {listener.buf}
    /\ listener' = [listener EXCEPT !.pc = "payload"]
    /\ listenerUnchanged /\ UNCHANGED <<stop, delivered, history>>

enqueue_id ==
    /\ listener.pc = "id"
    /\ rxBuf' = [rxBuf EXCEPT ![listener.buf] =
                    [NoFrame EXCEPT !.id = mcp2515_id_to_buf(RxIds[delivered], FALSE)]]
    /\ listener' = [listener EXCEPT !.pc = "payload"]
    /\ listenerUnchanged /\ UNCHANGED <<status, stop, delivered, history>>

enqueue_payload ==
    /\ listener.pc = "payload"
    /\ rxBuf' = [rxBuf EXCEPT ![listener.buf].length = 1,
                              ![listener.buf].payload = <<delivered>>]
    /\ listener' = [listener EXCEPT !.pc = "flag", !.val = status]
    /\ listenerUnchanged /\ UNCHANGED <<status, stop, delivered, history>>

enqueue_flag ==
    /\ listener.pc = "flag"
    /\ status' = listener.val \cup {listener.buf}
    /\ listener' = [listener EXCEPT !.pc = "loop"]
    /\ unread' = unread \cup {listener.buf} /\ raced' = (raced \/ status # listener.val)
    /\ listenerUnchanged /\ UNCHANGED <<rxBuf, stop, delivered>>

(* The destructor, at the end of the simulation.                           *)
destructor ==
    /\ ~stop /\ todo = <<>> /\ ops = MaxOps
    /\ stop' = TRUE
    /\ UNCHANGED <<spiVars, state, registers, txBuf, rxBuf, status, staticVars,
                   driverVars, spi, listener, delivered, sent, history>>

Listen == \/ listen_receives \/ enqueue_id \/ enqueue_payload \/ enqueue_flag
          \/ listen_stops

-----------------------------------------------------------------------------
(* The driver of the guest: it polls the flags, and reads the buffers      *)
(* whose flag it has seen; it loads and sends frames, and uses registers.  *)
(* After a request to send it reads a register, as the Arduino library     *)
(* does to wait for the end of the transmission.                           *)

Answered == resp # <<>> /\ Len(resp) = op[2]

Begin(name, bytes) ==
    /\ todo' = bytes /\ op' = <<name, Len(bytes)>> /\ resp' = <<>>
    /\ UNCHANGED <<spiVars, canVars, staticVars, spi, listener, delivered, sent, history>>

Spends(n) == ops + n <= MaxOps /\ ops' = ops + n

(* A zero-length frame never ends; the driver is not modelled further.     *)
Stuck == load.state = "payload" /\ txBuf[whichBuf].length = 0

Ready == todo = <<>> /\ (op[1] = "none" \/ Answered) /\ ~stop /\ ~Stuck

Status == /\ Ready /\ Spends(1) /\ Begin("status", <<160, 0>>) /\ UNCHANGED <<seen, loaded, got>>

(* The answer to the poll is in the last byte.                             *)
Flags == LET b == Last(resp) IN (IF b % 2 = 1 THEN {0} ELSE {}) \cup (IF b \div 2 = 1 THEN {1} ELSE {})

SeeStatus ==
    /\ op[1] = "status" /\ Answered
    /\ seen' = Flags /\ op' = <<"none">> /\ resp' = <<>>
    /\ UNCHANGED <<spiVars, canVars, staticVars, spi, listener, delivered, sent, history,
                   todo, loaded, got, ops>>

Receive == \E no \in seen :
    /\ Ready /\ Spends(1) /\ Begin("receive", <<IF no = 0 THEN 144 ELSE 148, 0, 0, 0, 0, 0, 0>>)
    /\ seen' = seen \ {no}
    /\ UNCHANGED <<loaded, got>>

Received ==
    /\ op[1] = "receive" /\ Answered
    /\ got' = SubSeq(resp, 2, 7) /\ op' = <<"none">> /\ resp' = <<>>
    /\ UNCHANGED <<spiVars, canVars, staticVars, spi, listener, delivered, sent, history,
                   todo, seen, loaded, ops>>

Load == \E no \in 0..2, id \in TxIds, n \in Lengths :
    /\ Ready /\ Spends(2)
    /\ Begin("load", <<IF no = 0 THEN 64 ELSE IF no = 1 THEN 66 ELSE 68>>
                     \o mcp2515_id_to_buf(id, id >= Extended) \o <<n>> \o [i \in 1..n |-> ops + i])
    /\ loaded' = [loaded EXCEPT ![no] = <<id, [i \in 1..n |-> ops + i]>>]
    /\ UNCHANGED <<seen, got>>

Send == \E b \in {129, 130, 132, 135} :
    /\ Ready /\ Spends(2) /\ Begin("send", <<b, 3, TXB0CTRL, 0>>)
    /\ UNCHANGED <<seen, loaded, got>>

Registers == \E r \in Regs, v \in {0, 1} :
    /\ Ready /\ Spends(2)
    /\ \/ Begin("register", <<2, r, v>>)
       \/ Begin("register", <<5, r, 1, v>>)
       \/ Begin("register", <<3, r, 0>>)
    /\ UNCHANGED <<seen, loaded, got>>

Driver == Status \/ SeeStatus \/ Receive \/ Received \/ Load \/ Send \/ Registers

Next == Write \/ read_rxdata \/ Listen \/ destructor \/ Driver

Spec == Init /\ [][Next]_vars

-----------------------------------------------------------------------------
(* A frame the guest reads is one of the frames the bus has delivered:     *)
(* identifier and payload belong together, whatever the listener does      *)
(* while the bytes pass, and although the two threads race for status.     *)
(* The identifier of an extended frame is cut ("FIXME: This will break if  *)
(* extended frame or stuff happens").                                      *)
FramesWhole ==
    got # <<>> => \E k \in 1..delivered :
                     /\ RxIds[k] < Extended => mcp2515_buf_to_id(SubSeq(got, 1, 4)) = RxIds[k]
                     /\ SubSeq(got, 5, 6) = <<1, k>>

(* When no thread has lost the other's change of status, and none is about *)
(* to make one, the flags are set for exactly the buffers with a frame the *)
(* guest has not read: no frame is lost once stored, none is read twice.   *)
FlagsExact ==
    ~raced /\ spi.pc = "idle" /\ listener.pc # "flag" => status = unread

(* What goes out to the bus is what the guest has loaded into the buffer   *)
(* it asked to send, with the identifier it meant if that is a standard    *)
(* one.                                                                    *)
SentIsLoaded ==
    sent.loaded # <<>> => /\ sent.payload = sent.loaded[2]
                          /\ sent.loaded[1] < Extended => sent.id = sent.loaded[1]

(* Frames reach the guest and the bus as they were sent: all of the above. *)
FramesIntact == FramesWhole /\ FlagsExact /\ SentIsLoaded
=============================================================================
