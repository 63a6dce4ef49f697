-------------------------------- MODULE SLIP --------------------------------
(***************************************************************************)
(* The serial line network device of the HiFive platform (slip.cpp).       *)
(* handle_input encodes a packet of the host into the bytes the guest      *)
(* receives, write_data decodes the bytes the guest transmits.  The guest  *)
(* here returns every byte it receives, so that the encoder is what the    *)
(* decoder has to understand.                                              *)
(***************************************************************************)
EXTENDS Naturals, Sequences, SequencesExt

CONSTANTS END, ESC, ESC_END, ESC_ESC,
          Bytes,        \* the bytes of a packet
          STEP,         \* SLIP_SNDBUF_STEP, the unit in which sndbuf grows
          MaxSize,      \* bound on the size of a packet
          MaxPackets    \* bound on their number

VARIABLES line,       \* bytes on their way to the guest and back
          sndbuf,     \* the sndsiz bytes written to the buffer
          capacity,   \* the size of the allocation behind it
          overrun,    \* a byte was written behind the allocation
          received,   \* history: packets read from the network device
          sent        \* history: packets written to it

vars == <<line, sndbuf, capacity, overrun, received, sent>>

Packets == UNION {[1..n -> Bytes] : n \in 1..MaxSize}

Init ==
    /\ line = << >> /\ sndbuf = << >> /\ capacity = STEP /\ overrun = FALSE
    /\ received = << >> /\ sent = << >>

Escape(b) ==
    IF b = END THEN <<ESC, ESC_END>>
    ELSE IF b = ESC THEN <<ESC, ESC_ESC>> ELSE <<b>>

handle_input ==
    /\ line = << >> /\ Len(received) < MaxPackets
    /\ \E p \in Packets :
          /\ received' = Append(received, p)
          /\ line' = Append(FlattenSeq([i \in DOMAIN p |-> Escape(p[i])]), END)
    /\ UNCHANGED <<sndbuf, capacity, overrun, sent>>

Escaped == sndbuf # << >> /\ Last(sndbuf) = ESC

(* Mutant: the buffer is not emptied.                                      *)
send_packet_keeps ==
    /\ line # << >> /\ Head(line) = END /\ line' = Tail(line)
    /\ sent' = IF sndbuf = << >> THEN sent ELSE Append(sent, sndbuf)
    /\ UNCHANGED <<sndbuf, capacity, overrun, received>>

(* The end of a packet: send_packet, which also shrinks the buffer.        *)
send_packet ==
    /\ line # << >> /\ Head(line) = END /\ line' = Tail(line)
    /\ sent' = IF sndbuf = << >> THEN sent ELSE Append(sent, sndbuf)
    /\ capacity' = IF Len(sndbuf) > STEP THEN STEP ELSE capacity
    /\ sndbuf' = << >>
    /\ UNCHANGED <<overrun, received>>

(* Another byte: the second one of an escape replaces the first, anything  *)
(* else is appended, to a buffer that grows when a multiple of STEP is     *)
(* full.                                                                   *)
Grows(n) == n > 0 /\ n % STEP = 0

write_data ==
    /\ line # << >> /\ Head(line) # END /\ line' = Tail(line)
    /\ IF Escaped /\ Head(line) \in {ESC_END, ESC_ESC}
       THEN /\ sndbuf' = Append(Front(sndbuf), IF Head(line) = ESC_END THEN END ELSE ESC)
            /\ UNCHANGED <<capacity, overrun>>
       ELSE /\ sndbuf' = Append(sndbuf, Head(line))
            /\ capacity' = IF Grows(Len(sndbuf)) THEN Len(sndbuf) + STEP ELSE capacity
            /\ overrun' = (overrun \/ Len(sndbuf) >= capacity')
    /\ UNCHANGED <<received, sent>>

Next == handle_input \/ send_packet \/ write_data

Spec == Init /\ [][Next]_vars

-----------------------------------------------------------------------------
(* write_data never writes behind the allocation of sndbuf, for packets    *)
(* that end before, at and after a multiple of STEP, in any sequence.      *)
BufferFits == ~overrun /\ Len(sndbuf) <= capacity

(* Packets come back unchanged and in order: the decoder inverts the       *)
(* encoding of RFC 1055.                                                   *)
RoundTrip == sent = SubSeq(received, 1, Len(sent))

(* Packets come back as they were sent, and the buffer holds them.         *)
PacketsIntact == RoundTrip /\ BufferFits
=============================================================================
