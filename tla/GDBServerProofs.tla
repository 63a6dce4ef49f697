-------------------------- MODULE GDBServerProofs --------------------------
(***************************************************************************)
(* Proofs about the GDB server: its thread of dispatch, the SystemC thread *)
(* run, the runners of the harts, and GDB, for any number of requests,     *)
(* connections and damaged packets.                                        *)
(***************************************************************************)
EXTENDS GDBServer, FiniteSetTheorems, TLAPS

-----------------------------------------------------------------------------
(* The inductive invariant of the exchange.                                *)

(* The states of run in which it executes a vCont.                         *)
Executing == rpc \in {"vcont", "all", "one", "stopped", "stopping"}

(* Where a packet is between dispatch and run.                             *)
Idle == pktq = <<>> /\ ~event /\ rpc = "wait"
Queued == (\E m : pktq = <<m>>) /\ event /\ rpc = "wait"
Handled == (\E m : pktq = <<m>>) /\ ~event /\ (rpc \in {"handle", "pop"} \/ Executing)

(* The mutex that dispatch locks and run unlocks.                          *)
HandInv ==
    \/ dpc \in {"accept", "free"} /\ Idle /\ ~mtx /\ ~connected
    \/ dpc = "parse" /\ Idle /\ mtx
    \/ dpc = "lock" /\ Idle /\ ~mtx
    \/ dpc = "lock" /\ (Queued \/ Handled) /\ mtx
    \/ dpc = "gone" /\ rpc \in {"exit", "aborted"} /\ ~connected

(* A message that will be answered by one of its kind: there is at most    *)
(* one of them between GDB and the server, and none if GDB does not wait.  *)
Token(m) == m.kind \in {"PACKET", "NACK"}
NoToken(s) == \A k \in DOMAIN s : ~Token(s[k])
OneToken(s) == \A j, k \in DOMAIN s : Token(s[j]) /\ Token(s[k]) => j = k

(* The message that run has not answered yet.                              *)
InQueue == pktq # <<>> /\ rpc # "pop" /\ Token(Head(pktq))

(* It is about the request GDB waits for, and so is the saved reply.       *)
Fits(m, n, saved) == /\ m.kind = "PACKET" => m.for = n
                     /\ m.kind = "NACK" => saved = NoPacket \/ saved.for = n

TokenInv ==
    /\ ~connected => NoToken(toClient)
    /\ connected =>
          /\ OneToken(toServer) /\ OneToken(toClient)
          /\ request = NoRequest => NoToken(toServer) /\ NoToken(toClient) /\ ~InQueue
          /\ ~NoToken(toServer) => NoToken(toClient) /\ ~InQueue
          /\ InQueue => NoToken(toClient) /\ Fits(Head(pktq), phase, prevpkt)
          /\ \A k \in DOMAIN toServer : Fits(toServer[k], phase, prevpkt)
          /\ \A k \in DOMAIN toClient : toClient[k].kind = "PACKET" =>
                toClient[k].for = phase /\ prevpkt.for = phase
    /\ Executing => Head(pktq).kind = "PACKET"
    /\ prevpkt # NoPacket => prevpkt.kind = "PACKET"

IsSeq(s) == \E S : s \in Seq(S)

ExchangeInv == IsSeq(toServer) /\ IsSeq(toClient) /\ HandInv /\ TokenInv

-----------------------------------------------------------------------------
(* Sequences of messages.                                                  *)

LEMMA AppendFacts ==
    ASSUME NEW s, IsSeq(s), NEW x
    PROVE  /\ IsSeq(Append(s, x))
           /\ \A k \in DOMAIN Append(s, x) :
                 \/ k \in DOMAIN s /\ Append(s, x)[k] = s[k]
                 \/ k = Len(s) + 1 /\ k \notin DOMAIN s /\ Append(s, x)[k] = x
<1>1. PICK S : s \in Seq(S)
  BY DEF IsSeq
<1>2. s \in Seq(S \cup {x}) /\ Append(s, x) \in Seq(S \cup {x})
  BY <1>1
<1>3. QED
  BY <1>2 DEF IsSeq

LEMMA TailFacts ==
    ASSUME NEW s, IsSeq(s), s # <<>>
    PROVE  /\ IsSeq(Tail(s))
           /\ 1 \in DOMAIN s /\ Head(s) = s[1]
           /\ \A k \in DOMAIN Tail(s) :
                 k \in Nat \ {0} /\ k + 1 \in DOMAIN s /\ Tail(s)[k] = s[k + 1]
<1>1. PICK S : s \in Seq(S)
  BY DEF IsSeq
<1>2. Tail(s) \in Seq(S)
  BY <1>1
<1>3. QED
  BY <1>1, <1>2 DEF IsSeq

LEMMA NoMessages ==
    ASSUME NEW s, s = << >>
    PROVE  IsSeq(s) /\ NoToken(s) /\ OneToken(s)
<1>1. s \in Seq({}) /\ DOMAIN s = {}
  OBVIOUS
<1>2. QED
  BY <1>1 DEF IsSeq, NoToken, OneToken

(* What run writes: nothing, one message, or two.                          *)
LEMMA WrittenNone ==
    ASSUME NEW s, IsSeq(s)
    PROVE  s \o << >> = s
<1>1. PICK S : s \in Seq(S)
  BY DEF IsSeq
<1>2. QED
  BY <1>1

LEMMA WrittenOne ==
    ASSUME NEW s, IsSeq(s), NEW x
    PROVE  s \o <<x>> = Append(s, x)
<1>1. PICK S : s \in Seq(S)
  BY DEF IsSeq
<1>2. s \in Seq(S \cup {x})
  BY <1>1
<1>3. QED
  BY <1>2

LEMMA WrittenTwo ==
    ASSUME NEW s, IsSeq(s), NEW x, NEW y
    PROVE  s \o <<x, y>> = Append(Append(s, x), y)
<1>1. PICK S : s \in Seq(S)
  BY DEF IsSeq
<1>2. s \in Seq(S \cup {x, y})
  BY <1>1
<1>3. QED
  BY <1>2

LEMMA AppendTokens ==
    ASSUME NEW s, IsSeq(s), NEW x
    PROVE  /\ NoToken(s) => OneToken(Append(s, x))
           /\ ~Token(x) /\ OneToken(s) => OneToken(Append(s, x))
           /\ ~Token(x) /\ NoToken(s) => NoToken(Append(s, x))
<1> DEFINE t == Append(s, x)
<1>1. \A k \in DOMAIN t : \/ k \in DOMAIN s /\ t[k] = s[k]
                          \/ k = Len(s) + 1 /\ t[k] = x
  BY AppendFacts, Zenon
<1> HIDE DEF t
<1>2. QED
  BY <1>1 DEF NoToken, OneToken, t

LEMMA TailTokens ==
    ASSUME NEW s, IsSeq(s), s # <<>>
    PROVE  /\ NoToken(s) => NoToken(Tail(s)) /\ ~Token(Head(s))
           /\ OneToken(s) => OneToken(Tail(s))
           /\ OneToken(s) /\ Token(Head(s)) => NoToken(Tail(s))
<1>1. \A j, k \in DOMAIN Tail(s) : j + 1 = k + 1 => j = k
  BY TailFacts
<1>2. \A k \in DOMAIN Tail(s) : k + 1 # 1
  BY TailFacts
<1>3. \A k \in DOMAIN Tail(s) : k + 1 \in DOMAIN s /\ Tail(s)[k] = s[k + 1]
  BY TailFacts, Zenon
<1>4. 1 \in DOMAIN s /\ Head(s) = s[1]
  BY TailFacts, Zenon
<1>5. ASSUME OneToken(s) PROVE OneToken(Tail(s))
  BY <1>1, <1>3, <1>5, Zenon DEF OneToken
<1>6. ASSUME OneToken(s), Token(Head(s)) PROVE NoToken(Tail(s))
  BY <1>2, <1>3, <1>4, <1>6, Zenon DEF OneToken, NoToken
<1>7. QED
  BY <1>3, <1>4, <1>5, <1>6, Zenon DEF NoToken

-----------------------------------------------------------------------------
(* A step within a vCont, of run or of a runner.                           *)
LEMMA WithinStep ==
    ASSUME ExchangeInv, \/ UNCHANGED rpc
                        \/ Executing /\ Executing',
           UNCHANGED <<connected, request, phase, toServer, toClient, dpc, mtx, pktq,
                       prevpkt, event>>
    PROVE  ExchangeInv'
  BY DEF ExchangeInv, HandInv, TokenInv, Idle, Queued, Handled, Executing, InQueue, Fits

-----------------------------------------------------------------------------
(* GDB.                                                                    *)

(* GDB writes a message while no other waits for an answer.                *)
LEMMA AsksStep ==
    ASSUME ExchangeInv, connected, UNCHANGED <<connected, dpc, mtx, pktq, prevpkt, event, rpc>>,
           NoToken(toServer), ~InQueue, IsSeq(toClient'), NoToken(toClient'),
           NEW m, toServer' = Append(toServer, m), Fits(m, phase', prevpkt),
           request' = NoRequest => ~Token(m)
    PROVE  ExchangeInv'
<1>1. IsSeq(toServer)
  BY DEF ExchangeInv
<1>2. /\ IsSeq(toServer') /\ OneToken(toServer')
      /\ request' = NoRequest => NoToken(toServer')
  BY <1>1, AppendFacts, AppendTokens, Zenon
<1>3. \A k \in DOMAIN toServer' : Fits(toServer'[k], phase', prevpkt')
  <2> SUFFICES ASSUME NEW k \in DOMAIN toServer'
               PROVE  Fits(toServer'[k], phase', prevpkt')
    OBVIOUS
  <2>1. \/ k \in DOMAIN toServer /\ toServer'[k] = toServer[k]
        \/ toServer'[k] = m
    BY <1>1, AppendFacts, Zenon
  <2>2. QED
    BY <2>1 DEF NoToken, Token, Fits
<1>4. HandInv'
  BY DEF ExchangeInv, HandInv, Idle, Queued, Handled, Executing
<1>5. /\ ~InQueue' /\ OneToken(toClient')
      /\ \A k \in DOMAIN toClient' : toClient'[k].kind # "PACKET"
  BY DEF InQueue, NoToken, OneToken, Token
<1>6. /\ (Executing => Head(pktq).kind = "PACKET")'
      /\ (prevpkt # NoPacket => prevpkt.kind = "PACKET")'
  BY DEF ExchangeInv, TokenInv, Executing
<1>7. TokenInv'
  BY <1>2, <1>3, <1>5, <1>6 DEF TokenInv
<1>8. QED
  BY <1>2, <1>4, <1>7 DEF ExchangeInv

LEMMA SendsStep ==
    ASSUME ExchangeInv, GdbSends
    PROVE  ExchangeInv'
<1>1. PICK c \in Requests, ok \in BOOLEAN :
        /\ request' = c /\ phase' = phase + 1
        /\ toServer' = Append(toServer, [kind |-> "PACKET", for |-> phase + 1,
                                         cmd |-> c, ok |-> ok])
  BY Zenon DEF GdbSends
<1> DEFINE m == [kind |-> "PACKET", for |-> phase + 1, cmd |-> c, ok |-> ok]
<1>2. m.kind = "PACKET" /\ m.for = phase' /\ toServer' = Append(toServer, m)
  BY <1>1
<1> HIDE DEF m
<1>3. /\ connected /\ request = NoRequest
      /\ UNCHANGED <<connected, toClient, dpc, mtx, pktq, prevpkt, event, rpc>>
  BY DEF GdbSends, dispatchVars, runVars
<1>4. /\ NoToken(toServer) /\ ~InQueue
      /\ IsSeq(toClient') /\ NoToken(toClient')
  BY <1>3 DEF ExchangeInv, TokenInv
<1>5. request' # NoRequest
  BY <1>1, GDBAssumption DEF NoRequest
<1>6. Fits(m, phase', prevpkt)
  BY <1>2 DEF Fits
<1>7. QED
  BY <1>2, <1>3, <1>4, <1>5, <1>6, AsksStep

LEMMA ReceivesStep ==
    ASSUME ExchangeInv, GdbReceives
    PROVE  ExchangeInv'
<1> DEFINE p == Head(toClient)
<1>1. /\ connected /\ toClient # <<>> /\ toClient' = Tail(toClient)
      /\ UNCHANGED <<connected, phase, dpc, mtx, pktq, prevpkt, event, rpc>>
  BY DEF GdbReceives, dispatchVars, runVars
<1>2. /\ IsSeq(toClient) /\ IsSeq(toClient') /\ p = toClient[1] /\ 1 \in DOMAIN toClient
      /\ \A k \in DOMAIN toClient' : k + 1 \in DOMAIN toClient /\ toClient'[k] = toClient[k + 1]
  BY <1>1, TailFacts, Zenon DEF ExchangeInv
<1>3. /\ OneToken(toClient') /\ (Token(p) => NoToken(toClient'))
      /\ NoToken(toClient) => NoToken(toClient')
  BY <1>1, <1>2, TailTokens, Zenon DEF ExchangeInv, TokenInv
<1>4. Token(p) => NoToken(toServer) /\ ~InQueue
  BY <1>1, <1>2 DEF ExchangeInv, TokenInv, NoToken
<1>5. CASE p.kind = "ACK" /\ UNCHANGED <<request, toServer>>
  <2>1. \A k \in DOMAIN toClient' : toClient'[k].kind = "PACKET" =>
           toClient'[k].for = phase' /\ prevpkt'.for = phase'
    BY <1>1, <1>2, Zenon DEF ExchangeInv, TokenInv
  <2>2. TokenInv'
    BY <1>1, <1>3, <1>5, <2>1 DEF ExchangeInv, TokenInv, InQueue, Executing
  <2>3. HandInv'
    BY <1>1 DEF ExchangeInv, HandInv, Idle, Queued, Handled, Executing
  <2>4. QED
    BY <1>2, <1>5, <2>2, <2>3 DEF ExchangeInv
<1>6. CASE /\ p.kind = "NACK" /\ request # NoRequest /\ UNCHANGED request
           /\ toServer' = Append(toServer, Packet(TRUE))
  <2>1. Packet(TRUE).kind = "PACKET" /\ Packet(TRUE).for = phase
    BY DEF Packet
  <2>2. Token(p) /\ Fits(Packet(TRUE), phase', prevpkt)
    BY <1>1, <1>6, <2>1, Zenon DEF Token, Fits
  <2>3. QED
    BY <1>1, <1>2, <1>3, <1>4, <1>6, <2>2, AsksStep, Zenon
<1>7. CASE /\ p.kind = "PACKET" /\ request' = NoRequest
           /\ toServer' = Append(toServer, [kind |-> "ACK"])
  <2> DEFINE m == [kind |-> "ACK"]
  <2>1. m.kind = "ACK" /\ toServer' = Append(toServer, m)
    BY <1>7
  <2> HIDE DEF m
  <2>2. Token(p) /\ ~Token(m) /\ Fits(m, phase', prevpkt)
    BY <1>7, <2>1 DEF Token, Fits
  <2>3. QED
    BY <1>1, <1>2, <1>3, <1>4, <2>1, <2>2, AsksStep
<1>8. CASE /\ p.kind = "PACKET" /\ UNCHANGED request
           /\ toServer' = Append(toServer, [kind |-> "NACK"])
  <2> DEFINE m == [kind |-> "NACK"]
  <2>1. m.kind = "NACK" /\ toServer' = Append(toServer, m)
    BY <1>8
  <2> HIDE DEF m
  <2>2. Token(p) /\ prevpkt.for = phase /\ request # NoRequest
    BY <1>1, <1>2, <1>8 DEF Token, ExchangeInv, TokenInv, NoToken
  <2>3. Fits(m, phase', prevpkt) /\ request' # NoRequest
    BY <1>1, <1>8, <2>1, <2>2 DEF Fits
  <2>4. QED
    BY <1>1, <1>2, <1>3, <1>4, <2>1, <2>2, <2>3, AsksStep
<1>9. QED
  BY <1>5, <1>6, <1>7, <1>8, Zenon DEF GdbReceives

LEMMA DisconnectsStep ==
    ASSUME ExchangeInv, GdbDisconnects
    PROVE  ExchangeInv'
<1>1. /\ ~connected' /\ toClient' = << >>
      /\ UNCHANGED <<toServer, dpc, mtx, pktq, prevpkt, event, rpc>>
  BY DEF GdbDisconnects, dispatchVars, runVars
<1>2. IsSeq(toClient') /\ NoToken(toClient')
  BY <1>1, NoMessages, Zenon
<1>3. QED
  BY <1>1, <1>2 DEF ExchangeInv, TokenInv, HandInv, Idle, Queued, Handled, Executing

-----------------------------------------------------------------------------
(* The thread of dispatch.                                                 *)

LEMMA AcceptStep ==
    ASSUME ExchangeInv, serve_accept
    PROVE  ExchangeInv'
<1>1. /\ dpc = "accept" /\ dpc' = "lock" /\ toServer' = << >> /\ toClient' = << >>
      /\ UNCHANGED <<mtx, pktq, prevpkt, event, rpc>>
  BY DEF serve_accept, runVars
<1>2. /\ IsSeq(toServer') /\ NoToken(toServer') /\ OneToken(toServer')
      /\ IsSeq(toClient') /\ NoToken(toClient') /\ OneToken(toClient')
  BY <1>1, NoMessages, Zenon
<1>3. Idle /\ ~mtx
  BY <1>1 DEF ExchangeInv, HandInv
<1>4. HandInv' /\ ~InQueue'
  BY <1>1, <1>3 DEF HandInv, Idle, InQueue
<1>5. DOMAIN toServer' = {} /\ DOMAIN toClient' = {}
  BY <1>1
<1>6. TokenInv'
  BY <1>1, <1>2, <1>4, <1>5 DEF ExchangeInv, TokenInv, Executing
<1>7. QED
  BY <1>2, <1>4, <1>6 DEF ExchangeInv

LEMMA LockStep ==
    ASSUME ExchangeInv, dispatch_lock \/ dispatch_end
    PROVE  ExchangeInv'
<1>1. UNCHANGED <<connected, request, phase, toServer, toClient, pktq, prevpkt, event, rpc>>
  BY DEF dispatch_lock, dispatch_end, gdbVars, runVars
<1>2. TokenInv'
  BY <1>1 DEF ExchangeInv, TokenInv, InQueue, Executing
<1>3. CASE dispatch_lock
  <2>1. Idle /\ dpc' = "parse" /\ mtx'
    BY <1>3 DEF ExchangeInv, HandInv, dispatch_lock
  <2>2. HandInv'
    BY <1>1, <2>1 DEF HandInv, Idle
  <2>3. QED
    BY <1>1, <1>2, <2>2 DEF ExchangeInv
<1>4. CASE dispatch_end
  <2>1. Idle /\ dpc' = "free" /\ ~mtx' /\ ~connected
    BY <1>4 DEF ExchangeInv, HandInv, dispatch_end
  <2>2. HandInv'
    BY <1>1, <2>1 DEF HandInv, Idle
  <2>3. QED
    BY <1>1, <1>2, <2>2 DEF ExchangeInv
<1>5. QED
  BY <1>3, <1>4

LEMMA PacketStep ==
    ASSUME ExchangeInv, dispatch_packet
    PROVE  ExchangeInv'
<1> DEFINE m == Head(toServer)
<1>1. /\ dpc = "parse" /\ toServer # <<>> /\ toServer' = Tail(toServer)
      /\ pktq' = Append(pktq, m) /\ event' = TRUE /\ dpc' = "lock"
      /\ UNCHANGED <<connected, request, phase, toClient, mtx, prevpkt, rpc>>
  BY DEF dispatch_packet, AsyncEvent_notify, runVars
<1>2. pktq = << >> /\ rpc = "wait" /\ mtx
  BY <1>1 DEF ExchangeInv, HandInv, Idle
<1>3. pktq' = <<m>> /\ pktq' # << >> /\ Head(pktq') = m
  <2>1. pktq' = <<m>>
    BY <1>1, <1>2
  <2> HIDE DEF m
  <2>2. QED
    BY <2>1
<1> HIDE DEF m
<1>4. HandInv'
  <2>1. Queued' /\ mtx' /\ dpc' = "lock"
    BY <1>1, <1>2, <1>3, Zenon DEF Queued
  <2>2. QED
    BY <2>1, Zenon DEF HandInv
<1>5. /\ IsSeq(toServer') /\ m = toServer[1] /\ 1 \in DOMAIN toServer
      /\ \A k \in DOMAIN toServer' : k + 1 \in DOMAIN toServer /\ toServer'[k] = toServer[k + 1]
  BY <1>1, TailFacts, Zenon DEF ExchangeInv, m
<1>6. /\ NoToken(toServer) => NoToken(toServer') /\ ~Token(m)
      /\ OneToken(toServer) => OneToken(toServer')
      /\ OneToken(toServer) /\ Token(m) => NoToken(toServer')
  BY <1>1, TailTokens, Zenon DEF ExchangeInv, m
<1>7. InQueue' <=> Token(m)
  BY <1>1, <1>2, <1>3 DEF InQueue
<1>8. ~Executing' /\ (prevpkt # NoPacket => prevpkt.kind = "PACKET")'
  BY <1>1, <1>2 DEF Executing, ExchangeInv, TokenInv
<1>9. CASE connected
  <2>1. /\ Fits(m, phase', prevpkt')
        /\ \A k \in DOMAIN toServer' : Fits(toServer'[k], phase', prevpkt')
    BY <1>1, <1>5, <1>9 DEF ExchangeInv, TokenInv
  <2>2. Token(m) => ~NoToken(toServer)
    BY <1>6
  <2>3. TokenInv'
    BY <1>1, <1>3, <1>6, <1>7, <1>8, <1>9, <2>1, <2>2, SMTT(30) DEF ExchangeInv, TokenInv
  <2>4. QED
    BY <1>1, <1>4, <1>5, <2>3 DEF ExchangeInv
<1>10. CASE ~connected
  <2>1. TokenInv'
    BY <1>1, <1>8, <1>10 DEF ExchangeInv, TokenInv
  <2>2. QED
    BY <1>1, <1>4, <1>5, <2>1 DEF ExchangeInv
<1>11. QED
  BY <1>9, <1>10

LEMMA FreeStep ==
    ASSUME ExchangeInv, serve_free
    PROVE  ExchangeInv'
<1>1. /\ dpc = "free" /\ dpc' = "accept" /\ prevpkt' = NoPacket
      /\ UNCHANGED <<connected, request, phase, toServer, toClient, mtx, pktq, event, rpc>>
  BY DEF serve_free, gdbVars, runVars
<1>2. Idle /\ ~mtx /\ ~connected
  BY <1>1 DEF ExchangeInv, HandInv
<1>3. HandInv' /\ TokenInv'
  BY <1>1, <1>2 DEF ExchangeInv, HandInv, TokenInv, Idle, Executing
<1>4. QED
  BY <1>1, <1>3 DEF ExchangeInv

-----------------------------------------------------------------------------
(* GDBServer::run.                                                         *)

LEMMA WakesStep ==
    ASSUME ExchangeInv, run_wakes
    PROVE  ExchangeInv'
<1>1. /\ rpc = "wait" /\ event /\ ~event' /\ rpc' = "handle"
      /\ UNCHANGED <<connected, request, phase, toServer, toClient, dpc, mtx, pktq, prevpkt>>
  BY DEF run_wakes, gdbVars
<1>2. dpc = "lock" /\ Queued /\ mtx
  BY <1>1 DEF ExchangeInv, HandInv, Idle, Handled, Executing
<1>3. HandInv'
  BY <1>1, <1>2 DEF HandInv, Queued, Handled
<1>4. TokenInv'
  BY <1>1 DEF ExchangeInv, TokenInv, InQueue, Executing
<1>5. QED
  BY <1>1, <1>3, <1>4 DEF ExchangeInv

LEMMA PopsStep ==
    ASSUME ExchangeInv, run_pops
    PROVE  ExchangeInv'
<1>1. /\ rpc = "pop" /\ pktq' = Tail(pktq) /\ ~mtx' /\ rpc' = "wait"
      /\ UNCHANGED <<connected, request, phase, toServer, toClient, dpc, prevpkt, event>>
  BY DEF run_pops, gdbVars
<1>2. dpc = "lock" /\ Handled
  BY <1>1 DEF ExchangeInv, HandInv, Idle, Queued
<1>3. PICK m : pktq = <<m>>
  BY <1>2 DEF Handled
<1>4. pktq' = << >> /\ ~event'
  BY <1>1, <1>2, <1>3 DEF Handled
<1>5. HandInv' /\ ~InQueue' /\ ~InQueue
  BY <1>1, <1>2, <1>4, SMTT(30) DEF HandInv, Idle, InQueue
<1>6. TokenInv'
  BY <1>1, <1>5 DEF ExchangeInv, TokenInv, Executing
<1>7. QED
  BY <1>1, <1>5, <1>6 DEF ExchangeInv

(* What run holds while it handles a packet.                               *)
LEMMA AtWork ==
    ASSUME ExchangeInv, rpc = "handle" \/ Executing
    PROVE  dpc = "lock" /\ Handled /\ mtx /\ pktq # << >> /\ rpc # "pop"
<1>1. dpc = "lock" /\ Handled /\ mtx /\ rpc # "pop"
  BY DEF ExchangeInv, HandInv, Idle, Queued, Executing
<1>2. QED
  BY <1>1 DEF Handled

(* run answers the message, or drops an answer to a closed connection.     *)
LEMMA AnswersStep ==
    ASSUME ExchangeInv, InQueue, rpc = "handle" \/ Executing, rpc' = "pop",
           UNCHANGED <<connected, request, phase, toServer, dpc, mtx, pktq, event>>,
           prevpkt' # NoPacket => prevpkt'.kind = "PACKET",
           connected => /\ IsSeq(toClient') /\ OneToken(toClient')
                        /\ \A k \in DOMAIN toClient' : toClient'[k].kind = "PACKET" =>
                              toClient'[k].for = phase /\ prevpkt'.for = phase,
           ~connected => toClient' = toClient
    PROVE  ExchangeInv'
<1>1. HandInv'
  BY AtWork DEF HandInv, Handled
<1>2. ~InQueue' /\ ~Executing'
  BY DEF InQueue, Executing
<1>3. CASE connected
  <2>1. NoToken(toServer) /\ request # NoRequest
    BY <1>3 DEF ExchangeInv, TokenInv
  <2>2. \A k \in DOMAIN toServer' : Fits(toServer'[k], phase', prevpkt')
    BY <2>1, SMTT(30) DEF NoToken, Token, Fits
  <2>3. TokenInv'
    BY <1>2, <1>3, <2>1, <2>2, SMTT(30) DEF ExchangeInv, TokenInv
  <2>4. QED
    BY <1>1, <1>3, <2>3 DEF ExchangeInv
<1>4. CASE ~connected
  BY <1>1, <1>2, <1>4 DEF ExchangeInv, TokenInv
<1>5. QED
  BY <1>3, <1>4

(* The first token in a sequence is the only one.                          *)
OnlyPacket(s, m) == /\ IsSeq(s) /\ OneToken(s)
                    /\ \A k \in DOMAIN s : s[k].kind = "PACKET" => s[k] = m

LEMMA FirstToken ==
    ASSUME NEW s, IsSeq(s), NoToken(s), NEW m
    PROVE  OnlyPacket(Append(s, m), m)
<1> DEFINE t == Append(s, m)
<1>1. IsSeq(t) /\ OneToken(t)
  BY AppendFacts, AppendTokens, Zenon
<1>2. \A k \in DOMAIN t : (k \in DOMAIN s /\ t[k] = s[k]) \/ t[k] = m
  BY AppendFacts, Zenon
<1> HIDE DEF t
<1>3. QED
  BY <1>1, <1>2 DEF NoToken, Token, OnlyPacket, t

LEMMA AcknowledgedStep ==
    ASSUME ExchangeInv, run_acknowledged
    PROVE  ExchangeInv'
<1> DEFINE p == Head(pktq)
<1>1. /\ rpc = "handle" /\ rpc' = "pop"
      /\ UNCHANGED <<connected, request, phase, toServer, dpc, mtx, pktq, prevpkt, event>>
  BY SMTT(30) DEF run_acknowledged, dispatchVars, gdbUnchanged
<1>2. pktq # << >> /\ IsSeq(toClient) /\ (prevpkt # NoPacket => prevpkt.kind = "PACKET")
  BY <1>1, AtWork DEF ExchangeInv, TokenInv
<1>3. Token(p) => InQueue
  BY <1>1, <1>2, SMTT(30) DEF InQueue
<1>4. connected /\ Token(p) => NoToken(toClient) /\ Fits(p, phase, prevpkt)
  BY <1>3 DEF ExchangeInv, TokenInv
<1>5. CASE p.kind = "ACK" /\ UNCHANGED toClient
  <2>1. HandInv'
    BY <1>1, AtWork DEF HandInv, Handled
  <2>2. ~InQueue /\ ~InQueue' /\ ~Executing'
    BY <1>1, <1>5, SMTT(30) DEF InQueue, Token, Executing
  <2>3. TokenInv'
    BY <1>1, <1>5, <2>2, SMTT(30) DEF ExchangeInv, TokenInv
  <2>4. QED
    BY <1>1, <1>5, <2>1, <2>3 DEF ExchangeInv
<1>6. CASE p.kind = "NACK" /\ retransmit
  <2>1. Token(p)
    BY <1>6, SMTT(30) DEF Token
  <2>2. ASSUME connected, prevpkt = NoPacket
        PROVE  /\ IsSeq(toClient') /\ OneToken(toClient')
               /\ \A k \in DOMAIN toClient' : toClient'[k].kind # "PACKET"
    <3>1. toClient' = toClient \o << >>
      BY <1>6, <2>2 DEF retransmit, Write
    <3>2. toClient' = toClient
      BY <1>2, <3>1, WrittenNone, Zenon
    <3>3. QED
      BY <1>2, <1>4, <2>1, <2>2, <3>2 DEF NoToken, OneToken, Token
  <2>3. ASSUME connected, prevpkt # NoPacket
        PROVE  OnlyPacket(toClient', prevpkt) /\ prevpkt.for = phase
    <3>1. toClient' = Append(toClient, prevpkt)
      BY <1>2, <1>6, <2>3, WrittenOne, Zenon DEF retransmit, Write
    <3>2. prevpkt.for = phase
      BY <1>4, <1>6, <2>1, <2>3 DEF Fits
    <3>3. QED
      BY <1>2, <1>4, <2>1, <2>3, <3>1, <3>2, FirstToken, Zenon
  <2>4. ~connected => toClient' = toClient
    BY <1>6 DEF retransmit, Write
  <2>5. connected => /\ IsSeq(toClient') /\ OneToken(toClient')
                     /\ \A k \in DOMAIN toClient' : toClient'[k].kind = "PACKET" =>
                           toClient'[k].for = phase /\ prevpkt'.for = phase
    BY <1>1, <2>2, <2>3 DEF OnlyPacket
  <2>6. QED
    BY <1>1, <1>2, <1>3, <2>1, <2>4, <2>5, AnswersStep
<1>7. CASE p.kind = "PACKET" /\ Write(<<[kind |-> "NACK"]>>)
  <2> DEFINE m == [kind |-> "NACK"]
  <2>1. Token(p) /\ m.kind = "NACK"
    BY <1>7 DEF Token
  <2>2. connected => toClient' = Append(toClient, m)
    BY <1>2, <1>7, WrittenOne, Zenon DEF Write
  <2>3. ~connected => toClient' = toClient
    BY <1>7 DEF Write
  <2> HIDE DEF m
  <2>4. connected => OnlyPacket(toClient', m)
    BY <1>2, <1>4, <2>1, <2>2, FirstToken, Zenon
  <2>5. connected => /\ IsSeq(toClient') /\ OneToken(toClient')
                     /\ \A k \in DOMAIN toClient' : toClient'[k].kind # "PACKET"
    BY <2>1, <2>4, SMTT(30) DEF OnlyPacket
  <2>6. QED
    BY <1>1, <1>2, <1>3, <2>1, <2>3, <2>5, AnswersStep
<1>8. QED
  BY <1>5, <1>6, <1>7, Zenon DEF run_acknowledged

(* The packet is one of those that are answered, and its answer fits.      *)
LEMMA PacketHandled ==
    ASSUME ExchangeInv, rpc = "handle" \/ Executing, Head(pktq).kind = "PACKET"
    PROVE  /\ InQueue /\ IsSeq(toClient) /\ NoToken(toClient)
           /\ connected => Head(pktq).for = phase
<1>1. InQueue
  BY AtWork DEF InQueue, Token
<1>2. QED
  BY <1>1 DEF ExchangeInv, TokenInv, Fits

LEMMA AnswerFields ==
    ASSUME NEW body
    PROVE  /\ Answer(body).kind = "PACKET" /\ Answer(body).for = Head(pktq).for
           /\ Answer(body) # NoPacket
<1>1. Answer(body).kind = "PACKET" /\ Answer(body).for = Head(pktq).for
  BY DEF Answer
<1>2. NoPacket.kind = "none"
  BY DEF NoPacket
<1>3. QED
  BY <1>1, <1>2

(* A message that is no token, before one that is.                         *)
LEMMA Acked ==
    ASSUME NEW s, IsSeq(s), NoToken(s)
    PROVE  IsSeq(Append(s, [kind |-> "ACK"])) /\ NoToken(Append(s, [kind |-> "ACK"]))
<1>1. ~Token([kind |-> "ACK"])
  BY DEF Token
<1>2. QED
  BY <1>1, AppendFacts, AppendTokens, Zenon

LEMMA RepliesStep ==
    ASSUME ExchangeInv, rpc = "handle", Head(pktq).kind = "PACKET", NEW body, Replies(body)
    PROVE  ExchangeInv'
<1> DEFINE a == [kind |-> "ACK"]
           m == Answer(body)
<1>1. /\ rpc' = "pop" /\ toClient' = IF connected THEN toClient \o <<a, m>> ELSE toClient
      /\ prevpkt' = IF connected THEN m ELSE prevpkt
      /\ UNCHANGED <<connected, request, phase, toServer, dpc, mtx, pktq, event>>
  BY DEF Replies, send_packet, Write, gdbUnchanged
<1>2. /\ InQueue /\ IsSeq(toClient) /\ NoToken(toClient)
      /\ connected => Head(pktq).for = phase
  BY PacketHandled
<1>3. m.kind = "PACKET" /\ m.for = Head(pktq).for
  BY AnswerFields, Zenon
<1>4. /\ IsSeq(Append(toClient, a)) /\ NoToken(Append(toClient, a))
      /\ toClient \o <<a, m>> = Append(Append(toClient, a), m)
  <2>1. IsSeq(Append(toClient, a)) /\ NoToken(Append(toClient, a))
    BY <1>2, Acked, Zenon
  <2> HIDE DEF a, m
  <2>2. toClient \o <<a, m>> = Append(Append(toClient, a), m)
    BY <1>2, WrittenTwo
  <2>3. QED
    BY <2>1, <2>2, Zenon
<1> HIDE DEF a, m
<1>5. connected => toClient' = Append(Append(toClient, a), m) /\ prevpkt' = m
  BY <1>1, <1>4, Zenon
<1>6. connected => OnlyPacket(toClient', m)
  BY <1>4, <1>5, FirstToken, Zenon
<1>7. connected => /\ IsSeq(toClient') /\ OneToken(toClient')
                   /\ \A k \in DOMAIN toClient' : toClient'[k].kind = "PACKET" =>
                         toClient'[k].for = phase /\ prevpkt'.for = phase
  BY <1>2, <1>3, <1>5, <1>6, Zenon DEF OnlyPacket
<1>8. prevpkt' # NoPacket => prevpkt'.kind = "PACKET"
  BY <1>1, <1>3, Zenon DEF ExchangeInv, TokenInv
<1>9. ~connected => toClient' = toClient
  BY <1>1, Zenon
<1>10. QED
  BY <1>1, <1>2, <1>7, <1>8, <1>9, AnswersStep, Zenon

LEMMA FinishStep ==
    ASSUME ExchangeInv, Executing, NEW body, Finish(body)
    PROVE  ExchangeInv'
<1> DEFINE m == Answer(body)
<1>1. /\ rpc' = "pop" /\ toClient' = IF connected THEN toClient \o <<m>> ELSE toClient
      /\ prevpkt' = IF connected THEN m ELSE prevpkt
      /\ UNCHANGED <<connected, request, phase, toServer, dpc, mtx, pktq, event>>
  BY DEF Finish, Write, gdbUnchanged, runUnchanged
<1>2. Head(pktq).kind = "PACKET"
  BY DEF ExchangeInv, TokenInv
<1>3. /\ InQueue /\ IsSeq(toClient) /\ NoToken(toClient)
      /\ connected => Head(pktq).for = phase
  BY <1>2, PacketHandled, Zenon
<1>4. m.kind = "PACKET" /\ m.for = Head(pktq).for
  BY AnswerFields, Zenon
<1> HIDE DEF m
<1>5. connected => toClient' = Append(toClient, m) /\ prevpkt' = m
  BY <1>1, <1>3, WrittenOne, Zenon
<1>6. connected => OnlyPacket(toClient', m)
  BY <1>3, <1>5, FirstToken, Zenon
<1>7. connected => /\ IsSeq(toClient') /\ OneToken(toClient')
                   /\ \A k \in DOMAIN toClient' : toClient'[k].kind = "PACKET" =>
                         toClient'[k].for = phase /\ prevpkt'.for = phase
  BY <1>3, <1>4, <1>5, <1>6, Zenon DEF OnlyPacket
<1>8. prevpkt' # NoPacket => prevpkt'.kind = "PACKET"
  BY <1>1, <1>4, Zenon DEF ExchangeInv, TokenInv
<1>9. ~connected => toClient' = toClient
  BY <1>1, ZenonT(30)
<1>10. QED
  BY <1>1, <1>3, <1>7, <1>8, <1>9, AnswersStep, Zenon

LEMMA EndsStep ==
    ASSUME ExchangeInv, rpc = "handle" \/ Executing, Head(pktq).kind = "PACKET",
           NEW how \in {"exit", "aborted"}, Ends(how)
    PROVE  ExchangeInv'
<1>1. /\ rpc' = how /\ dpc' = "gone" /\ ~connected'
      /\ UNCHANGED <<toServer, toClient, pktq, prevpkt>>
  BY DEF Ends
<1>2. NoToken(toClient)
  BY PacketHandled
<1>3. QED
  BY <1>1, <1>2 DEF ExchangeInv, HandInv, TokenInv, Executing

LEMMA vContStep ==
    ASSUME ExchangeInv, vCont
    PROVE  ExchangeInv'
<1> DEFINE a == [kind |-> "ACK"]
<1>1. /\ rpc = "handle" /\ Head(pktq).kind = "PACKET" /\ rpc' = "vcont"
      /\ toClient' = IF connected THEN toClient \o <<a>> ELSE toClient
      /\ UNCHANGED <<connected, request, phase, toServer, dpc, mtx, pktq, event, prevpkt>>
  BY Zenon DEF vCont, Handles, Write, gdbUnchanged, runUnchanged
<1>2. InQueue /\ IsSeq(toClient) /\ NoToken(toClient)
  BY <1>1, PacketHandled, Zenon
<1>3. IsSeq(toClient') /\ NoToken(toClient')
  BY <1>1, <1>2, Acked, WrittenOne, Zenon
<1> HIDE DEF a
<1>4. OneToken(toClient') /\ \A k \in DOMAIN toClient' : toClient'[k].kind # "PACKET"
  BY <1>3 DEF NoToken, OneToken, Token
<1>5. HandInv' /\ InQueue'
  BY <1>1, <1>2, AtWork, SMTT(30) DEF HandInv, Handled, Executing, InQueue
<1>6. TokenInv'
  BY <1>1, <1>2, <1>3, <1>4, <1>5, Zenon DEF ExchangeInv, TokenInv
<1>7. QED
  BY <1>1, <1>3, <1>5, <1>6, SMTT(30) DEF ExchangeInv

(* The handlers of the other commands, and the rest of run.               *)
LEMMA HandlerStep ==
    ASSUME ExchangeInv, Handler
    PROVE  ExchangeInv'
<1>1. CASE vCont
  BY <1>1, vContStep
<1>2. CASE killServer
  <2>1. rpc = "handle" /\ Head(pktq).kind = "PACKET" /\ Ends("exit")
    BY <1>2 DEF killServer, Handles
  <2>2. QED
    BY <2>1, EndsStep
<1>3. CASE (getRegisters \/ readMemory \/ writeMemory) /\ Ends("aborted")
  <2>1. rpc = "handle" /\ Head(pktq).kind = "PACKET"
    BY <1>3 DEF getRegisters, readMemory, writeMemory, Handles
  <2>2. QED
    BY <1>3, <2>1, EndsStep
<1>4. ASSUME ~vCont, ~killServer,
             ~((getRegisters \/ readMemory \/ writeMemory) /\ Ends("aborted"))
      PROVE  /\ rpc = "handle" /\ Head(pktq).kind = "PACKET"
             /\ \E body : Replies(body)
  BY <1>4, Zenon
     DEF Handler, Handles, answerConstant, answerUnsupported, getRegisters, readRegister,
         setThread, threadInfo, isAlive, setBreakpoint, removeBreakpoint, readMemory,
         writeMemory
<1>5. QED
  BY <1>1, <1>2, <1>3, <1>4, RepliesStep, Zenon

LEMMA RunStep ==
    ASSUME ExchangeInv, Run
    PROVE  ExchangeInv'
<1>1. Executing => Head(pktq).kind = "PACKET"
  BY DEF ExchangeInv, TokenInv
<1>2. CASE run_wakes \/ run_acknowledged \/ run_pops \/ Handler
  BY <1>2, WakesStep, AcknowledgedStep, PopsStep, HandlerStep, Zenon
<1>3. CASE vCont_throws
  <2>1. Executing /\ Ends("aborted")
    BY <1>3 DEF vCont_throws, Executing
  <2>2. QED
    BY <1>1, <2>1, EndsStep
<1>4. CASE vCont_unknown
  <2>1. Executing /\ Finish("E01")
    BY <1>4 DEF vCont_unknown, Executing
  <2>2. QED
    BY <2>1, FinishStep, Zenon
<1>5. CASE vCont_answers
  <2>1. Executing /\ (Ends("aborted") \/ Finish(stop))
    BY <1>5 DEF vCont_answers, Executing
  <2>2. QED
    BY <1>1, <2>1, EndsStep, FinishStep
<1>6. CASE vCont_skips \/ run_threads \/ run_threads_stops \/ run_threads_restores
  <2>1. Executing /\ Executing'
    BY <1>6, SMTT(30)
       DEF vCont_skips, run_threads, run_threads_stops, run_threads_restores, Executing
  <2>2. UNCHANGED <<connected, request, phase, toServer, toClient, dpc, mtx, pktq,
                    prevpkt, event>>
    BY <1>6 DEF vCont_skips, run_threads, run_threads_stops, run_threads_restores,
       gdbUnchanged, runUnchanged
  <2>3. QED
    BY <2>1, <2>2, WithinStep, SMTT(30)
<1>7. QED
  BY <1>2, <1>3, <1>4, <1>5, <1>6, ZenonT(30) DEF Run

LEMMA RunnerStep ==
    ASSUME ExchangeInv, NEW h \in Harts, Runner(h)
    PROVE  ExchangeInv'
<1>1. UNCHANGED rpc \/ (Executing /\ Executing')
  BY DEF Runner, runner_starts, run, runner_stops, Awaited, Executing
<1>2. UNCHANGED <<connected, request, phase, toServer, toClient, dpc, mtx, pktq,
                  prevpkt, event>>
  BY DEF Runner, runner_starts, run, runner_stops, runnerUnchanged, gdbVars, dispatchVars
<1>3. QED
  BY <1>1, <1>2, WithinStep, ZenonT(30)

LEMMA ExchangeInvariant == Spec => []ExchangeInv
<1>1. Init => ExchangeInv
  <2> SUFFICES ASSUME Init PROVE ExchangeInv
    OBVIOUS
  <2>1. /\ toServer = << >> /\ toClient = << >> /\ ~connected /\ prevpkt = NoPacket
        /\ dpc = "accept" /\ ~mtx /\ pktq = << >> /\ ~event /\ rpc = "wait"
    BY DEF Init
  <2>2. IsSeq(toServer) /\ IsSeq(toClient) /\ NoToken(toClient)
    BY <2>1, NoMessages, Zenon
  <2>3. QED
    BY <2>1, <2>2 DEF ExchangeInv, HandInv, TokenInv, Idle, Executing
<1>2. ASSUME ExchangeInv, [Next]_vars PROVE ExchangeInv'
  <2>1. CASE UNCHANGED vars
    <3>1. UNCHANGED <<connected, request, phase, toServer, toClient, dpc, mtx, pktq,
                      prevpkt, event, rpc>>
      BY <2>1 DEF vars, gdbVars, dispatchVars, runVars
    <3>2. QED
      BY <1>2, <3>1, WithinStep, Zenon
  <2>2. CASE Gdb
    BY <1>2, <2>2, SendsStep, ReceivesStep, DisconnectsStep, Zenon DEF Gdb
  <2>3. CASE Dispatch
    BY <1>2, <2>3, AcceptStep, LockStep, PacketStep, FreeStep, Zenon DEF Dispatch
  <2>4. QED
    BY <1>2, <2>1, <2>2, <2>3, RunStep, RunnerStep, Zenon DEF Next
<1>3. QED
  BY <1>1, <1>2, PTL DEF Spec

(* Whatever packets are damaged and sent again, whenever GDB disconnects   *)
(* and comes back, and although the mutex is locked by the thread of       *)
(* dispatch and unlocked by run: run handles one packet at a time, the     *)
(* saved reply is not freed under it, and each reply GDB reads is the one  *)
(* to the request it waits for.                                            *)
THEOREM ExchangeAlwaysSound == Spec => []ExchangeSound
<1>1. ExchangeInv => HandedOver
  <2> SUFFICES ASSUME ExchangeInv PROVE HandedOver
    OBVIOUS
  <2>1. ASSUME NEW m, pktq = <<m>> PROVE Len(pktq) = 1
    BY <2>1
  <2>2. Queued \/ Handled => Len(pktq) = 1
    BY <2>1, ZenonT(30) DEF Queued, Handled
  <2>3. QED
    BY <2>2 DEF ExchangeInv, HandInv, Idle, HandedOver, Executing, Handled
<1>2. ExchangeInv => RepliesMatch
  <2> SUFFICES ASSUME ExchangeInv, NEW k \in DOMAIN toClient, toClient[k].kind = "PACKET"
               PROVE  request # NoRequest /\ toClient[k].for = phase
    BY DEF RepliesMatch
  <2>1. ~NoToken(toClient)
    BY DEF NoToken, Token
  <2>2. QED
    BY <2>1 DEF ExchangeInv, TokenInv
<1>3. QED
  BY <1>1, <1>2, ExchangeInvariant, PTL DEF ExchangeSound

-----------------------------------------------------------------------------
(* Run control, with one hart: the inductive invariant.                    *)

(* What GDB sends, apart from damage: threads the server has told it of,   *)
(* and a vCont with at least one action, as the parser demands.            *)
SensibleRequests ==
    \A c \in Requests :
       /\ c.name = "H" => c.tid \in Threads
       /\ c.name = "vCont" => IsSeq(c.actions) /\ c.actions # << >>

(* The commands on their way are those requests.                           *)
CommandsKnown ==
    /\ request = NoRequest \/ request \in Requests
    /\ \A k \in DOMAIN toServer :
          toServer[k].kind = "PACKET" => toServer[k].cmd \in Requests
    /\ pktq # << >> /\ Head(pktq).kind = "PACKET" => Head(pktq).cmd \in Requests

(* The hart can be run again, or has terminated.                           *)
Stopped == \/ runner[1] = "idle" /\ status[1] = "Runnable"
           \/ runner[1] = "gone" /\ status[1] = "Terminated"

(* The hart executes, and run_threads waits for it.                        *)
Running ==
    /\ hartsrun = <<1>> /\ orig_status = << >>
    /\ status[1] \in {"Runnable", "HitBreakpoint", "Terminated"}
    /\ \/ runner[1] = "start" /\ status[1] = "Runnable"
       \/ runner[1] \in {"run", "stepped"}
       \/ runner[1] = "sync" /\ status[1] # "Runnable"
       \/ runner[1] = "gone" /\ status[1] = "Terminated"

(* The hart has stopped, and has a reason.                                 *)
Halting ==
    /\ hartsrun = <<1>>
    /\ orig_status = IF rpc = "stopped" THEN << >> ELSE <<status[1]>>
    /\ \/ runner[1] = "idle" /\ status[1] = "HitBreakpoint"
       \/ runner[1] = "gone" /\ status[1] = "Terminated"

(* Where run is, with the hart in the state that belongs to it.            *)
HartInv ==
    /\ DOMAIN runner = Harts /\ DOMAIN status = Harts
    /\ \/ rpc \in {"wait", "handle", "pop", "vcont"} /\ Stopped
       \/ rpc = "all" /\ Running
       \/ rpc \in {"stopped", "stopping"} /\ Halting
       \/ rpc \in {"exit", "aborted"}

(* vCont: until the hart has stopped no thread has been matched, so that   *)
(* an action remains that runs it.                                         *)
vContInv ==
    /\ thread_ops \in Threads
    /\ Executing => /\ IsSeq(todo)
                    /\ stop = NoStop => matched = {} /\ todo # << >>
                    /\ stop # NoStop => stop.thread = 1
                    /\ rpc # "vcont" => todo # << >>
    /\ ServerSurvives

RunInv == CommandsKnown /\ HartInv /\ vContInv

-----------------------------------------------------------------------------
(* The commands.                                                           *)

(* Nothing that concerns the commands changes, but what is taken away.     *)
LEMMA CommandsKept ==
    ASSUME CommandsKnown, UNCHANGED request \/ request' = NoRequest,
           UNCHANGED toServer \/ toServer' = << >>, UNCHANGED pktq \/ pktq' = << >>
    PROVE  CommandsKnown'
<1>1. toServer' = << >> => DOMAIN toServer' = {}
  OBVIOUS
<1>2. QED
  BY <1>1 DEF CommandsKnown

LEMMA CommandSent ==
    ASSUME CommandsKnown, IsSeq(toServer), UNCHANGED pktq,
           request' = NoRequest \/ request' \in Requests,
           NEW m, toServer' = Append(toServer, m), m.kind = "PACKET" => m.cmd \in Requests
    PROVE  CommandsKnown'
<1>1. \A k \in DOMAIN toServer' : \/ k \in DOMAIN toServer /\ toServer'[k] = toServer[k]
                                  \/ toServer'[k] = m
  BY AppendFacts, Zenon
<1>2. QED
  BY <1>1 DEF CommandsKnown

LEMMA CommandsStep ==
    ASSUME ExchangeInv, CommandsKnown, [Next]_vars
    PROVE  CommandsKnown'
<1>0. IsSeq(toServer)
  BY DEF ExchangeInv
<1>1. CASE GdbSends
  <2>1. PICK c \in Requests, ok \in BOOLEAN :
          /\ request' = c
          /\ toServer' = Append(toServer, [kind |-> "PACKET", for |-> phase + 1,
                                           cmd |-> c, ok |-> ok])
    BY <1>1, Zenon DEF GdbSends
  <2> DEFINE m == [kind |-> "PACKET", for |-> phase + 1, cmd |-> c, ok |-> ok]
  <2>2. m.cmd \in Requests /\ toServer' = Append(toServer, m)
    BY <2>1
  <2> HIDE DEF m
  <2>3. UNCHANGED pktq
    BY <1>1 DEF GdbSends, dispatchVars
  <2>4. QED
    BY <1>0, <2>1, <2>2, <2>3, CommandSent, Zenon
<1>2. CASE GdbReceives
  <2>1. UNCHANGED pktq
    BY <1>2 DEF GdbReceives, dispatchVars
  <2>2. CASE UNCHANGED <<request, toServer>>
    BY <2>1, <2>2, CommandsKept
  <2>3. CASE /\ request # NoRequest /\ UNCHANGED request
             /\ toServer' = Append(toServer, Packet(TRUE))
    <3>1. Packet(TRUE).cmd = request
      BY DEF Packet
    <3>2. request \in Requests
      BY <2>3 DEF CommandsKnown
    <3>3. QED
      BY <1>0, <2>1, <2>3, <3>1, <3>2, CommandSent, ZenonT(30)
  <2>4. ASSUME NEW m, toServer' = Append(toServer, m), m.kind # "PACKET",
               UNCHANGED request \/ request' = NoRequest
        PROVE  CommandsKnown'
    BY <1>0, <2>1, <2>4, CommandSent, Zenon DEF CommandsKnown
  <2>5. [kind |-> "ACK"].kind # "PACKET" /\ [kind |-> "NACK"].kind # "PACKET"
    OBVIOUS
  <2>6. QED
    BY <1>2, <2>2, <2>3, <2>4, <2>5, ZenonT(30) DEF GdbReceives
<1>3. CASE dispatch_packet
  <2> DEFINE m == Head(toServer)
  <2>1. /\ dpc = "parse" /\ toServer # <<>> /\ toServer' = Tail(toServer)
        /\ pktq' = Append(pktq, m) /\ UNCHANGED request
    BY <1>3 DEF dispatch_packet
  <2>2. pktq = << >>
    BY <2>1 DEF ExchangeInv, HandInv, Idle
  <2>3. /\ m = toServer[1] /\ 1 \in DOMAIN toServer
        /\ \A k \in DOMAIN toServer' : k + 1 \in DOMAIN toServer /\ toServer'[k] = toServer[k + 1]
    BY <1>0, <2>1, TailFacts, Zenon
  <2> HIDE DEF m
  <2>4. Head(pktq') = m
    BY <2>1, <2>2
  <2>5. QED
    BY <2>1, <2>3, <2>4, Zenon DEF CommandsKnown
<1>4. CASE run_pops
  <2>1. rpc = "pop" /\ pktq' = Tail(pktq) /\ UNCHANGED <<request, toServer>>
    BY <1>4 DEF run_pops, gdbVars
  <2>2. Handled
    BY <2>1 DEF ExchangeInv, HandInv, Idle, Queued
  <2>3. PICK m : pktq = <<m>>
    BY <2>2 DEF Handled
  <2>4. pktq' = << >>
    BY <2>1, <2>3
  <2>5. QED
    BY <2>1, <2>4, CommandsKept
<1>5. CASE UNCHANGED vars
  BY <1>5, CommandsKept, SMTT(30) DEF vars, gdbVars, dispatchVars
<1>6. CASE GdbDisconnects \/ serve_accept \/ dispatch_lock \/ dispatch_end \/ serve_free
  BY <1>6, CommandsKept, SMTT(30)
     DEF GdbDisconnects, serve_accept, dispatch_lock, dispatch_end, serve_free, gdbVars,
         dispatchVars
<1>7. CASE \E h \in Harts : Runner(h)
  BY <1>7, CommandsKept
     DEF Runner, runner_starts, run, runner_stops, runnerUnchanged, gdbVars, dispatchVars
<1>8. CASE Run /\ ~run_pops
  <2>1. UNCHANGED pktq /\ UNCHANGED toServer /\ (UNCHANGED request \/ request' = NoRequest)
    BY <1>8, Zenon
       DEF Run, run_wakes, run_acknowledged, Handler, answerConstant, answerUnsupported,
           getRegisters, readRegister, setThread, killServer, threadInfo, isAlive,
           setBreakpoint, removeBreakpoint, readMemory, writeMemory, vCont, vCont_throws,
           vCont_unknown, vCont_skips, run_threads, run_threads_stops,
           run_threads_restores, vCont_answers, Replies, Ends, Finish, gdbUnchanged,
           runUnchanged, gdbVars, dispatchVars
  <2>2. QED
    BY <2>1, CommandsKept
<1>9. QED
  BY <1>1, <1>2, <1>3, <1>4, <1>5, <1>6, <1>7, <1>8, ZenonT(30) DEF Next, Gdb, Dispatch

-----------------------------------------------------------------------------
(* The threads of a vCont, with one hart.                                  *)

LEMMA OneThread ==
    ASSUME NHarts = 1
    PROVE  /\ Harts = {1}
           /\ \A tid \in Threads : get_threads(tid) = <<1>>
<1>1. Harts = {1}
  BY DEF Harts
<1>2. \A tid \in Threads : tid \in {1, 0, -1}
  BY <1>1 DEF Threads, GDB_THREAD_ANY, GDB_THREAD_ALL
<1>3. [h \in {1} |-> h] = <<1>>
  OBVIOUS
<1>4. QED
  BY <1>1, <1>2, <1>3 DEF get_threads, GDB_THREAD_ANY, GDB_THREAD_ALL

LEMMA UnmatchedThread ==
    ASSUME NHarts = 1, NEW tid \in Threads
    PROVE  Unmatched(tid) = IF 1 \in matched THEN << >> ELSE <<1>>
<1> DEFINE threads == get_threads(tid)
           left == {k \in DOMAIN threads : threads[k] \notin matched}
           place(i) == CHOOSE k \in left : Cardinality({j \in left : j <= k}) = i
<1>0. Unmatched(tid) = [i \in 1..Cardinality(left) |-> threads[place(i)]]
  BY Zenon DEF Unmatched
<1>1. threads = <<1>>
  BY OneThread, Zenon
<1> HIDE DEF threads
<1>2. left = IF 1 \in matched THEN {} ELSE {1}
  BY <1>1
<1>3. CASE 1 \in matched
  <2>1. Cardinality(left) = 0
    BY <1>2, <1>3, FS_EmptySet
  <2> HIDE DEF left, place
  <2>2. QED
    BY <1>0, <1>3, <2>1
<1>4. CASE 1 \notin matched
  <2>1. left = {1} /\ Cardinality(left) = 1
    BY <1>2, <1>4, FS_Singleton, SMTT(30)
  <2> HIDE DEF left
  <2>2. {j \in left : j <= 1} = left
    BY <2>1
  <2>3. place(1) = 1
    BY <2>1, <2>2
  <2> HIDE DEF place
  <2>4. QED
    BY <1>0, <1>1, <1>4, <2>1, <2>3
<1>5. QED
  BY <1>3, <1>4

-----------------------------------------------------------------------------
(* The steps of run and of the runner.                                     *)

(* A step outside vCont, or one that ends it or the program.               *)
LEMMA QuietStep ==
    ASSUME RunInv, UNCHANGED <<runner, status>>, thread_ops' \in Threads,
           \/ UNCHANGED <<rpc, todo, matched, stop, hartsrun, orig_status>>
           \/ /\ rpc \in {"wait", "handle", "pop", "vcont"}
              /\ rpc' \in {"wait", "handle", "pop"}
           \/ rpc' = "exit"
           \/ rpc' = "aborted" /\ \E k \in DOMAIN todo' : todo'[k].action \notin {"s", "c"}
    PROVE  HartInv' /\ vContInv'
<1>1. HartInv'
  BY SMTT(30) DEF RunInv, HartInv, Stopped, Running, Halting
<1>2. vContInv'
  BY DEF RunInv, vContInv, Executing, ServerSurvives
<1>3. QED
  BY <1>1, <1>2, SMTT(30)

(* The commands that are handled at once.                                  *)
LEMMA HandledStep ==
    ASSUME SensibleRequests, ExchangeInv, RunInv, Handler, ~vCont
    PROVE  HartInv' /\ vContInv'
<1>1. /\ rpc = "handle" /\ Head(pktq).kind = "PACKET" /\ thread_ops \in Threads
      /\ UNCHANGED <<runner, status>>
  BY Zenon
     DEF Handler, Handles, answerConstant, answerUnsupported, getRegisters, readRegister,
         setThread, killServer, threadInfo, isAlive, setBreakpoint, removeBreakpoint,
         readMemory, writeMemory, Replies, Ends, hartVars, RunInv, vContInv
<1>2. cmd \in Requests
  BY <1>1, AtWork, Zenon DEF RunInv, CommandsKnown, cmd
<1>3. CASE setThread
  <2>1. cmd.name = "H" /\ rpc' = "pop" /\ thread_ops' \in {cmd.tid, thread_ops}
    BY <1>3 DEF setThread, Handles, Replies, cmd
  <2>2. thread_ops' \in Threads
    BY <1>1, <1>2, <2>1, SMTT(30) DEF SensibleRequests
  <2>3. QED
    BY <1>1, <2>1, <2>2, QuietStep, SMTT(30)
<1>4. CASE killServer
  BY <1>1, <1>4, QuietStep DEF killServer, Ends, targetVars
<1>5. ASSUME ~setThread, ~killServer
      PROVE  rpc' = "pop" /\ UNCHANGED thread_ops
  BY <1>1, <1>5, Zenon
     DEF Handler, answerConstant, answerUnsupported, getRegisters, readRegister,
         threadInfo, isAlive, setBreakpoint, removeBreakpoint, readMemory, writeMemory,
         Replies, targetVars
<1>6. QED
  BY <1>1, <1>3, <1>4, <1>5, QuietStep, Zenon

LEMMA vContBegins ==
    ASSUME SensibleRequests, ExchangeInv, RunInv, vCont
    PROVE  HartInv' /\ vContInv'
<1>1. /\ rpc = "handle" /\ rpc' = "vcont" /\ Head(pktq).kind = "PACKET"
      /\ cmd.name = "vCont" /\ todo' = cmd.actions /\ matched' = {} /\ stop' = NoStop
      /\ UNCHANGED <<runner, status, thread_ops>>
  BY DEF vCont, Handles, cmd, hartVars
<1>2. cmd \in Requests
  BY <1>1, AtWork, Zenon DEF RunInv, CommandsKnown, cmd
<1>3. IsSeq(todo') /\ todo' # << >>
  BY <1>1, <1>2, Zenon DEF SensibleRequests
<1>4. HartInv'
  BY <1>1 DEF RunInv, HartInv, Stopped
<1>5. vContInv'
  BY <1>1, <1>3 DEF RunInv, vContInv, Executing, ServerSurvives
<1>6. QED
  BY <1>4, <1>5, SMTT(30)

(* vCont goes on without a run, or ends.                                   *)
LEMMA vContSteps ==
    ASSUME NHarts = 1, RunInv, vCont_throws \/ vCont_unknown \/ vCont_skips \/ vCont_answers
    PROVE  HartInv' /\ vContInv'
<1>1. /\ rpc = "vcont" /\ Executing /\ thread_ops \in Threads
      /\ IsSeq(todo) /\ (stop = NoStop => matched = {} /\ todo # << >>)
      /\ stop # NoStop => stop.thread = 1
  BY SMTT(30)
     DEF vCont_throws, vCont_unknown, vCont_skips, vCont_answers, Executing, RunInv, vContInv
<1>2. UNCHANGED <<runner, status>>
  BY DEF vCont_throws, vCont_unknown, vCont_skips, vCont_answers, Ends, Finish, hartVars
<1>3. CASE vCont_throws
  <2>1. /\ todo # << >> /\ Head(todo).action \notin {"s", "c"} /\ rpc' = "aborted"
        /\ UNCHANGED <<todo, thread_ops>>
    BY <1>3 DEF vCont_throws, Ends, vContUnchanged, targetVars
  <2>2. 1 \in DOMAIN todo /\ Head(todo) = todo[1]
    BY <1>1, <2>1, TailFacts, Zenon
  <2>3. QED
    BY <1>1, <1>2, <2>1, <2>2, QuietStep, SMTT(30)
<1>4. CASE vCont_unknown
  BY <1>1, <1>2, <1>4, QuietStep DEF vCont_unknown, Finish
<1>5. CASE vCont_answers
  <2>1. stop # NoStop
    BY <1>1, <1>5 DEF vCont_answers
  <2>2. rpc' = "pop" /\ thread_ops' = 1
    BY <1>1, <1>5, <2>1 DEF vCont_answers, Finish
  <2>3. 1 \in Threads
    BY OneThread DEF Threads
  <2>4. QED
    BY <1>1, <1>2, <2>2, <2>3, QuietStep
<1>6. CASE vCont_skips
  <2>1. /\ todo # << >> /\ Head(todo).tid \in Threads /\ Unmatched(Head(todo).tid) = << >>
        /\ todo' = Tail(todo) /\ UNCHANGED <<rpc, stop, thread_ops>>
    BY <1>6 DEF vCont_skips
  <2>2. 1 \in matched
    <3> SUFFICES ASSUME 1 \notin matched PROVE FALSE
      OBVIOUS
    <3>1. Unmatched(Head(todo).tid) = <<1>>
      BY <2>1, UnmatchedThread, Zenon
    <3>2. <<1>> # << >>
      OBVIOUS
    <3>3. QED
      BY <2>1, <3>1, <3>2, Zenon
  <2>3. stop # NoStop /\ IsSeq(todo')
    BY <1>1, <2>1, <2>2, TailFacts
  <2>4. HartInv'
    BY <1>1, <1>2, <2>1, SMTT(30) DEF RunInv, HartInv, Stopped
  <2>5. vContInv'
    BY <1>1, <2>1, <2>3 DEF vContInv, ServerSurvives, Executing
  <2>6. QED
    BY <2>4, <2>5, SMTT(30)
<1>7. QED
  BY <1>3, <1>4, <1>5, <1>6, SMTT(30)

(* The hart is run, unless it has terminated.                              *)
LEMMA ThreadsRun ==
    ASSUME NHarts = 1, RunInv, run_threads
    PROVE  HartInv' /\ vContInv'
<1>1. /\ rpc = "vcont" /\ rpc' = "all" /\ todo # << >> /\ Head(todo).tid \in Threads
      /\ hartsrun' = Unmatched(Head(todo).tid) /\ hartsrun' # << >> /\ orig_status' = << >>
      /\ runner' = [h \in Harts |-> IF h \in Range(hartsrun') /\ runner[h] = "idle"
                                    THEN "start" ELSE runner[h]]
      /\ UNCHANGED <<todo, matched, stop, status, thread_ops>>
  BY DEF run_threads
<1>2. hartsrun' = <<1>>
  BY <1>1, UnmatchedThread, Zenon
<1>3. 1 \in Harts /\ 1 \in Range(hartsrun')
  BY <1>2, OneThread DEF Range
<1>4. runner'[1] = IF runner[1] = "idle" THEN "start" ELSE runner[1]
  BY <1>1, <1>3, SMTT(30)
<1>5. DOMAIN runner' = Harts
  BY <1>1, SMTT(30) DEF RunInv, HartInv
<1>6. HartInv'
  BY <1>1, <1>2, <1>4, <1>5, SMTT(30) DEF RunInv, HartInv, Stopped, Running
<1>7. vContInv'
  BY <1>1, Zenon DEF RunInv, vContInv, Executing, ServerSurvives
<1>8. QED
  BY <1>6, <1>7, SMTT(30)

(* The hart has stopped by itself: run_threads does not wait again.        *)
LEMMA ThreadStops ==
    ASSUME RunInv, run_threads_stops
    PROVE  HartInv' /\ vContInv'
<1>1. /\ rpc \in {"stopped", "stopping"} /\ Halting
      /\ Len(orig_status) < Len(hartsrun)
  BY DEF run_threads_stops, RunInv, HartInv
<1>2. hartsrun = <<1>> /\ rpc = "stopped" /\ orig_status = << >> /\ Checked = 1
  BY <1>1 DEF Halting, Checked
<1>3. status[1] # "Runnable"
  BY <1>1 DEF Halting
<1>4. /\ orig_status' = <<status[1]>> /\ rpc' = "stopping"
      /\ UNCHANGED <<todo, matched, stop, hartsrun, runner, status, thread_ops>>
  BY <1>2, <1>3, SMTT(30) DEF run_threads_stops
<1>5. HartInv'
  BY <1>1, <1>2, <1>4, SMTT(30) DEF RunInv, HartInv, Halting
<1>6. vContInv'
  BY <1>2, <1>4, ZenonT(30) DEF RunInv, vContInv, Executing, ServerSurvives
<1>7. QED
  BY <1>5, <1>6, SMTT(30)

(* It can be run again, or has terminated, and GDB will be told of it.     *)
LEMMA ThreadRestored ==
    ASSUME NHarts = 1, RunInv, run_threads_restores
    PROVE  HartInv' /\ vContInv'
<1>1. /\ rpc \in {"stopped", "stopping"} /\ Halting /\ Executing
      /\ Len(orig_status) = Len(hartsrun)
  BY DEF run_threads_restores, RunInv, HartInv, Executing
<1>2. hartsrun = <<1>> /\ orig_status = <<status[1]>>
  BY <1>1, SMTT(30) DEF Halting
<1>3. /\ rpc' = "vcont" /\ todo' = Tail(todo) /\ UNCHANGED <<runner, thread_ops>>
      /\ IsSeq(todo) /\ todo # << >> /\ thread_ops \in Threads
  BY <1>1 DEF run_threads_restores, RunInv, vContInv
<1>4. status'[1] = (IF status[1] = "HitBreakpoint" THEN "Runnable" ELSE status[1])
  <2>1. /\ 1 \in Harts /\ 1 \in DOMAIN hartsrun /\ hartsrun[1] = 1
        /\ orig_status[1] = status[1] /\ DOMAIN hartsrun = {1}
    BY <1>2, OneThread
  <2>2. (CHOOSE k \in DOMAIN hartsrun : hartsrun[k] = 1) = 1
    BY <2>1, SMTT(30)
  <2>3. QED
    BY <2>1, <2>2, Zenon DEF run_threads_restores
<1>5. DOMAIN status' = Harts
  BY Zenon DEF run_threads_restores
<1>6. HartInv'
  BY <1>1, <1>3, <1>4, <1>5, SMTT(30) DEF RunInv, HartInv, Stopped, Halting
<1>7. stop' # NoStop /\ stop'.thread = 1
  <2> DEFINE last == CHOOSE i \in Halted : \A j \in Halted : j <= i
             why == IF orig_status[last] = "Terminated" THEN "03" ELSE "05"
  <2>1. status[1] # "Runnable"
    BY <1>1 DEF Halting
  <2>2. Halted = {1}
    BY <1>2, <2>1 DEF Halted
  <2>3. last = 1
    BY <2>2
  <2>4. stop' = [reason |-> why, thread |-> hartsrun[last]]
    BY <2>2, Zenon DEF run_threads_restores
  <2>5. why # "none"
    OBVIOUS
  <2> HIDE DEF last, why
  <2>6. hartsrun[last] = 1
    BY <1>2, <2>3, SMTT(30)
  <2>7. QED
    BY <2>4, <2>5, <2>6 DEF NoStop
<1>8. vContInv'
  BY <1>3, <1>7, TailFacts DEF vContInv, Executing, ServerSurvives
<1>9. QED
  BY <1>6, <1>8

(* The runner executes its hart only while run_threads waits for it.       *)
LEMMA HartRuns ==
    ASSUME NHarts = 1, RunInv, NEW h \in Harts, Runner(h)
    PROVE  HartInv' /\ vContInv'
<1>1. h = 1
  BY OneThread, SMTT(30)
<1>2. /\ Yields /\ runner[1] \in {"start", "run", "stepped", "sync"}
      /\ UNCHANGED <<todo, matched, stop, hartsrun, orig_status, thread_ops>>
  BY <1>1 DEF Runner, runner_starts, run, runner_stops, runnerUnchanged, targetVars
<1>3. rpc = "all" /\ Running
  BY <1>2 DEF Yields, RunInv, HartInv, Stopped, Halting
<1>4. /\ DOMAIN runner = Harts /\ DOMAIN status = Harts /\ 1 \in Harts
  BY <1>1 DEF RunInv, HartInv
<1>5. ASSUME run_step(1)
      PROVE  /\ DOMAIN status' = Harts
             /\ status'[1] \in {status[1], "HitBreakpoint", "Terminated"}
  BY <1>4, <1>5, SMTT(30) DEF run_step
<1>6. ASSUME rpc' \in {"all", "stopped"} PROVE vContInv'
  BY <1>2, <1>3, <1>6 DEF RunInv, vContInv, Executing, ServerSurvives
<1>7. CASE runner_starts(1)
  <2>1. /\ rpc' = "all" /\ DOMAIN runner' = Harts
        /\ runner'[1] \in {"run", "stepped"} /\ run_step(1)
    BY <1>3, <1>4, <1>7, SMTT(30) DEF runner_starts
  <2>2. HartInv'
    BY <1>2, <1>3, <1>5, <2>1 DEF HartInv, Running
  <2>3. QED
    BY <1>6, <2>1, <2>2
<1>8. CASE run(1)
  <2>1. /\ rpc' = "all" /\ DOMAIN runner' = Harts
        /\ \/ runner'[1] = "run" /\ run_step(1)
           \/ runner'[1] = "sync" /\ status[1] # "Runnable" /\ UNCHANGED status
    BY <1>3, <1>4, <1>8, SMTT(30) DEF run
  <2>2. HartInv'
    BY <1>2, <1>3, <1>4, <1>5, <2>1 DEF HartInv, Running
  <2>3. QED
    BY <1>6, <2>1, <2>2
<1>9. CASE runner_stops(1)
  <2>1. 1 \in Range(hartsrun)
    BY <1>3 DEF Running, Range
  <2>2. rpc' = "stopped"
    BY <1>3, <1>9, <2>1 DEF runner_stops, Awaited
  <2>3. /\ DOMAIN runner' = Harts /\ DOMAIN status' = Harts
        /\ runner'[1] = IF status[1] = "Terminated" THEN "gone" ELSE "idle"
        /\ status'[1] = IF status[1] = "Runnable" THEN "HitBreakpoint" ELSE status[1]
    BY <1>3, <1>4, <1>9, SMTT(30) DEF runner_stops, Running
  <2>4. HartInv'
    BY <1>2, <1>3, <2>2, <2>3 DEF HartInv, Running, Halting
  <2>5. QED
    BY <1>6, <2>2, <2>4, SMTT(30)
<1>10. QED
  BY <1>1, <1>7, <1>8, <1>9 DEF Runner

LEMMA RunControlStep ==
    ASSUME NHarts = 1, SensibleRequests, ExchangeInv, RunInv, [Next]_vars
    PROVE  RunInv'
<1>1. CommandsKnown'
  BY CommandsStep DEF RunInv
<1>2. thread_ops \in Threads
  BY SMTT(30) DEF RunInv, vContInv
<1>3. CASE UNCHANGED vars \/ Gdb \/ Dispatch
  <2>1. UNCHANGED <<runner, status, thread_ops, rpc, todo, matched, stop, hartsrun,
                    orig_status>>
    BY <1>3, ZenonT(30)
       DEF vars, Gdb, GdbSends, GdbReceives, GdbDisconnects, Dispatch, serve_accept,
           dispatch_lock, dispatch_packet, dispatch_end, serve_free, runVars, hartVars,
           targetVars
  <2>2. QED
    BY <1>1, <1>2, <2>1, QuietStep, SMTT(30) DEF RunInv
<1>4. CASE run_wakes \/ run_acknowledged \/ run_pops
  <2>1. /\ rpc \in {"wait", "handle", "pop"} /\ rpc' \in {"wait", "handle", "pop"}
        /\ UNCHANGED <<runner, status, thread_ops>>
    BY <1>4 DEF run_wakes, run_acknowledged, run_pops, hartVars, targetVars
  <2>2. QED
    BY <1>1, <1>2, <2>1, QuietStep, SMTT(30) DEF RunInv
<1>5. CASE Handler
  BY <1>1, <1>5, HandledStep, vContBegins DEF RunInv
<1>6. CASE vCont_throws \/ vCont_unknown \/ vCont_skips \/ vCont_answers
  BY <1>1, <1>6, vContSteps DEF RunInv
<1>7. CASE run_threads \/ run_threads_stops \/ run_threads_restores
  BY <1>1, <1>7, ThreadsRun, ThreadStops, ThreadRestored, SMTT(30) DEF RunInv
<1>8. CASE \E h \in Harts : Runner(h)
  BY <1>1, <1>8, HartRuns DEF RunInv
<1>9. QED
  BY <1>3, <1>4, <1>5, <1>6, <1>7, <1>8, Zenon DEF Next, Run

(* vCont, run_threads and the runner of the one hart of the platforms,     *)
(* whatever the breakpoints and the guest, for a GDB that names threads it *)
(* has been told of: whenever GDB has no answer outstanding, also after a  *)
(* disconnect in the middle of a run, the hart has stopped and can be run  *)
(* again unless it has terminated; the assertion at the end of vCont holds *)
(* and nothing but an unknown vCont action ends the simulation.            *)
THEOREM RunControlAlwaysSound ==
    ASSUME NHarts = 1, SensibleRequests
    PROVE  Spec => []RunControlSound
<1>1. Init => RunInv
  <2> SUFFICES ASSUME Init PROVE RunInv
    OBVIOUS
  <2>1. /\ request = NoRequest /\ toServer = << >> /\ pktq = << >> /\ rpc = "wait"
        /\ thread_ops = GDB_THREAD_ANY
        /\ runner = [h \in Harts |-> "idle"] /\ status = [h \in Harts |-> "Runnable"]
    BY DEF Init
  <2>2. CommandsKnown
    <3>1. DOMAIN toServer = {}
      BY <2>1
    <3>2. QED
      BY <2>1, <3>1 DEF CommandsKnown
  <2>3. HartInv
    BY <2>1, OneThread DEF HartInv, Stopped
  <2>4. vContInv
    BY <2>1 DEF vContInv, Threads, Executing, ServerSurvives
  <2>5. QED
    BY <2>2, <2>3, <2>4 DEF RunInv
<1>2. ExchangeInv /\ RunInv /\ [Next]_vars => RunInv'
  BY RunControlStep
<1>3. ExchangeInv /\ RunInv => AllStop
  <2> SUFFICES ASSUME ExchangeInv, RunInv, connected, request = NoRequest, NEW h \in Harts
               PROVE  <<runner[h], status[h]>> \in {<<"idle", "Runnable">>,
                                                   <<"gone", "Terminated">>}
    BY SMTT(30) DEF AllStop
  <2>1. ~Executing
    <3> SUFFICES ASSUME Executing PROVE FALSE
      BY SMTT(30)
    <3>1. InQueue
      BY PacketHandled, Zenon DEF ExchangeInv, TokenInv
    <3>2. QED
      BY <3>1 DEF ExchangeInv, TokenInv
  <2>2. rpc \notin {"exit", "aborted"}
    BY DEF ExchangeInv, HandInv, Idle, Queued, Handled, Executing
  <2>3. Stopped
    BY <2>1, <2>2 DEF RunInv, HartInv, Executing
  <2>4. h = 1
    BY OneThread
  <2>5. QED
    BY <2>3, <2>4, Zenon DEF Stopped
<1>4. RunInv => ServerSurvives
  BY DEF RunInv, vContInv
<1>5. QED
  BY <1>1, <1>2, <1>3, <1>4, ExchangeInvariant, PTL DEF Spec, RunControlSound
=============================================================================
