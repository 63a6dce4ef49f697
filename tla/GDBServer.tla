----------------------------- MODULE GDBServer -----------------------------
(***************************************************************************)
(* The GDB stub (core/common/gdb-mc): GDB talks to it over a socket.       *)
(*                                                                         *)
(*   - serve and dispatch, in a thread of the operating system, accept a   *)
(*     connection and read one packet at a time;                           *)
(*   - GDBServer::run, a SystemC thread, handles the packet, and is the    *)
(*     one that unlocks the mutex dispatch has locked before reading it;   *)
(*   - one GDBServerRunner per hart, a SystemC thread too, executes the    *)
(*     hart between a run event and a stop event.                          *)
(*                                                                         *)
(* SystemC threads are never preempted: run and the runners interleave     *)
(* only where one of them waits.  The thread of dispatch and GDB itself    *)
(* interleave with every step.                                             *)
(***************************************************************************)
EXTENDS Naturals, Integers, Sequences, Functions, FiniteSets

CONSTANTS NHarts,       \* harts.size()
          Requests,     \* the commands GDB chooses from
          MemSize,      \* the bytes the bus decodes
          GuestEnd,     \* the guest runs from pc 0 to GuestEnd, then exits
          MaxRequests, MaxFaults, MaxSessions

GDB_THREAD_ANY == 0
GDB_THREAD_ALL == -1

ASSUME GDBAssumption ==
    /\ NHarts \in Nat \ {0} /\ MemSize \in Nat \ {0} /\ GuestEnd \in Nat
    /\ MaxRequests \in Nat /\ MaxFaults \in Nat /\ MaxSessions \in Nat
    /\ \A c \in Requests : c.name # "none"

Harts == 1..NHarts                       \* a hart is known by its thread id

VARIABLES
    \* GDB and the socket
    connected, session, request, phase, toServer, toClient, faults,
    \* the thread of serve and dispatch, and what it shares with run
    dpc, mtx, pktq, prevpkt, event,
    \* run: where it is, and the locals of vCont and run_threads
    rpc, todo, matched, stop, hartsrun, orig_status,
    single_run, thread_ops,
    \* the runners and the harts
    runner, status, pc, breakpoints, memory

gdbVars == <<connected, session, request, phase, toServer, toClient, faults>>
dispatchVars == <<dpc, mtx, pktq, prevpkt, event>>
runVars == <<rpc, todo, matched, stop, hartsrun, orig_status>>
hartVars == <<runner, status, pc>>
targetVars == <<breakpoints, memory, thread_ops, single_run>>
vars == <<gdbVars, dispatchVars, runVars, hartVars, targetVars>>

NoRequest == [name |-> "none"]
NoPacket == [kind |-> "none"]
NoStop == [reason |-> "none", thread |-> 0]

Init ==
    /\ connected = FALSE /\ session = 0
    /\ request = NoRequest /\ phase = 0 /\ faults = 0
    /\ toServer = <<>> /\ toClient = <<>>
    /\ dpc = "accept" /\ mtx = FALSE /\ pktq = <<>> /\ prevpkt = NoPacket
    /\ event = FALSE
    /\ rpc = "wait" /\ todo = <<>> /\ matched = {} /\ stop = NoStop
    /\ hartsrun = <<>> /\ orig_status = <<>>
    /\ single_run = FALSE /\ thread_ops = GDB_THREAD_ANY
    /\ runner = [h \in Harts |-> "idle"]
    /\ status = [h \in Harts |-> "Runnable"]
    /\ pc = [h \in Harts |-> 0]
    /\ breakpoints = {} /\ memory = [a \in 0..MemSize - 1 |-> 0]

-----------------------------------------------------------------------------
(* GDB, one request at a time.  phase counts its requests: the reply to a  *)
(* request carries the count.  A fault damages a packet on the way, so     *)
(* that its checksum no longer fits.                                       *)

Damage(ok) == ok \/ faults < MaxFaults

Packet(ok) == [kind |-> "PACKET", for |-> phase, cmd |-> request, ok |-> ok]

GdbSends ==
    /\ connected /\ request = NoRequest /\ phase < MaxRequests
    /\ \E c \in Requests, ok \in BOOLEAN :
          /\ Damage(ok)
          /\ request' = c /\ phase' = phase + 1
          /\ toServer' = Append(toServer, [kind |-> "PACKET", for |-> phase + 1,
                                           cmd |-> c, ok |-> ok])
          /\ faults' = IF ok THEN faults ELSE faults + 1
    /\ UNCHANGED <<connected, session, toClient, dispatchVars, runVars,
                   hartVars, targetVars>>

GdbReceives ==
    /\ connected /\ toClient # <<>>
    /\ LET p == Head(toClient) IN
       \E ok \in BOOLEAN :
          /\ Damage(ok)
          /\ faults' = IF ok THEN faults ELSE faults + 1
          /\ \/ /\ p.kind = "ACK" /\ ok
                /\ UNCHANGED <<request, toServer>>
             \/ /\ p.kind = "NACK" /\ ok /\ request # NoRequest
                /\ toServer' = Append(toServer, Packet(TRUE))
                /\ UNCHANGED request
             \/ /\ p.kind = "PACKET" /\ ok
                /\ toServer' = Append(toServer, [kind |-> "ACK"])
                /\ request' = NoRequest
             \/ /\ p.kind = "PACKET" /\ ~ok
                /\ toServer' = Append(toServer, [kind |-> "NACK"])
                /\ UNCHANGED request
    /\ toClient' = Tail(toClient)
    /\ UNCHANGED <<connected, session, phase, dispatchVars, runVars, hartVars,
                   targetVars>>

GdbDisconnects ==
    /\ connected /\ connected' = FALSE
    /\ request' = NoRequest /\ toClient' = <<>>
    /\ UNCHANGED <<session, phase, toServer, faults, dispatchVars, runVars,
                   hartVars, targetVars>>

-----------------------------------------------------------------------------
(* The thread of serve and dispatch.                                       *)

serve_accept ==
    /\ dpc = "accept" /\ session < MaxSessions
    /\ connected' = TRUE /\ session' = session + 1
    /\ request' = NoRequest /\ toServer' = <<>> /\ toClient' = <<>>
    /\ dpc' = "lock"
    /\ UNCHANGED <<phase, faults, mtx, pktq, prevpkt, event, runVars, hartVars,
                   targetVars>>

dispatch_lock ==
    /\ dpc = "lock" /\ ~mtx
    /\ mtx' = TRUE /\ dpc' = "parse"
    /\ UNCHANGED <<gdbVars, pktq, prevpkt, event, runVars, hartVars,
                   targetVars>>

(* async_request_update: the kernel notifies the event in its next update  *)
(* phase, that is when the SystemC threads wait again.                     *)
AsyncEvent_notify == event' = TRUE

(* gdb_parse_pkt waits for a packet, and fails at the end of the stream.   *)
dispatch_packet ==
    /\ dpc = "parse" /\ toServer # <<>>
    /\ toServer' = Tail(toServer)
    /\ pktq' = Append(pktq, Head(toServer))
    /\ AsyncEvent_notify
    /\ dpc' = "lock"
    /\ UNCHANGED <<connected, session, request, phase, toClient, faults, mtx,
                   prevpkt, runVars, hartVars, targetVars>>

(* Mutant: the mutex stays locked when the connection ends.                *)
dispatch_end_locked ==
    /\ dpc = "parse" /\ toServer = <<>> /\ ~connected
    /\ dpc' = "free"
    /\ UNCHANGED <<gdbVars, mtx, pktq, prevpkt, event, runVars, hartVars,
                   targetVars>>

dispatch_end ==
    /\ dpc = "parse" /\ toServer = <<>> /\ ~connected
    /\ mtx' = FALSE /\ dpc' = "free"
    /\ UNCHANGED <<gdbVars, pktq, prevpkt, event, runVars, hartVars,
                   targetVars>>

serve_free ==
    /\ dpc = "free"
    /\ prevpkt' = NoPacket /\ dpc' = "accept"
    /\ UNCHANGED <<gdbVars, mtx, pktq, event, runVars, hartVars, targetVars>>

-----------------------------------------------------------------------------
(* GDBServer::run.  A reply is written to the connection of the packet; it *)
(* is lost when GDB has closed it.                                         *)

Write(p) == toClient' = IF connected THEN toClient \o p ELSE toClient

Answer(body) == [kind |-> "PACKET", for |-> Head(pktq).for, body |-> body]

(* Mutant: the first reply stays the saved one.                            *)
send_packet_keeps_first(body) ==
    /\ Write(<<[kind |-> "ACK"], Answer(body)>>)
    /\ prevpkt' = IF prevpkt = NoPacket /\ connected THEN Answer(body) ELSE prevpkt

(* send_packet keeps what it has written for retransmit.                   *)
send_packet(body) ==
    /\ Write(<<[kind |-> "ACK"], Answer(body)>>)
    /\ prevpkt' = IF connected THEN Answer(body) ELSE prevpkt

gdbUnchanged == UNCHANGED <<connected, session, request, phase, toServer, faults>>
vContUnchanged == UNCHANGED <<todo, matched, stop, hartsrun, orig_status>>

retransmit == Write(IF prevpkt = NoPacket THEN <<>> ELSE <<prevpkt>>)

run_wakes ==
    /\ rpc = "wait" /\ event
    /\ event' = FALSE /\ rpc' = "handle"
    /\ UNCHANGED <<gdbVars, dpc, mtx, pktq, prevpkt, hartVars, targetVars>>
    /\ vContUnchanged

(* ACK, NACK and packets whose checksum is wrong.                          *)
run_acknowledged ==
    /\ rpc = "handle"
    /\ LET p == Head(pktq) IN
       \/ p.kind = "ACK" /\ UNCHANGED toClient
       \/ p.kind = "NACK" /\ retransmit
       \/ /\ p.kind = "PACKET" /\ ~p.ok
          /\ Write(<<[kind |-> "NACK"]>>)
    /\ rpc' = "pop"
    /\ UNCHANGED <<dispatchVars, hartVars, targetVars>>
    /\ gdbUnchanged /\ vContUnchanged

run_pops ==
    /\ rpc = "pop"
    /\ pktq' = Tail(pktq) /\ mtx' = FALSE /\ rpc' = "wait"
    /\ UNCHANGED <<gdbVars, dpc, prevpkt, event, hartVars, targetVars>>
    /\ vContUnchanged

(* The command of a packet that is handled, and the handlers that answer   *)
(* at once.                                                                *)
Handles(names) == /\ rpc = "handle"
                  /\ Head(pktq).kind = "PACKET" /\ Head(pktq).ok
                  /\ Head(pktq).cmd.name \in names

cmd == Head(pktq).cmd

Replies(body) == /\ send_packet(body)
                 /\ rpc' = "pop"
                 /\ UNCHANGED <<dpc, mtx, pktq, event, hartVars>>
                 /\ gdbUnchanged /\ vContUnchanged

(* An exception that leaves a SystemC thread, or exit.                     *)
Ends(how) == /\ rpc' = how /\ dpc' = "gone" /\ connected' = FALSE
             /\ request' = NoRequest
             /\ UNCHANGED <<session, phase, toServer, toClient, faults,
                            mtx, pktq, prevpkt, event, hartVars, targetVars>>
             /\ vContUnchanged

Threads == Harts \cup {GDB_THREAD_ANY, GDB_THREAD_ALL}    \* get_threads returns

get_threads(tid) == IF tid = GDB_THREAD_ANY THEN <<1>>
                    ELSE IF tid = GDB_THREAD_ALL THEN [h \in Harts |-> h]
                    ELSE <<tid>>

(* What exec_thread passes its function: an operation no H command has     *)
(* set applies to any thread.                                              *)
exec_thread == get_threads(thread_ops)

(* The answers that depend on nothing, and the empty one to a command that *)
(* has no handler.                                                         *)
Constant == [name \in {"?", "qsThreadInfo", "qAttached", "qSupported", "vCont?"} |->
                CASE name = "?" -> "S05"
                  [] name = "qsThreadInfo" -> "l"
                  [] name = "qAttached" -> "0"
                  [] name = "qSupported" -> "vContSupported+;PacketSize"
                  [] name = "vCont?" -> "vCont;c;C"]

answerConstant == /\ Handles(DOMAIN Constant)
                  /\ Replies(Constant[cmd.name]) /\ UNCHANGED targetVars

answerUnsupported == /\ Handles({"any"})
                     /\ Replies("") /\ UNCHANGED targetVars

getRegisters ==
    /\ Handles({"g"})
    /\ IF thread_ops \in Threads
       THEN /\ Replies([k \in DOMAIN exec_thread |-> "registers"])
            /\ UNCHANGED targetVars
       ELSE Ends("aborted")

readRegister ==
    /\ Handles({"p"})
    /\ Replies(IF thread_ops \in Threads
               THEN [k \in DOMAIN exec_thread |-> pc[exec_thread[k]]] ELSE "E01")
    /\ UNCHANGED targetVars

setThread ==
    /\ Handles({"H"})
    /\ thread_ops' = IF cmd.op = "g" THEN cmd.tid ELSE thread_ops
    /\ Replies("OK") /\ UNCHANGED <<breakpoints, memory, single_run>>

killServer == Handles({"k"}) /\ Ends("exit")

threadInfo ==
    /\ Handles({"qfThreadInfo"})
    /\ Replies({h \in Harts : status[h] # "Terminated"})
    /\ UNCHANGED targetVars

isAlive ==
    /\ Handles({"T"})
    /\ Replies(IF cmd.tid \in Threads THEN "OK" ELSE "E01")
    /\ UNCHANGED targetVars

setBreakpoint ==
    /\ Handles({"Z"})
    /\ IF cmd.type = "soft"
       THEN breakpoints' = breakpoints \cup {cmd.addr} /\ Replies("OK")
       ELSE UNCHANGED breakpoints /\ Replies("")
    /\ UNCHANGED <<memory, thread_ops, single_run>>

removeBreakpoint ==
    /\ Handles({"z"})
    /\ IF cmd.type = "soft"
       THEN breakpoints' = breakpoints \ {cmd.addr} /\ Replies("OK")
       ELSE UNCHANGED breakpoints /\ Replies("")
    /\ UNCHANGED <<memory, thread_ops, single_run>>

(* transport_dbg fails for an address no port of the bus decodes.          *)
_do_dbg_transaction(addr) == addr < MemSize

(* The exception for an unknown thread is none of those readMemory and     *)
(* writeMemory catch.                                                      *)
readMemory ==
    /\ Handles({"m"})
    /\ IF thread_ops \in Threads
       THEN /\ Replies(IF _do_dbg_transaction(cmd.addr)
                       THEN [t \in DOMAIN exec_thread |->
                                [k \in 1..cmd.length |-> memory[cmd.addr + k - 1]]]
                       ELSE "E01")
            /\ UNCHANGED targetVars
       ELSE Ends("aborted")

(* The loop of write_memory steps over two characters for each byte, up to *)
(* the number of bytes: the bytes after the first half stay zero.          *)
write_memory(data) == [j \in 1..Len(data) |-> IF 2 * j <= Len(data) THEN data[j] ELSE 0]

writeMemory ==
    /\ Handles({"M"})
    /\ IF thread_ops \in Threads
       THEN /\ LET buf == write_memory(cmd.data) IN
               IF _do_dbg_transaction(cmd.addr)
               THEN /\ memory' = [a \in DOMAIN memory |->
                                     IF a - cmd.addr + 1 \in DOMAIN buf
                                     THEN buf[a - cmd.addr + 1] ELSE memory[a]]
                    /\ Replies("OK")
               ELSE UNCHANGED memory /\ Replies("E01")
            /\ UNCHANGED <<breakpoints, thread_ops, single_run>>
       ELSE Ends("aborted")

-----------------------------------------------------------------------------
(* vCont: its actions one after the other, each with a run of the threads  *)
(* it names that no earlier action has matched.                            *)

runUnchanged == UNCHANGED <<dpc, mtx, pktq, event, breakpoints, memory>>

vCont ==
    /\ Handles({"vCont"})
    /\ Write(<<[kind |-> "ACK"]>>)
    /\ todo' = cmd.actions /\ matched' = {} /\ stop' = NoStop
    /\ rpc' = "vcont"
    /\ UNCHANGED <<hartsrun, orig_status, prevpkt, hartVars, single_run, thread_ops>>
    /\ gdbUnchanged /\ runUnchanged

(* What is left of the threads, in their order, when the matched ones have *)
(* been erased.                                                            *)
Unmatched(tid) ==
    LET threads == get_threads(tid)
        left == {k \in DOMAIN threads : threads[k] \notin matched}
    IN  [i \in 1..Cardinality(left) |->
            threads[CHOOSE k \in left : Cardinality({j \in left : j <= k}) = i]]

vCont_throws ==
    /\ rpc = "vcont" /\ todo # <<>> /\ Head(todo).action \notin {"s", "c"}
    /\ Ends("aborted")

Finish(body) ==
    /\ Write(<<Answer(body)>>)
    /\ prevpkt' = IF connected THEN Answer(body) ELSE prevpkt
    /\ rpc' = "pop"
    /\ UNCHANGED <<hartVars, single_run>>
    /\ gdbUnchanged /\ runUnchanged /\ vContUnchanged

vCont_unknown ==
    /\ rpc = "vcont" /\ todo # <<>> /\ Head(todo).action \in {"s", "c"}
    /\ Head(todo).tid \notin Threads
    /\ Finish("E01") /\ UNCHANGED thread_ops

Match(tid) == IF tid > 0 THEN matched \cup {tid} ELSE matched

vCont_skips ==
    /\ rpc = "vcont" /\ todo # <<>> /\ Head(todo).action \in {"s", "c"}
    /\ Head(todo).tid \in Threads /\ Unmatched(Head(todo).tid) = <<>>
    /\ todo' = Tail(todo) /\ matched' = Match(Head(todo).tid)
    /\ UNCHANGED <<rpc, stop, hartsrun, orig_status, prevpkt, toClient, hartVars,
                   single_run, thread_ops>>
    /\ gdbUnchanged /\ runUnchanged

(* A run event is lost on a runner that does not wait for it.              *)
run_threads ==
    /\ rpc = "vcont" /\ todo # <<>> /\ Head(todo).action \in {"s", "c"}
    /\ Head(todo).tid \in Threads /\ Unmatched(Head(todo).tid) # <<>>
    /\ hartsrun' = Unmatched(Head(todo).tid)
    /\ single_run' = (Head(todo).action = "s")
    /\ runner' = [h \in Harts |-> IF h \in Range(hartsrun') /\ runner[h] = "idle"
                                  THEN "start" ELSE runner[h]]
    /\ orig_status' = <<>> /\ rpc' = "all"
    /\ UNCHANGED <<todo, matched, stop, prevpkt, toClient, status, pc, thread_ops>>
    /\ gdbUnchanged /\ runUnchanged

Checked == hartsrun[Len(orig_status) + 1]

run_threads_stops ==
    /\ rpc \in {"stopped", "stopping"} /\ Len(orig_status) < Len(hartsrun)
    /\ orig_status' = Append(orig_status, status[Checked])
    /\ IF status[Checked] = "Runnable"
       THEN status' = [status EXCEPT ![Checked] = "HitBreakpoint"] /\ rpc' = "one"
       ELSE UNCHANGED status /\ rpc' = "stopping"
    /\ UNCHANGED <<todo, matched, stop, hartsrun, prevpkt, toClient, runner, pc,
                   single_run, thread_ops>>
    /\ gdbUnchanged /\ runUnchanged

(* The statuses are restored; the last thread that has not been runnable   *)
(* is the one GDB is told of, and a hit breakpoint is runnable again.      *)
Halted == {k \in DOMAIN orig_status : orig_status[k] # "Runnable"}

(* Mutant: a hart that was made to stop keeps the status of a breakpoint.  *)
run_threads_no_restore ==
    /\ rpc \in {"stopped", "stopping"} /\ Len(orig_status) = Len(hartsrun)
    /\ stop' = IF Halted = {} THEN stop
               ELSE LET k == CHOOSE i \in Halted : \A j \in Halted : j <= i
                    IN  [reason |-> IF orig_status[k] = "Terminated" THEN "03" ELSE "05",
                         thread |-> hartsrun[k]]
    /\ matched' = Match(Head(todo).tid) /\ todo' = Tail(todo)
    /\ rpc' = "vcont"
    /\ UNCHANGED <<status, hartsrun, orig_status, prevpkt, toClient, runner, pc,
                   single_run, thread_ops>>
    /\ gdbUnchanged /\ runUnchanged

run_threads_restores ==
    /\ rpc \in {"stopped", "stopping"} /\ Len(orig_status) = Len(hartsrun)
    /\ status' = [h \in Harts |->
                     IF \E k \in DOMAIN hartsrun : hartsrun[k] = h
                     THEN LET s == orig_status[CHOOSE k \in DOMAIN hartsrun :
                                                  hartsrun[k] = h]
                          IN  IF s = "HitBreakpoint" THEN "Runnable" ELSE s
                     ELSE status[h]]
    /\ stop' = IF Halted = {} THEN stop
               ELSE LET k == CHOOSE i \in Halted : \A j \in Halted : j <= i
                    IN  [reason |-> IF orig_status[k] = "Terminated" THEN "03" ELSE "05",
                         thread |-> hartsrun[k]]
    /\ matched' = Match(Head(todo).tid) /\ todo' = Tail(todo)
    /\ rpc' = "vcont"
    /\ UNCHANGED <<hartsrun, orig_status, prevpkt, toClient, runner, pc,
                   single_run, thread_ops>>
    /\ gdbUnchanged /\ runUnchanged

(* assert(stop_reason && stopped_thread >= 1)                              *)
vCont_answers ==
    /\ rpc = "vcont" /\ todo = <<>>
    /\ IF stop = NoStop THEN Ends("aborted")
       ELSE thread_ops' = stop.thread /\ Finish(stop)

-----------------------------------------------------------------------------
(* GDBServerRunner::run with ISS::run and run_step.  A hart waits, and the *)
(* other SystemC threads run, where it synchronizes its quantum.           *)

Yields == rpc \in {"wait", "all", "one", "stopped"}

runnerUnchanged ==
    UNCHANGED <<gdbVars, dispatchVars, todo, matched, stop, hartsrun, orig_status,
                targetVars>>

run_step(h) ==
    IF pc[h] \in breakpoints
    THEN /\ status' = [status EXCEPT ![h] = "HitBreakpoint"]
         /\ UNCHANGED pc
    ELSE /\ pc' = [pc EXCEPT ![h] = @ + 1]
         /\ status' = IF pc[h] = GuestEnd THEN [status EXCEPT ![h] = "Terminated"]
                      ELSE status

runner_starts(h) ==
    /\ Yields /\ runner[h] = "start"
    /\ run_step(h)
    /\ runner' = [runner EXCEPT ![h] = IF single_run THEN "stepped" ELSE "run"]
    /\ UNCHANGED rpc /\ runnerUnchanged

run(h) ==
    /\ Yields /\ runner[h] = "run"
    /\ IF status[h] = "Runnable"
       THEN run_step(h) /\ UNCHANGED runner
       ELSE /\ runner' = [runner EXCEPT ![h] = "sync"]
            /\ UNCHANGED <<status, pc>>
    /\ UNCHANGED rpc /\ runnerUnchanged

(* stop_event->notify() wakes run_threads if it waits for this hart.       *)
Awaited(h) == \/ rpc = "all" /\ h \in Range(hartsrun)
              \/ rpc = "one" /\ h = hartsrun[Len(orig_status)]

runner_stops(h) ==
    /\ Yields /\ runner[h] \in {"stepped", "sync"}
    /\ status' = IF runner[h] = "stepped" /\ status[h] = "Runnable"
                 THEN [status EXCEPT ![h] = "HitBreakpoint"] ELSE status
    /\ rpc' = IF Awaited(h) THEN "stopped" ELSE rpc
    /\ runner' = [runner EXCEPT ![h] = IF status[h] = "Terminated" THEN "gone" ELSE "idle"]
    /\ UNCHANGED pc /\ runnerUnchanged

-----------------------------------------------------------------------------
Gdb == GdbSends \/ GdbReceives \/ GdbDisconnects

Dispatch == serve_accept \/ dispatch_lock \/ dispatch_packet \/ dispatch_end \/ serve_free

Handler ==
    \/ answerConstant \/ answerUnsupported \/ getRegisters \/ readRegister
    \/ setThread \/ killServer \/ threadInfo \/ isAlive \/ setBreakpoint
    \/ removeBreakpoint \/ readMemory \/ writeMemory \/ vCont

Run == \/ run_wakes \/ run_acknowledged \/ run_pops \/ Handler
       \/ vCont_throws \/ vCont_unknown \/ vCont_skips \/ run_threads
       \/ run_threads_stops \/ run_threads_restores \/ vCont_answers

Runner(h) == runner_starts(h) \/ run(h) \/ runner_stops(h)

Next == Gdb \/ Dispatch \/ Run \/ \E h \in Harts : Runner(h)

(* The threads are scheduled, and GDB reads what is sent to it.            *)
Fairness ==
    /\ WF_vars(Dispatch) /\ WF_vars(Run) /\ WF_vars(GdbReceives)
    /\ \A h \in Harts : WF_vars(Runner(h))

Spec == Init /\ [][Next]_vars /\ Fairness

-----------------------------------------------------------------------------
(* The queue, the saved reply and the event are handed over: dispatch does *)
(* not parse the next packet, and serve does not free the saved reply,     *)
(* while run handles a packet, although the mutex is locked by one thread  *)
(* and unlocked by the other.                                              *)
HandedOver ==
    /\ dpc \in {"parse", "free"} => rpc = "wait" /\ pktq = <<>>
    /\ rpc \notin {"wait", "exit", "aborted"} => Len(pktq) = 1

(* GDB never sees a reply to another request than the one it waits for:    *)
(* replies are not lost, repeated or left over from an earlier connection, *)
(* whatever packets are damaged and sent again.                            *)
RepliesMatch ==
    \A k \in DOMAIN toClient :
       toClient[k].kind = "PACKET" => request # NoRequest /\ toClient[k].for = phase

(* All-stop mode (vCont): when GDB has no answer outstanding, no hart is   *)
(* executing and each one that has not terminated can be run again.        *)
AllStop ==
    connected /\ request = NoRequest =>
       \A h \in Harts : <<runner[h], status[h]>> \in {<<"idle", "Runnable">>,
                                                     <<"gone", "Terminated">>}

(* No command ends the simulation by an uncaught exception, except a vCont *)
(* with an action that is neither s nor c; in particular the assertion at  *)
(* the end of vCont holds: some hart has a reason to have stopped.  GDB    *)
(* asks for registers (g) only of threads that it has been told of: after  *)
(* an H command with another one, get_threads throws there too.            *)
ServerSurvives ==
    rpc = "aborted" => \E k \in DOMAIN todo : todo[k].action \notin {"s", "c"}

(* run_threads waits for harts none of which will ever stop: their runners *)
(* have left the loop, because the guest has terminated.                   *)
WaitsForTerminated == rpc = "all" /\ \A h \in Range(hartsrun) : runner[h] = "gone"

(* Every request is answered, or its connection closed; the one exception  *)
(* is vCont for harts that have terminated, after which run hangs.         *)
RequestsAnswered ==
    \A n \in 1..MaxRequests :
       (phase = n /\ request # NoRequest) ~> (request = NoRequest \/ WaitsForTerminated)

(* One packet at a time, one reply for each: HandedOver and RepliesMatch.  *)
ExchangeSound == HandedOver /\ RepliesMatch

(* The harts stop and the simulation goes on: AllStop and ServerSurvives.  *)
RunControlSound == AllStop /\ ServerSurvives
=============================================================================
