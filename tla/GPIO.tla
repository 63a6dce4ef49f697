-------------------------------- MODULE GPIO --------------------------------
(***************************************************************************)
(* The GPIO port of the HiFive platform (platform/hifive/gpio.cpp) and its *)
(* server (platform/hifive/gpio), through which a program outside the      *)
(* simulation reads and sets the pins.                                     *)
(*                                                                         *)
(*   - the SystemC thread executes the guest's register accesses and the   *)
(*     method synchronousChange, and at the end the destructor;            *)
(*   - the server's thread accepts a client and handles its requests; a    *)
(*     request to set a pin calls asyncOnchange in this thread.            *)
(*                                                                         *)
(* Both change server.state without a lock: reading and writing it are     *)
(* separate steps.  A register is the set of its bits that are one.        *)
(***************************************************************************)
EXTENDS Naturals, FiniteSets

CONSTANTS Pins,
          Writes,        \* the values the guest writes to a register
          MaxWrites, MaxRequests, MaxClients

VARIABLES value, input_en, output_en, port, pullup_en,
          rise_intr_en, rise_intr_pending, fall_intr_en, fall_intr_pending,
          state,         \* server.state
          event,         \* asyncEvent has been notified
          main, mine,    \* the SystemC thread: where it is, what it has read
          server, yours, \* the same of the server's thread
          stop,
          backlog,       \* connections that wait to be accepted
          conn,          \* the connection being handled
          open,          \* its client has not closed it
          late,          \* history: pins enabled as inputs while their value
                         \* was not that of server.state
          writes, requests, clients

(* The registers without effect on the others (drive strength, high and    *)
(* low interrupts, iof, out_xor) are left out.                             *)
regVars == <<value, input_en, output_en, port, pullup_en>>
intrVars == <<rise_intr_en, rise_intr_pending, fall_intr_en, fall_intr_pending>>
serverVars == <<server, yours, stop, backlog, conn, open, requests, clients>>
vars == <<regVars, intrVars, serverVars, state, event, main, mine, late, writes>>

(* The server has its socket, or it could not bind it and the thread ends. *)
Listening == {<<"loop", FALSE>>, <<"ended", TRUE>>}

(* Pending registers are inverted: a bit that is one is not pending.       *)
Init ==
    /\ value = {} /\ input_en = {} /\ output_en = {} /\ port = {} /\ pullup_en = {}
    /\ rise_intr_en = {} /\ rise_intr_pending = Pins
    /\ fall_intr_en = {} /\ fall_intr_pending = Pins
    /\ state = {} /\ event = FALSE
    /\ main = "guest" /\ mine = {} /\ yours = {}
    /\ \E l \in Listening : server = l[1] /\ stop = l[2]
    /\ backlog = <<0, 0>> /\ conn = "none" /\ open = FALSE
    /\ late = {} /\ writes = 0 /\ requests = 0 /\ clients = 0

xor(a, b) == (a \ b) \cup (b \ a)

-----------------------------------------------------------------------------
(* register_access_callback.                                               *)

GuestWrites == main = "guest" /\ writes < MaxWrites /\ writes' = writes + 1

(* The pins of the new input_en that start with a value that is stale.     *)
write_input_en ==
    /\ GuestWrites
    /\ \E v \in Writes : input_en' = v
    /\ late' = (late \cap input_en') \cup
               {p \in input_en' \ input_en : p \in xor(value, state)}
    /\ UNCHANGED <<value, output_en, port, pullup_en, intrVars, serverVars, state,
                   event, main, mine>>

write_output_en ==
    /\ GuestWrites
    /\ \E v \in Writes : output_en' = v
    /\ late' = late \cup {p \in output_en \ output_en' : p \in xor(value, state)}
    /\ UNCHANGED <<value, input_en, port, pullup_en, intrVars, serverVars, state,
                   event, main, mine>>

write_port ==
    /\ GuestWrites
    /\ \E v \in Writes : port' = v
    /\ value' = (value \ output_en) \cup (port' \cap output_en)
    /\ main' = "port" /\ mine' = state
    /\ UNCHANGED <<input_en, output_en, pullup_en, intrVars, serverVars, state,
                   event, late>>

write_pullup_en ==
    /\ GuestWrites
    /\ \E v \in Writes : pullup_en' = v
    /\ value' = value \cup xor(pullup_en, pullup_en')
    /\ main' = "pullup" /\ mine' = state \cup xor(pullup_en, pullup_en')
    /\ UNCHANGED <<input_en, output_en, port, intrVars, serverVars, state, event, late>>

(* The assignment to server.state at the end of the two.                   *)
write_state ==
    /\ main \in {"port", "pullup"}
    /\ state' = IF main = "port" THEN (mine \ output_en) \cup (port \cap output_en)
                ELSE mine
    /\ main' = "guest"
    /\ UNCHANGED <<regVars, intrVars, serverVars, event, mine, late, writes>>

write_interrupts ==
    /\ GuestWrites
    /\ \E v \in Writes :
          \/ rise_intr_en' = v /\ UNCHANGED <<rise_intr_pending, fall_intr_en, fall_intr_pending>>
          \/ fall_intr_en' = v /\ UNCHANGED <<rise_intr_en, rise_intr_pending, fall_intr_pending>>
          \/ rise_intr_pending' = v /\ UNCHANGED <<rise_intr_en, fall_intr_en, fall_intr_pending>>
          \/ fall_intr_pending' = v /\ UNCHANGED <<rise_intr_en, rise_intr_pending, fall_intr_en>>
    /\ UNCHANGED <<regVars, serverVars, state, event, main, mine, late>>

-----------------------------------------------------------------------------
(* synchronousChange for one snapshot of server.state; it calls itself if  *)
(* the state has changed meanwhile, unless the snapshot showed no change.  *)

diff == xor(state, value) \cap input_en
Rises == diff \cap state \cap rise_intr_en \cap rise_intr_pending
Falls == (diff \ state) \cap fall_intr_en \cap fall_intr_pending

Sync ==
    IF diff = {}
    THEN /\ main' = "guest"
         /\ UNCHANGED <<value, rise_intr_pending, fall_intr_pending, mine, late>>
    ELSE /\ main' = "sync" /\ mine' = state
         /\ rise_intr_pending' = rise_intr_pending \ Rises
         /\ fall_intr_pending' = fall_intr_pending \ Falls
         /\ value' = (state \cap input_en) \cup (port \cap output_en)
         /\ late' = {}

syncUnchanged == UNCHANGED <<input_en, output_en, port, pullup_en, rise_intr_en,
                             fall_intr_en, serverVars, state, writes>>

synchronousChange ==
    /\ main = "guest" /\ event /\ event' = FALSE
    /\ Sync /\ syncUnchanged

synchronousChange_again ==
    /\ main = "sync"
    /\ IF mine # state THEN Sync
       ELSE main' = "guest" /\ UNCHANGED <<value, rise_intr_pending, fall_intr_pending,
                                           mine, late>>
    /\ UNCHANGED event /\ syncUnchanged

-----------------------------------------------------------------------------
(* The server's thread.                                                    *)

mainUnchanged == UNCHANGED <<regVars, intrVars, main, mine, writes>>

startListening_checks ==
    /\ server = "loop"
    /\ server' = IF stop THEN "ended" ELSE "accept"
    /\ UNCHANGED <<yours, stop, backlog, conn, open, requests, clients, state, event, late>>
    /\ mainUnchanged

(* backlog counts the clients, and the connection of quit.                 *)
startListening_accepts ==
    /\ server = "accept"
    /\ \/ backlog[1] > 0 /\ backlog' = <<backlog[1] - 1, backlog[2]>> /\ conn' = "client"
          /\ open' = TRUE
       \/ backlog[2] > 0 /\ backlog' = <<backlog[1], backlog[2] - 1>> /\ conn' = "quit"
          /\ open' = FALSE
    /\ server' = "read"
    /\ UNCHANGED <<yours, stop, requests, clients, state, event, late>>
    /\ mainUnchanged

(* handleConnection: a request to set a pin, an answer to GET_BANK, an     *)
(* invalid request, or the end of the connection.  asyncOnchange reads the *)
(* state, and returns if the pin has the value already.                    *)
read_set_bit ==
    /\ server = "read" /\ open /\ requests < MaxRequests
    /\ requests' = requests + 1
    /\ \E p \in Pins, val \in {0, 1, 2} :
          IF val = 2 \/ (p \in state) = (val = 1)
          THEN UNCHANGED <<server, yours>>
          ELSE /\ server' = "change"
               /\ yours' = IF val = 1 THEN state \cup {p} ELSE state \ {p}
    /\ UNCHANGED <<stop, backlog, conn, open, clients, state, event, late>>
    /\ mainUnchanged

(* The write of asyncOnchange.  A pin that changes while it is no input    *)
(* keeps its old value.                                                    *)
asyncOnchange ==
    /\ server = "change"
    /\ state' = yours /\ server' = "notify"
    /\ UNCHANGED <<yours, stop, backlog, conn, open, requests, clients, event, late>>
    /\ mainUnchanged

(* Mutant: the event is not notified.                                      *)
asyncOnchange_notifies_no_event ==
    /\ server = "notify"
    /\ server' = "read"
    /\ UNCHANGED <<yours, stop, backlog, conn, open, requests, clients, state, late, event>>
    /\ mainUnchanged

asyncOnchange_notifies ==
    /\ server = "notify"
    /\ event' = TRUE /\ server' = "read"
    /\ UNCHANGED <<yours, stop, backlog, conn, open, requests, clients, state, late>>
    /\ mainUnchanged

read_invalid ==
    /\ server = "read" /\ open /\ requests < MaxRequests
    /\ requests' = requests + 1
    /\ server' = "loop" /\ conn' = "none" /\ open' = FALSE
    /\ UNCHANGED <<yours, stop, backlog, clients, state, event, late>>
    /\ mainUnchanged

read_end ==
    /\ server = "read" /\ ~open
    /\ server' = "loop" /\ conn' = "none"
    /\ UNCHANGED <<yours, stop, backlog, open, requests, clients, state, event, late>>
    /\ mainUnchanged

-----------------------------------------------------------------------------
(* Clients connect and disconnect.                                         *)

client_connects ==
    /\ server # "ended" /\ clients < MaxClients
    /\ clients' = clients + 1 /\ backlog' = <<backlog[1] + 1, backlog[2]>>
    /\ UNCHANGED <<server, yours, stop, conn, open, requests, state, event, late>>
    /\ mainUnchanged

client_disconnects ==
    /\ open /\ open' = FALSE
    /\ UNCHANGED <<server, yours, stop, backlog, conn, requests, clients, state, event, late>>
    /\ mainUnchanged

(* Mutant: quit does not connect to its own server.                        *)
quit_no_connect ==
    /\ main = "guest" /\ main' = "join"
    /\ stop' = TRUE
    /\ UNCHANGED <<regVars, intrVars, mine, writes, server, yours, conn, open, requests,
                   clients, state, event, late, backlog>>

(* The destructor: quit sets stop and connects once, then join.            *)
quit ==
    /\ main = "guest" /\ main' = "join"
    /\ stop' = TRUE /\ backlog' = <<backlog[1], backlog[2] + 1>>
    /\ UNCHANGED <<regVars, intrVars, mine, writes, server, yours, conn, open, requests,
                   clients, state, event, late>>

join ==
    /\ main = "join" /\ server = "ended"
    /\ main' = "destructed"
    /\ UNCHANGED <<regVars, intrVars, serverVars, state, event, mine, late, writes>>

Guest == \/ write_input_en \/ write_output_en \/ write_port \/ write_pullup_en
         \/ write_interrupts

SystemC == write_state \/ synchronousChange \/ synchronousChange_again \/ join

Server == \/ startListening_checks \/ startListening_accepts \/ asyncOnchange
          \/ asyncOnchange_notifies \/ read_end

Next == \/ Guest \/ SystemC \/ Server \/ quit
        \/ read_set_bit \/ read_invalid \/ client_connects \/ client_disconnects

(* The two threads are scheduled; clients need do nothing.                 *)
Fairness == WF_vars(SystemC) /\ WF_vars(Server)

Spec == Init /\ [][Next]_vars /\ Fairness

-----------------------------------------------------------------------------
(* "value and server.state might differ, if a bit is changed by client and *)
(* the interrupt was not fired yet": an input has the value clients have   *)
(* given it, or a change is under way; whatever the two threads do to the  *)
(* state at the same time.  Excepted are the inputs that were enabled when *)
(* their value was already another one: they wait for the next change.     *)
InputsFollow ==
    main # "destructed" =>
       \A p \in (xor(value, state) \cap input_en) \ (output_en \cup late) :
          event \/ server = "notify" \/ main \in {"sync", "port", "pullup"}

(* quit ends the server's thread, unless that one still reads from a       *)
(* client that keeps its connection open.                                  *)
QuitEnds == (main = "join") ~> (main = "destructed" \/ (conn = "client" /\ open))

=============================================================================
