---------------------------- MODULE MCGDBServer ----------------------------
(***************************************************************************)
(* The GDB server and, beside it, the library that reads and writes its    *)
(* packets.  The first state says which of the two takes the steps of a    *)
(* behaviour; the other one stays in its initial state.                    *)
(***************************************************************************)
EXTENDS GDBServer

VARIABLES which, text, edits

vc(actions) == [name |-> "vCont", actions |-> actions]
act(a, t) == [action |-> a, tid |-> t]

MCRequests ==
    {[name |-> n] : n \in {"vCont?", "any", "g", "p", "k", "qfThreadInfo"}}
    \cup {[name |-> "H", op |-> "g", tid |-> GDB_THREAD_ALL],
          [name |-> "T", tid |-> NHarts + 1],
          [name |-> "Z", type |-> "soft", addr |-> 1],
          [name |-> "z", type |-> "soft", addr |-> 1],
          [name |-> "m", addr |-> MemSize, length |-> 1],
          [name |-> "M", addr |-> 0, data |-> <<1, 2>>],
          vc(<<act("c", GDB_THREAD_ALL)>>), vc(<<act("s", 1), act("c", GDB_THREAD_ALL)>>),
          vc(<<act("s", NHarts + 1)>>), vc(<<act("C", 1)>>)}

(* One or more commands of each kind the library parses, with numbers of   *)
(* one digit and of two (1c), and all threads (-1).                        *)
lib(n, arg) == [name |-> n, arg |-> arg]

LibCommands ==
    <<lib("H", <<103, -1>>), lib("p", 28), lib("T", 1), lib("m", <<28, 1>>),
      lib("M", <<<<1, 1>>, <<49, 99>>>>), lib("z", <<0, 28, 1>>), lib("Z", <<1, 1, 0>>),
      lib("vCont", <<<<99, -1, -1>>>>), lib("vCont", <<<<115, -1, 1>>, <<99, -1, -1>>>>),
      lib("vCont", <<<<67, 28, 1>>>>)>>

Lib == INSTANCE LibGdb WITH
    Commands <- LibCommands, Runs <- 4..16,
    Alphabet <- {"0", "1", "c", ",", ":", ";", ".", "-", "p", "C", "*", "}"},
    MaxEdits <- 1, MaxText <- 9

-----------------------------------------------------------------------------
mcVars == <<which, vars, text, edits>>

MCInit == /\ which \in {"server", "library"} /\ Init /\ Lib!Init
          /\ which = "server" => text = <<>>

Serving == which = "server" /\ UNCHANGED <<which, text, edits>>

MCNext ==
    \/ Serving /\ Next
    \/ which = "library" /\ UNCHANGED <<which, vars>> /\ Lib!Next

MCSpec ==
    /\ MCInit /\ [][MCNext]_mcVars
    /\ WF_vars(which = "server" /\ Dispatch) /\ WF_vars(which = "server" /\ Run)
    /\ WF_vars(which = "server" /\ GdbReceives)
    /\ \A h \in Harts : WF_vars(which = "server" /\ Runner(h))

-----------------------------------------------------------------------------
(* LibGdb: the text GDB sends arrives, and is taken for the command it     *)
(* spells, through gdb_parse_pkt, the decodings and gdb_parse_stage2.      *)
PacketsMean == which = "library" => Lib!PacketsMean
=============================================================================
