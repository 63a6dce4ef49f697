------------------------------- MODULE LibGdb -------------------------------
(***************************************************************************)
(* libgdb (core/common/gdb-mc/libgdb): from the characters of a stream to  *)
(* packets (parser1.c), from a packet to a command (util.c, parser2.c),    *)
(* and back (response.c).  Characters are ASCII codes, except that the     *)
(* word vCont is one character.  A parser is an operator that yields the   *)
(* set of its results <<value, rest>>, empty when it fails.                *)
(***************************************************************************)
EXTENDS Integers, Sequences, SequencesExt, FiniteSets

CONSTANTS Commands,      \* a sequence of commands GDB sends, as gdb_parse_stage2 returns them
          Runs,          \* lengths of the runs of zeros in an address
          Alphabet,      \* the characters that are put where they do not belong
          MaxEdits,      \* bound on the edits of a text
          MaxText        \* texts that are longer are not edited

Code == [c \in {"#", "$", "%", "+", "-", "*", "}", ":", ",", ";", ".", "0", "1", "H",
                "p", "m", "M", "z", "Z", "T", "c", "s", "t", "C", "S", "g", "vCont"} |->
    CASE c = "#" -> 35  [] c = "$" -> 36  [] c = "%" -> 37  [] c = "+" -> 43
      [] c = "-" -> 45  [] c = "*" -> 42  [] c = "}" -> 125 [] c = ":" -> 58
      [] c = "," -> 44  [] c = ";" -> 59  [] c = "." -> 46  [] c = "0" -> 48
      [] c = "1" -> 49  [] c = "H" -> 72  [] c = "p" -> 112 [] c = "m" -> 109
      [] c = "M" -> 77  [] c = "z" -> 122 [] c = "Z" -> 90  [] c = "T" -> 84
      [] c = "c" -> 99  [] c = "s" -> 115 [] c = "t" -> 116 [] c = "C" -> 67
      [] c = "S" -> 83  [] c = "g" -> 103 [] c = "vCont" -> 126]

VARIABLES text,          \* what GDB means to send
          edits

GDB_RUNLEN_OFF == 29
GDB_ESCAPE_BYTE == 32

calc_csum(data) == FoldSeq(LAMBDA c, sum : sum + c, 0, data) % 256

(* "%.2x"                                                                  *)
csum_digits(n) == <<n \div 16, n % 16>>

gdb_serialize(data) == <<Code["$"]>> \o data \o <<Code["#"]>> \o csum_digits(calc_csum(data))

gdb_is_valid(pkt) == pkt.csum = csum_digits(calc_csum(pkt.data))

(* Mutant: a run is one character longer.                                  *)
runlen_step_off(data, acc, i) ==
    IF ~acc.ok THEN acc
    ELSE IF data[i] = Code["*"]
    THEN [acc EXCEPT !.ok = i > 1, !.runlen = IF i > 1 THEN data[i - 1] ELSE -1]
    ELSE LET rcount == IF acc.runlen = -1 THEN 1 ELSE data[i] - GDB_RUNLEN_OFF + 1
             char == IF acc.runlen = -1 THEN data[i] ELSE acc.runlen
         IN  [ok |-> rcount > 0, runlen |-> -1,
              ndat |-> acc.ndat \o [k \in 1..rcount |-> char]]

(* The result for the first i characters, with the character whose run is  *)
(* pending (-1: none); <<>> stands for the error.                          *)
runlen_step(data, acc, i) ==
    IF ~acc.ok THEN acc
    ELSE IF data[i] = Code["*"]
    THEN [acc EXCEPT !.ok = i > 1, !.runlen = IF i > 1 THEN data[i - 1] ELSE -1]
    ELSE LET rcount == IF acc.runlen = -1 THEN 1 ELSE data[i] - GDB_RUNLEN_OFF
             char == IF acc.runlen = -1 THEN data[i] ELSE acc.runlen
         IN  [ok |-> rcount > 0, runlen |-> -1,
              ndat |-> acc.ndat \o [k \in 1..rcount |-> char]]

gdb_decode_runlen(data) ==
    FoldLeft(LAMBDA acc, i : runlen_step(data, acc, i),
             [ok |-> TRUE, runlen |-> -1, ndat |-> <<>>], [i \in DOMAIN data |-> i])

xor_escape(c) == IF (c \div GDB_ESCAPE_BYTE) % 2 = 1 THEN c - GDB_ESCAPE_BYTE
                 ELSE c + GDB_ESCAPE_BYTE

gdb_unescape(data) ==
    FoldLeft(LAMBDA acc, c :
                IF c = Code["}"] THEN [acc EXCEPT !.esc = TRUE]
                ELSE [esc |-> FALSE,
                      ndat |-> Append(acc.ndat, IF acc.esc THEN xor_escape(c) ELSE c)],
             [esc |-> FALSE, ndat |-> <<>>], data).ndat

-----------------------------------------------------------------------------
(* parser1.c: an acknowledgement, a packet or a notification at the head   *)
(* of the stream.                                                          *)

Ack(kind, c, s) ==
    IF s # <<>> /\ Head(s) = Code[c]
    THEN {<<[kind |-> kind, data |-> <<>>, csum |-> <<>>], Tail(s)>>} ELSE {}

gdb_acknowledge(s) == Ack("ACK", "+", s) \cup Ack("NACK", "-", s)

(* data up to the first character it excludes, then # and two characters   *)
gdb_packet(kind, c, excluded, s) ==
    {<<[kind |-> kind, data |-> SubSeq(s, 2, e - 1), csum |-> SubSeq(s, e + 1, e + 2)],
       SubSeq(s, e + 3, Len(s))>> :
        e \in {e \in 2..Len(s) - 2 :
                  /\ Head(s) = Code[c] /\ s[e] = Code["#"]
                  /\ \A k \in 2..e - 1 : s[k] \notin {Code[x] : x \in excluded}}}

gdb_parse_pkt(s) == gdb_acknowledge(s)
                    \cup gdb_packet("PACKET", "$", {"#", "$"}, s)
                    \cup gdb_packet("NOTIFY", "%", {"#", "$", "%"}, s)

-----------------------------------------------------------------------------
(* parser2.c                                                               *)

Digits == {Code["0"], Code["1"], Code["c"]}        \* the hexadecimal digits used
Digit(c) == IF c = Code["c"] THEN 12 ELSE c - Code["0"]

From(s, k) == SubSeq(s, k, Len(s))

Char(s, c) == IF s # <<>> /\ Head(s) = Code[c] THEN {<<Head(s), Tail(s)>>} ELSE {}

(* The longest run of digits at the head.                                  *)
hexdigits(s) ==
    {<<SubSeq(s, 1, n), From(s, n + 1)>> :
        n \in {n \in 1..Len(s) : /\ \A k \in 1..n : s[k] \in Digits
                                 /\ n < Len(s) => s[n + 1] \notin Digits}}

Value(digits) == FoldLeft(LAMBDA v, d : 16 * v + Digit(d), 0, digits)

gdb_uhex(s) == {<<Value(r[1]), r[2]>> : r \in hexdigits(s)}

gdb_hexid(s) ==
    gdb_uhex(s) \cup
    (IF Len(s) >= 2 /\ SubSeq(s, 1, 2) = <<Code["-"], Code["1"]>>
     THEN {<<-1, From(s, 3)>>} ELSE {})

(* An optional process id, which the server ignores.                       *)
gdb_thread_id(s) ==
    LET pid == UNION {UNION {Char(id[2], ".") : id \in gdb_hexid(p[2])} :
                         p \in Char(s, "p")}
    IN  IF pid = {} THEN gdb_hexid(s) ELSE UNION {gdb_hexid(p[2]) : p \in pid}

gdb_memory(s) ==
    UNION {{<<<<a[1], l[1]>>, l[2]>> : l \in gdb_uhex(From(a[2], 2))} :
              a \in {a \in gdb_uhex(s) : Char(a[2], ",") # {}}}

(* One action of vCont, with its signal and thread; without a thread id it *)
(* is for all threads.  An assertion fails when the signal of C or S has   *)
(* not two digits.                                                         *)
Fails == -2

vcont_action(s) ==
    LET act == IF s # <<>> /\ Head(s) \in {Code[c] : c \in {"c", "s", "t"}}
               THEN {<<<<Head(s), -1>>, Tail(s)>>}
               ELSE IF s # <<>> /\ Head(s) \in {Code["C"], Code["S"]}
               THEN {<<<<Head(s), IF Len(r[1]) = 2 THEN Value(r[1]) ELSE Fails>>, r[2]>> :
                        r \in hexdigits(Tail(s))}
               ELSE {}
    IN  UNION {LET thread == UNION {gdb_thread_id(c[2]) : c \in Char(a[2], ":")}
               IN  IF thread = {} THEN {<<Append(a[1], -1), a[2]>>}
                   ELSE {<<Append(a[1], t[1]), t[2]>> : t \in thread} : a \in act}

(* mpc_many over ';' action                                                *)
vcont_args[s \in Seq(Nat)] ==
    LET first == UNION {vcont_action(c[2]) : c \in Char(s, ";")}
    IN  IF first = {} THEN {<<<<>>, s>>}
        ELSE UNION {{<<<<f[1]>> \o r[1], r[2]>> : r \in vcont_args[f[2]]} : f \in first}

gdb_packet_vcont(s) == {<<[name |-> "vCont", arg |-> r[1]], r[2]>> :
    r \in {r \in UNION {vcont_args[c[2]] : c \in Char(s, "vCont")} : r[1] # <<>>}}

gdb_packet_h(s) ==
    UNION {IF h[2] = <<>> THEN {}
           ELSE {<<[name |-> "H", arg |-> <<Head(h[2]), id[1]>>], id[2]>> :
                    id \in gdb_thread_id(Tail(h[2]))} : h \in Char(s, "H")}

(* A letter and one argument, from the ways to read what follows it.       *)
Letter(c, readings) == {<<[name |-> c, arg |-> a[1]], a[2]>> : a \in UNION readings}
Behind(s, c) == {l[2] : l \in Char(s, c)}

gdb_packet_M(s) ==
    UNION {{<<[name |-> "M", arg |-> <<m[1].arg, d[1]>>], d[2]>> :
               d \in UNION {hexdigits(c[2]) : c \in Char(m[2], ":")}} :
              m \in Letter("M", {gdb_memory(r) : r \in Behind(s, "M")})}

(* type,address,kind                                                       *)
z_arg(s) ==
    UNION {{<<<<Digit(Head(s))>> \o m[1], m[2]>> : m \in gdb_memory(c[2])} :
              c \in IF s # <<>> /\ Head(s) \in {Code["0"], Code["1"]}
                    THEN Char(Tail(s), ",") ELSE {}}

(* Up to the first colon.                                                  *)
gdb_any(s) == [name |-> "any",
               arg |-> SubSeq(s, 1, Min({k - 1 : k \in {k \in DOMAIN s : s[k] = Code[":"]}}
                                        \cup {Len(s)}))]

(* The first alternative that matches the whole text; no two of them start *)
(* with the same letter.  The assertion on an action fails before the rest *)
(* of the text is looked at.                                               *)
gdb_parse_stage2(s) ==
    LET vcont == gdb_packet_vcont(s)
        fails == \E r \in vcont : \E i \in DOMAIN r[1].arg : r[1].arg[i][2] = Fails
        all == gdb_packet_h(s) \cup vcont \cup gdb_packet_M(s)
               \cup Letter("p", {gdb_uhex(r) : r \in Behind(s, "p")})
               \cup Letter("m", {gdb_memory(r) : r \in Behind(s, "m")})
               \cup Letter("z", {z_arg(r) : r \in Behind(s, "z")})
               \cup Letter("Z", {z_arg(r) : r \in Behind(s, "Z")})
               \cup Letter("T", {gdb_thread_id(r) : r \in Behind(s, "T")})
        whole == {r \in all : r[2] = <<>>}
    IN  IF fails THEN [name |-> "abort"]
        ELSE IF whole = {} THEN gdb_any(s) ELSE (CHOOSE r \in whole : TRUE)[1]

(* The text of a packet that is valid.                                     *)
Decoded(pkt) ==
    LET data == gdb_decode_runlen(pkt.data)
    IN  IF pkt.kind = "PACKET" /\ gdb_is_valid(pkt) /\ data.ok
        THEN {gdb_unescape(data.ndat)} ELSE {}

(* mpc_many1: the empty text is no command.                                *)
gdb_parse_cmd(pkt) == {gdb_parse_stage2(t) : t \in Decoded(pkt) \ {<<>>}}

-----------------------------------------------------------------------------
(* How the commands are spelled.                                           *)
HexDigit(d) == IF d = 12 THEN Code["c"] ELSE Code["0"] + d

Hex[n \in Nat] == IF n < 16 THEN <<HexDigit(n)>> ELSE Append(Hex[n \div 16], HexDigit(n % 16))

Id(n) == IF n = -1 THEN <<Code["-"], Code["1"]>> ELSE Hex[n]

Location(m) == Hex[m[1]] \o <<Code[","]>> \o Hex[m[2]]

Actions(a) ==
    LET signal == IF a[2] = -1 THEN <<>> ELSE <<HexDigit(a[2] \div 16), HexDigit(a[2] % 16)>>
        threads == {<<Code[":"]>> \o Id(a[3])} \cup (IF a[3] = -1 THEN {<<>>} ELSE {})
    IN  {<<Code[";"], a[1]>> \o signal \o t : t \in threads}

Spellings(c) ==
    CASE c.name = "H" -> {<<Code["H"], c.arg[1]>> \o Id(c.arg[2])}
      [] c.name = "p" -> {<<Code["p"]>> \o Hex[c.arg]}
      [] c.name = "T" -> {<<Code["T"]>> \o Id(c.arg)}
      [] c.name = "m" -> {<<Code["m"]>> \o Location(c.arg)}
      [] c.name = "M" -> {<<Code["M"]>> \o Location(c.arg[1]) \o <<Code[":"]>> \o c.arg[2]}
      [] c.name \in {"z", "Z"} -> {<<Code[c.name]>> \o Hex[c.arg[1]] \o <<Code[","]>>
                                    \o Location(Tail(c.arg))}
      [] c.name = "vCont" -> FoldLeft(LAMBDA ts, a : {t \o x : t \in ts, x \in Actions(a)},
                                      {<<Code["vCont"]>>}, c.arg)
      [] OTHER -> {}

(* GDB sends commands, some with runs of zeros, and texts that are almost  *)
(* commands: a character is missing or one too many.                       *)
Zeros(n) == <<Code["m"]>> \o [k \in 1..n |-> Code["0"]] \o <<Code[","], Code["1"]>>

Init == /\ text \in UNION {Spellings(Commands[i]) : i \in DOMAIN Commands}
                   \cup {Zeros(n) : n \in Runs} \cup {<<>>}
        /\ edits = 0

GdbEdits == /\ edits < MaxEdits /\ Len(text) <= MaxText
            /\ \/ \E k \in 1..Len(text) + 1, c \in Alphabet : text' = InsertAt(text, k, Code[c])
               \/ \E k \in DOMAIN text : text' = RemoveAt(text, k)
            /\ edits' = edits + 1

Next == GdbEdits

Spec == Init /\ [][Next]_<<text, edits>>

-----------------------------------------------------------------------------
(* What the remote protocol asks of a sender: the characters that frame a  *)
(* packet are escaped; then any run of a character may be shortened to the *)
(* character, * and a count, which # and $ cannot stand for.  Nor can * in *)
(* this library, as the protocol would allow: gdb_decode_runlen takes it   *)
(* for the mark of another run.                                            *)
Escaped(t) == FlattenSeq([k \in DOMAIN t |->
    IF t[k] \in {Code[c] : c \in {"#", "$", "}", "*"}}
    THEN <<Code["}"], xor_escape(t[k])>> ELSE <<t[k]>>])

Encodings(t) ==
    LET e == Escaped(t) IN
    {e} \cup {SubSeq(e, 1, i) \o <<Code["*"], j - i + GDB_RUNLEN_OFF>> \o From(e, j + 1) :
                <<i, j>> \in {p \in (DOMAIN e) \X (DOMAIN e) :
                                /\ p[2] >= p[1] + 3
                                /\ p[2] - p[1] + GDB_RUNLEN_OFF
                                     \notin {Code["#"], Code["$"], Code["*"]}
                                /\ \A k \in p[1]..p[2] : e[k] = e[p[1]]}}

(* Whatever text GDB sends, escaped and with a run shortened or not, the   *)
(* server reads it back from the stream, leaving what follows; and a       *)
(* packet with any one character replaced is not taken for a valid one.    *)
TextSurvives ==
    \A e \in Encodings(text) :
       LET wire == gdb_serialize(e) IN
       /\ {<<Decoded(r[1]), r[2]>> : r \in gdb_parse_pkt(wire \o <<Code["+"]>>)}
            = {<<{text}, <<Code["+"]>>>>}
       /\ \A k \in 2..Len(wire) - 3 : \A c \in Alphabet :
             Code[c] # wire[k] =>
                \A r \in gdb_parse_pkt([wire EXCEPT ![k] = Code[c]]) : Decoded(r[1]) = {}

(* A command is taken for itself, and a text for a command with arguments  *)
(* only if it spells that command, up to leading zeros and a process id.   *)
(* A command cut short or followed by anything else goes to gdb_any.       *)
Canonical(t) == \A k \in 2..Len(t) - 1 :
    /\ t[k] # Code["p"]
    /\ t[k] = Code["0"] /\ t[k + 1] \in Digits => t[k - 1] \in Digits

CommandIsText ==
    LET c == gdb_parse_stage2(text) IN
    /\ \A i \in DOMAIN Commands : text \in Spellings(Commands[i]) =>
          c.name = Commands[i].name /\ c.arg = Commands[i].arg
    /\ Canonical(text) /\ c.name \notin {"any", "abort"} => text \in Spellings(c)

(* Packets carry texts, and texts are the commands they spell: both of the *)
(* above statements.                                                       *)
PacketsMean == TextSurvives /\ CommandIsText
=============================================================================
