---------------------------- MODULE CLINTProofs ----------------------------
(***************************************************************************)
(* Proofs about the CLINT that is driven by simulated time, for any width  *)
(* of its registers, any length of a tick and of the quantum.              *)
(***************************************************************************)
EXTENDS CLINT, SequenceTheorems, WellFoundedInduction, TLAPS

----------------------------------------------------------------------------
(* Facts about numbers.                                                    *)

LEMMA Monotone ==
    ASSUME NEW a \in Nat, NEW b \in Nat, NEW d \in Nat, a <= b
    PROVE  a * d <= b * d
<1>1. PICK k \in Nat : b = a + k
  <2>1. b - a \in Nat /\ b = a + (b - a)
    OBVIOUS
  <2>2. QED
    BY <2>1
<1>2. b * d = a * d + k * d
  BY <1>1
<1>3. a * d \in Nat /\ k * d \in Nat
  OBVIOUS
<1>4. QED
  BY <1>2, <1>3

(* What the conversion of a time to ticks rounds to.                       *)
LEMMA Ticks ==
    ASSUME NEW t \in Nat
    PROVE  /\ t \div scaler \in Nat /\ (t \div scaler) * scaler <= t
           /\ t < (t \div scaler + 1) * scaler
  BY ConstantsAssumption

LEMMA TimeOfTicks ==
    ASSUME NEW m \in Nat
    PROVE  m * scaler \in Nat
  BY ConstantsAssumption

(* Ticks that begin before a time are reached at that time.                *)
LEMMA TicksReached ==
    ASSUME NEW m \in Nat, NEW t \in Nat, m * scaler <= t
    PROVE  m <= t \div scaler
<1> DEFINE q == t \div scaler
<1>1. q \in Nat /\ t < (q + 1) * scaler
  BY Ticks
<1> HIDE DEF q
<1>2. ASSUME ~(m <= q) PROVE FALSE
  <2>1. q + 1 \in Nat /\ q + 1 <= m
    BY <1>1, <1>2
  <2>2. (q + 1) * scaler <= m * scaler
    BY <2>1, Monotone, ConstantsAssumption
  <2>3. (q + 1) * scaler \in Nat /\ m * scaler \in Nat
    BY <2>1, ConstantsAssumption
  <2>4. QED
    BY <1>1, <2>2, <2>3
<1>3. QED
  BY <1>2 DEF q

LEMMA MaxOfTwo ==
    ASSUME NEW a \in Int, NEW b \in Int
    PROVE  Max({a, b}) = IF a >= b THEN a ELSE b
<1> DEFINE P(x) == \A y \in {a, b} : x >= y
           m == IF a >= b THEN a ELSE b
<1>1. m \in {a, b} /\ P(m)
  OBVIOUS
<1>2. \A x \in {a, b} : P(x) => x = m
  OBVIOUS
<1>3. (CHOOSE x \in {a, b} : P(x)) = m
  BY <1>1, <1>2
<1>4. QED
  BY <1>3 DEF Max

(* Min returns the least element of a non-empty set of naturals.           *)
LEMMA MinOfNats ==
    ASSUME NEW T \in SUBSET Nat, T # {}
    PROVE  Min(T) \in T /\ \A y \in T : Min(T) <= y
<1>1. PICK x \in T : \A y \in T : <<y, x>> \notin OpToRel(<, Nat)
  BY WFMin, NatLessThanWellFounded, Zenon
<1>2. \A y \in T : ~(y < x)
  BY <1>1, Zenon DEF OpToRel
<1>3. \A y \in T : x <= y
  BY <1>2
<1>4. QED
  BY <1>3, Zenon DEF Min

----------------------------------------------------------------------------
(* The invariants.                                                         *)

Halves == 0..(Base - 1)
Registers == [hi : Halves, lo : Halves]
HalfWrites == [half : {"hi", "lo"}, val : Halves]

Types ==
    /\ now \in Nat /\ mtime \in Nat /\ irq_event \in Nat \cup {Never}
    /\ offset \in [Cores -> 0..Quantum] /\ wake \in [Cores -> Nat]
    /\ mtimecmp \in [Cores -> Registers] /\ mtip \in [Cores -> BOOLEAN]
    /\ todo \in [Cores -> Seq(HalfWrites)] /\ old \in [Cores -> Nat]
    /\ written \in [Cores -> Nat] /\ careful \in [Cores -> BOOLEAN]

(* No process is behind the kernel's time.                                 *)
Ahead ==
    /\ \A i \in Cores : wake[i] >= now
    /\ irq_event # Never => irq_event >= now

(* What the last write to mtimecmp and the last run of the thread leave.   *)
EventInTime ==
    \A i \in Cores :
        LET c == Comparand(mtimecmp[i])
        IN  c > 0 /\ c < UINT_MAX /\ ~mtip[i] =>
                /\ irq_event # Never
                /\ \/ irq_event <= written[i]
                   \/ irq_event < (c + 1) * scaler

MtimeBounded == mtime * scaler <= now + Quantum

LateInv == Types /\ Ahead /\ EventInTime /\ MtimeBounded

(* With one hart, which the platforms have, mtime is not ahead of the      *)
(* local time of the hart, and therefore does not go back when it reads.   *)
MtimeBehind == \A i \in Cores : mtime * scaler <= wake[i] + offset[i]

SetIsDue ==
    \A i \in Cores :
        mtip[i] /\ ~Due(Comparand(mtimecmp[i]), mtime) =>
            irq_event # Never /\ irq_event <= written[i]

(* How far a guest is that follows the recommended sequence: the register  *)
(* is not below the old comparand until its high half is written, and not  *)
(* below the new one from then on.                                         *)
Following(writes, r, before) ==
    \E v \in Registers :
        /\ v.hi # 0 \/ v.lo # 0
        /\ \/ writes = Writes(v) /\ Comparand(r) = before
           \/ writes = WritesNaive(v) /\ r.lo = Base - 1 /\ Comparand(r) >= before
           \/ /\ writes = <<[half |-> "lo", val |-> v.lo]>>
              /\ r.hi = v.hi /\ r.lo = Base - 1

CarefulWrites ==
    \A i \in Cores :
        careful[i] /\ todo[i] # << >> => Following(todo[i], mtimecmp[i], old[i])

----------------------------------------------------------------------------
(* The registers, and the writes to them.                                  *)

LEMMA ComparandIsNat ==
    ASSUME NEW v \in Registers
    PROVE  Comparand(v) \in Nat
  BY ConstantsAssumption DEF Registers, Halves, Comparand

(* Writing a half of a register leaves a register.                         *)
LEMMA HalfWritten ==
    ASSUME NEW r \in Registers, NEW w \in HalfWrites
    PROVE  [r EXCEPT ![w.half] = w.val] \in Registers
<1>1. CASE w.half = "hi"
  BY <1>1 DEF Registers, HalfWrites
<1>2. CASE w.half = "lo"
  BY <1>2 DEF Registers, HalfWrites
<1>3. QED
  BY <1>1, <1>2 DEF HalfWrites

LEMMA WritesAreWrites ==
    ASSUME NEW v \in Registers
    PROVE  WritesNaive(v) \in Seq(HalfWrites) /\ Writes(v) \in Seq(HalfWrites)
<1>1. /\ [half |-> "hi", val |-> v.hi] \in HalfWrites
      /\ [half |-> "lo", val |-> v.lo] \in HalfWrites
      /\ [half |-> "lo", val |-> Base - 1] \in HalfWrites
  BY ConstantsAssumption DEF Registers, HalfWrites, Halves
<1> HIDE DEF HalfWrites
<1>2. WritesNaive(v) \in Seq(HalfWrites)
  BY <1>1 DEF WritesNaive
<1> HIDE DEF WritesNaive
<1>3. <<[half |-> "lo", val |-> Base - 1]>> \in Seq(HalfWrites)
  BY <1>1
<1>4. QED
  BY <1>2, <1>3 DEF Writes

(* Of two notifications the event keeps the earlier one.                   *)
LEMMA NotifyFacts ==
    ASSUME NEW e \in Nat \cup {Never}, NEW t \in Nat
    PROVE  /\ notify(e, t) \in Nat /\ notify(e, t) # Never /\ notify(e, t) <= t
           /\ notify(e, t) = t \/ notify(e, t) = e
           /\ e # Never => notify(e, t) <= e
  BY ConstantsAssumption DEF notify

----------------------------------------------------------------------------
(* What the thread leaves: mtime is up to date, and the event comes before *)
(* the end of the tick of every comparand that is not reached.             *)

LEMMA UpdatedMtime ==
    ASSUME Types
    PROVE  /\ update_and_get_mtime \in Nat /\ update_and_get_mtime >= mtime
           /\ now < (update_and_get_mtime + 1) * scaler
           /\ update_and_get_mtime = mtime \/ update_and_get_mtime * scaler <= now
<1> DEFINE q == now \div scaler
           u == update_and_get_mtime
<1>1. now \in Nat /\ mtime \in Nat
  BY DEF Types
<1>2. q \in Nat /\ q * scaler <= now /\ now < (q + 1) * scaler
  BY <1>1, Ticks
<1>3. u = IF mtime >= q THEN mtime ELSE q
  BY <1>1, <1>2, MaxOfTwo DEF update_and_get_mtime
<1> HIDE DEF q, u
<1>4. u \in Nat /\ u >= mtime /\ q + 1 <= u + 1 /\ (u = mtime \/ u = q)
  BY <1>1, <1>2, <1>3
<1>5. (q + 1) * scaler <= (u + 1) * scaler
  BY <1>2, <1>4, Monotone, ConstantsAssumption
<1>6. (q + 1) * scaler \in Nat /\ (u + 1) * scaler \in Nat
  BY <1>2, <1>4, ConstantsAssumption
<1>7. now < (u + 1) * scaler
  BY <1>1, <1>2, <1>5, <1>6
<1>8. QED
  BY <1>2, <1>4, <1>7 DEF u

LEMMA EventAfterRun ==
    ASSUME Types, run
    PROVE  /\ irq_event' \in Nat \cup {Never}
           /\ irq_event' # Never => irq_event' >= now
           /\ \A i \in Cores :
                 LET c == Comparand(mtimecmp[i])
                 IN  c > 0 /\ c < UINT_MAX /\ ~mtip'[i] =>
                        irq_event' # Never /\ irq_event' < (c + 1) * scaler
<1> DEFINE m == mtime'
           armed == {c \in {Comparand(mtimecmp[i]) : i \in Cores} :
                        c > 0 /\ c < UINT_MAX /\ ~Due(c, m)}
           least == Min(armed)
<1>1. m \in Nat /\ now < (m + 1) * scaler
  BY UpdatedMtime DEF run
<1>2. \A i \in Cores : Comparand(mtimecmp[i]) \in Nat
  BY ComparandIsNat DEF Types
<1>3. armed \in SUBSET Nat /\ \A c \in armed : c >= m
  BY <1>1, <1>2 DEF Due
<1>4. irq_event' = IF armed = {} THEN Never ELSE now + (least - m) * scaler
  BY DEF run
<1>5. now \in Nat
  BY DEF Types
<1>6. \A i \in Cores : LET c == Comparand(mtimecmp[i])
                       IN  c > 0 /\ c < UINT_MAX /\ ~mtip'[i] => c \in armed
  <2>1. \A i \in Cores : mtip'[i] = Due(Comparand(mtimecmp[i]), m)
    BY DEF run
  <2>2. QED
    BY <2>1
<1> HIDE DEF m, armed
<1>7. CASE armed = {}
  BY <1>4, <1>6, <1>7
<1>8. CASE armed # {}
  <2>1. least \in armed /\ \A c \in armed : least <= c
    BY <1>3, <1>8, MinOfNats
  <2> HIDE DEF least
  <2>2. least \in Nat /\ least - m \in Nat
    BY <1>1, <1>3, <2>1
  <2>3. (least - m) * scaler \in Nat
    BY <2>2, ConstantsAssumption
  <2>4. irq_event' \in Nat /\ irq_event' >= now /\ irq_event' # Never
    BY <1>4, <1>5, <1>8, <2>3, ConstantsAssumption
  <2>5. irq_event' < (least + 1) * scaler
    <3>1. (m + 1) * scaler + (least - m) * scaler = (least + 1) * scaler
      BY <1>1, <2>2, ConstantsAssumption
    <3>2. (m + 1) * scaler \in Nat /\ (least + 1) * scaler \in Nat
      BY <1>1, <2>2, ConstantsAssumption
    <3>3. QED
      BY <1>1, <1>4, <1>5, <1>8, <2>3, <3>1, <3>2
  <2>6. ASSUME NEW c \in armed
        PROVE  irq_event' < (c + 1) * scaler
    <3>1. c + 1 \in Nat /\ least + 1 \in Nat /\ least + 1 <= c + 1
      BY <1>3, <2>1, <2>2, <2>6
    <3>2. (least + 1) * scaler <= (c + 1) * scaler
      BY <3>1, Monotone, ConstantsAssumption
    <3>3. (least + 1) * scaler \in Nat /\ (c + 1) * scaler \in Nat
      BY <3>1, ConstantsAssumption
    <3>4. QED
      BY <2>4, <2>5, <3>2, <3>3
  <2>7. QED
    BY <1>6, <2>4, <2>6
<1>9. QED
  BY <1>7, <1>8
----------------------------------------------------------------------------
(* The timer is not late, whatever the number of harts.                    *)

LEMMA Clocks ==
    ASSUME Types
    PROVE  /\ now \in Nat /\ mtime \in Nat /\ mtime * scaler \in Nat
           /\ \A i \in Cores : /\ offset[i] \in Nat /\ offset[i] <= Quantum
                              /\ wake[i] \in Nat
                              /\ now + offset[i] \in Nat /\ now + offset[i] >= now
<1>1. /\ now \in Nat /\ mtime \in Nat
      /\ offset \in [Cores -> 0..Quantum] /\ wake \in [Cores -> Nat]
  BY DEF Types
<1>2. mtime * scaler \in Nat
  BY <1>1, ConstantsAssumption
<1>3. \A i \in Cores : offset[i] \in 0..Quantum /\ wake[i] \in Nat
  BY <1>1
<1>4. QED
  BY <1>1, <1>2, <1>3, ConstantsAssumption

(* When time passes, it passes to the earliest of the harts and the event. *)
LEMMA TimePasses ==
    ASSUME Types, Elapse
    PROVE  /\ now' \in Nat
           /\ \A i \in Cores : wake[i] >= now'
           /\ irq_event # Never => irq_event >= now'
           /\ now' > now
<1> DEFINE T == {wake[i] : i \in Cores} \cup ({irq_event} \ {Never})
<1>1. /\ \A i \in Cores : wake[i] \in Nat /\ wake[i] > now
      /\ irq_event # Never => irq_event \in Nat /\ irq_event > now
  BY Clocks DEF Types, Elapse
<1>2. T \in SUBSET Nat /\ T # {} /\ \A t \in T : t > now
  BY <1>1, ConstantsAssumption
<1>3. now' = Min(T)
  BY DEF Elapse
<1>4. /\ \A i \in Cores : wake[i] \in T
      /\ irq_event # Never => irq_event \in T
  OBVIOUS
<1> HIDE DEF T
<1>5. now' \in T /\ \A t \in T : now' <= t
  BY <1>2, <1>3, MinOfNats
<1>6. QED
  BY <1>1, <1>2, <1>4, <1>5

LEMMA TypesStep ==
    ASSUME Types, [Next]_vars
    PROVE  Types'
<1>1. CASE run
  <2>1. mtime' \in Nat /\ irq_event' \in Nat \cup {Never}
    BY <1>1, UpdatedMtime, EventAfterRun DEF run
  <2>2. mtip' \in [Cores -> BOOLEAN]
    BY <1>1, Zenon DEF run, Due
  <2>3. QED
    BY <1>1, <2>1, <2>2 DEF run, Types
<1>2. CASE Elapse
  BY <1>2, TimePasses DEF Elapse, Types
<1>3. ASSUME NEW i \in Cores, Execute(i) PROVE Types'
  <2>1. offset[i] + 1 \in 0..Quantum
    BY <1>3, Clocks, ConstantsAssumption DEF Execute
  <2>2. offset' \in [Cores -> 0..Quantum]
    BY <1>3, <2>1 DEF Execute, Types
  <2>3. QED
    BY <1>3, <2>2 DEF Execute, Types
<1>4. ASSUME NEW i \in Cores, Sync(i) PROVE Types'
  <2>1. now + offset[i] \in Nat /\ 0 \in 0..Quantum
    BY Clocks, ConstantsAssumption
  <2>2. offset' \in [Cores -> 0..Quantum] /\ wake' \in [Cores -> Nat]
    BY <1>4, <2>1 DEF Sync, Types
  <2>3. QED
    BY <1>4, <2>2 DEF Sync, Types
<1>5. ASSUME NEW i \in Cores, pre_read_mtime(i) PROVE Types'
  <2>1. now + offset[i] \in Nat
    BY Clocks
  <2>2. mtime' \in Nat
    BY <1>5, <2>1, Ticks DEF pre_read_mtime
  <2>3. QED
    BY <1>5, <2>2 DEF pre_read_mtime, Types
<1>6. ASSUME NEW i \in Cores, SetComparand(i) PROVE Types'
  <2>1. PICK v \in Registers, follows \in BOOLEAN :
           /\ todo' = [todo EXCEPT ![i] = IF follows THEN Writes(v) ELSE WritesNaive(v)]
           /\ careful' = [careful EXCEPT ![i] = follows]
    BY <1>6, Zenon DEF SetComparand, Registers, Halves
  <2>2. /\ todo' \in [Cores -> Seq(HalfWrites)]
        /\ careful' \in [Cores -> BOOLEAN]
    BY <2>1, WritesAreWrites DEF Types
  <2>3. old' = [old EXCEPT ![i] = Comparand(mtimecmp[i])]
    BY <1>6 DEF SetComparand
  <2>4. old' \in [Cores -> Nat]
    BY <2>3, ComparandIsNat DEF Types
  <2>5. QED
    BY <1>6, <2>2, <2>4 DEF SetComparand, Types
<1>7. ASSUME NEW i \in Cores, post_write_mtimecmp(i) PROVE Types'
  <2> DEFINE w == Head(todo[i])
             r == [mtimecmp[i] EXCEPT ![w.half] = w.val]
  <2>1. todo[i] \in Seq(HalfWrites) /\ todo[i] # << >> /\ mtimecmp[i] \in Registers
    BY <1>7 DEF post_write_mtimecmp, Types
  <2>2. w \in HalfWrites /\ Tail(todo[i]) \in Seq(HalfWrites)
    BY <2>1
  <2> HIDE DEF w
  <2>3. r \in Registers
    BY <2>1, <2>2, HalfWritten, Zenon
  <2>4. mtimecmp' = [mtimecmp EXCEPT ![i] = r]
    BY <1>7 DEF post_write_mtimecmp, w
  <2> HIDE DEF r
  <2>5. mtimecmp' \in [Cores -> Registers]
    BY <2>3, <2>4 DEF Types
  <2>6. todo' \in [Cores -> Seq(HalfWrites)]
    BY <1>7, <2>2 DEF post_write_mtimecmp, Types
  <2>7. now + offset[i] \in Nat
    BY Clocks
  <2>8. irq_event' \in Nat \cup {Never} /\ written' \in [Cores -> Nat]
    BY <1>7, <2>7, NotifyFacts, Zenon DEF post_write_mtimecmp, Types
  <2>9. QED
    BY <1>7, <2>5, <2>6, <2>8, SMTT(30) DEF post_write_mtimecmp, Types
<1>8. ASSUME NEW i \in Cores, post_write_msip(i) PROVE Types'
  BY <1>8 DEF post_write_msip, Types
<1>9. CASE UNCHANGED vars
  BY <1>9 DEF vars, Types
<1>10. QED
  BY <1>1, <1>2, <1>3, <1>4, <1>5, <1>6, <1>7, <1>8, <1>9 DEF Next

(* No step leaves a process behind the kernel's time: time passes to the   *)
(* earliest of the harts and the event.                                    *)
LEMMA AheadStep ==
    ASSUME Types, Ahead, [Next]_vars
    PROVE  Ahead'
<1>1. CASE run
  BY <1>1, EventAfterRun DEF run, Ahead
<1>2. CASE Elapse
  BY <1>2, TimePasses DEF Elapse, Ahead
<1>3. ASSUME NEW i \in Cores, Execute(i) PROVE Ahead'
  BY <1>3 DEF Execute, Ahead
<1>4. ASSUME NEW i \in Cores, Sync(i) PROVE Ahead'
  <2>1. /\ UNCHANGED <<now, irq_event>> /\ now + offset[i] >= now
        /\ \A j \in Cores : wake'[j] = IF j = i THEN now + offset[i] ELSE wake[j]
    BY <1>4, Clocks DEF Sync, Types
  <2>2. QED
    BY <2>1 DEF Ahead
<1>5. ASSUME NEW i \in Cores, pre_read_mtime(i) \/ SetComparand(i) \/ post_write_msip(i)
      PROVE  Ahead'
  BY <1>5 DEF pre_read_mtime, SetComparand, post_write_msip, Ahead
<1>6. ASSUME NEW i \in Cores, post_write_mtimecmp(i) PROVE Ahead'
  <2>1. now + offset[i] \in Nat /\ now + offset[i] >= now
    BY Clocks
  <2>2. irq_event' = notify(irq_event, now + offset[i]) /\ UNCHANGED <<now, wake>>
    BY <1>6 DEF post_write_mtimecmp
  <2>3. irq_event' \in Nat /\ (irq_event' = now + offset[i] \/ irq_event' = irq_event)
    BY <2>1, <2>2, NotifyFacts, Zenon DEF Types
  <2>4. QED
    BY <2>1, <2>2, <2>3 DEF Ahead
<1>7. CASE UNCHANGED vars
  BY <1>7 DEF vars, Ahead
<1>8. QED
  BY <1>1, <1>2, <1>3, <1>4, <1>5, <1>6, <1>7 DEF Next

LEMMA EventStep ==
    ASSUME Types, EventInTime, [Next]_vars
    PROVE  EventInTime'
<1>1. CASE run
  <2>1. mtimecmp' = mtimecmp
    BY <1>1 DEF run
  <2>2. QED
    BY <1>1, <2>1, EventAfterRun DEF EventInTime
<1>2. CASE UNCHANGED <<mtimecmp, mtip, irq_event, written>>
  BY <1>2 DEF EventInTime
<1>3. ASSUME NEW i \in Cores, post_write_mtimecmp(i) PROVE EventInTime'
  <2>1. /\ irq_event' = notify(irq_event, now + offset[i]) /\ mtip' = mtip
        /\ written'[i] = now + offset[i] /\ now + offset[i] \in Nat
        /\ \A j \in Cores \ {i} : written'[j] = written[j] /\ mtimecmp'[j] = mtimecmp[j]
    BY <1>3, Clocks DEF post_write_mtimecmp, Types
  <2>2. /\ irq_event' \in Nat /\ irq_event' # Never /\ irq_event' <= written'[i]
        /\ irq_event # Never => irq_event' <= irq_event
    BY <2>1, NotifyFacts, ZenonT(30) DEF Types
  <2>3. ASSUME NEW j \in Cores \ {i},
               Comparand(mtimecmp[j]) > 0, Comparand(mtimecmp[j]) < UINT_MAX, ~mtip[j]
        PROVE  \/ irq_event' <= written'[j]
               \/ irq_event' < (Comparand(mtimecmp'[j]) + 1) * scaler
    <3> DEFINE c == Comparand(mtimecmp[j])
               d == (c + 1) * scaler
    <3>1. /\ irq_event # Never
          /\ irq_event <= written[j] \/ irq_event < d
      BY <2>3 DEF EventInTime
    <3>2. c \in Nat /\ written[j] \in Nat /\ irq_event \in Nat
      BY <3>1, ComparandIsNat DEF Types
    <3> HIDE DEF c
    <3>3. d \in Nat
      BY <3>2, ConstantsAssumption
    <3> HIDE DEF d
    <3>4. irq_event' <= written[j] \/ irq_event' < d
      BY <2>2, <3>1, <3>2, <3>3, SMTT(30)
    <3>5. QED
      BY <2>1, <3>4 DEF d, c
  <2>4. QED
    BY <2>1, <2>2, <2>3 DEF EventInTime
<1>4. QED
  BY <1>1, <1>2, <1>3
  DEF Next, vars, Elapse, Execute, Sync, pre_read_mtime, SetComparand, post_write_msip

(* The clock a hart reads is ahead of the kernel's by its quantum at most. *)
LEMMA MtimeStep ==
    ASSUME Types, MtimeBounded, [Next]_vars
    PROVE  MtimeBounded'
<1>1. CASE run
  <2>1. now' = now /\ mtime' = update_and_get_mtime
    BY <1>1 DEF run
  <2>2. mtime' \in Nat /\ (mtime' = mtime \/ mtime' * scaler <= now)
    BY <2>1, UpdatedMtime
  <2>3. mtime' * scaler \in Nat /\ now \in Nat
    BY <2>2, Clocks, TimeOfTicks
  <2>4. QED
    BY <2>1, <2>2, <2>3, ConstantsAssumption DEF MtimeBounded
<1>2. CASE Elapse
  <2>1. mtime' = mtime
    BY <1>2 DEF Elapse
  <2>2. now \in Nat /\ now' \in Nat /\ now' > now
    BY <1>2, TimePasses, Clocks
  <2>3. mtime * scaler \in Nat
    BY Clocks
  <2>4. QED
    BY <2>1, <2>2, <2>3, ConstantsAssumption DEF MtimeBounded
<1>3. ASSUME NEW i \in Cores, pre_read_mtime(i) PROVE MtimeBounded'
  <2> DEFINE t == now + offset[i]
  <2>1. t \in Nat /\ t <= now + Quantum /\ now \in Nat
    BY Clocks, ConstantsAssumption
  <2>2. mtime' = t \div scaler /\ now' = now
    BY <1>3 DEF pre_read_mtime
  <2> HIDE DEF t
  <2>3. mtime' \in Nat /\ mtime' * scaler <= t
    BY <2>1, <2>2, Ticks
  <2>4. mtime' * scaler \in Nat
    BY <2>3, TimeOfTicks
  <2>5. QED
    BY <2>1, <2>2, <2>3, <2>4, ConstantsAssumption DEF MtimeBounded
<1>4. CASE UNCHANGED <<mtime, now>>
  BY <1>4 DEF MtimeBounded
<1>5. QED
  BY <1>1, <1>2, <1>3, <1>4
  DEF Next, vars, Execute, Sync, post_write_mtimecmp, SetComparand, post_write_msip

LEMMA InitLate == Init => LateInv
<1> SUFFICES ASSUME Init PROVE LateInv
  OBVIOUS
<1>1. Types
  BY ConstantsAssumption DEF Init, Types, Registers, Halves
<1>2. Ahead
  BY ConstantsAssumption DEF Init, Ahead
<1>3. EventInTime
  <2>1. \A i \in Cores : Comparand(mtimecmp[i]) = 0
    BY ConstantsAssumption DEF Init, Comparand
  <2>2. QED
    BY <2>1 DEF EventInTime
<1>4. MtimeBounded
  BY ConstantsAssumption DEF Init, MtimeBounded
<1>5. QED
  BY <1>1, <1>2, <1>3, <1>4 DEF LateInv

LEMMA LateInvariant == Spec => []LateInv
<1>1. LateInv /\ [Next]_vars => LateInv'
  BY TypesStep, AheadStep, EventStep, MtimeStep DEF LateInv
<1>2. QED
  BY InitLate, <1>1, PTL DEF Spec

LEMMA LateInvSuffices == LateInv => TimerNotLate
<1> SUFFICES ASSUME LateInv,
                    NEW i \in Cores, Comparand(mtimecmp[i]) > 0,
                    Comparand(mtimecmp[i]) < UINT_MAX, ~mtip[i]
             PROVE  /\ irq_event # Never /\ irq_event >= now
                    /\ irq_event <= Max({written[i],
                                         Comparand(mtimecmp[i]) * scaler + scaler - 1})
  BY DEF TimerNotLate
<1> DEFINE c == Comparand(mtimecmp[i])
           a == written[i]
           d == (c + 1) * scaler
           b == c * scaler + scaler - 1
<1>1. irq_event # Never /\ irq_event >= now /\ (irq_event <= a \/ irq_event < d)
  BY DEF LateInv, EventInTime, Ahead
<1>2. c \in Nat /\ a \in Nat /\ irq_event \in Nat
  BY <1>1, ComparandIsNat DEF LateInv, Types
<1> HIDE DEF c, a
<1>3. d = b + 1 /\ b \in Int
  BY <1>2, ConstantsAssumption
<1> HIDE DEF d, b
<1>4. irq_event <= a \/ irq_event <= b
  BY <1>1, <1>2, <1>3
<1>5. Max({a, b}) = IF a >= b THEN a ELSE b
  BY <1>2, <1>3, MaxOfTwo
<1>6. irq_event <= Max({a, b})
  BY <1>2, <1>3, <1>4, <1>5
<1>7. QED
  BY <1>1, <1>6 DEF a, b, c

(* A timer interrupt is neither lost nor late, however many harts write    *)
(* their comparands, in halves and at local times ahead of the kernel's:   *)
(* the event of the thread run is pending for each of them.                *)
THEOREM TimerNeverLate == Spec => []TimerNotLate
  BY LateInvariant, LateInvSuffices, PTL
----------------------------------------------------------------------------
(* The platforms instantiate the controller for one hart: with it the      *)
(* timer is not early either.  (A second hart that reads mtime at an       *)
(* earlier local time takes it back below a comparand it has reached.)     *)

LEMMA BehindStep ==
    ASSUME Types, Ahead, MtimeBehind, [Next]_vars, NEW h, Cores = {h}
    PROVE  MtimeBehind'
<1>1. /\ now \in Nat /\ mtime * scaler \in Nat
      /\ offset[h] \in Nat /\ wake[h] \in Nat /\ wake[h] >= now /\ h \in Cores
      /\ now + offset[h] \in Nat /\ mtime * scaler <= wake[h] + offset[h]
  BY Clocks DEF Ahead, MtimeBehind
<1> SUFFICES mtime' * scaler <= wake'[h] + offset'[h]
  BY DEF MtimeBehind
<1>2. CASE run
  <2>1. UNCHANGED <<offset, wake>> /\ mtime' = update_and_get_mtime
    BY <1>2 DEF run
  <2>2. mtime' \in Nat /\ (mtime' = mtime \/ mtime' * scaler <= now)
    BY <2>1, UpdatedMtime
  <2>3. mtime' * scaler \in Nat
    BY <2>2, TimeOfTicks
  <2>4. QED
    BY <1>1, <2>1, <2>2, <2>3
<1>3. CASE pre_read_mtime(h)
  <2> DEFINE t == now + offset[h]
  <2>1. mtime' = t \div scaler /\ wake[h] = now /\ UNCHANGED <<offset, wake>>
    BY <1>3 DEF pre_read_mtime, Runs
  <2>2. t \in Nat
    BY <1>1
  <2> HIDE DEF t
  <2>3. mtime' * scaler <= t
    BY <2>1, <2>2, Ticks
  <2>4. QED
    BY <2>1, <2>3 DEF t
<1>4. CASE Execute(h)
  <2>1. offset'[h] = offset[h] + 1 /\ UNCHANGED <<wake, mtime>>
    BY <1>4 DEF Execute, Types
  <2>2. QED
    BY <1>1, <2>1
<1>5. CASE Sync(h)
  <2>1. offset'[h] = 0 /\ wake'[h] = now + offset[h] /\ wake[h] = now /\ mtime' = mtime
    BY <1>5, <1>1 DEF Sync, Runs, Types
  <2>2. QED
    BY <1>1, <2>1
<1>6. CASE UNCHANGED <<mtime, wake, offset>>
  BY <1>1, <1>6, SMTT(30)
<1>7. QED
  BY <1>2, <1>3, <1>4, <1>5, <1>6
  DEF Next, vars, Elapse, post_write_mtimecmp, SetComparand, post_write_msip

LEMMA SetStep ==
    ASSUME Types, MtimeBehind, SetIsDue, [Next]_vars, NEW h, Cores = {h}
    PROVE  SetIsDue'
<1>1. CASE run
  <2>1. mtimecmp' = mtimecmp
        /\ \A i \in Cores : mtip'[i] = Due(Comparand(mtimecmp[i]), mtime')
    BY <1>1, ZenonT(30) DEF run
  <2>2. QED
    BY <2>1, Zenon DEF SetIsDue
<1>2. CASE pre_read_mtime(h)
  <2> DEFINE t == now + offset[h]
             c == Comparand(mtimecmp[h])
  <2>1. /\ mtime' = t \div scaler /\ wake[h] = now
        /\ UNCHANGED <<mtimecmp, mtip, irq_event, written>>
    BY <1>2 DEF pre_read_mtime, Runs
  <2>2. t \in Nat /\ mtime \in Nat /\ mtime * scaler <= t /\ c \in Nat
    BY <2>1, Clocks, ComparandIsNat DEF MtimeBehind, Types
  <2> HIDE DEF t, c
  <2>3. mtime' \in Nat /\ mtime' >= mtime
    BY <2>1, <2>2, Ticks, TicksReached
  <2>4. Due(c, mtime) => Due(c, mtime')
    BY <2>2, <2>3 DEF Due
  <2>5. mtip[h] /\ ~Due(c, mtime) => irq_event # Never /\ irq_event <= written[h]
    BY DEF SetIsDue, c
  <2>6. mtip[h] /\ ~Due(c, mtime') => irq_event # Never /\ irq_event <= written[h]
    BY <2>4, <2>5
  <2>7. QED
    BY <2>1, <2>6, SMTT(30) DEF SetIsDue, c
<1>3. CASE post_write_mtimecmp(h)
  <2>1. /\ irq_event' = notify(irq_event, now + offset[h])
        /\ written'[h] = now + offset[h] /\ now + offset[h] \in Nat
    BY <1>3, Clocks DEF post_write_mtimecmp, Types
  <2>2. irq_event' # Never /\ irq_event' <= written'[h]
    BY <2>1, NotifyFacts, ZenonT(30) DEF Types
  <2>3. QED
    BY <2>2 DEF SetIsDue
<1>4. CASE UNCHANGED <<mtimecmp, mtime, mtip, irq_event, written>>
  BY <1>4 DEF SetIsDue
<1>5. QED
  BY <1>1, <1>2, <1>3, <1>4
  DEF Next, vars, Elapse, Execute, Sync, SetComparand, post_write_msip

(* The timer interrupt of a hart is on time: it comes within the tick of   *)
(* the comparand or with the write that set it, and one that is set is due *)
(* or about to be withdrawn, though the hart reads and writes registers at *)
(* local times ahead of the kernel's and mtimecmp in halves.               *)
THEOREM TimerAlwaysOnTime ==
    ASSUME NEW CONSTANT h, Cores = {h}
    PROVE  Spec => []TimerOnTime
<1> DEFINE I == LateInv /\ MtimeBehind /\ SetIsDue
<1>1. Init => I
  <2>1. Init => MtimeBehind /\ SetIsDue
    BY ConstantsAssumption DEF Init, MtimeBehind, SetIsDue
  <2>2. QED
    BY <2>1, InitLate
<1>2. I /\ [Next]_vars => I'
  BY TypesStep, AheadStep, EventStep, MtimeStep, BehindStep, SetStep DEF LateInv
<1>3. I => TimerOnTime
  <2>1. LateInv /\ SetIsDue => TimerNotEarly
    BY DEF LateInv, MtimeBounded, SetIsDue, TimerNotEarly
  <2>2. QED
    BY <2>1, LateInvSuffices DEF TimerOnTime
<1>4. QED
  BY <1>1, <1>2, <1>3, PTL DEF Spec

----------------------------------------------------------------------------
(* The recommended sequence of writes.                                     *)

LEMMA Prepend ==
    ASSUME NEW S, NEW a \in S, NEW b \in S, NEW c \in S
    PROVE  <<a>> \o <<b, c>> = <<a, b, c>>
<1> DEFINE s == <<a>>
           t == <<b, c>>
           u == <<a, b, c>>
<1>1. /\ s \in Seq(S) /\ Len(s) = 1 /\ s[1] = a
      /\ t \in Seq(S) /\ Len(t) = 2 /\ t[1] = b /\ t[2] = c
      /\ u \in Seq(S) /\ Len(u) = 3 /\ u[1] = a /\ u[2] = b /\ u[3] = c
  OBVIOUS
<1> HIDE DEF s, t, u
<1>2. /\ s \o t \in Seq(S) /\ Len(s \o t) = Len(s) + Len(t)
      /\ \A i \in 1..(Len(s) + Len(t)) :
            (s \o t)[i] = IF i <= Len(s) THEN s[i] ELSE t[i - Len(s)]
  BY <1>1, ConcatProperties, Zenon
<1>3. Len(s \o t) = 3 /\ \A i \in 1..3 : (s \o t)[i] = u[i]
  <2>1. /\ Len(s \o t) = 3
        /\ (s \o t)[1] = s[1] /\ (s \o t)[2] = t[1] /\ (s \o t)[3] = t[2]
    BY <1>1, <1>2
  <2>2. QED
    BY <1>1, <2>1
<1>4. s \o t = u
  BY <1>1, <1>2, <1>3
<1>5. QED
  BY <1>4 DEF s, t, u

LEMMA InSequence ==
    ASSUME NEW v \in Registers
    PROVE  /\ Head(Writes(v)) = [half |-> "lo", val |-> Base - 1]
           /\ Tail(Writes(v)) = WritesNaive(v)
           /\ Head(WritesNaive(v)) = [half |-> "hi", val |-> v.hi]
           /\ Tail(WritesNaive(v)) = <<[half |-> "lo", val |-> v.lo]>>
<1>1. /\ [half |-> "hi", val |-> v.hi] \in HalfWrites
      /\ [half |-> "lo", val |-> v.lo] \in HalfWrites
      /\ [half |-> "lo", val |-> Base - 1] \in HalfWrites
  BY ConstantsAssumption DEF Registers, HalfWrites, Halves
<1> DEFINE a == [half |-> "lo", val |-> Base - 1]
           b == [half |-> "hi", val |-> v.hi]
           c == [half |-> "lo", val |-> v.lo]
<1>0. a \in HalfWrites /\ b \in HalfWrites /\ c \in HalfWrites
  BY <1>1
<1> HIDE DEF a, b, c
<1>2. Head(<<b, c>>) = b /\ Tail(<<b, c>>) = <<c>>
  OBVIOUS
<1>3. Head(<<a>> \o <<b, c>>) = a /\ Tail(<<a>> \o <<b, c>>) = <<b, c>>
  <2>1. <<a>> \o <<b, c>> = <<a, b, c>>
    BY <1>0, Prepend
  <2>2. Head(<<a, b, c>>) = a /\ Tail(<<a, b, c>>) = <<b, c>>
    OBVIOUS
  <2>3. QED
    BY <2>1, <2>2, Zenon
<1>4. QED
  BY <1>2, <1>3, Zenon DEF Writes, WritesNaive, a, b, c

LEMMA CarefulStep ==
    ASSUME Types, CarefulWrites, [Next]_vars
    PROVE  CarefulWrites'
<1>1. CASE UNCHANGED <<careful, todo, mtimecmp, old>>
  BY <1>1 DEF CarefulWrites
<1>2. ASSUME NEW i \in Cores, SetComparand(i) PROVE CarefulWrites'
  <2>1. PICK v \in Registers, follows \in BOOLEAN :
           /\ v.hi # 0 \/ v.lo # 0
           /\ todo' = [todo EXCEPT ![i] = IF follows THEN Writes(v) ELSE WritesNaive(v)]
           /\ careful' = [careful EXCEPT ![i] = follows]
    BY <1>2, Zenon DEF SetComparand, Registers, Halves
  <2>2. /\ mtimecmp' = mtimecmp
        /\ old' = [old EXCEPT ![i] = Comparand(mtimecmp[i])]
    BY <1>2 DEF SetComparand
  <2>3. /\ careful'[i] = follows /\ old'[i] = Comparand(mtimecmp'[i])
        /\ follows => todo'[i] = Writes(v)
    BY <2>1, <2>2 DEF Types
  <2>4. \A j \in Cores \ {i} : /\ careful'[j] = careful[j] /\ old'[j] = old[j]
                               /\ todo'[j] = todo[j] /\ mtimecmp'[j] = mtimecmp[j]
    BY <2>1, <2>2 DEF Types
  <2>5. Comparand(mtimecmp'[i]) = old'[i] => Following(Writes(v), mtimecmp'[i], old'[i])
    BY <2>1 DEF Following
  <2>6. ASSUME NEW j \in Cores, careful'[j], todo'[j] # << >>
        PROVE  Following(todo'[j], mtimecmp'[j], old'[j])
    <3>1. CASE j = i
      BY <2>3, <2>5, <2>6, <3>1
    <3>2. CASE j # i
      BY <2>4, <2>6, <3>2 DEF CarefulWrites
    <3>3. QED
      BY <3>1, <3>2
  <2>7. QED
    BY <2>6 DEF CarefulWrites
<1>3. ASSUME NEW i \in Cores, post_write_mtimecmp(i) PROVE CarefulWrites'
  <2> DEFINE w == Head(todo[i])
             r == mtimecmp[i]
  <2>1. /\ careful' = careful /\ old' = old /\ todo[i] # << >>
        /\ todo'[i] = Tail(todo[i])
        /\ mtimecmp'[i] = [r EXCEPT ![w.half] = w.val]
        /\ r \in Registers
    BY <1>3 DEF post_write_mtimecmp, Types
  <2>2. \A j \in Cores \ {i} : todo'[j] = todo[j] /\ mtimecmp'[j] = mtimecmp[j]
    BY <1>3, SMTT(30) DEF post_write_mtimecmp, Types
  <2>3. ASSUME careful[i], todo'[i] # << >>
        PROVE  Following(todo'[i], mtimecmp'[i], old[i])
    <3>1. PICK v \in Registers :
                /\ v.hi # 0 \/ v.lo # 0
                /\ \/ todo[i] = Writes(v) /\ Comparand(r) = old[i]
                   \/ /\ todo[i] = WritesNaive(v)
                      /\ r.lo = Base - 1 /\ Comparand(r) >= old[i]
                   \/ /\ todo[i] = <<[half |-> "lo", val |-> v.lo]>>
                      /\ r.hi = v.hi /\ r.lo = Base - 1
      BY <2>1, <2>3, Zenon DEF CarefulWrites, Following
    <3>2. CASE todo[i] = Writes(v) /\ Comparand(r) = old[i]
      <4>1. w = [half |-> "lo", val |-> Base - 1] /\ todo'[i] = WritesNaive(v)
        BY <2>1, <3>2, InSequence
      <4>2. mtimecmp'[i] = [r EXCEPT !["lo"] = Base - 1]
        BY <2>1, <4>1
      <4> HIDE DEF r
      <4>3. mtimecmp'[i].lo = Base - 1 /\ mtimecmp'[i].hi = r.hi
        BY <2>1, <4>2 DEF Registers
      <4>4. r.hi \in Nat /\ r.lo \in Nat /\ r.lo <= Base - 1 /\ r.hi * Base \in Nat
        BY <2>1, ConstantsAssumption DEF Registers, Halves
      <4>5. Comparand(mtimecmp'[i]) >= Comparand(r)
        BY <4>3, <4>4, ConstantsAssumption, SMTT(30) DEF Comparand
      <4>6. QED
        BY <3>1, <3>2, <4>1, <4>3, <4>5, SMTT(30) DEF Following
    <3>3. CASE /\ todo[i] = WritesNaive(v)
               /\ r.lo = Base - 1 /\ Comparand(r) >= old[i]
      <4>1. /\ w = [half |-> "hi", val |-> v.hi]
            /\ todo'[i] = <<[half |-> "lo", val |-> v.lo]>>
        BY <2>1, <3>3, InSequence
      <4>2. mtimecmp'[i] = [r EXCEPT !["hi"] = v.hi]
        BY <2>1, <4>1
      <4> HIDE DEF r
      <4>3. mtimecmp'[i].lo = Base - 1 /\ mtimecmp'[i].hi = v.hi
        BY <2>1, <3>3, <4>2 DEF Registers
      <4>4. QED
        BY <3>1, <4>1, <4>3, SMTT(30) DEF Following
    <3>4. CASE todo[i] = <<[half |-> "lo", val |-> v.lo]>>
      <4>1. Tail(<<[half |-> "lo", val |-> v.lo]>>) = << >>
        OBVIOUS
      <4>2. QED
        BY <2>1, <2>3, <3>4, <4>1
    <3>5. QED
      BY <3>1, <3>2, <3>3, <3>4
  <2>4. ASSUME NEW j \in Cores, careful'[j], todo'[j] # << >>
        PROVE  Following(todo'[j], mtimecmp'[j], old'[j])
    <3>1. CASE j = i
      BY <2>1, <2>3, <2>4, <3>1, ZenonT(30)
    <3>2. CASE j # i
      BY <2>1, <2>2, <2>4, <3>2 DEF CarefulWrites
    <3>3. QED
      BY <3>1, <3>2
  <2>5. QED
    BY <2>4 DEF CarefulWrites
<1>4. QED
  BY <1>1, <1>2, <1>3, Zenon
  DEF Next, vars, run, Elapse, Execute, Sync, pre_read_mtime, post_write_msip

(* The recommended sequence of writes to mtimecmp raises no interrupt that *)
(* neither the old nor the new comparand calls for: until the high half is *)
(* written the register is not below the old one, and from then on it is   *)
(* not below the new one.                                                  *)
THEOREM NeverSpurious == Spec => NoSpuriousTimer
<1> DEFINE I == Types /\ CarefulWrites
           Target(i) == LET hi == IF Len(todo[i]) = 1 THEN mtimecmp[i].hi
                                  ELSE todo[i][Len(todo[i]) - 1].val
                        IN  hi * Base + todo[i][Len(todo[i])].val
<1>1. Init => I
  <2>1. Init => CarefulWrites
    BY DEF Init, CarefulWrites
  <2>2. QED
    BY <2>1, InitLate DEF LateInv
<1>2. I /\ [Next]_vars => I'
  BY TypesStep, CarefulStep
<1>3. ASSUME I, [Next]_vars, NEW i \in Cores, careful[i], ~mtip[i], mtip'[i],
             todo[i] # << >>
      PROVE  mtime' >= old[i] \/ Due(Target(i), mtime')
  <2> DEFINE r == mtimecmp[i]
  <2>1. run
    BY <1>3, SMTT(30) DEF Next, vars, Elapse, Execute, Sync, pre_read_mtime, SetComparand,
                post_write_mtimecmp, post_write_msip
  <2>2. mtime' \in Nat
    BY <1>3, <2>1, UpdatedMtime DEF run
  <2>3. Due(Comparand(r), mtime')
    BY <1>3, <2>1, Zenon DEF run
  <2>4. PICK v \in Registers :
                /\ v.hi # 0 \/ v.lo # 0
                /\ \/ Comparand(r) >= old[i]
                   \/ /\ todo[i] = <<[half |-> "lo", val |-> v.lo]>>
                      /\ r.hi = v.hi /\ r.lo = Base - 1
    <3>1. old[i] \in Nat
      BY <1>3 DEF Types
    <3>2. QED
      BY <1>3, <3>1 DEF CarefulWrites, Following
  <2>5. r \in Registers /\ Comparand(r) \in Nat /\ old[i] \in Nat
    BY <1>3, ComparandIsNat DEF Types
  <2>6. CASE Comparand(r) >= old[i]
    BY <2>2, <2>3, <2>5, <2>6 DEF Due
  <2>7. CASE todo[i] = <<[half |-> "lo", val |-> v.lo]>> /\ r.hi = v.hi /\ r.lo = Base - 1
    <3> DEFINE x == <<[half |-> "lo", val |-> v.lo]>>
    <3>1. Len(x) = 1 /\ x[Len(x)].val = v.lo
      OBVIOUS
    <3>2. Target(i) = v.hi * Base + v.lo
      BY <2>7, <3>1
    <3> HIDE DEF Target, r
    <3>3. /\ v.hi \in Nat /\ v.lo \in Nat /\ v.lo <= Base - 1
      BY ConstantsAssumption DEF Registers, Halves
    <3>4. v.hi * Base \in Nat /\ (v.hi # 0 => v.hi * Base > 0)
      BY <3>3, ConstantsAssumption
    <3>5. Comparand(r) = v.hi * Base + (Base - 1)
      BY <2>7 DEF Comparand
    <3> DEFINE p == v.hi * Base
    <3>6. Target(i) \in Nat /\ Target(i) > 0 /\ Target(i) <= Comparand(r)
      <4>1. p \in Nat /\ (p > 0 \/ v.lo # 0)
        BY <2>4, <3>4
      <4>2. Target(i) = p + v.lo /\ Comparand(r) = p + (Base - 1)
        BY <3>2, <3>5
      <4> HIDE DEF p
      <4>3. QED
        BY <3>3, <4>1, <4>2, ConstantsAssumption
    <3>7. QED
      BY <2>2, <2>3, <2>5, <3>6 DEF Due
  <2>8. QED
    BY <2>4, <2>6, <2>7, SMTT(30)
<1>4. I /\ [Next]_vars =>
          [\A i \in Cores :
              careful[i] /\ ~mtip[i] /\ mtip'[i] =>
                  \/ todo[i] = << >>
                  \/ mtime' >= old[i]
                  \/ LET hi == IF Len(todo[i]) = 1 THEN mtimecmp[i].hi
                               ELSE todo[i][Len(todo[i]) - 1].val
                     IN  Due(hi * Base + todo[i][Len(todo[i])].val, mtime')]_vars
  BY <1>3
<1>5. QED
  BY <1>1, <1>2, <1>4, PTL DEF Spec, NoSpuriousTimer

----------------------------------------------------------------------------
(* The timer on the host's clock and its thread, for any length of a tick, *)
(* any longest piece of sleep and any comparands.                          *)

CONSTANTS DIVIDEND, US_MAX, Comparands, MaxClock, MaxWrites
VARIABLES clock, mtimecmp_t, mtip_t, main_t, time, event_t, thread, running, cancelled,
          count, until, writes_t

Timer == INSTANCE RealCLINT WITH mtimecmp <- mtimecmp_t, mtip <- mtip_t, main <- main_t,
                                 event <- event_t, writes <- writes_t

(* What the proofs assume of the constants.                                *)
TimerConstants ==
    /\ DIVIDEND \in Nat /\ DIVIDEND > 0
    /\ US_MAX \in Nat /\ US_MAX > 0
    /\ Comparands \subseteq Nat

----------------------------------------------------------------------------
(* Facts about numbers.                                                    *)

LEMMA MulMonotone ==
    ASSUME NEW a \in Nat, NEW b \in Nat, NEW d \in Nat, a <= b
    PROVE  a * d <= b * d
<1>1. PICK k \in Nat : b = a + k
  <2>1. b - a \in Nat /\ b = a + (b - a)
    OBVIOUS
  <2>2. QED
    BY <2>1
<1>2. b * d = a * d + k * d
  BY <1>1
<1>3. a * d \in Nat /\ k * d \in Nat
  OBVIOUS
<1>4. QED
  BY <1>2, <1>3

(* What division rounds to.                                                *)
LEMMA DivBounds ==
    ASSUME NEW c \in Nat, NEW d \in Nat, d > 0
    PROVE  c \div d \in Nat /\ (c \div d) * d <= c /\ c < (c \div d + 1) * d
  OBVIOUS

(* A comparand is reached in ticks when it is reached in microseconds.     *)
LEMMA HostTicksReached ==
    ASSUME TimerConstants, NEW c \in Nat, NEW cmp \in Nat
    PROVE  /\ Timer!usec_to_ticks(c) \in Nat /\ Timer!usec_to_ticks(c) * DIVIDEND <= c
           /\ Timer!usec_to_ticks(c) >= cmp <=> c >= cmp * DIVIDEND
<1> DEFINE t == Timer!usec_to_ticks(c)
<1>1. t \in Nat /\ t * DIVIDEND <= c /\ c < (t + 1) * DIVIDEND
  BY DivBounds DEF Timer!usec_to_ticks, TimerConstants
<1> HIDE DEF t
<1>2. ASSUME t >= cmp PROVE c >= cmp * DIVIDEND
  <2>1. cmp * DIVIDEND <= t * DIVIDEND /\ cmp * DIVIDEND \in Nat /\ t * DIVIDEND \in Nat
    BY <1>1, <1>2, MulMonotone DEF TimerConstants
  <2>2. QED
    BY <1>1, <2>1
<1>3. ASSUME ~(t >= cmp) PROVE ~(c >= cmp * DIVIDEND)
  <2>1. t + 1 <= cmp /\ t + 1 \in Nat
    BY <1>1, <1>3
  <2>2. (t + 1) * DIVIDEND <= cmp * DIVIDEND
    BY <2>1, MulMonotone DEF TimerConstants
  <2>3. (t + 1) * DIVIDEND \in Nat /\ cmp * DIVIDEND \in Nat
    BY <2>1 DEF TimerConstants
  <2>4. QED
    BY <1>1, <2>2, <2>3
<1>4. QED
  BY <1>1, <1>2, <1>3 DEF t

----------------------------------------------------------------------------
(* The inductive invariant.  The time post_write_mtimecmp has read is      *)
(* not ahead of the clock, so that a sleep computed from it is long        *)
(* enough; a thread that is to sleep has something to sleep; and only a    *)
(* thread that post_write_mtimecmp waits for is cancelled.                 *)
TimerTypes ==
    /\ clock \in Nat /\ mtimecmp_t \in Nat /\ time \in Nat
    /\ count \in Nat /\ until \in Nat /\ writes_t \in Nat

ClintInv ==
    /\ TimerTypes
    /\ time * DIVIDEND <= clock
    /\ thread = "created" => count > 0
    /\ cancelled => main_t = "pause"
    /\ Timer!TimerExact


LEMMA TickStep ==
    ASSUME TimerConstants, ClintInv, Timer!Tick
    PROVE  ClintInv'
<1>1. /\ clock' = clock + 1
      /\ UNCHANGED <<mtimecmp_t, mtip_t, main_t, time, event_t, thread, running, cancelled,
                     count, until, writes_t>>
  BY DEF Timer!Tick, Timer!timerVars
<1>2. mtimecmp_t * DIVIDEND \in Nat /\ time * DIVIDEND \in Nat
  BY DEF ClintInv, TimerTypes, TimerConstants
<1>3. QED
  BY <1>1, <1>2 DEF ClintInv, TimerTypes, Timer!TimerExact, Timer!NoTimerLost,
     Timer!NoTimerEarly, Timer!SleepAssertion, Timer!More, TimerConstants

LEMMA WriteStep ==
    ASSUME TimerConstants, ClintInv, NEW cmp \in Comparands,
           Timer!post_write_mtimecmp(cmp)
    PROVE  ClintInv'
<1>1. /\ mtimecmp_t' = cmp /\ time' = Timer!usec_to_ticks(clock) /\ main_t' = "pause"
      /\ writes_t' = writes_t + 1
      /\ UNCHANGED <<clock, mtip_t, event_t, thread, count, until>>
  BY DEF Timer!post_write_mtimecmp
<1>2. time' \in Nat /\ time' * DIVIDEND <= clock'
  BY <1>1, HostTicksReached DEF ClintInv, TimerTypes
<1>3. QED
  BY <1>1, <1>2 DEF ClintInv, TimerTypes, Timer!TimerExact, Timer!NoTimerLost,
     Timer!NoTimerEarly, Timer!SleepAssertion, TimerConstants

LEMMA StartStep ==
    ASSUME TimerConstants, ClintInv, Timer!start
    PROVE  ClintInv'
<1>1. /\ main_t' = "idle" /\ mtip_t' = (time >= mtimecmp_t) /\ cancelled' = FALSE
      /\ thread' = IF time < mtimecmp_t THEN "created" ELSE "none"
      /\ count' = IF time < mtimecmp_t THEN Timer!ticks_to_usec(mtimecmp_t - time) ELSE 0
      /\ UNCHANGED <<clock, mtimecmp_t, time, event_t, until, writes_t>>
  BY DEF Timer!start
<1>2. /\ clock \in Nat /\ mtimecmp_t \in Nat /\ time \in Nat
      /\ DIVIDEND \in Nat /\ DIVIDEND > 0 /\ time * DIVIDEND <= clock
  BY DEF ClintInv, TimerTypes, TimerConstants
<1>3. CASE time < mtimecmp_t
  <2> DEFINE d == mtimecmp_t - time
  <2>1. d \in Nat /\ 1 <= d /\ mtimecmp_t = time + d
    BY <1>2, <1>3
  <2> HIDE DEF d
  <2>2. d * DIVIDEND \in Nat /\ DIVIDEND <= d * DIVIDEND
    <3>1. 1 * DIVIDEND <= d * DIVIDEND
      BY <1>2, <2>1, MulMonotone
    <3>2. QED
      BY <1>2, <2>1, <3>1
  <2>3. count' = d * DIVIDEND
    BY <1>1, <1>3 DEF Timer!ticks_to_usec, d
  <2>4. clock + d * DIVIDEND >= mtimecmp_t * DIVIDEND
    <3>1. mtimecmp_t * DIVIDEND = time * DIVIDEND + d * DIVIDEND
      BY <1>2, <2>1
    <3>2. time * DIVIDEND \in Nat
      BY <1>2
    <3>3. QED
      BY <1>2, <2>2, <3>1, <3>2
  <2>5. count' \in Nat /\ count' > 0 /\ clock' + count' >= mtimecmp_t' * DIVIDEND
    BY <1>1, <1>2, <2>2, <2>3, <2>4
  <2>6. thread' = "created" /\ ~mtip_t'
    <3>1. ~(time >= mtimecmp_t)
      BY <1>2, <1>3
    <3>2. QED
      BY <1>1, <1>3, <3>1, Zenon
  <2>7. /\ TimerTypes' /\ (time * DIVIDEND <= clock)'
        /\ (thread = "created" => count > 0)' /\ (cancelled => main_t = "pause")'
    <3>1. TimerTypes'
      BY <1>1, <2>5 DEF ClintInv, TimerTypes
    <3>2. (time * DIVIDEND <= clock)' /\ (thread = "created" => count > 0)'
      BY <1>1, <1>2, <2>5
    <3>3. (cancelled => main_t = "pause")'
      BY <1>1, Zenon
    <3>4. QED
      BY <3>1, <3>2, <3>3
  <2>8. Timer!NoTimerLost' /\ Timer!NoTimerEarly' /\ Timer!SleepAssertion'
    BY <2>5, <2>6 DEF Timer!NoTimerLost, Timer!NoTimerEarly, Timer!SleepAssertion
  <2>9. QED
    BY <2>7, <2>8 DEF ClintInv, Timer!TimerExact
<1>4. CASE ~(time < mtimecmp_t)
  <2>1. mtimecmp_t * DIVIDEND <= time * DIVIDEND
    BY <1>2, <1>4, MulMonotone
  <2>2. mtimecmp_t * DIVIDEND \in Nat /\ time * DIVIDEND \in Nat
    BY <1>2
  <2>3. clock' >= mtimecmp_t' * DIVIDEND
    BY <1>1, <1>2, <2>1, <2>2
  <2>4. mtip_t' /\ thread' = "none" /\ count' = 0
    <3>1. time >= mtimecmp_t
      BY <1>2, <1>4
    <3>2. QED
      BY <1>1, <1>4, <3>1, Zenon
  <2>5. /\ TimerTypes' /\ (time * DIVIDEND <= clock)'
        /\ (thread = "created" => count > 0)' /\ (cancelled => main_t = "pause")'
    <3>1. TimerTypes'
      BY <1>1, <2>4 DEF ClintInv, TimerTypes
    <3>2. (time * DIVIDEND <= clock)' /\ (thread = "created" => count > 0)'
      BY <1>1, <1>2, <2>4
    <3>3. (cancelled => main_t = "pause")'
      BY <1>1, Zenon
    <3>4. QED
      BY <3>1, <3>2, <3>3
  <2>6. Timer!NoTimerLost' /\ Timer!NoTimerEarly' /\ Timer!SleepAssertion'
    BY <2>3, <2>4 DEF Timer!NoTimerLost, Timer!NoTimerEarly, Timer!SleepAssertion
  <2>7. QED
    BY <2>5, <2>6 DEF ClintInv, Timer!TimerExact
<1>5. QED
  BY <1>3, <1>4

LEMMA InterruptStep ==
    ASSUME TimerConstants, ClintInv, Timer!interrupt
    PROVE  ClintInv'
<1>1. /\ mtip_t' = (mtip_t \/ Timer!usec_to_ticks(clock) >= mtimecmp_t) /\ main_t = "idle"
      /\ UNCHANGED <<clock, mtimecmp_t, main_t, time, thread, running, cancelled,
                     count, until, writes_t>>
  BY DEF Timer!interrupt, Timer!timerVars
<1>2. Timer!usec_to_ticks(clock) >= mtimecmp_t <=> clock >= mtimecmp_t * DIVIDEND
  BY HostTicksReached DEF ClintInv, TimerTypes
<1>3. TimerTypes' /\ (time * DIVIDEND <= clock)' /\ (thread = "created" => count > 0)'
      /\ (cancelled => main_t = "pause")' /\ Timer!SleepAssertion'
  BY <1>1 DEF ClintInv, TimerTypes, Timer!TimerExact, Timer!SleepAssertion
<1>4. CASE clock >= mtimecmp_t * DIVIDEND
  BY <1>1, <1>2, <1>3, <1>4, Zenon DEF ClintInv, Timer!TimerExact, Timer!NoTimerLost,
     Timer!NoTimerEarly
<1>5. CASE ~(clock >= mtimecmp_t * DIVIDEND)
  BY <1>1, <1>2, <1>3, <1>5, Zenon
     DEF ClintInv, Timer!TimerExact, Timer!NoTimerLost, Timer!NoTimerEarly, Timer!More
<1>6. QED
  BY <1>4, <1>5

LEMMA ThreadStep ==
    ASSUME TimerConstants, ClintInv,
           Timer!Sleep \/ Timer!Wake \/ Timer!Cancel \/ Timer!timercb
    PROVE  ClintInv'
<1>1. /\ UNCHANGED <<clock, mtimecmp_t, mtip_t, main_t, time, cancelled, writes_t>>
      /\ clock \in Nat /\ count \in Nat /\ until \in Nat /\ US_MAX \in Nat
      /\ mtimecmp_t * DIVIDEND \in Nat
  BY DEF Timer!Sleep, Timer!Wake, Timer!Cancel, Timer!timercb, ClintInv,
     TimerTypes, TimerConstants
<1> USE DEF ClintInv, TimerTypes, Timer!TimerExact, Timer!NoTimerLost,
   Timer!NoTimerEarly, Timer!SleepAssertion, Timer!More, TimerConstants
<1>2. CASE Timer!Sleep
  <2>1. /\ thread = "created" /\ thread' = "asleep" /\ UNCHANGED <<event_t, count>>
        /\ until' = clock + (IF Timer!More(count) THEN US_MAX ELSE count)
    BY <1>2 DEF Timer!Sleep
  <2>2. QED
    BY <1>1, <2>1
<1>3. CASE Timer!Wake
  <2>1. /\ thread = "asleep" /\ clock >= until /\ UNCHANGED <<event_t, until>>
        /\ thread' = IF Timer!More(count) THEN "created" ELSE "notify"
        /\ count' = IF Timer!More(count) THEN count - US_MAX ELSE 0
    BY <1>3 DEF Timer!Wake
  <2>2. QED
    BY <1>1, <2>1
<1>4. CASE Timer!Cancel
  BY <1>1, <1>4 DEF Timer!Cancel
<1>5. CASE Timer!timercb
  BY <1>1, <1>5 DEF Timer!timercb
<1>6. QED
  BY <1>2, <1>3, <1>4, <1>5

(* Whatever the order in which the guest writes comparands, the timer's    *)
(* thread is cancelled, sleeps and wakes, and the kernel delivers the      *)
(* events of earlier timers: an interrupt that is due is not lost, none is *)
(* set early, and the thread is never asked to sleep for no time.          *)
THEOREM TimerAlwaysExact ==
    ASSUME TimerConstants
    PROVE  Timer!Spec => []Timer!TimerExact
<1>1. Timer!Init => ClintInv
  BY DEF Timer!Init, ClintInv, TimerTypes, Timer!TimerExact, Timer!NoTimerLost,
     Timer!NoTimerEarly, Timer!SleepAssertion, TimerConstants
<1>2. ASSUME ClintInv, [Timer!Next]_(Timer!vars) PROVE ClintInv'
  <2>1. CASE UNCHANGED Timer!vars
    BY <1>2, <2>1 DEF Timer!vars, Timer!timerVars, ClintInv, TimerTypes,
       Timer!TimerExact, Timer!NoTimerLost, Timer!NoTimerEarly,
       Timer!SleepAssertion, Timer!More
  <2>2. QED
    BY <1>2, <2>1, TickStep, WriteStep, StartStep, InterruptStep, ThreadStep DEF
       Timer!Next
<1>3. ClintInv => Timer!TimerExact
  BY SMTT(30) DEF ClintInv
<1>4. QED
  BY <1>1, <1>2, <1>3, PTL DEF Timer!Spec
============================================================================
