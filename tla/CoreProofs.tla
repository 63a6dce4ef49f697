----------------------------- MODULE CoreProofs -----------------------------
(***************************************************************************)
(* Proofs about what the core's instructions act on: the control and       *)
(* status registers, for any guest and any operands, the memory the guest  *)
(* starts with, for any image, and the registers of devices.               *)
(***************************************************************************)
EXTENDS CsrFile, TLAPS

(* What the proofs need of the registers: there is one for every slot.     *)
IsFile(s) == DOMAIN s = Slots /\ s = [r \in Slots |-> s[r]]

CsrInv == IsFile(csrs) /\ prv \in 0..3

(* The operands are words, the addresses numbers.                          *)
Addresses == 0..4095

CsrConstants ==
    /\ Reads \subseteq Addresses /\ Writes \subseteq Addresses
    /\ Words \subseteq SUBSET Bits

(* The addresses, in numbers.                                              *)
LEMMA BanksAre ==
    /\ STATUS = {0, 256, 768} /\ IE = {4, 260, 772} /\ TVEC = {5, 261, 773}
    /\ EPC = {65, 321, 833} /\ IP = {68, 324, 836}
BY DEF STATUS, IE, TVEC, EPC, IP, LevelBank, Modes, UserMode, SupervisorMode, MachineMode

LEMMA HpmAre ==
    ANY_HPMCOUNTER = (3075..3103) \cup (3203..3231) \cup (2819..2847) \cup (2947..2975)
                       \cup (803..831)
<1> DEFINE H == HpmAddresses
<1>1. DOMAIN H = {"counter", "counterh", "mcounter", "mcounterh", "mevent"}
  BY DEF HpmAddresses
<1>2. /\ H["counter"] = 3075..3103 /\ H["counterh"] = 3203..3231
      /\ H["mcounter"] = 2819..2847 /\ H["mcounterh"] = 2947..2975
      /\ H["mevent"] = 803..831
  BY DEF HpmAddresses
<1> HIDE DEF H
<1>3. UNION {H[k] : k \in DOMAIN H} =
        H["counter"] \cup H["counterh"] \cup H["mcounter"] \cup H["mcounterh"] \cup H["mevent"]
  BY <1>1
<1> QED BY <1>2, <1>3 DEF ANY_HPMCOUNTER, H

(* A slot the code names is one of the slots.                              *)
LEMMA NamedSlots ==
    /\ <<"mstatus", 0>> \in Slots /\ <<"mie", 0>> \in Slots /\ <<"mip", 0>> \in Slots
    /\ <<"fcsr", 0>> \in Slots
<1>1. /\ <<768, <<"mstatus", 0>> >> \in ViewMap /\ <<772, <<"mie", 0>> >> \in ViewMap
      /\ <<836, <<"mip", 0>> >> \in ViewMap
  BY DEF ViewMap
<1>2. <<FCSR, <<"fcsr", 0>> >> \in SingleMap
  BY DEF SingleMap
<1>3. ViewMap \subseteq Mapping /\ SingleMap \subseteq Mapping
  BY Zenon DEF Mapping
<1> QED BY <1>1, <1>2, <1>3 DEF Slots

LEMMA TimeSlots ==
    ASSUME NEW half \in {0, 1}
    PROVE  <<"time", half>> \in Slots /\ <<"cycle", half>> \in Slots
<1> DEFINE At(r) == <<3072 + 128 * half + r[1], <<r[2], half>> >>
           T == <<1, "time">>
           C == <<0, "cycle">>
<1>1. At(T) \in CounterMap /\ At(C) \in CounterMap
  BY DEF CounterMap
<1>2. CounterMap \subseteq Mapping
  BY Zenon DEF Mapping
<1>3. At(T)[2] = <<"time", half>> /\ At(C)[2] = <<"cycle", half>>
  OBVIOUS
<1> HIDE DEF At, T, C
<1> QED BY <1>1, <1>2, <1>3 DEF Slots

(* The address of a valid access leads to one of the entries of the table. *)
LEMMA SlotFound ==
    ASSUME NEW addr \in ValidAddrs
    PROVE  \E m \in Mapping : m[1] = addr /\ m[2] = SlotOf(addr) /\ SlotOf(addr) \in Slots
<1>1. \E m \in Mapping : m[1] = addr
  BY DEF ValidAddrs
<1> QED BY <1>1 DEF SlotOf, Slots

(* What the table is for: a register belongs to the level its address      *)
(* names, but for the views of mstatus, mie and mip, and the counters.     *)
ByLevel(addr, slot) ==
    \/ slot[1] \in Counters
    \/ /\ addr \in (0..1000) \cup (3500..4095)
       /\ \/ addr \in STATUS \cup IE \cup IP \cup {MISA}
          \/ \A p \in 0..3 : LevelOf(addr) <= p => Owned(slot, p) = Bits

LevelNames == {"edeleg", "ideleg", "counteren", "tvec", "scratch", "epc", "cause", "tval"}
MachineNames == {"mvendorid", "marchid", "mimpid", "mhartid", "mcountinhibit", "pmpaddr", "pmpcfg"}

LEMMA MachineByLevel ==
    ASSUME NEW addr \in (768..1000) \cup (3840..4095), NEW slot, slot[1] \in MachineNames
    PROVE  ByLevel(addr, slot)
<1>1. LevelOf(addr) = 3
  BY DEF LevelOf
<1>2. Owned(slot, 3) = Bits
  BY DEF Owned, MachineMode, MachineNames
<1>3. \A p \in 0..3 : 3 <= p => p = 3
  OBVIOUS
<1>4. addr \in (0..1000) \cup (3500..4095)
  OBVIOUS
<1> QED BY <1>1, <1>2, <1>3, <1>4 DEF ByLevel

LEMMA LevelByLevel ==
    ASSUME NEW addr, NEW slot, NEW level \in {0, 1, 3}, NEW i \in 0..200,
           addr = 256 * level + i, slot[1] \in LevelNames, slot[2] = level
    PROVE  ByLevel(addr, slot)
<1>1. LevelOf(addr) = level
  BY DEF LevelOf
<1>2. \A p : level <= p => Owned(slot, p) = Bits
  BY DEF Owned, LevelNames
<1>3. addr \in (0..1000) \cup (3500..4095)
  OBVIOUS
<1> QED BY <1>1, <1>2, <1>3 DEF ByLevel

LEMMA MappedByLevel == ASSUME NEW m \in Mapping PROVE ByLevel(m[1], m[2])
<1>1. CASE m \in CounterMap
  <2>1. m[2][1] \in Counters
    BY <1>1 DEF CounterMap, Counters
  <2> QED BY <2>1 DEF ByLevel
<1>2. CASE m \in MachineMap
  <2>1. m[1] \in (768..1000) \cup (3840..4095)
    BY <1>2 DEF MachineMap
  <2>2. m[2][1] \in MachineNames
    BY <1>2 DEF MachineMap, MachineNames
  <2> QED BY <2>1, <2>2, MachineByLevel
<1>3. CASE m \in ViewMap
  <2>1. m[1] \in {768, 772, 836}
    BY <1>3 DEF ViewMap
  <2> QED BY <2>1, BanksAre DEF ByLevel
<1>4. CASE m \in DelegationMap
  <2>1. PICK level \in {1, 3}, r \in {<<2, "edeleg">>, <<3, "ideleg">>, <<6, "counteren">>} :
           m = <<256 * level + r[1], <<r[2], level>> >>
    BY <1>4 DEF DelegationMap, SupervisorMode, MachineMode
  <2>2. r[1] \in 0..200 /\ r[2] \in LevelNames /\ level \in {0, 1, 3}
    BY DEF LevelNames
  <2>3. m[1] = 256 * level + r[1] /\ m[2][1] \in LevelNames /\ m[2][2] = level
    BY <2>1, <2>2
  <2> QED BY <2>2, <2>3, LevelByLevel
<1>5. CASE m \in TrapMap
  <2>1. PICK level \in {0, 1, 3}, r \in {<<5, "tvec">>, <<64, "scratch">>, <<65, "epc">>,
                                         <<66, "cause">>, <<67, "tval">>} :
           m = <<256 * level + r[1], <<r[2], level>> >>
    BY <1>5 DEF TrapMap, Modes, UserMode, SupervisorMode, MachineMode
  <2>2. r[1] \in 0..200 /\ r[2] \in LevelNames
    BY DEF LevelNames
  <2>3. m[1] = 256 * level + r[1] /\ m[2][1] \in LevelNames /\ m[2][2] = level
    BY <2>1, <2>2
  <2> QED BY <2>2, <2>3, LevelByLevel
<1>6. CASE m \in PmpMap
  <2>1. m[1] \in (768..1000) \cup (3840..4095)
    BY <1>6 DEF PmpMap
  <2>2. m[2][1] \in MachineNames
    BY <1>6 DEF PmpMap, MachineNames
  <2> QED BY <2>1, <2>2, MachineByLevel
<1>7. CASE m \in SingleMap
  <2>1. CASE m = <<MISA, <<"misa", 0>> >>
    BY <2>1 DEF ByLevel, MISA
  <2>2. CASE m = <<SATP, <<"satp", 0>> >>
    <3>1. LevelOf(384) = 1
      BY DEF LevelOf
    <3>2. \A p \in 0..3 : 1 <= p => Owned(<<"satp", 0>>, p) = Bits
      BY DEF Owned, SupervisorMode
    <3> QED BY <2>2, <3>1, <3>2 DEF ByLevel, SATP
  <2>3. CASE m = <<FCSR, <<"fcsr", 0>> >>
    <3>1. \A p \in 0..3 : Owned(<<"fcsr", 0>>, p) = Bits
      BY DEF Owned
    <3> QED BY <2>3, <3>1 DEF ByLevel, FCSR
  <2> QED BY <1>7, <2>1, <2>2, <2>3 DEF SingleMap
<1>8. m \in CounterMap \cup MachineMap \cup ViewMap \cup DelegationMap \cup TrapMap \cup PmpMap
            \cup SingleMap
  BY Zenon DEF Mapping
<1> QED BY <1>1, <1>2, <1>3, <1>4, <1>5, <1>6, <1>7, <1>8, Zenon

-----------------------------------------------------------------------------
(* What a read changes: nothing but the copies of the counters.            *)
LEMMA FreshIs ==
    ASSUME NEW s, IsFile(s), NEW name \in {"time", "cycle"}, NEW at
    PROVE  /\ IsFile(Refreshed(s, name, at))
           /\ \A slot \in Slots : slot[1] \notin Counters => Refreshed(s, name, at)[slot] = s[slot]
<1> DEFINE t == Refreshed(s, name, at)
<1>1. <<name, 0>> \in Slots /\ <<name, 1>> \in Slots
  BY TimeSlots
<1>2. \A slot \in Slots : slot[1] \notin Counters => slot # <<name, 0>> /\ slot # <<name, 1>>
  BY DEF Counters
<1>3. \A slot \in Slots : t[slot] =
          IF slot = <<name, 1>> THEN Clock[at][2]
          ELSE IF slot = <<name, 0>> THEN Clock[at][1] ELSE s[slot]
  BY DEF IsFile, Refreshed
<1>4. IsFile(t)
  BY DEF IsFile, Refreshed
<1> HIDE DEF t
<1>5. \A slot \in Slots : slot[1] \notin Counters => t[slot] = s[slot]
  BY <1>2, <1>3
<1> QED BY <1>4, <1>5 DEF t

LEMMA FreshHalf ==
    ASSUME NEW s, IsFile(s), NEW name \in {"time", "cycle"}, NEW at, NEW half \in {0, 1}
    PROVE  Refreshed(s, name, at)[<<name, half>>] = Clock[at][1 + half]
<1>1. <<name, half>> \in Slots
  BY TimeSlots
<1> QED BY <1>1 DEF IsFile, Refreshed

LEMMA RefreshIs ==
    ASSUME NEW s, IsFile(s), NEW addr
    PROVE  /\ IsFile(Refresh(s, addr))
           /\ \A slot \in Slots : slot[1] \notin Counters => Refresh(s, addr)[slot] = s[slot]
<1>1. Refresh(s, addr) \in {Refreshed(s, "time", instrs + 1), Refreshed(s, "cycle", cycles), s}
  BY DEF Refresh
<1>2. "time" \in {"time", "cycle"} /\ "cycle" \in {"time", "cycle"}
  OBVIOUS
<1>3. CASE Refresh(s, addr) = Refreshed(s, "time", instrs + 1)
  BY <1>2, <1>3, FreshIs
<1>4. CASE Refresh(s, addr) = Refreshed(s, "cycle", cycles)
  BY <1>2, <1>4, FreshIs
<1> QED BY <1>1, <1>3, <1>4

(* A counter is read from its copy, which is fresh.                        *)
LEMMA CounterAddress ==
    ASSUME NEW m \in Mapping, m[1] \in TIMES \cup MCYCLES
    PROVE  /\ m[1] \in TIMES => m[2] = <<"time", HalfOf(m[1])>>
           /\ m[1] \in MCYCLES => m[2] = <<"cycle", HalfOf(m[1])>>
           /\ HalfOf(m[1]) \in {0, 1}
<1>1. m[1] \in {3073, 3201, 2817, 2945, 2816, 2944}
  BY DEF TIMES, MCYCLES
<1>2. m \in CounterMap
  <2>1. m \notin MachineMap
    BY <1>1 DEF MachineMap
  <2>2. m \notin ViewMap
    BY <1>1 DEF ViewMap
  <2>3. m \notin DelegationMap
    BY <1>1 DEF DelegationMap, SupervisorMode, MachineMode
  <2>4. m \notin TrapMap
    BY <1>1 DEF TrapMap, Modes, UserMode, SupervisorMode, MachineMode
  <2>5. m \notin PmpMap
    BY <1>1 DEF PmpMap
  <2>6. m \notin SingleMap
    BY <1>1 DEF SingleMap, MISA, SATP, FCSR
  <2>7. m \in CounterMap \cup MachineMap \cup ViewMap \cup DelegationMap \cup TrapMap
              \cup PmpMap \cup SingleMap
    BY Zenon DEF Mapping
  <2> QED BY <2>1, <2>2, <2>3, <2>4, <2>5, <2>6, <2>7, Zenon
<1>3. PICK base \in {3072, 2816}, half \in {0, 1},
           r \in {<<0, "cycle">>, <<1, "time">>, <<2, "instret">>} :
         m = <<base + 128 * half + r[1], <<r[2], half>> >>
  BY <1>2 DEF CounterMap
<1>4. r[1] \in 0..2 /\ m[1] = base + 128 * half + r[1] /\ m[2] = <<r[2], half>>
  BY <1>3
<1>5. HalfOf(m[1]) = half
  BY <1>4 DEF HalfOf
<1>6. /\ m[1] \in TIMES => r[1] = 1
      /\ m[1] \in MCYCLES => r[1] = 0
  BY <1>4 DEF TIMES, MCYCLES
<1>7. (r[1] = 1 => r[2] = "time") /\ (r[1] = 0 => r[2] = "cycle")
  OBVIOUS
<1> QED BY <1>4, <1>5, <1>6, <1>7

LEMMA CounterValue ==
    ASSUME NEW s, IsFile(s), NEW p, NEW addr \in TIMES \cup MCYCLES, IsReadable(s, p, addr)
    PROVE  /\ addr \in TIMES =>
                ValueAt(Refresh(s, addr), addr) = Clock[instrs + 1][1 + HalfOf(addr)]
           /\ addr \in MCYCLES =>
                ValueAt(Refresh(s, addr), addr) = Clock[cycles][1 + HalfOf(addr)]
<1>1. addr \in {3073, 3201, 2817, 2945, 2816, 2944}
  BY DEF TIMES, MCYCLES
<1>2. addr \notin STATUS \cup IP \cup IE \cup {FCSR, FFLAGS, FRM} \cup ANY_HPMCOUNTER \cup DEBUG
  BY <1>1, BanksAre, HpmAre DEF FCSR, FFLAGS, FRM, DEBUG
<1>3. addr \in ValidAddrs
  BY <1>2 DEF IsReadable, is_valid_csr32_addr
<1>4. PICK m \in Mapping : m[1] = addr /\ m[2] = SlotOf(addr)
  BY <1>3, SlotFound
<1>5. ValueAt(Refresh(s, addr), addr) = Refresh(s, addr)[SlotOf(addr)]
  BY <1>2 DEF ValueAt, TSELECT, DEBUG
<1>6. CASE addr \in TIMES
  <2>1. Refresh(s, addr) = Refreshed(s, "time", instrs + 1) /\ addr \notin MCYCLES
    BY <1>6 DEF Refresh, TIMES, MCYCLES
  <2>2. SlotOf(addr) = <<"time", HalfOf(addr)>> /\ HalfOf(addr) \in {0, 1}
    BY <1>4, <1>6, CounterAddress
  <2>3. Refreshed(s, "time", instrs + 1)[<<"time", HalfOf(addr)>>]
          = Clock[instrs + 1][1 + HalfOf(addr)]
    <3>1. "time" \in {"time", "cycle"}
      OBVIOUS
    <3> QED BY <2>2, <3>1, FreshHalf
  <2> QED BY <1>5, <2>1, <2>2, <2>3
<1>7. CASE addr \in MCYCLES
  <2>1. Refresh(s, addr) = Refreshed(s, "cycle", cycles) /\ addr \notin TIMES
    BY <1>7 DEF Refresh, TIMES, MCYCLES
  <2>2. SlotOf(addr) = <<"cycle", HalfOf(addr)>> /\ HalfOf(addr) \in {0, 1}
    BY <1>4, <1>7, CounterAddress
  <2>3. Refreshed(s, "cycle", cycles)[<<"cycle", HalfOf(addr)>>]
          = Clock[cycles][1 + HalfOf(addr)]
    <3>1. "cycle" \in {"time", "cycle"}
      OBVIOUS
    <3> QED BY <2>2, <3>1, FreshHalf
  <2> QED BY <1>5, <2>1, <2>2, <2>3
<1> QED BY <1>6, <1>7

-----------------------------------------------------------------------------
(* A write changes one slot, under a mask.                                 *)
LEMMA WriteIs ==
    ASSUME NEW t, IsFile(t), NEW slot \in Slots, NEW mask, NEW word
    PROVE  IsFile(write(t, slot, mask, word))
BY DEF IsFile, write

LEMMA WriteSlotIs ==
    ASSUME NEW t, NEW addr, IsWritable(t, addr), ~IsHardwired(addr)
    PROVE  WriteSlot(addr) \in Slots
<1>1. addr \in STATUS \cup IE \cup IP \cup {FFLAGS, FRM} \/ addr \in ValidAddrs
  BY Zenon DEF IsWritable, is_valid_csr32_addr
<1>2. WriteSlot(addr) \in {<<"mstatus", 0>>, <<"mie", 0>>, <<"mip", 0>>, <<"fcsr", 0>>}
      \/ (addr \in ValidAddrs /\ WriteSlot(addr) = SlotOf(addr))
  BY <1>1 DEF WriteSlot
<1> QED BY <1>2, NamedSlots, SlotFound

LEMMA SetIs ==
    ASSUME NEW t, IsFile(t), NEW addr, NEW v, set_csr_value(t, addr, v).ok
    PROVE  LET w == set_csr_value(t, addr, v).csrs IN
           /\ IsFile(w)
           /\ IsHardwired(addr) => w = t
           /\ ~IsHardwired(addr) =>
                /\ IsWritable(t, addr)
                /\ \A r \in Slots : w[r] =
                     IF r = WriteSlot(addr)
                     THEN (t[r] \ WriteMask(addr)) \cup (WriteWord(addr, v) \cap WriteMask(addr))
                     ELSE t[r]
<1>1. CASE IsHardwired(addr)
  <2>1. set_csr_value(t, addr, v) = [ok |-> TRUE, csrs |-> t]
    BY <1>1 DEF set_csr_value
  <2> QED BY <1>1, <2>1
<1>2. CASE ~IsHardwired(addr)
  <2>1. IsWritable(t, addr)
    BY <1>2 DEF set_csr_value
  <2> DEFINE w == write(t, WriteSlot(addr), WriteMask(addr), WriteWord(addr, v))
  <2>2. set_csr_value(t, addr, v) = [ok |-> TRUE, csrs |-> w]
    BY <1>2, <2>1 DEF set_csr_value
  <2>3. WriteSlot(addr) \in Slots
    BY <1>2, <2>1, WriteSlotIs
  <2>4. IsFile(w)
    BY <2>3, WriteIs, Zenon
  <2>5. \A r \in Slots :
           w[r] = IF r = WriteSlot(addr)
                  THEN (t[r] \ WriteMask(addr)) \cup (WriteWord(addr, v) \cap WriteMask(addr))
                  ELSE t[r]
    <3> DEFINE slot == WriteSlot(addr)
               mask == WriteMask(addr)
               word == WriteWord(addr, v)
    <3>1. slot \in Slots
      BY <2>3
    <3> HIDE DEF slot, mask, word
    <3>2. \A r \in Slots : write(t, slot, mask, word)[r] =
             IF r = slot THEN (t[r] \ mask) \cup (word \cap mask) ELSE t[r]
      BY <3>1 DEF write, IsFile
    <3> QED BY <3>2, Zenon DEF slot, mask, word
  <2> HIDE DEF w
  <2>6. set_csr_value(t, addr, v).csrs = w
    BY <2>2
  <2> QED BY <1>2, <2>1, <2>4, <2>5, <2>6
<1> QED BY <1>1, <1>2

(* The views, the masked registers and the others have different           *)
(* addresses.                                                              *)
MaskedAddrs == TVEC \cup EPC \cup {771, 259, 770, 258, 774, 262, 800, SATP, FCSR, FFLAGS, FRM}

LEMMA ViewsApart ==
    /\ \A addr \in STATUS : addr \notin IE \cup IP \cup MaskedAddrs \cup ANY_HPMCOUNTER \cup DEBUG
    /\ \A addr \in IE : addr \notin STATUS \cup IP \cup MaskedAddrs \cup ANY_HPMCOUNTER \cup DEBUG
    /\ \A addr \in IP : addr \notin STATUS \cup IE \cup MaskedAddrs \cup ANY_HPMCOUNTER \cup DEBUG
BY BanksAre, HpmAre DEF MaskedAddrs, SATP, FCSR, FFLAGS, FRM, DEBUG

LEMMA ViewWrite ==
    ASSUME NEW addr
    PROVE  /\ addr \in STATUS => /\ WriteSlot(addr) = <<"mstatus", 0>>
                                 /\ WriteMask(addr) = STATUS_MASK(LevelOf(addr))
           /\ addr \in IE => /\ WriteSlot(addr) = <<"mie", 0>>
                             /\ WriteMask(addr) = IE_MASK(LevelOf(addr))
           /\ addr \in IP => /\ WriteSlot(addr) = <<"mip", 0>>
                             /\ WriteMask(addr) = IP_WRITE_MASK(LevelOf(addr))
<1>1. ASSUME addr \in STATUS
      PROVE  WriteSlot(addr) = <<"mstatus", 0>> /\ WriteMask(addr) = STATUS_MASK(LevelOf(addr))
  <2>1. addr \notin IE \cup IP \cup MaskedAddrs
    BY <1>1, ViewsApart
  <2>2. WriteSlot(addr) = <<"mstatus", 0>>
    BY <1>1, <2>1 DEF WriteSlot, MaskedAddrs
  <2>3. WriteMask(addr) = STATUS_MASK(LevelOf(addr))
    BY <1>1, <2>1 DEF WriteMask, MaskedAddrs
  <2> QED BY <2>2, <2>3
<1>2. ASSUME addr \in IE
      PROVE  WriteSlot(addr) = <<"mie", 0>> /\ WriteMask(addr) = IE_MASK(LevelOf(addr))
  <2>1. addr \notin STATUS \cup IP \cup MaskedAddrs
    BY <1>2, ViewsApart
  <2>2. WriteSlot(addr) = <<"mie", 0>>
    BY <1>2, <2>1 DEF WriteSlot, MaskedAddrs
  <2>3. WriteMask(addr) = IE_MASK(LevelOf(addr))
    BY <1>2, <2>1 DEF WriteMask, MaskedAddrs
  <2> QED BY <2>2, <2>3
<1>3. ASSUME addr \in IP
      PROVE  WriteSlot(addr) = <<"mip", 0>> /\ WriteMask(addr) = IP_WRITE_MASK(LevelOf(addr))
  <2>1. addr \notin STATUS \cup IE \cup MaskedAddrs
    BY <1>3, ViewsApart
  <2>2. WriteSlot(addr) = <<"mip", 0>>
    BY <1>3, <2>1 DEF WriteSlot, MaskedAddrs
  <2>3. WriteMask(addr) = IP_WRITE_MASK(LevelOf(addr))
    BY <1>3, <2>1 DEF WriteMask, MaskedAddrs
  <2> QED BY <2>2, <2>3
<1> QED BY <1>1, <1>2, <1>3

(* The masks are in the words.                                             *)
LEMMA MaskInWord == ASSUME NEW addr PROVE WriteMask(addr) \subseteq Bits
<1>1. \A level \in {0, 1, 3} :
        /\ STATUS_MASK(level) \subseteq Bits /\ IE_MASK(level) \subseteq Bits
        /\ IP_WRITE_MASK(level) \subseteq Bits
  BY DEF STATUS_MASK, IE_MASK, IP_WRITE_MASK, Bits, MachineMode, SupervisorMode, UserMode
<1>2. addr \in STATUS \cup IE \cup IP => LevelOf(addr) \in {0, 1, 3}
  BY BanksAre DEF LevelOf
<1>3. /\ MTVEC_MASK \subseteq Bits /\ pc_alignment_mask \subseteq Bits
      /\ MEDELEG_MASK \subseteq Bits /\ SEDELEG_MASK \subseteq Bits
      /\ MCOUNTEREN_MASK \subseteq Bits /\ MCOUNTINHIBIT_MASK \subseteq Bits
      /\ SATP_MASK \subseteq Bits /\ FCSR_MASK \subseteq Bits
      /\ 0..4 \subseteq Bits /\ 5..7 \subseteq Bits
  BY DEF MTVEC_MASK, pc_alignment_mask, MEDELEG_MASK, SEDELEG_MASK, MCOUNTEREN_MASK,
         MCOUNTINHIBIT_MASK, SATP_MASK, FCSR_MASK, Bits
<1>4. IE_MASK(MachineMode) \subseteq Bits
  BY <1>1 DEF MachineMode
<1>5. CASE addr \in STATUS \cup IE \cup IP
  <2>1. WriteMask(addr) \in {STATUS_MASK(LevelOf(addr)), IE_MASK(LevelOf(addr)),
                             IP_WRITE_MASK(LevelOf(addr))}
    BY <1>5, ViewWrite
  <2> QED BY <1>1, <1>2, <1>5, <2>1
<1>6. CASE addr \notin STATUS \cup IE \cup IP
  <2>1. WriteMask(addr) \in {MTVEC_MASK, pc_alignment_mask, IE_MASK(MachineMode), MEDELEG_MASK,
           SEDELEG_MASK, MCOUNTEREN_MASK, MCOUNTINHIBIT_MASK, SATP_MASK, FCSR_MASK, 0..4, 5..7,
           Bits}
    BY <1>6 DEF WriteMask
  <2> QED BY <1>3, <1>4, <2>1
<1> QED BY <1>5, <1>6

(* The mask of a view is among the bits that its level owns.               *)
LEMMA ViewOwned ==
    ASSUME NEW addr \in STATUS \cup IE \cup IP, NEW p \in 0..3, LevelOf(addr) <= p
    PROVE  WriteMask(addr) \subseteq Owned(WriteSlot(addr), p)
<1>1. LevelOf(addr) \in {0, 1, 3}
  BY BanksAre DEF LevelOf
<1>3. CASE addr \in STATUS
  <2>1. WriteSlot(addr) = <<"mstatus", 0>> /\ WriteMask(addr) = STATUS_MASK(LevelOf(addr))
    BY <1>3, ViewWrite
  <2>2. Owned(<<"mstatus", 0>>, p) = UNION {StatusFields(m) : m \in 0..p}
    BY DEF Owned
  <2>3. CASE LevelOf(addr) = 0
    <3>1. StatusFields(0) \subseteq UNION {StatusFields(m) : m \in 0..p}
      OBVIOUS
    <3>2. STATUS_MASK(0) \subseteq StatusFields(0)
      BY DEF STATUS_MASK, StatusFields, UserMode, SupervisorMode, MachineMode, mstatus
    <3> QED BY <2>1, <2>2, <2>3, <3>1, <3>2
  <2>4. CASE LevelOf(addr) = 1
    <3>1. StatusFields(0) \cup StatusFields(1) \subseteq UNION {StatusFields(m) : m \in 0..p}
      BY <2>4
    <3>2. StatusFields(0) = {0, 4}
      BY DEF StatusFields, UserMode, SupervisorMode, mstatus
    <3>3. StatusFields(1) = {1, 5, 8, 13, 14, 15, 16, 18, 19, 31}
      BY DEF StatusFields, UserMode, SupervisorMode, mstatus
    <3>4. STATUS_MASK(1) \subseteq {0, 4} \cup {1, 5, 8, 13, 14, 15, 16, 18, 19, 31}
      BY DEF STATUS_MASK, UserMode, SupervisorMode, MachineMode
    <3> QED BY <2>1, <2>2, <2>4, <3>1, <3>2, <3>3, <3>4
  <2>5. CASE LevelOf(addr) = 3
    <3>1. StatusFields(3) \subseteq UNION {StatusFields(m) : m \in 0..p}
      BY <2>5
    <3>2. StatusFields(3) = Bits
      BY DEF StatusFields, UserMode, SupervisorMode
    <3>3. STATUS_MASK(3) \subseteq Bits
      BY DEF STATUS_MASK, UserMode, SupervisorMode, MachineMode, Bits
    <3> QED BY <2>1, <2>2, <2>5, <3>1, <3>2, <3>3
  <2> QED BY <1>1, <2>3, <2>4, <2>5
<1>4. CASE addr \in IE \cup IP
  <2>2. /\ WriteSlot(addr)[1] \in {"mie", "mip"}
        /\ WriteMask(addr) \in {IE_MASK(LevelOf(addr)), IP_WRITE_MASK(LevelOf(addr))}
    BY <1>4, ViewWrite
  <2>3. Owned(WriteSlot(addr), p) = {b \in Bits : b % 4 <= p /\ b < 12}
    BY <2>2 DEF Owned
  <2>4. /\ IE_MASK(0) = {0, 4, 8} /\ IE_MASK(1) = {0, 1, 4, 5, 8, 9}
        /\ IE_MASK(3) = {0, 1, 3, 4, 5, 7, 8, 9, 11}
        /\ IP_WRITE_MASK(0) = {0} /\ IP_WRITE_MASK(1) = {0, 1}
        /\ IP_WRITE_MASK(3) = {0, 1, 4, 5, 8, 9}
    BY DEF IE_MASK, IP_WRITE_MASK, UserMode, SupervisorMode, MachineMode
  <2> QED BY <1>1, <2>2, <2>3, <2>4 DEF Bits
<1> QED BY <1>3, <1>4

(* The table has one entry for fcsr.                                       *)
LEMMA FcsrAddress == SlotOf(FCSR) = <<"fcsr", 0>>
<1>1. ASSUME NEW m \in Mapping, m[1] = 3 PROVE m[2] = <<"fcsr", 0>>
  <2>1. m \notin CounterMap
    BY <1>1 DEF CounterMap
  <2>2. m \notin MachineMap
    BY <1>1 DEF MachineMap
  <2>3. m \notin ViewMap
    BY <1>1 DEF ViewMap
  <2>4. m \notin DelegationMap
    BY <1>1 DEF DelegationMap, SupervisorMode, MachineMode
  <2>5. m \notin TrapMap
    BY <1>1 DEF TrapMap, Modes, UserMode, SupervisorMode, MachineMode
  <2>6. m \notin PmpMap
    BY <1>1 DEF PmpMap
  <2>7. m \in CounterMap \cup MachineMap \cup ViewMap \cup DelegationMap \cup TrapMap
              \cup PmpMap \cup SingleMap
    BY Zenon DEF Mapping
  <2>8. m \in SingleMap
    BY <2>1, <2>2, <2>3, <2>4, <2>5, <2>6, <2>7, Zenon
  <2> QED BY <1>1, <2>8 DEF SingleMap, MISA, SATP, FCSR
<1>2. <<3, <<"fcsr", 0>> >> \in SingleMap
  BY DEF SingleMap, FCSR
<1>3. SingleMap \subseteq Mapping
  BY Zenon DEF Mapping
<1> QED BY <1>1, <1>2, <1>3 DEF SlotOf, FCSR

(* A read shows the bits that a write of the same address changes, as they *)
(* are.                                                                    *)
LEMMA ReadShowsWritten ==
    ASSUME NEW s, NEW addr, ~IsHardwired(addr), addr # FRM
    PROVE  ValueAt(s, addr) \cap WriteMask(addr) = s[WriteSlot(addr)] \cap WriteMask(addr)
<1>0. addr \notin ANY_HPMCOUNTER \cup DEBUG \cup {TSELECT}
  BY DEF IsHardwired, DEBUG, TSELECT
<1>1. CASE addr \in STATUS
  <2>1. addr \notin IE \cup IP \cup MaskedAddrs
    BY <1>1, ViewsApart
  <2>2. WriteSlot(addr) = <<"mstatus", 0>> /\ WriteMask(addr) = STATUS_MASK(LevelOf(addr))
    BY <1>1, ViewWrite
  <2>3. ValueAt(s, addr) = s[<<"mstatus", 0>>] \cap STATUS_MASK(LevelOf(addr))
    BY <1>0, <1>1, <2>1 DEF ValueAt, MaskedAddrs
  <2> QED BY <2>2, <2>3
<1>2. CASE addr \in IE
  <2>1. addr \notin STATUS \cup IP \cup MaskedAddrs
    BY <1>2, ViewsApart
  <2>2. WriteSlot(addr) = <<"mie", 0>> /\ WriteMask(addr) = IE_MASK(LevelOf(addr))
    BY <1>2, ViewWrite
  <2>3. ValueAt(s, addr) = s[<<"mie", 0>>] \cap IE_MASK(LevelOf(addr))
    BY <1>0, <1>2, <2>1 DEF ValueAt, MaskedAddrs
  <2> QED BY <2>2, <2>3
<1>3. CASE addr \in IP
  <2>1. addr \notin STATUS \cup IE \cup MaskedAddrs
    BY <1>3, ViewsApart
  <2>2. WriteSlot(addr) = <<"mip", 0>> /\ WriteMask(addr) = IP_WRITE_MASK(LevelOf(addr))
    BY <1>3, ViewWrite
  <2>3. ValueAt(s, addr) = s[<<"mip", 0>>] \cap IP_READ_MASK(LevelOf(addr))
    BY <1>0, <1>3, <2>1 DEF ValueAt, MaskedAddrs
  <2>4. LevelOf(addr) \in {0, 1, 3}
    BY <1>3, BanksAre DEF LevelOf
  <2>5. IP_WRITE_MASK(LevelOf(addr)) \subseteq IP_READ_MASK(LevelOf(addr))
    BY <2>4 DEF IP_WRITE_MASK, IP_READ_MASK, IE_MASK, UserMode, SupervisorMode, MachineMode
  <2> QED BY <2>2, <2>3, <2>5
<1>4. CASE addr \notin STATUS \cup IE \cup IP
  <2>1. CASE addr = FFLAGS
    <3>1. addr \notin TVEC \cup EPC
      BY <2>1, BanksAre DEF FFLAGS
    <3>2. WriteSlot(addr) = <<"fcsr", 0>>
      BY <1>4, <2>1 DEF WriteSlot
    <3>3. WriteMask(addr) = 0..4
      BY <1>4, <2>1, <3>1 DEF WriteMask, FFLAGS, FRM, FCSR, SATP
    <3>4. ValueAt(s, addr) = s[<<"fcsr", 0>>] \cap (0..4)
      BY <1>0, <1>4, <2>1 DEF ValueAt, FFLAGS, FRM, FCSR
    <3> QED BY <3>2, <3>3, <3>4
  <2>2. CASE addr = FCSR
    <3>1. addr \notin TVEC \cup EPC
      BY <2>2, BanksAre DEF FCSR
    <3>2. SlotOf(addr) = <<"fcsr", 0>>
      BY <2>2, FcsrAddress
    <3>3. WriteSlot(addr) = <<"fcsr", 0>>
      BY <1>4, <2>2, <3>2 DEF WriteSlot, FCSR, FFLAGS, FRM
    <3>4. WriteMask(addr) = FCSR_MASK
      BY <1>4, <2>2, <3>1 DEF WriteMask, FFLAGS, FRM, FCSR, SATP
    <3>5. ValueAt(s, addr) = s[<<"fcsr", 0>>] \cap FCSR_MASK
      BY <1>0, <1>4, <2>2 DEF ValueAt, FFLAGS, FRM, FCSR
    <3> QED BY <3>3, <3>4, <3>5
  <2>3. CASE addr \notin {FFLAGS, FCSR}
    <3>1. WriteSlot(addr) = SlotOf(addr)
      BY <1>4, <2>3 DEF WriteSlot
    <3>2. ValueAt(s, addr) = s[SlotOf(addr)]
      BY <1>0, <1>4, <2>3 DEF ValueAt
    <3> QED BY <3>1, <3>2
  <2> QED BY <2>1, <2>2, <2>3
<1> QED BY <1>1, <1>2, <1>3, <1>4

-----------------------------------------------------------------------------
(* An instruction that reads and writes: what it writes back to a register *)
(* it has read, and the slot that differs afterwards.                      *)
NewValue(i, old) == CASE i[1] = "CSRRW" -> i[3]
                      [] i[1] = "CSRRS" -> old \cup i[3]
                      [] i[1] = "CSRRC" -> old \ i[3]
ReadBy(i) == Refresh(csrs, i[2])
WrittenBy(i) == WriteWord(i[2], NewValue(i, ValueAt(ReadBy(i), i[2])))

LEMMA Outcomes ==
    ASSUME CsrInv, CsrConstants, NEW i \in Instructions, Outcome(i).ok
    PROVE  LET w == set_csr_value(ReadBy(i), i[2], NewValue(i, ValueAt(ReadBy(i), i[2]))) IN
           /\ w.ok /\ Outcome(i).csrs = w.csrs
           /\ LevelOf(i[2]) <= prv /\ LevelOf(i[2]) \in Int /\ i[3] \subseteq Bits
<1>1. i[1] \in Operations /\ i[2] \in Writes /\ i[3] \in Words
  BY DEF Instructions
<1>2. i[2] \in Addresses /\ i[3] \subseteq Bits
  <2>1. i[2] \in Addresses
    BY <1>1 DEF CsrConstants
  <2>2. i[3] \in SUBSET Bits
    BY <1>1 DEF CsrConstants
  <2> QED BY <2>1, <2>2
<1>3. LevelOf(i[2]) \in Int /\ prv \in Int
  <2>1. \A a \in Addresses : LevelOf(a) \in Int
    BY DEF LevelOf, Addresses
  <2>2. prv \in Int
    BY DEF CsrInv
  <2> QED BY <1>2, <2>1, <2>2
<1> DEFINE r == get_csr_value(csrs, prv, i[2])
           w == set_csr_value(r.csrs, i[2], NewValue(i, r.value))
<1>4. Outcome(i) = IF is_invalid_csr_access(csrs, prv, i[2], TRUE) \/ ~r.ok \/ ~w.ok
                   THEN [ok |-> FALSE, csrs |-> csrs, value |-> {}]
                   ELSE [ok |-> TRUE, csrs |-> w.csrs, value |-> r.value]
  BY <1>1 DEF Outcome, Exec, NewValue, Operations
<1>5. ~is_invalid_csr_access(csrs, prv, i[2], TRUE) /\ r.ok /\ w.ok /\ Outcome(i).csrs = w.csrs
  <2> DEFINE bad == is_invalid_csr_access(csrs, prv, i[2], TRUE) \/ ~r.ok \/ ~w.ok
             o == Outcome(i)
  <2>1. o.ok
    OBVIOUS
  <2>2. /\ bad => o = [ok |-> FALSE, csrs |-> csrs, value |-> {}]
        /\ ~bad => o = [ok |-> TRUE, csrs |-> w.csrs, value |-> r.value]
    BY <1>4, Zenon
  <2> HIDE DEF bad, o, r, w
  <2>3. ~bad /\ o.csrs = w.csrs
    BY <2>1, <2>2
  <2> QED BY <2>3, Zenon DEF bad, o
<1>6. ~(prv < LevelOf(i[2]))
  BY <1>5, Zenon DEF is_invalid_csr_access
<1>7. r.csrs = ReadBy(i) /\ r.value = ValueAt(ReadBy(i), i[2])
  BY <1>5 DEF get_csr_value, ReadBy
<1> HIDE DEF r
<1>8. set_csr_value(ReadBy(i), i[2], NewValue(i, ValueAt(ReadBy(i), i[2]))) = w
  BY <1>7, Zenon
<1> HIDE DEF w
<1>9. LevelOf(i[2]) <= prv
  BY <1>3, <1>6
<1> QED BY <1>2, <1>3, <1>5, <1>8, <1>9, Zenon

LEMMA ChangedIs ==
    ASSUME CsrInv, CsrConstants, NEW i \in Instructions, NEW slot \in Changed(Outcome(i)),
           slot[1] \notin Counters
    PROVE  /\ Outcome(i).ok /\ slot = WriteSlot(i[2]) /\ ReadBy(i)[slot] = csrs[slot]
           /\ ~IsHardwired(i[2]) /\ IsWritable(ReadBy(i), i[2])
           /\ Outcome(i).csrs[slot] = (csrs[slot] \ WriteMask(i[2]))
                                        \cup (WrittenBy(i) \cap WriteMask(i[2]))
<1> DEFINE o == Outcome(i)
           addr == i[2]
           t == ReadBy(i)
           v == NewValue(i, ValueAt(t, addr))
           w == set_csr_value(t, addr, v)
<1>1. o.ok /\ slot \in Slots /\ o.csrs[slot] # csrs[slot]
  BY DEF Changed
<1>2. w.ok /\ o.csrs = w.csrs
  BY <1>1, Outcomes
<1>3. IsFile(t) /\ t[slot] = csrs[slot]
  BY <1>1, RefreshIs DEF CsrInv, ReadBy
<1> HIDE DEF o, t, v
<1>4. /\ IsHardwired(addr) => w.csrs = t
      /\ ~IsHardwired(addr) =>
           /\ IsWritable(t, addr)
           /\ \A x \in Slots : w.csrs[x] =
                IF x = WriteSlot(addr)
                THEN (t[x] \ WriteMask(addr)) \cup (WriteWord(addr, v) \cap WriteMask(addr))
                ELSE t[x]
  <2>1. set_csr_value(t, addr, v).ok
    BY <1>2
  <2> QED BY <1>3, <2>1, SetIs
<1> HIDE DEF w
<1>5. ~IsHardwired(addr)
  BY <1>1, <1>2, <1>3, <1>4
<1>6. slot = WriteSlot(addr)
  BY <1>1, <1>2, <1>3, <1>4, <1>5
<1>7. o.csrs[slot] = (csrs[slot] \ WriteMask(addr)) \cup (WriteWord(addr, v) \cap WriteMask(addr))
  BY <1>1, <1>2, <1>3, <1>4, <1>5, <1>6
<1> QED BY <1>1, <1>3, <1>4, <1>5, <1>6, <1>7 DEF o, t, v, WrittenBy

-----------------------------------------------------------------------------
(* No instruction changes more than its mode controls.                     *)
LEMMA InvIsolates == ASSUME CsrInv, CsrConstants PROVE LevelsIsolated
<1> SUFFICES ASSUME NEW i \in Instructions, NEW slot \in Changed(Outcome(i)),
                    slot[1] \notin Counters
             PROVE  /\ prv >= LevelOf(i[2])
                    /\ (Outcome(i).csrs[slot] \ csrs[slot]) \cup (csrs[slot] \ Outcome(i).csrs[slot])
                         \subseteq Owned(slot, prv)
  BY Zenon DEF LevelsIsolated
<1> DEFINE o == Outcome(i)
           addr == i[2]
<1>1. /\ o.ok /\ slot = WriteSlot(addr) /\ ~IsHardwired(addr) /\ IsWritable(ReadBy(i), addr)
      /\ o.csrs[slot] = (csrs[slot] \ WriteMask(addr)) \cup (WrittenBy(i) \cap WriteMask(addr))
  BY ChangedIs, Zenon
<1>2. LevelOf(addr) <= prv /\ prv \in 0..3 /\ LevelOf(addr) \in Int
  BY <1>1, Outcomes DEF CsrInv
<1> HIDE DEF o
<1>3. (o.csrs[slot] \ csrs[slot]) \cup (csrs[slot] \ o.csrs[slot]) \subseteq WriteMask(addr)
  BY <1>1
<1>4. WriteMask(addr) \subseteq Owned(slot, prv)
  <2>1. CASE addr \in STATUS \cup IE \cup IP
    BY <1>1, <1>2, <2>1, ViewOwned
  <2>2. CASE addr \notin STATUS \cup IE \cup IP /\ addr \in {FFLAGS, FRM}
    <3>1. slot = <<"fcsr", 0>>
      BY <1>1, <2>2 DEF WriteSlot
    <3>2. Owned(slot, prv) = Bits
      BY <3>1 DEF Owned
    <3> QED BY <3>2, MaskInWord
  <2>3. CASE addr \notin STATUS \cup IE \cup IP \cup {FFLAGS, FRM}
    <3>1. addr \in ValidAddrs
      BY <1>1, <2>3, Zenon DEF IsWritable, is_valid_csr32_addr
    <3>2. slot = SlotOf(addr)
      BY <1>1, <2>3 DEF WriteSlot
    <3>3. PICK m \in Mapping : m[1] = addr /\ m[2] = slot
      BY <3>1, <3>2, SlotFound
    <3>4. addr # MISA
      BY <1>1 DEF IsHardwired
    <3>5. ByLevel(addr, slot)
      BY <3>3, MappedByLevel
    <3>6. Owned(slot, prv) = Bits
      BY <1>2, <2>3, <3>4, <3>5 DEF ByLevel
    <3> QED BY <3>6, MaskInWord
  <2> QED BY <2>1, <2>2, <2>3
<1> QED BY <1>2, <1>3, <1>4 DEF o

(* CSRRS sets, and CSRRC clears, the bits of the operand.                  *)
LEMMA InvSetClear == ASSUME CsrInv, CsrConstants PROVE SetClearExact
<1> DEFINE Moved(i) == IF i[2] = FRM THEN {b + 5 : b \in i[3] \cap (0..2)} ELSE i[3]
<1> SUFFICES ASSUME NEW i \in {"CSRRS", "CSRRC"} \X Writes \X Words,
                    NEW slot \in Changed(Outcome(i)), slot[1] \notin Counters
             PROVE  IF i[1] = "CSRRS"
                    THEN /\ csrs[slot] \subseteq Outcome(i).csrs[slot]
                         /\ Outcome(i).csrs[slot] \ csrs[slot] \subseteq Moved(i)
                    ELSE /\ Outcome(i).csrs[slot] \subseteq csrs[slot]
                         /\ csrs[slot] \ Outcome(i).csrs[slot] \subseteq Moved(i)
  BY Zenon DEF SetClearExact
<1>1. i \in Instructions /\ i[1] \in {"CSRRS", "CSRRC"}
  BY DEF Instructions, Operations
<1> DEFINE o == Outcome(i)
           addr == i[2]
           value == ValueAt(ReadBy(i), addr)
           new == NewValue(i, value)
           mask == WriteMask(addr)
           old == csrs[slot]
<1>2. /\ o.ok /\ slot = WriteSlot(addr) /\ ~IsHardwired(addr) /\ ReadBy(i)[slot] = old
      /\ o.csrs[slot] = (old \ mask) \cup (WriteWord(addr, new) \cap mask)
  BY <1>1, ChangedIs, Zenon DEF WrittenBy
<1>3. i[3] \subseteq Bits
  BY <1>1, <1>2, Outcomes
<1>4. new = IF i[1] = "CSRRS" THEN value \cup i[3] ELSE value \ i[3]
  BY <1>1 DEF NewValue
<1>5. CASE addr # FRM
  <2>1. WriteWord(addr, new) = new
    BY <1>5 DEF WriteWord
  <2>2. value \cap mask = old \cap mask
    BY <1>2, <1>5, ReadShowsWritten
  <2>3. Moved(i) = i[3]
    BY <1>5
  <2> HIDE DEF o, value, new, mask, old, Moved
  <2>4. o.csrs[slot] = (old \ mask) \cup (new \cap mask)
    BY <1>2, <2>1
  <2>5. CASE i[1] = "CSRRS"
    BY <1>4, <2>2, <2>3, <2>4, <2>5 DEF o, old
  <2>6. CASE i[1] # "CSRRS"
    BY <1>4, <2>2, <2>3, <2>4, <2>6 DEF o, old
  <2> QED BY <2>5, <2>6
<1>6. CASE addr = FRM
  <2>1. addr \notin STATUS \cup IE \cup IP \cup TVEC \cup EPC
    BY <1>6, BanksAre DEF FRM
  <2>2. slot = <<"fcsr", 0>>
    BY <1>2, <1>6, <2>1 DEF WriteSlot
  <2>3. mask = 5..7
    BY <1>6, <2>1 DEF WriteMask, FRM, FFLAGS, FCSR, SATP
  <2>4. value = {b - 5 : b \in old \cap (5..7)}
    <3>1. addr \notin ANY_HPMCOUNTER \cup DEBUG \cup {TSELECT}
      BY <1>6, HpmAre DEF DEBUG, TSELECT, FRM
    <3>2. value = {b - 5 : b \in ReadBy(i)[<<"fcsr", 0>>] \cap (5..7)}
      BY <1>6, <2>1, <3>1 DEF ValueAt, FRM, FFLAGS, FCSR
    <3> QED BY <1>2, <2>2, <3>2
  <2>5. WriteWord(addr, new) = {b + 5 : b \in new}
    BY <1>6 DEF WriteWord
  <2> DEFINE moved == {b + 5 : b \in i[3] \cap (0..2)}
             word == {b + 5 : b \in new}
  <2>6. i[3] \subseteq Int
    BY <1>3 DEF Bits
  <2>7. Moved(i) = moved
    BY <1>6
  <2> HIDE DEF o, value, new, mask, old, Moved
  <2>8. \A x \in 5..7 : x \in old <=> x - 5 \in value
    BY <2>4
  <2>9. value \subseteq 0..2
    BY <2>4
  <2>10. new \subseteq Int
    <3>1. value \subseteq Int
      BY <2>9
    <3> QED BY <1>4, <2>6, <3>1, Zenon
  <2>11. \A x \in 5..7 : x \in word <=> x - 5 \in new
    BY <2>10
  <2>12. \A x \in 5..7 : x \in moved <=> x - 5 \in i[3]
    BY <2>6
  <2>13. o.csrs[slot] = (old \ (5..7)) \cup (word \cap (5..7))
    BY <1>2, <2>3, <2>5
  <2> HIDE DEF moved, word
  <2>14. \A x \in 5..7 : x \in o.csrs[slot] <=> x - 5 \in new
    BY <2>11, <2>13
  <2>15. \A x : x \notin 5..7 => (x \in o.csrs[slot] <=> x \in old)
    BY <2>13
  <2>16. CASE i[1] = "CSRRS"
    <3>1. \A x \in 5..7 : x \in o.csrs[slot] <=> x \in old \/ x \in moved
      BY <1>4, <2>8, <2>12, <2>14, <2>16
    <3>2. old \subseteq o.csrs[slot] /\ o.csrs[slot] \ old \subseteq moved
      BY <2>15, <3>1
    <3> QED BY <2>7, <2>16, <3>2 DEF o, old
  <2>17. CASE i[1] # "CSRRS"
    <3>1. \A x \in 5..7 : x \in o.csrs[slot] <=> x \in old /\ x \notin moved
      BY <1>4, <2>8, <2>12, <2>14, <2>17
    <3>2. o.csrs[slot] \subseteq old /\ old \ o.csrs[slot] \subseteq moved
      BY <2>15, <3>1
    <3> QED BY <2>7, <2>17, <3>2 DEF o, old
  <2> QED BY <2>16, <2>17
<1> QED BY <1>5, <1>6

(* The counters are read as they are, in the modes to which they are open. *)
LEMMA InvCounters == ASSUME CsrInv, CsrConstants PROVE CountersGuarded
<1> DEFINE E(addr) == Exec("CSRRS", addr, {}, TRUE, FALSE)
<1> SUFFICES ASSUME prv \in Modes, NEW addr \in Reads, E(addr).ok
             PROVE  /\ addr \in (3072..3074) /\ prv < MachineMode =>
                         \A level \in {1, 3} : prv < level =>
                           addr % 32 \in csrs[<<"counteren", level>>]
                    /\ addr \in TIMES => E(addr).value = Clock[instrs + 1][1 + HalfOf(addr)]
                    /\ addr \in MCYCLES => E(addr).value = Clock[cycles][1 + HalfOf(addr)]
  BY DEF CountersGuarded
<1> DEFINE r == get_csr_value(csrs, prv, addr)
           e == E(addr)
<1>1. e = IF is_invalid_csr_access(csrs, prv, addr, FALSE) \/ ~r.ok
          THEN [ok |-> FALSE, csrs |-> csrs, value |-> {}]
          ELSE [ok |-> TRUE, csrs |-> r.csrs, value |-> r.value]
  BY DEF Exec
<1>2. r.ok /\ e.value = r.value
  <2> HIDE DEF r
  <2>1. e.ok
    OBVIOUS
  <2> HIDE DEF e
  <2> QED BY <1>1, <2>1
<1>3. IsFile(csrs)
  BY DEF CsrInv
<1>4. IsReadable(csrs, prv, addr) /\ r.value = ValueAt(Refresh(csrs, addr), addr)
  BY <1>2 DEF get_csr_value
<1>5. /\ addr \in TIMES => r.value = Clock[instrs + 1][1 + HalfOf(addr)]
      /\ addr \in MCYCLES => r.value = Clock[cycles][1 + HalfOf(addr)]
  <2> HIDE DEF r
  <2> QED BY <1>3, <1>4, CounterValue
<1>6. ASSUME addr \in 3072..3074, NEW level \in {1, 3}, prv < level
      PROVE  addr % 32 \in csrs[<<"counteren", level>>]
  <2>1. addr \in (3072..3103) \cup (3200..3231)
    BY <1>6
  <2>2. prv \in {0, 1} /\ (prv = 1 => level = 3)
    BY <1>6 DEF Modes, UserMode, SupervisorMode, MachineMode
  <2>3. validate_csr_counter_read_access_rights(csrs, prv, addr)
    BY <1>4, Zenon DEF IsReadable
  <2> QED BY <2>1, <2>2, <2>3 DEF validate_csr_counter_read_access_rights,
           UserMode, SupervisorMode, MachineMode
<1> HIDE DEF e, r, E
<1>7. /\ addr \in TIMES => e.value = Clock[instrs + 1][1 + HalfOf(addr)]
      /\ addr \in MCYCLES => e.value = Clock[cycles][1 + HalfOf(addr)]
  BY <1>2, <1>5, Zenon
<1> QED BY <1>6, <1>7 DEF e

-----------------------------------------------------------------------------
(* Every step leaves a file of registers and a mode.                       *)
LEMMA FileFinished ==
    ASSUME NEW s, IsFile(s), NEW p \in 0..3, Finish(s, p) PROVE CsrInv'
<1>1. IsFile(increment(s))
  BY DEF increment, IsFile
<1>2. csrs' \in {s, increment(s)} /\ prv' = p
  BY DEF Finish
<1>3. IsFile(csrs')
  BY <1>1, <1>2
<1> QED BY <1>2, <1>3 DEF CsrInv, IsFile

LEMMA FileTrapped ==
    ASSUME NEW s, IsFile(s), NEW p, NEW target
    PROVE  IsFile(switch_to_trap_handler(s, p, target))
BY DEF switch_to_trap_handler, IsFile

LEMMA FileInterrupted ==
    ASSUME NEW s, IsFile(s), NEW p \in 0..3
    PROVE  IsFile(Interrupt(s, p).csrs) /\ Interrupt(s, p).mode \in 0..3
<1> DEFINE pending == s[<<"mie", 0>>] \cap s[<<"mip", 0>>]
           status  == s[<<"mstatus", 0>>]
           of(level) == CASE level = MachineMode -> pending \ s[<<"ideleg", 3>>]
                          [] level = SupervisorMode ->
                               (pending \cap s[<<"ideleg", 3>>]) \ s[<<"ideleg", 1>>]
                          [] level = UserMode ->
                               pending \cap s[<<"ideleg", 3>>] \cap s[<<"ideleg", 1>>]
           taken == {level \in Modes : /\ of(level) # {}
                                       /\ \/ p < level
                                          \/ p = level /\ ie(level) \subseteq status}
           target == CHOOSE level \in taken : \A m \in taken : m <= level
           code == InterruptOrder[CHOOSE i \in 1..9 :
                                    /\ InterruptOrder[i] \in of(target)
                                    /\ \A j \in 1..(i - 1) : InterruptOrder[j] \notin of(target)]
           marked == [s EXCEPT ![<<"cause", target>>] = BinaryWord(code) \cup {31}]
<1>1. Interrupt(s, p) = IF taken = {} THEN [mode |-> p, csrs |-> s]
                        ELSE [mode |-> target, csrs |-> switch_to_trap_handler(marked, p, target)]
  BY Zenon DEF Interrupt
<1>2. taken # {} => target \in 0..3
  <2> SUFFICES ASSUME taken # {} PROVE target \in 0..3
    OBVIOUS
  <2>1. taken \subseteq {0, 1, 3}
    BY DEF Modes, UserMode, SupervisorMode, MachineMode
  <2> HIDE DEF taken
  <2>2. \E level \in taken : \A m \in taken : m <= level
    <3>1. CASE 3 \in taken
      BY <2>1, <3>1
    <3>2. CASE 3 \notin taken /\ 1 \in taken
      BY <2>1, <3>2
    <3>3. CASE 3 \notin taken /\ 1 \notin taken
      <4>1. \A m \in taken : m = 0
        BY <2>1, <3>3
      <4>2. 0 \in taken
        BY <4>1
      <4> QED BY <4>1, <4>2
    <3> QED BY <3>1, <3>2, <3>3
  <2>3. target \in taken
    BY <2>2, Zenon
  <2> HIDE DEF target
  <2> QED BY <2>1, <2>3
<1>3. IsFile(marked)
  BY DEF IsFile
<1> HIDE DEF taken, target, marked
<1>4. IsFile(switch_to_trap_handler(marked, p, target))
  BY <1>3, FileTrapped
<1> QED BY <1>1, <1>2, <1>4

LEMMA FileStepped ==
    ASSUME CsrInv, NEW o, o.ok => IsFile(o.csrs), Step(o) PROVE CsrInv'
<1>0. IsFile(csrs) /\ prv \in 0..3
  BY DEF CsrInv
<1>1. CASE o.ok
  <2>1. Finish(Interrupt(o.csrs, prv).csrs, Interrupt(o.csrs, prv).mode)
    BY <1>1, Zenon DEF Step
  <2> QED BY <1>0, <1>1, <2>1, FileInterrupted, FileFinished
<1>2. CASE ~o.ok
  <2> DEFINE t == Trap(csrs, prv)
  <2>1. Finish(t.csrs, t.mode)
    BY <1>2, Zenon DEF Step
  <2>2. t.mode \in 0..3 /\ IsFile(t.csrs)
    <3> DEFINE target == IF prv = MachineMode \/ 2 \notin csrs[<<"edeleg", MachineMode>>]
                         THEN MachineMode
                         ELSE IF prv = SupervisorMode \/ 2 \notin csrs[<<"edeleg", SupervisorMode>>]
                         THEN SupervisorMode ELSE UserMode
               marked == [csrs EXCEPT ![<<"cause", target>>] = {1}, ![<<"tval", target>>] = Data]
    <3>1. t = [mode |-> target, csrs |-> switch_to_trap_handler(marked, prv, target)]
      BY Zenon DEF Trap
    <3>2. target \in 0..3
      BY DEF MachineMode, SupervisorMode, UserMode
    <3>3. IsFile(marked)
      BY <1>0 DEF IsFile
    <3> HIDE DEF target, marked
    <3>4. IsFile(switch_to_trap_handler(marked, prv, target))
      BY <3>3, FileTrapped
    <3> QED BY <3>1, <3>2, <3>4
  <2> QED BY <2>1, <2>2, FileFinished
<1> QED BY <1>1, <1>2

LEMMA FileExecuted ==
    ASSUME CsrInv, NEW op \in Operations, NEW addr \in Addresses, NEW value, NEW rd \in BOOLEAN,
           NEW rs1 \in BOOLEAN, Exec(op, addr, value, rd, rs1).ok
    PROVE  IsFile(Exec(op, addr, value, rd, rs1).csrs)
<1> DEFINE writes == op = "CSRRW" \/ rs1
           r == IF op = "CSRRW" /\ ~rd THEN [ok |-> TRUE, csrs |-> csrs, value |-> {}]
                ELSE get_csr_value(csrs, prv, addr)
           new == CASE op = "CSRRW" -> value
                    [] op = "CSRRS" -> r.value \cup value
                    [] op = "CSRRC" -> r.value \ value
           w == IF writes THEN set_csr_value(r.csrs, addr, new)
                ELSE [ok |-> TRUE, csrs |-> r.csrs]
           e == Exec(op, addr, value, rd, rs1)
<1>1. e = IF is_invalid_csr_access(csrs, prv, addr, writes) \/ ~r.ok \/ ~w.ok
          THEN [ok |-> FALSE, csrs |-> csrs, value |-> {}]
          ELSE [ok |-> TRUE, csrs |-> w.csrs, value |-> r.value]
  BY DEF Exec
<1>2. r.ok /\ w.ok /\ e.csrs = w.csrs
  <2>1. e.ok
    OBVIOUS
  <2> HIDE DEF e, r, w
  <2> QED BY <1>1, <2>1
<1>3. IsFile(csrs)
  BY DEF CsrInv
<1>4. IsFile(r.csrs)
  <2>1. CASE op = "CSRRW" /\ ~rd
    BY <1>3, <2>1
  <2>2. CASE ~(op = "CSRRW" /\ ~rd)
    <3>1. r = get_csr_value(csrs, prv, addr)
      BY <2>2
    <3>2. r.csrs = Refresh(csrs, addr)
      BY <1>2, <3>1 DEF get_csr_value
    <3> QED BY <1>3, <3>2, RefreshIs
  <2> QED BY <2>1, <2>2
<1> HIDE DEF r, new, e
<1>5. IsFile(w.csrs)
  <2>1. CASE writes
    <3>1. set_csr_value(r.csrs, addr, new).ok /\ w = set_csr_value(r.csrs, addr, new)
      BY <1>2, <2>1
    <3> QED BY <1>4, <3>1, SetIs
  <2>2. CASE ~writes
    BY <1>4, <2>2
  <2> QED BY <2>1, <2>2
<1> QED BY <1>2, <1>5 DEF e

LEMMA CsrStep == ASSUME CsrConstants, CsrInv, [Next]_vars PROVE CsrInv'
<1>0. IsFile(csrs) /\ prv \in 0..3
  BY DEF CsrInv
<1>1. CASE CsrRead
  <2>1. PICK addr \in Reads : Step(Exec("CSRRS", addr, {}, TRUE, FALSE))
    BY <1>1 DEF CsrRead
  <2>2. Exec("CSRRS", addr, {}, TRUE, FALSE).ok
          => IsFile(Exec("CSRRS", addr, {}, TRUE, FALSE).csrs)
    <3>1. addr \in Addresses
      BY DEF CsrConstants
    <3>2. "CSRRS" \in Operations /\ TRUE \in BOOLEAN /\ FALSE \in BOOLEAN
      BY DEF Operations
    <3> QED BY <3>1, <3>2, FileExecuted
  <2> QED BY <2>1, <2>2, FileStepped
<1>2. CASE CsrWrite
  <2>1. PICK addr \in Writes, value \in Words, op \in Operations, rd \in BOOLEAN :
           Step(Exec(op, addr, value, rd, TRUE))
    BY <1>2 DEF CsrWrite
  <2>2. Exec(op, addr, value, rd, TRUE).ok => IsFile(Exec(op, addr, value, rd, TRUE).csrs)
    <3>1. addr \in Addresses /\ TRUE \in BOOLEAN
      BY DEF CsrConstants
    <3> QED BY <3>1, FileExecuted
  <2> QED BY <2>1, <2>2, FileStepped
<1>3. CASE MRET
  <2> DEFINE old  == csrs[<<"mstatus", 0>>]
             mode == (IF 11 \in old THEN 1 ELSE 0) + (IF 12 \in old THEN 2 ELSE 0)
             new  == (old \ (mstatus.mie \cup mstatus.mpp)) \cup mstatus.mpie
                     \cup (IF mstatus.mpie \subseteq old THEN mstatus.mie ELSE {})
             t == [csrs EXCEPT ![<<"mstatus", 0>>] = new]
  <2>1. Finish(Interrupt(t, mode).csrs, Interrupt(t, mode).mode)
    BY <1>3, Zenon DEF MRET
  <2>2. mode \in 0..3
    OBVIOUS
  <2> HIDE DEF new, mode
  <2>3. IsFile(t)
    BY <1>0 DEF IsFile
  <2> HIDE DEF t
  <2> QED BY <2>1, <2>2, <2>3, FileInterrupted, FileFinished
<1>4. CASE \E line \in Lines : trigger_interrupt(line)
  <2>1. PICK line \in Lines : trigger_interrupt(line)
    BY <1>4
  <2> DEFINE v == IF line \in csrs[<<"mip", 0>>] THEN csrs[<<"mip", 0>>] \ {line}
                  ELSE csrs[<<"mip", 0>>] \cup {line}
  <2>2. csrs' = [csrs EXCEPT ![<<"mip", 0>>] = v] /\ prv' = prv
    BY <2>1 DEF trigger_interrupt
  <2> HIDE DEF v
  <2> QED BY <1>0, <2>2 DEF IsFile, CsrInv
<1>5. CASE UNCHANGED vars
  BY <1>0, <1>5 DEF vars, CsrInv, IsFile
<1> QED BY <1>1, <1>2, <1>3, <1>4, <1>5 DEF Next

LEMMA CsrStart == ASSUME Init PROVE CsrInv
BY DEF Init, CsrInv, IsFile, MachineMode

(* Whatever the guest has written, the next instruction changes only what  *)
(* its mode controls.                                                      *)
THEOREM LevelsAlwaysIsolated == ASSUME CsrConstants PROVE Spec => []LevelsIsolated
<1>1. Init => CsrInv
  BY CsrStart
<1>2. CsrInv /\ [Next]_vars => CsrInv'
  BY CsrStep
<1>3. CsrInv => LevelsIsolated
  BY InvIsolates
<1> QED BY <1>1, <1>2, <1>3, PTL DEF Spec

(* Whatever the guest has written, CSRRS and CSRRC change the bits of      *)
(* their operand and no others, and a counter that is read is current and  *)
(* open to the mode.                                                       *)
THEOREM AccessesAlwaysExact == ASSUME CsrConstants PROVE Spec => []AccessesExact
<1>1. Init => CsrInv
  BY CsrStart
<1>2. CsrInv /\ [Next]_vars => CsrInv'
  BY CsrStep
<1>3. CsrInv => AccessesExact
  BY InvSetClear, InvCounters DEF AccessesExact
<1> QED BY <1>1, <1>2, <1>3, PTL DEF Spec

-----------------------------------------------------------------------------
(***************************************************************************)
(* The loader: the memory is the image, for files with any number of       *)
(* program headers, and any memory.                                        *)
(***************************************************************************)
CONSTANTS Images, MemSize, Offset, Sign, Registers, A0, Fds, MaxCalls
VARIABLES image, at, mem, hp, start_heap, max_heap, symbolic, a0, open, shall_exit, running,
          aborted, calls

Sys == INSTANCE GuestSystem

IsImage(f) ==
    /\ Len(f) \in Nat /\ DOMAIN f = 1..Len(f)
    /\ \A k \in DOMAIN f : f[k].paddr \in Nat /\ f[k].filesz \in Nat /\ f[k].memsz \in Nat

(* What the proof assumes: sizes are numbers, and so are the fields of the *)
(* program headers.                                                        *)
LoaderConstants ==
    /\ MemSize \in Nat /\ Offset \in Nat
    /\ \A f \in Images : IsImage(f)

(* What the first n - 1 headers of an image make of a byte: the last of    *)
(* them that covers it decides.                                            *)
Decides(f, k, i, n) ==
    /\ k < n /\ Sys!Covers(f[k], i)
    /\ \A j \in DOMAIN f : k < j /\ j < n => ~Sys!Covers(f[j], i)

Stored(p, i) == IF i < p.paddr - Offset + p.filesz THEN 1 ELSE 0

LoadedBefore(f, byte, i, n) ==
    \/ byte = 2 /\ \A k \in DOMAIN f : k < n => ~Sys!Covers(f[k], i)
    \/ \E k \in DOMAIN f : Decides(f, k, i, n) /\ byte = Stored(f[k], i)

(* The invariant of the loader.                                            *)
LoadInv ==
    /\ IsImage(image) /\ at \in Nat \ {0}
    /\ DOMAIN mem = 0..(MemSize - 1)
    /\ running => at > Len(image)
    /\ \A i \in DOMAIN mem : LoadedBefore(image, mem[i], i, at)

(* Nothing has been loaded.                                                *)
LEMMA LoadInit == ASSUME LoaderConstants, Sys!Init PROVE LoadInv
<1>1. IsImage(image) /\ at = 1 /\ running = FALSE /\ mem = [i \in 0..(MemSize - 1) |-> 2]
  BY DEF LoaderConstants, Sys!Init
<1>2. \A k \in DOMAIN image : ~(k < 1)
  BY <1>1 DEF IsImage
<1>3. ASSUME NEW i \in DOMAIN mem PROVE LoadedBefore(image, mem[i], i, at)
  BY <1>1, <1>2 DEF LoadedBefore
<1> QED BY <1>1, <1>3 DEF LoadInv

(* A header that does not cover a byte leaves it to the earlier ones.      *)
LEMMA NotCovered ==
    ASSUME NEW f, IsImage(f), NEW n \in DOMAIN f, NEW byte, NEW i, ~Sys!Covers(f[n], i),
           LoadedBefore(f, byte, i, n)
    PROVE  LoadedBefore(f, byte, i, n + 1)
<1>1. n \in Nat /\ DOMAIN f \subseteq Nat
  BY DEF IsImage
<1>2. \A k \in DOMAIN f : k < n + 1 /\ Sys!Covers(f[k], i) => k < n
  BY <1>1
<1>3. \A k \in DOMAIN f : k < n => k < n + 1
  BY <1>1
<1> QED BY <1>2, <1>3, LoadedBefore(f, byte, i, n) DEF LoadedBefore, Decides

(* A header that covers a byte decides it.                                 *)
LEMMA NowCovered ==
    ASSUME NEW f, IsImage(f), NEW n \in DOMAIN f, NEW i, Sys!Covers(f[n], i)
    PROVE  LoadedBefore(f, Stored(f[n], i), i, n + 1)
<1>1. n \in Nat /\ DOMAIN f \subseteq Nat
  BY DEF IsImage
<1>2. Decides(f, n, i, n + 1)
  BY <1>1 DEF Decides
<1> QED BY <1>2 DEF LoadedBefore

(* A section covers its bytes with those of the file and with zeroes.      *)
LEMMA SectionLoaded == ASSUME LoaderConstants, LoadInv, Sys!load_section PROVE LoadInv'
<1> DEFINE p == image[at]
           idx == p.paddr - Offset
<1>1. /\ at \in DOMAIN image /\ at \in Nat \ {0} /\ image' = image /\ running' = running
      /\ IsImage(image) /\ at <= Len(image)
  BY DEF Sys!load_section, Sys!callVars, LoadInv, IsImage
<1>2. p.paddr \in Nat /\ p.filesz \in Nat /\ p.memsz \in Nat /\ Offset \in Nat
  BY <1>1 DEF IsImage, LoaderConstants
<1>3. DOMAIN mem = 0..(MemSize - 1) /\ \A i \in DOMAIN mem : LoadedBefore(image, mem[i], i, at)
  BY DEF LoadInv
<1>4. ~running
  BY <1>1 DEF LoadInv, IsImage
<1>5. CASE ~Sys!IsLoaded(p)
  <2>1. at' = at + 1 /\ mem' = mem
    BY <1>5 DEF Sys!load_section
  <2>2. ASSUME NEW i \in DOMAIN mem PROVE LoadedBefore(image, mem[i], i, at + 1)
    BY <1>1, <1>3, <1>5, NotCovered DEF Sys!Covers
  <2> QED BY <1>1, <1>3, <1>4, <2>1, <2>2 DEF LoadInv
<1>6. CASE Sys!IsLoaded(p) /\ ~Sys!Fits(p)
  <2>1. at' = at /\ mem' = mem
    BY <1>6 DEF Sys!load_section
  <2> QED BY <1>1, <1>3, <1>4, <2>1 DEF LoadInv
<1>7. CASE Sys!IsLoaded(p) /\ Sys!Fits(p)
  <2>1. /\ at' = at + 1
        /\ mem' = [i \in DOMAIN mem |->
                      IF i >= idx /\ i < idx + p.filesz THEN 1
                      ELSE IF i >= idx + p.filesz /\ i < idx + p.memsz THEN 0 ELSE mem[i]]
    BY <1>7 DEF Sys!load_section
  <2>2. p.memsz >= p.filesz
    BY <1>7 DEF Sys!Fits
  <2>3. ASSUME NEW i \in DOMAIN mem PROVE LoadedBefore(image, mem'[i], i, at + 1)
    <3>1. i \in Int
      BY <1>3
    <3>2. CASE Sys!Covers(p, i)
      <4>1. mem'[i] = Stored(p, i)
        BY <1>2, <2>1, <2>2, <3>1, <3>2 DEF Sys!Covers, Stored
      <4> QED BY <1>1, <3>2, <4>1, NowCovered
    <3>3. CASE ~Sys!Covers(p, i)
      <4>1. mem'[i] = mem[i]
        BY <1>2, <1>7, <2>1, <2>2, <3>1, <3>3 DEF Sys!Covers
      <4> QED BY <1>1, <1>3, <3>3, <4>1, NotCovered
    <3> QED BY <3>2, <3>3
  <2>4. DOMAIN mem' = DOMAIN mem
    BY <2>1
  <2> QED BY <1>1, <1>3, <1>4, <2>1, <2>3, <2>4 DEF LoadInv
<1> QED BY <1>5, <1>6, <1>7

(* Nothing else stores to the memory, and the guest starts with the last   *)
(* section.                                                                *)
LEMMA MemoryKept ==
    ASSUME LoadInv, UNCHANGED Sys!loadVars, running' => running \/ at > Len(image)
    PROVE  LoadInv'
BY DEF Sys!loadVars, LoadInv, IsImage

(* The invariant is inductive.                                             *)
LEMMA LoadStep == ASSUME LoaderConstants, LoadInv, [Sys!Next]_(Sys!vars) PROVE LoadInv'
<1>1. CASE Sys!load_section
  BY <1>1, SectionLoaded
<1>2. CASE Sys!init
  <2>1. UNCHANGED Sys!loadVars /\ at > Len(image)
    BY <1>2 DEF Sys!init
  <2> QED BY <2>1, MemoryKept
<1>3. CASE Sys!Syscall
  <2>1. UNCHANGED Sys!loadVars /\ (running' => running)
    BY <1>3 DEF Sys!Syscall, Sys!sys_brk, Sys!sys_sym_reg, Sys!sys_sym_mem, Sys!sys_lseek,
         Sys!sys_close, Sys!sys_time, Sys!sys_fstat, Sys!sys_gettimeofday, Sys!sys_write,
         Sys!sys_read, Sys!sys_open, Sys!sys_unsupported,
         Sys!sys_exit, Sys!NoMemory, Sys!Calling
  <2> QED BY <2>1, MemoryKept
<1>4. CASE Sys!GuestWrites
  <2>1. UNCHANGED Sys!loadVars /\ running' = running
    BY <1>4 DEF Sys!GuestWrites
  <2> QED BY <2>1, MemoryKept
<1>5. CASE UNCHANGED Sys!vars
  <2>1. UNCHANGED Sys!loadVars /\ running' = running
    BY <1>5 DEF Sys!vars, Sys!callVars
  <2> QED BY <2>1, MemoryKept
<1> QED BY <1>1, <1>2, <1>3, <1>4, <1>5 DEF Sys!Next

(* When all sections are loaded, the last one that covers a byte is the    *)
(* greatest.                                                               *)
LEMMA LoadExact == ASSUME LoadInv PROVE Sys!ImageLoaded
<1> SUFFICES ASSUME running, NEW i \in DOMAIN mem
             PROVE  LET by == {k \in DOMAIN image : Sys!Covers(image[k], i)} IN
                    mem[i] = IF by = {} THEN 2
                             ELSE LET k == CHOOSE k \in by : \A j \in by : j <= k IN
                                  IF i < image[k].paddr - Offset + image[k].filesz THEN 1 ELSE 0
  BY DEF Sys!ImageLoaded
<1> DEFINE by == {k \in DOMAIN image : Sys!Covers(image[k], i)}
           last == CHOOSE k \in by : \A j \in by : j <= k
<1>1. /\ LoadedBefore(image, mem[i], i, at) /\ DOMAIN image \subseteq Nat
      /\ \A k \in DOMAIN image : k < at
  BY DEF LoadInv, IsImage
<1>2. CASE by = {}
  BY <1>1, <1>2 DEF LoadedBefore, Decides
<1>3. CASE by # {}
  <2>1. PICK k \in DOMAIN image : Decides(image, k, i, at) /\ mem[i] = Stored(image[k], i)
    BY <1>1, <1>3 DEF LoadedBefore
  <2>2. k \in by /\ \A j \in by : j <= k
    BY <1>1, <2>1 DEF Decides
  <2>3. last \in by /\ \A j \in by : j <= last
    BY <2>2
  <2>4. last = k
    BY <1>1, <2>2, <2>3
  <2> QED BY <1>3, <2>1, <2>4 DEF Stored
<1> QED BY <1>2, <1>3

(* When the guest starts, and from then on, the memory is the image.       *)
THEOREM ImageAlwaysLoaded == ASSUME LoaderConstants PROVE Sys!Spec => []Sys!ImageLoaded
<1>1. Sys!Init => LoadInv
  BY LoadInit
<1>2. LoadInv /\ [Sys!Next]_(Sys!vars) => LoadInv'
  BY LoadStep
<1>3. LoadInv => Sys!ImageLoaded
  BY LoadExact
<1> QED BY <1>1, <1>2, <1>3, PTL DEF Sys!Spec

-----------------------------------------------------------------------------
(***************************************************************************)
(* The register maps: to the guest they are a memory of bytes, for devices *)
(* with any registers, window and range.                                   *)
(***************************************************************************)
CONSTANTS Bank, ReadOnly, Masked, Start, End, RangeStart, RangeSize, alignment, MaxMapAccesses
VARIABLES regs, window, range, guest, answer, map_accesses

Map == INSTANCE RegisterMaps WITH mem <- range, MaxAccesses <- MaxMapAccesses,
                                  accesses <- map_accesses

(* Every byte is where its address says, and is the one last written.      *)
BytesInv ==
    /\ regs = [r \in Bank |-> regs[r]] /\ \A r \in Bank : regs[r] = [i \in 0..3 |-> regs[r][i]]
    /\ window = [i \in 0..(End - Start - 1) |-> window[i]]
    /\ range = [i \in 0..(RangeSize - 1) |-> range[i]]
    /\ guest = [a \in Map!Mapped \cup Map!InRange |-> guest[a]]
    /\ \A r \in Bank : \A i \in 0..3 : regs[r][i] = guest[r + i]
    /\ \A a \in Start..(End - 1) : ~Map!BankHandles(a) => window[a - Start] = guest[a]
    /\ \A a \in Map!InRange : range[a - RangeStart] = guest[a]
    /\ \A a \in Masked : guest[a] = 0

(* The register of an address, and the addresses of a register.            *)
LEMMA RegisterBytes ==
    ASSUME Map!Apart
    PROVE  /\ \A addr \in Nat : /\ addr % 4 \in 0..3 /\ addr = Map!Register(addr) + (addr % 4)
                                /\ Map!Register(addr) \in Nat
           /\ \A r \in Bank : \A i \in 0..3 :
                 /\ r \in Nat /\ Map!Register(r + i) = r /\ Map!BankHandles(r + i)
                 /\ r + i \in Map!Mapped
<1>1. \A addr \in Nat : addr % 4 \in 0..3 /\ addr - (addr % 4) \in Nat
  OBVIOUS
<1>2. \A r \in Nat : \A i \in 0..3 : r % 4 = 0 => (r + i) % 4 = i
  OBVIOUS
<1>3. \A r \in Bank : r \in Nat /\ r % 4 = 0
  BY DEF Map!Apart
<1>4. \A addr \in Nat : addr = Map!Register(addr) + (addr % 4) /\ Map!Register(addr) \in Nat
  BY <1>1 DEF Map!Register
<1>5. ASSUME NEW r \in Bank, NEW i \in 0..3
      PROVE  Map!Register(r + i) = r /\ Map!BankHandles(r + i) /\ r + i \in Map!Mapped
  <2>1. Map!Register(r + i) = r
    <3>1. r \in Nat /\ (r + i) % 4 = i
      BY <1>2, <1>3, Zenon
    <3>2. r + i - i = r
      BY <3>1
    <3> QED BY <3>1, <3>2 DEF Map!Register
  <2>2. r + i \in r..(r + 3)
    BY <1>3
  <2> QED BY <2>1, <2>2 DEF Map!BankHandles, Map!Mapped
<1> QED BY <1>1, <1>3, <1>4, <1>5, Zenon

(* Where masked bytes are, and what is not masked.                         *)
LEMMA MaskedBytes ==
    ASSUME Map!Apart
    PROVE  /\ \A a \in Masked : \E r \in Bank : \E i \in 0..3 : a = r + i
           /\ \A a \in Masked : a \in Map!Mapped /\ a \notin Map!InRange /\ Map!BankHandles(a)
<1>1. ASSUME NEW a \in Masked
      PROVE  \E r \in Bank : \E i \in 0..3 : a = r + i
  <2>1. PICK r \in Bank : a \in r..(r + 3)
    BY DEF Map!Apart
  <2>2. r \in Nat
    BY DEF Map!Apart
  <2>3. a - r \in 0..3 /\ a = r + (a - r)
    BY <2>1, <2>2
  <2> QED BY <2>3, Zenon
<1>2. \A a \in Map!InRange : a \notin Map!Mapped
  BY DEF Map!Apart
<1>3. ASSUME NEW a \in Masked
      PROVE  a \in Map!Mapped /\ Map!BankHandles(a)
  <2>1. PICK r \in Bank : \E i \in 0..3 : a = r + i
    BY <1>1
  <2>2. PICK i \in 0..3 : a = r + i
    BY <2>1
  <2>3. r + i \in Map!Mapped /\ Map!BankHandles(r + i)
    BY RegisterBytes, Zenon
  <2> QED BY <2>2, <2>3
<1> QED BY <1>1, <1>2, <1>3

(* The bytes Written replaces in the history.                              *)
LEMMA WrittenBytes ==
    ASSUME NEW addr \in Nat, NEW len \in Nat, NEW d \in Map!Data(len), Map!Written(addr, d),
           guest = [a \in Map!Mapped \cup Map!InRange |-> guest[a]]
    PROVE  /\ DOMAIN d = 1..len /\ Len(d) = len
           /\ guest' = [a \in Map!Mapped \cup Map!InRange |-> guest'[a]]
           /\ \A a \in Map!Mapped \cup Map!InRange : a \in Int =>
                 guest'[a] = IF addr <= a /\ a < addr + len
                             THEN IF a \in Masked THEN 0 ELSE d[a - addr + 1] ELSE guest[a]
<1>1. d \in [1..len -> {0, 1}]
  BY DEF Map!Data
<1>2. DOMAIN d = 1..len /\ Len(d) = len
  BY <1>1
<1>3. DOMAIN guest = Map!Mapped \cup Map!InRange
  OBVIOUS
<1>4. guest' = [a \in DOMAIN guest |->
                   IF a - addr + 1 \in DOMAIN d
                   THEN IF a \in Masked THEN 0 ELSE d[a - addr + 1] ELSE guest[a]]
  BY DEF Map!Written
<1>5. \A a \in Int : a - addr + 1 \in 1..len <=> addr <= a /\ a < addr + len
  OBVIOUS
<1> QED BY <1>2, <1>3, <1>4, <1>5

(* What an address in the window or the range is.                          *)
LEMMA WindowBytes ==
    ASSUME Map!Apart
    PROVE  /\ Map!Mapped \cup Map!InRange \subseteq Int
           /\ \A a \in Start..(End - 1) : a \in Map!Mapped /\ a \in Nat
           /\ \A a \in Map!InRange : /\ a \in Nat /\ a \notin Start..(End - 1)
                                     /\ ~Map!BankHandles(a)
<1>1. \A r \in Bank : r \in Nat
  BY DEF Map!Apart
<1>2. Start \in Nat /\ End \in Nat /\ RangeStart \in Nat /\ RangeSize \in Nat
  BY DEF Map!Apart
<1>3. Map!Mapped \cup Map!InRange \subseteq Int
  <2>1. \A a \in Map!Mapped : (\E r \in Bank : a \in r..(r + 3)) \/ a \in Start..(End - 1)
    BY DEF Map!Mapped
  <2>2. Map!Mapped \subseteq Int
    BY <1>1, <1>2, <2>1
  <2>3. Map!InRange \subseteq Int
    BY <1>2 DEF Map!InRange
  <2> QED BY <2>2, <2>3
<1>4. \A a \in Start..(End - 1) : a \in Map!Mapped /\ a \in Nat
  <2>1. \A a \in Start..(End - 1) : a \in Map!Mapped
    BY Zenon DEF Map!Mapped
  <2> QED BY <1>2, <2>1
<1>5. ASSUME NEW a \in Map!InRange
      PROVE  a \in Nat /\ a \notin Start..(End - 1) /\ ~Map!BankHandles(a)
  <2>1. a \in Nat /\ a \notin Map!Mapped
    BY <1>2 DEF Map!InRange, Map!Apart
  <2>2. a % 4 \in 0..3 /\ a = Map!Register(a) + (a % 4)
    BY <2>1, RegisterBytes
  <2>3. Map!Register(a) \in Bank => a \in Map!Mapped
    BY <2>2, RegisterBytes, Zenon
  <2> QED BY <1>4, <2>1, <2>3 DEF Map!BankHandles
<1> QED BY <1>3, <1>4, <1>5

(* Reads: what is returned is in the history.                              *)
LEMMA ReadBytes ==
    ASSUME NEW addr \in Nat, NEW len \in Nat, NEW f, NEW off \in Int,
           \A i \in 0..(len - 1) : f[off + i] = guest[addr + i],
           Map!Answers("read", addr, Map!Slice(f, off, len)), guest' = guest
    PROVE  Map!MappedIsMemory'
<1>1. answer' = [result |-> "read", addr |-> addr, data |-> Map!Slice(f, off, len)]
  BY DEF Map!Answers
<1>2. answer'.data = [i \in 1..len |-> f[off + i - 1]] /\ answer'.addr = addr
  BY <1>1 DEF Map!Slice
<1>3. ASSUME NEW i \in 1..len
      PROVE  f[off + i - 1] = guest[addr + i - 1]
  <2>1. i - 1 \in 0..(len - 1)
    OBVIOUS
  <2>2. f[off + (i - 1)] = guest[addr + (i - 1)]
    BY <2>1
  <2>3. off + (i - 1) = off + i - 1 /\ addr + (i - 1) = addr + i - 1
    OBVIOUS
  <2> QED BY <2>2, <2>3
<1> QED BY <1>2, <1>3, Zenon DEF Map!MappedIsMemory

(* Accesses that answer otherwise return nothing.                          *)
LEMMA NoReadBytes ==
    ASSUME NEW result, result # "read", NEW addr, NEW data, Map!Answers(result, addr, data)
    PROVE  Map!MappedIsMemory'
BY DEF Map!Answers, Map!MappedIsMemory

(* Nothing is written.                                                     *)
LEMMA BytesKept ==
    ASSUME BytesInv, UNCHANGED <<regs, window, range, guest>>
    PROVE  BytesInv'
BY Zenon DEF BytesInv

(* RegisterMapping reads within one register.                              *)
LEMMA BankRead ==
    ASSUME Map!Apart, BytesInv, NEW addr \in Nat, NEW len \in Nat, Map!bank_read(addr, len)
    PROVE  BytesInv' /\ Map!MappedIsMemory'
<1>1. BytesInv'
  BY BytesKept DEF Map!bank_read
<1>2. Map!Register(addr) \in Bank /\ guest' = guest
  BY DEF Map!bank_read, Map!BankHandles
<1>3. /\ addr % 4 \in 0..3 /\ addr = Map!Register(addr) + (addr % 4)
      /\ Map!Register(addr) \in Nat
  BY RegisterBytes
<1>4. CASE len + (addr % 4) > 4
  BY <1>1, <1>4, NoReadBytes DEF Map!bank_read
<1>5. CASE ~(len + (addr % 4) > 4)
  <2>1. Map!Answers("read", addr, Map!Slice(regs[Map!Register(addr)], addr % 4, len))
    BY <1>5 DEF Map!bank_read, Map!bank_offset
  <2>2. ASSUME NEW i \in 0..(len - 1)
        PROVE  regs[Map!Register(addr)][(addr % 4) + i] = guest[addr + i]
    <3>1. (addr % 4) + i \in 0..3 /\ Map!Register(addr) + ((addr % 4) + i) = addr + i
      BY <1>3, <1>5
    <3>2. regs[Map!Register(addr)][(addr % 4) + i] = guest[Map!Register(addr) + ((addr % 4) + i)]
      BY <1>2, <3>1, Zenon DEF BytesInv
    <3> QED BY <3>1, <3>2
  <2>3. addr % 4 \in Int
    BY <1>3
  <2> QED BY <1>1, <1>2, <2>1, <2>2, <2>3, ReadBytes, Zenon
<1> QED BY <1>4, <1>5

(* AddressMapping reads within the window, behind any register in it.      *)
LEMMA WindowRead ==
    ASSUME Map!Apart, BytesInv, NEW addr \in Nat, NEW len \in Nat, Map!window_read(addr, len)
    PROVE  BytesInv' /\ Map!MappedIsMemory'
<1>1. BytesInv'
  BY BytesKept DEF Map!window_read
<1>2. ~Map!BankHandles(addr) /\ addr >= Start /\ addr < End /\ guest' = guest
  BY DEF Map!window_read, Map!WindowHandles
<1>3. Start \in Nat /\ End \in Nat
  BY DEF Map!Apart
<1>4. CASE addr + len > End
  BY <1>1, <1>4, NoReadBytes DEF Map!window_read
<1>5. CASE ~(addr + len > End)
  <2>1. Map!Answers("read", addr, Map!Slice(window, addr - Start, len))
    BY <1>5 DEF Map!window_read
  <2>2. ASSUME NEW i \in 0..(len - 1)
        PROVE  window[addr - Start + i] = guest[addr + i]
    <3>1. /\ addr + i \in Start..(End - 1) /\ addr \in Start..(addr + i)
      BY <1>2, <1>3, <1>5
    <3>2. ~Map!BankHandles(addr + i)
      BY <1>2, <3>1 DEF Map!Apart
    <3>3. \A a \in Start..(End - 1) : ~Map!BankHandles(a) => window[a - Start] = guest[a]
      BY Zenon DEF BytesInv
    <3>4. PICK a \in Start..(End - 1) : a = addr + i
      BY <3>1
    <3>5. window[a - Start] = guest[a]
      BY <3>2, <3>3, <3>4
    <3>6. a - Start = addr - Start + i
      BY <1>3, <3>4
    <3> QED BY <3>4, <3>5, <3>6
  <2>3. addr - Start \in Int
    BY <1>3
  <2> QED BY <1>1, <1>2, <2>1, <2>2, <2>3, ReadBytes, Zenon
<1> QED BY <1>4, <1>5

(* RegisterRange reads within the range.                                   *)
LEMMA RangeRead ==
    ASSUME Map!Apart, BytesInv, NEW addr \in Nat, NEW len \in Nat, Map!range_read(addr, len)
    PROVE  BytesInv' /\ Map!MappedIsMemory'
<1>1. BytesInv'
  BY BytesKept DEF Map!range_read
<1>2. addr \in Map!InRange /\ guest' = guest
  BY DEF Map!range_read
<1>3. RangeStart \in Nat /\ RangeSize \in Nat
  BY DEF Map!Apart
<1> DEFINE refused == Map!Misaligned(addr, len) \/ Map!Leaves(addr, len)
<1>4. CASE refused
  BY <1>1, <1>4, NoReadBytes DEF Map!range_read
<1>5. CASE ~refused
  <2>1. Map!Answers("read", addr, Map!Slice(range, addr - RangeStart, len))
    BY <1>5 DEF Map!range_read
  <2>2. ASSUME NEW i \in 0..(len - 1)
        PROVE  range[addr - RangeStart + i] = guest[addr + i]
    <3>1. addr + i \in Map!InRange
      BY <1>2, <1>3, <1>5 DEF Map!InRange, Map!Leaves
    <3>2. \A a \in Map!InRange : range[a - RangeStart] = guest[a]
      BY Zenon DEF BytesInv
    <3>3. PICK a \in Map!InRange : a = addr + i
      BY <3>1
    <3>4. range[a - RangeStart] = guest[a]
      BY <3>2
    <3>5. a - RangeStart = addr - RangeStart + i
      BY <1>3, <3>3
    <3> QED BY <3>3, <3>4, <3>5
  <2>3. addr - RangeStart \in Int
    BY <1>3
  <2> QED BY <1>1, <1>2, <2>1, <2>2, <2>3, ReadBytes, Zenon
<1> QED BY <1>4, <1>5

(* A write leaves alone what it does not reach.                            *)
LEMMA OtherBytes ==
    ASSUME Map!Apart, BytesInv, NEW addr \in Nat, NEW len \in Nat, NEW d \in Map!Data(len),
           Map!Written(addr, d),
           NEW a \in Map!Mapped \cup Map!InRange, ~(addr <= a /\ a < addr + len)
    PROVE  guest'[a] = guest[a]
<1>1. a \in Int
  BY WindowBytes
<1> QED BY <1>1, WrittenBytes, ZenonT(30) DEF BytesInv

(* Masked bytes stay zero.                                                 *)
LEMMA MaskedKept ==
    ASSUME Map!Apart, BytesInv, NEW addr \in Nat, NEW len \in Nat, NEW d \in Map!Data(len),
           Map!Written(addr, d)
    PROVE  \A a \in Masked : guest'[a] = 0
<1>1. \A a \in Masked : a \in Map!Mapped \cup Map!InRange /\ guest[a] = 0 /\ a \in Int
  BY MaskedBytes, WindowBytes, Zenon DEF BytesInv
<1> QED BY <1>1, WrittenBytes, Zenon DEF BytesInv

(* RegisterMapping writes within one register and masks it.                *)
LEMMA BankWrite ==
    ASSUME Map!Apart, BytesInv, NEW addr \in Nat, NEW len \in Nat, NEW d \in Map!Data(len),
           Map!bank_write(addr, d)
    PROVE  BytesInv' /\ Map!MappedIsMemory'
<1> DEFINE r == Map!Register(addr)
           o == addr % 4
           refused == Len(d) + o > 4 \/ ~Map!can_write(r)
<1>1. r \in Bank /\ r \in Nat /\ o \in 0..3 /\ addr = r + o
  BY RegisterBytes, Zenon DEF Map!bank_write, Map!BankHandles
<1>2. window' = window /\ range' = range
  BY DEF Map!bank_write
<1>3. CASE refused
  <2>1. regs' = regs /\ guest' = guest /\ Map!Answers("assertion", addr, <<>>)
    BY <1>3 DEF Map!bank_write
  <2> QED BY <1>2, <2>1, BytesKept, NoReadBytes
<1>4. CASE ~refused
  <2>1. /\ regs' = [regs EXCEPT ![r] = Map!Mask(r, Map!Patch(regs[r], o, d))]
        /\ Map!Written(addr, d) /\ Map!Answers("written", addr, <<>>)
    BY <1>4 DEF Map!bank_write, Map!bank_offset
  <2> HIDE DEF r, o
  <2>2. /\ DOMAIN d = 1..len /\ Len(d) = len
        /\ guest' = [a \in Map!Mapped \cup Map!InRange |-> guest'[a]]
        /\ \A a \in Map!Mapped \cup Map!InRange : a \in Int =>
              guest'[a] = IF addr <= a /\ a < addr + len
                          THEN IF a \in Masked THEN 0 ELSE d[a - addr + 1] ELSE guest[a]
    BY <2>1, WrittenBytes, ZenonT(30) DEF BytesInv
  <2>3. len + o <= 4
    BY <1>1, <1>4, <2>2
  <2>4. /\ DOMAIN regs = Bank /\ DOMAIN regs[r] = 0..3
        /\ \A i \in 0..3 : regs[r][i] = guest[r + i]
    BY <1>1, Zenon DEF BytesInv
  <2>5. regs'[r] = [i \in 0..3 |-> IF r + i \in Masked THEN 0
                                   ELSE IF i - o + 1 \in DOMAIN d THEN d[i - o + 1]
                                   ELSE regs[r][i]]
    <3>1. Map!Patch(regs[r], o, d)
             = [i \in 0..3 |-> IF i - o + 1 \in DOMAIN d THEN d[i - o + 1] ELSE regs[r][i]]
      BY <2>4, Zenon DEF Map!Patch
    <3>2. Map!Mask(r, Map!Patch(regs[r], o, d))
             = [i \in 0..3 |-> IF r + i \in Masked THEN 0 ELSE Map!Patch(regs[r], o, d)[i]]
      BY DEF Map!Mask
    <3>3. regs'[r] = Map!Mask(r, Map!Patch(regs[r], o, d))
      BY <1>1, <2>1, <2>4, Zenon
    <3> QED BY <3>1, <3>2, <3>3, Zenon
  <2>6. /\ regs' = [s \in Bank |-> regs'[s]]
        /\ \A s \in Bank : s # r => regs'[s] = regs[s]
    BY <2>1, <2>4, Zenon
  <2>7. \A s \in Bank : regs'[s] = [i \in 0..3 |-> regs'[s][i]]
    BY <2>5, <2>6 DEF BytesInv
  <2>8. ASSUME NEW i \in 0..3
        PROVE  regs'[r][i] = guest'[r + i]
    <3>1. r + i \in Map!Mapped \cup Map!InRange /\ r + i \in Int
      <4>1. \A s \in Bank : \A j \in 0..3 : s + j \in Map!Mapped
        BY RegisterBytes, Zenon
      <4> QED BY <1>1, <4>1
    <3>2. DOMAIN d = 1..len
      BY <2>2
    <3>3. r + i \in Masked => guest[r + i] = 0
      BY Zenon DEF BytesInv
    <3>4. guest'[r + i] = IF i - o + 1 \in DOMAIN d
                          THEN IF r + i \in Masked THEN 0 ELSE d[i - o + 1] ELSE guest[r + i]
      <4>1. PICK a \in Map!Mapped \cup Map!InRange : a = r + i
        BY <3>1
      <4>2. guest'[a] = IF addr <= a /\ a < addr + len
                        THEN IF a \in Masked THEN 0 ELSE d[a - addr + 1] ELSE guest[a]
        BY <2>2, <3>1, <4>1
      <4>3. /\ a - addr + 1 = i - o + 1
            /\ i - o + 1 \in DOMAIN d <=> addr <= a /\ a < addr + len
        BY <1>1, <3>2, <4>1
      <4>4. guest'[a] = IF i - o + 1 \in DOMAIN d
                        THEN IF a \in Masked THEN 0 ELSE d[i - o + 1] ELSE guest[a]
        BY <4>2, <4>3, Zenon
      <4> QED BY <4>1, <4>4, Zenon
    <3>5. regs'[r][i] = IF r + i \in Masked THEN 0
                        ELSE IF i - o + 1 \in DOMAIN d THEN d[i - o + 1] ELSE regs[r][i]
      BY <2>5
    <3> QED BY <2>4, <3>3, <3>4, <3>5, Zenon
  <2>9. ASSUME NEW a \in Map!Mapped \cup Map!InRange, a \in Int, \A i \in 0..3 : a # r + i
        PROVE  guest'[a] = guest[a]
    <3>1. ~(addr <= a /\ a < addr + len)
      <4> SUFFICES ASSUME addr <= a, a < addr + len PROVE FALSE
        OBVIOUS
      <4>1. a - r \in 0..3 /\ a = r + (a - r)
        BY <1>1, <2>3, <2>9
      <4> QED BY <2>9, <4>1
    <3> QED BY <2>2, <2>9, <3>1
  <2>10. ASSUME NEW s \in Bank, NEW i \in 0..3
         PROVE  regs'[s][i] = guest'[s + i]
    <3>1. CASE s = r
      BY <2>8, <3>1
    <3>2. CASE s # r
      <4>1. s + i \in Map!Mapped /\ Map!Register(s + i) = s /\ s \in Nat
        BY RegisterBytes, Zenon
      <4>2. \A j \in 0..3 : Map!Register(r + j) = r
        BY <1>1, RegisterBytes, Zenon
      <4>3. \A j \in 0..3 : s + i # r + j
        BY <3>2, <4>1, <4>2
      <4>4. guest'[s + i] = guest[s + i]
        BY <2>9, <4>1, <4>3
      <4>5. regs[s][i] = guest[s + i]
        BY Zenon DEF BytesInv
      <4> QED BY <2>6, <3>2, <4>4, <4>5
    <3> QED BY <3>1, <3>2
  <2>11. ASSUME NEW a \in Start..(End - 1), ~Map!BankHandles(a)
         PROVE  window'[a - Start] = guest'[a]
    <3>1. a \in Map!Mapped \cup Map!InRange /\ a \in Int
      BY WindowBytes
    <3>2. \A i \in 0..3 : a # r + i
      BY <1>1, <2>11, RegisterBytes, Zenon
    <3>3. window[a - Start] = guest[a]
      BY <2>11, Zenon DEF BytesInv
    <3> QED BY <1>2, <2>9, <3>1, <3>2, <3>3
  <2>12. ASSUME NEW a \in Map!InRange
         PROVE  range'[a - RangeStart] = guest'[a]
    <3>1. a \in Map!Mapped \cup Map!InRange /\ a \in Int /\ ~Map!BankHandles(a)
      BY WindowBytes
    <3>2. \A i \in 0..3 : a # r + i
      BY <1>1, <3>1, RegisterBytes, Zenon
    <3>3. range[a - RangeStart] = guest[a]
      BY Zenon DEF BytesInv
    <3> QED BY <1>2, <2>9, <3>1, <3>2, <3>3
  <2>13. BytesInv'
    <3>1. \A a \in Masked : guest'[a] = 0
      BY <2>1, MaskedKept
    <3>2. window' = [i \in 0..(End - Start - 1) |-> window'[i]]
          /\ range' = [i \in 0..(RangeSize - 1) |-> range'[i]]
      BY <1>2 DEF BytesInv
    <3> QED BY <2>2, <2>6, <2>7, <2>10, <2>11, <2>12, <3>1, <3>2, Zenon
            DEF BytesInv, Map!Mapped, Map!InRange, Map!BankHandles, Map!Register
  <2> QED BY <2>1, <2>13, NoReadBytes
<1> QED BY <1>3, <1>4

(* AddressMapping writes within the window, behind any register in it.     *)
LEMMA WindowWrite ==
    ASSUME Map!Apart, BytesInv, NEW addr \in Nat, NEW len \in Nat, NEW d \in Map!Data(len),
           Map!window_write(addr, d)
    PROVE  BytesInv' /\ Map!MappedIsMemory'
<1>1. /\ ~Map!BankHandles(addr) /\ Start <= addr /\ addr < End /\ regs' = regs /\ range' = range
      /\ Start \in Nat /\ End \in Nat
  BY DEF Map!window_write, Map!WindowHandles, Map!Apart
<1>2. CASE addr + Len(d) > End
  <2>1. window' = window /\ guest' = guest /\ Map!Answers("assertion", addr, <<>>)
    BY <1>2 DEF Map!window_write
  <2> QED BY <1>1, <2>1, BytesKept, NoReadBytes
<1>3. CASE ~(addr + Len(d) > End)
  <2>1. /\ window' = Map!Patch(window, addr - Start, d)
        /\ Map!Written(addr, d) /\ Map!Answers("written", addr, <<>>)
    BY <1>3 DEF Map!window_write
  <2>2. /\ DOMAIN d = 1..len /\ Len(d) = len
        /\ guest' = [a \in Map!Mapped \cup Map!InRange |-> guest'[a]]
        /\ \A a \in Map!Mapped \cup Map!InRange : a \in Int =>
              guest'[a] = IF addr <= a /\ a < addr + len
                          THEN IF a \in Masked THEN 0 ELSE d[a - addr + 1] ELSE guest[a]
    BY <2>1, WrittenBytes, ZenonT(30) DEF BytesInv
  <2>3. addr + len <= End
    BY <1>1, <1>3, <2>2
  <2>4. DOMAIN window = 0..(End - Start - 1)
    BY DEF BytesInv
  <2>5. window' = [i \in 0..(End - Start - 1) |->
                      IF i - (addr - Start) + 1 \in 1..len THEN d[i - (addr - Start) + 1]
                      ELSE window[i]]
    BY <2>1, <2>2, <2>4 DEF Map!Patch
  <2>6. ASSUME NEW a \in Start..(End - 1), ~Map!BankHandles(a)
        PROVE  window'[a - Start] = guest'[a]
    <3>1. a \in Map!Mapped \cup Map!InRange /\ a \in Int /\ a \notin Masked
      BY <2>6, WindowBytes, MaskedBytes
    <3>2. window[a - Start] = guest[a]
      BY <2>6, Zenon DEF BytesInv
    <3>3. /\ a - Start \in 0..(End - Start - 1)
          /\ (a - Start) - (addr - Start) + 1 = a - addr + 1
          /\ a - addr + 1 \in 1..len <=> addr <= a /\ a < addr + len
      BY <1>1, <3>1
    <3>4. window'[a - Start] = IF a - addr + 1 \in 1..len THEN d[a - addr + 1]
                               ELSE window[a - Start]
      BY <2>5, <3>3
    <3>5. guest'[a] = IF addr <= a /\ a < addr + len THEN d[a - addr + 1] ELSE guest[a]
      BY <2>2, <3>1
    <3> QED BY <3>2, <3>3, <3>4, <3>5
  <2>7. ASSUME NEW r \in Bank, NEW i \in 0..3
        PROVE  regs'[r][i] = guest'[r + i]
    <3>1. r + i \in Map!Mapped /\ Map!BankHandles(r + i) /\ r \in Nat
      BY RegisterBytes, Zenon
    <3>2. ~(addr <= r + i /\ r + i < addr + len)
      <4> SUFFICES ASSUME addr <= r + i, r + i < addr + len PROVE FALSE
        OBVIOUS
      <4>1. r + i \in Start..(End - 1) /\ addr \in Start..(r + i)
        BY <1>1, <2>3, <3>1
      <4>2. \A a \in Start..(End - 1) : Map!BankHandles(a) => \A b \in Start..a : Map!BankHandles(b)
        BY DEF Map!Apart
      <4> QED BY <1>1, <3>1, <4>1, <4>2, Zenon
    <3>3. guest'[r + i] = guest[r + i]
      BY <2>1, <3>1, <3>2, OtherBytes, ZenonT(30)
    <3>4. regs[r][i] = guest[r + i]
      BY Zenon DEF BytesInv
    <3> QED BY <1>1, <3>3, <3>4
  <2>8. ASSUME NEW a \in Map!InRange
        PROVE  range'[a - RangeStart] = guest'[a]
    <3>1. a \in Nat /\ a \notin Start..(End - 1)
      BY WindowBytes
    <3>2. ~(addr <= a /\ a < addr + len)
      BY <1>1, <2>3, <3>1
    <3>3. guest'[a] = guest[a]
      BY <2>1, <3>2, OtherBytes, Zenon
    <3>4. range[a - RangeStart] = guest[a]
      BY Zenon DEF BytesInv
    <3> QED BY <1>1, <3>3, <3>4, Zenon
  <2>9. BytesInv'
    <3>1. \A a \in Masked : guest'[a] = 0
      BY <2>1, MaskedKept
    <3>2. /\ regs' = [r \in Bank |-> regs'[r]]
          /\ \A r \in Bank : regs'[r] = [i \in 0..3 |-> regs'[r][i]]
          /\ range' = [i \in 0..(RangeSize - 1) |-> range'[i]]
      BY <1>1 DEF BytesInv
    <3>3. window' = [i \in 0..(End - Start - 1) |-> window'[i]]
      BY <2>5
    <3> QED BY <2>2, <2>6, <2>7, <2>8, <3>1, <3>2, <3>3, Zenon
            DEF BytesInv, Map!Mapped, Map!InRange, Map!BankHandles, Map!Register
  <2> QED BY <2>1, <2>9, NoReadBytes
<1> QED BY <1>2, <1>3, SMTT(30)

(* RegisterRange writes within the range.                                  *)
LEMMA RangeWrite ==
    ASSUME Map!Apart, BytesInv, NEW addr \in Nat, NEW len \in Nat, NEW d \in Map!Data(len),
           Map!range_write(addr, d)
    PROVE  BytesInv' /\ Map!MappedIsMemory'
<1> DEFINE refused == Map!Misaligned(addr, Len(d)) \/ Map!Leaves(addr, Len(d))
<1>1. /\ addr \in Map!InRange /\ regs' = regs /\ window' = window
      /\ RangeStart \in Nat /\ RangeSize \in Nat
  BY Zenon DEF Map!range_write, Map!Apart
<1>2. CASE refused
  <2>1. range' = range /\ guest' = guest /\ Map!Answers("assertion", addr, <<>>)
    BY <1>2 DEF Map!range_write
  <2> QED BY <1>1, <2>1, BytesKept, NoReadBytes
<1>3. CASE ~refused
  <2>1. /\ range' = Map!Patch(range, addr - RangeStart, d)
        /\ Map!Written(addr, d) /\ Map!Answers("written", addr, <<>>)
    BY <1>3 DEF Map!range_write
  <2>2. /\ DOMAIN d = 1..len /\ Len(d) = len
        /\ guest' = [a \in Map!Mapped \cup Map!InRange |-> guest'[a]]
        /\ \A a \in Map!Mapped \cup Map!InRange : a \in Int =>
              guest'[a] = IF addr <= a /\ a < addr + len
                          THEN IF a \in Masked THEN 0 ELSE d[a - addr + 1] ELSE guest[a]
    BY <2>1, WrittenBytes, ZenonT(30) DEF BytesInv
  <2>3. ~(addr - RangeStart + len > RangeSize)
    BY <1>3, <2>2 DEF Map!Leaves
  <2>4. DOMAIN range = 0..(RangeSize - 1)
    BY DEF BytesInv
  <2>5. range' = [i \in 0..(RangeSize - 1) |->
                   IF i - (addr - RangeStart) + 1 \in 1..len THEN d[i - (addr - RangeStart) + 1]
                   ELSE range[i]]
    BY <2>1, <2>2, <2>4 DEF Map!Patch
  <2>6. \A a \in Int : addr <= a /\ a < addr + len => a \in Map!InRange
    BY <1>1, <2>3, SMTT(30) DEF Map!InRange
  <2>7. ASSUME NEW a \in Map!InRange
        PROVE  range'[a - RangeStart] = guest'[a]
    <3>1. a \in Int /\ a \notin Masked
      BY WindowBytes, MaskedBytes
    <3>2. range[a - RangeStart] = guest[a]
      BY Zenon DEF BytesInv
    <3>3. /\ a - RangeStart \in 0..(RangeSize - 1)
          /\ (a - RangeStart) - (addr - RangeStart) + 1 = a - addr + 1
          /\ a - addr + 1 \in 1..len <=> addr <= a /\ a < addr + len
      BY <1>1, <3>1 DEF Map!InRange
    <3>4. range'[a - RangeStart] = IF a - addr + 1 \in 1..len THEN d[a - addr + 1]
                                 ELSE range[a - RangeStart]
      BY <2>5, <3>3
    <3>5. guest'[a] = IF addr <= a /\ a < addr + len THEN d[a - addr + 1] ELSE guest[a]
      BY <2>2, <3>1
    <3> QED BY <3>2, <3>3, <3>4, <3>5, Zenon
  <2>8. ASSUME NEW r \in Bank, NEW i \in 0..3
        PROVE  regs'[r][i] = guest'[r + i]
    <3>1. r + i \in Map!Mapped /\ Map!BankHandles(r + i) /\ r \in Nat /\ r + i \in Int
      <4>1. r + i \in Map!Mapped /\ Map!BankHandles(r + i) /\ r \in Nat
        BY RegisterBytes, Zenon
      <4> QED BY <4>1
    <3>2. ~(addr <= r + i /\ r + i < addr + len)
      BY <2>6, <3>1, WindowBytes
    <3>3. guest'[r + i] = guest[r + i]
      BY <2>1, <3>1, <3>2, OtherBytes
    <3>4. regs[r][i] = guest[r + i]
      BY Zenon DEF BytesInv
    <3> QED BY <1>1, <3>3, <3>4
  <2>9. ASSUME NEW a \in Start..(End - 1), ~Map!BankHandles(a)
        PROVE  window'[a - Start] = guest'[a]
    <3>1. a \in Map!Mapped /\ a \in Int
      BY WindowBytes
    <3>2. ~(addr <= a /\ a < addr + len)
      BY <2>6, <3>1, WindowBytes
    <3>3. guest'[a] = guest[a]
      BY <2>1, <3>1, <3>2, OtherBytes
    <3>4. window[a - Start] = guest[a]
      BY <2>9, Zenon DEF BytesInv
    <3> QED BY <1>1, <3>3, <3>4
  <2>10. BytesInv'
    <3>1. \A a \in Masked : guest'[a] = 0
      BY <2>1, MaskedKept
    <3>2. /\ regs' = [r \in Bank |-> regs'[r]]
          /\ \A r \in Bank : regs'[r] = [i \in 0..3 |-> regs'[r][i]]
          /\ window' = [i \in 0..(End - Start - 1) |-> window'[i]]
      BY <1>1 DEF BytesInv
    <3>3. range' = [i \in 0..(RangeSize - 1) |-> range'[i]]
      BY <2>5
    <3> QED BY <2>2, <2>7, <2>8, <2>9, <3>1, <3>2, <3>3, Zenon
            DEF BytesInv, Map!Mapped, Map!InRange, Map!BankHandles, Map!Register
  <2> QED BY <2>1, <2>10, NoReadBytes
<1> QED BY <1>2, <1>3

(* With the answer of the last access.                                    *)
MapInv == BytesInv /\ Map!MappedIsMemory

(* All bytes are zero.                                                     *)
LEMMA MapInit == ASSUME Map!Apart, Map!Init PROVE MapInv
<1>1. /\ \A r \in Bank : r \in Nat
      /\ Start \in Nat /\ End \in Nat /\ RangeStart \in Nat /\ RangeSize \in Nat
  BY DEF Map!Apart
<1>2. /\ regs = [r \in Bank |-> [i \in 0..3 |-> 0]]
      /\ window = [i \in 0..(End - Start - 1) |-> 0] /\ range = [i \in 0..(RangeSize - 1) |-> 0]
      /\ guest = [a \in Map!Mapped \cup Map!InRange |-> 0]
      /\ answer = [result |-> "none", addr |-> 0, data |-> <<>>]
  BY DEF Map!Init, Map!Zeroes
<1>3. Map!MappedIsMemory
  BY <1>2 DEF Map!MappedIsMemory
<1>4. \A r \in Bank : \A i \in 0..3 : regs[r][i] = guest[r + i]
  <2>1. \A r \in Bank : \A i \in 0..3 : r + i \in Map!Mapped
    BY RegisterBytes, Zenon
  <2> QED BY <1>2, <2>1, Zenon
<1>5. \A a \in Start..(End - 1) : window[a - Start] = guest[a]
  <2>1. \A a \in Start..(End - 1) : a \in Map!Mapped /\ a - Start \in 0..(End - Start - 1)
    BY <1>1, WindowBytes
  <2> QED BY <1>2, <2>1
<1>6. \A a \in Map!InRange : range[a - RangeStart] = guest[a]
  <2>1. \A a \in Map!InRange : a - RangeStart \in 0..(RangeSize - 1)
    BY <1>1 DEF Map!InRange
  <2> QED BY <1>2, <2>1
<1>7. \A a \in Masked : guest[a] = 0
  BY <1>2, MaskedBytes
<1>8. BytesInv
  BY <1>2, <1>4, <1>5, <1>6, <1>7, Zenon DEF BytesInv
<1> QED BY <1>3, <1>8 DEF MapInv

(* Every access keeps the bytes and returns those of the history.          *)
LEMMA MapStep == ASSUME Map!Apart, MapInv, [Map!Next]_(Map!vars) PROVE MapInv'
<1>1. CASE UNCHANGED Map!vars
  <2>1. UNCHANGED <<regs, window, range, guest, answer>>
    BY <1>1 DEF Map!vars
  <2> QED BY <2>1, BytesKept DEF MapInv, Map!MappedIsMemory
<1>2. CASE Map!Next
  <2>1. PICK addr \in Map!Addresses, len \in {1, 2, 4} :
           \/ Map!bank_read(addr, len) \/ Map!window_read(addr, len) \/ Map!range_read(addr, len)
           \/ Map!transport_throws(addr, len)
           \/ \E d \in Map!Data(len) :
                 \/ Map!bank_write(addr, d) \/ Map!window_write(addr, d)
                 \/ Map!range_write(addr, d)
    BY <1>2, Zenon DEF Map!Next
  <2>2. addr \in Nat /\ len \in Nat /\ BytesInv
    <3>1. addr \in Nat
      BY DEF Map!Addresses
    <3>2. len \in Nat
      OBVIOUS
    <3>3. BytesInv
      BY Zenon DEF MapInv
    <3> QED BY <3>1, <3>2, <3>3, Zenon
  <2>3. CASE Map!transport_throws(addr, len)
    <3>1. UNCHANGED <<regs, window, range, guest>> /\ Map!Answers("throws", addr, <<>>)
      BY <2>3 DEF Map!transport_throws
    <3> QED BY <2>2, <3>1, BytesKept, NoReadBytes DEF MapInv
  <2>4. CASE Map!bank_read(addr, len) \/ Map!window_read(addr, len) \/ Map!range_read(addr, len)
    BY <2>2, <2>4, BankRead, WindowRead, RangeRead DEF MapInv
  <2>5. ASSUME NEW d \in Map!Data(len),
               \/ Map!bank_write(addr, d) \/ Map!window_write(addr, d) \/ Map!range_write(addr, d)
        PROVE  MapInv'
    BY <2>2, <2>5, BankWrite, WindowWrite, RangeWrite DEF MapInv
  <2> QED BY <2>1, <2>3, <2>4, <2>5
<1> QED BY <1>1, <1>2, SMTT(30)

(* Whatever the widths and offsets of the accesses before, a read through  *)
(* the router or the range returns for every address the byte last written *)
(* there, less what the register's mask clears.                            *)
THEOREM MappedAlwaysMemory == ASSUME Map!Apart PROVE Map!Spec => []Map!MappedIsMemory
<1>1. MapInv => Map!MappedIsMemory
  BY DEF MapInv
<1> QED BY <1>1, MapInit, MapStep, PTL DEF Map!Spec
=============================================================================
