--------------------------- MODULE VirtualMemory ---------------------------
(***************************************************************************)
(* The path of a memory access of the core: CombinedMemoryInterface        *)
(* (core/rv32/mem.h), the MMU with its TLB and page walk                   *)
(* (core/common/mmu.h), and the bus (platform/common/bus.h).               *)
(*                                                                         *)
(* Addresses are abstracted to pages: a virtual page is the pair of the    *)
(* two indices of Sv32 (the only mode satp can name on RV32; its check of  *)
(* the sign extension is void for two levels of ten bits), with Fanout     *)
(* entries to a table.  A page table entry is its set of flags and its     *)
(* page.                                                                   *)
(***************************************************************************)
EXTENDS Integers

CONSTANTS Fanout,        \* entries of a page table
          TLB_ENTRIES,
          Ports,         \* the sequence of PortMappings, as pairs of pages
          Tables,        \* the page tables the guest may set up
          Root,          \* satp.ppn
          NewEntries,    \* entries the guest may write to a table later
          Debugger,      \* whether a debugger translates addresses
          MaxAccesses, MaxChanges

Indices == 0..Fanout - 1
VPages == Indices \X Indices
vpn(v) == v[1] * Fanout + v[2]
PhysicalPages == Fanout * Fanout    \* the pages of a 32-bit address
Modes == {"U", "S"}
Types == {"FETCH", "LOAD", "STORE"}

VARIABLES table,         \* the entries in memory: [<<page, index>> -> entry]
          bare,          \* satp.mode is SATP_MODE_BARE
          sum, mxr,      \* of mstatus
          tlb,           \* [mode, type, index -> the entry or NoEntry]
          outcome,       \* of the last access
          stored,        \* history: <<virtual page, mode>> of translated stores
          fresh,         \* history: no change the TLB could have missed
          flagsFresh,    \* history: no such change but to sum and mxr
          accesses, changes

vars == <<table, bare, sum, mxr, tlb, outcome, stored, fresh, flagsFresh,
          accesses, changes>>

NoEntry == [vpn |-> -1, ppn |-> -1]
None == [cause |-> "none", page |-> -1, port |-> -1]

(* The guest has written its tables and mstatus, paging is still off.      *)
(* GenericMMU flushes the TLB when it is constructed, and never again: the *)
(* instruction that would is not executed.                                 *)
flush_tlb == [e \in Modes \X Types \X (0..TLB_ENTRIES - 1) |-> NoEntry]

Init == /\ table \in Tables
        /\ bare = TRUE /\ sum \in BOOLEAN /\ mxr \in BOOLEAN
        /\ tlb = flush_tlb
        /\ outcome = None
        /\ stored = {} /\ fresh = TRUE /\ flagsFresh = TRUE
        /\ accesses = 0 /\ changes = 0

-----------------------------------------------------------------------------
(* The bus: the first port that contains the address, 0 for none.          *)
decode(page) ==
    LET containing == {i \in DOMAIN Ports : Ports[i][1] <= page /\ page <= Ports[i][2]}
    IN  IF containing = {} THEN 0
        ELSE CHOOSE i \in containing : \A j \in containing : i <= j

(* _do_transaction: an error of the bus is a page fault of the access, and *)
(* so is an error while the MMU loads an entry, whatever it is for.        *)
transaction(read, page) ==
    [cause |-> IF decode(page) # 0 THEN "none" ELSE IF read THEN "LOAD" ELSE "STORE",
     page |-> page, port |-> decode(page)]

-----------------------------------------------------------------------------
(* One level of the page walk.                                             *)
has(pte, f) == f \in pte.flags

Invalid(pte) == ~has(pte, "V") \/ (~has(pte, "R") /\ has(pte, "W"))
Pointer(pte) == ~has(pte, "R") /\ ~has(pte, "X")

Permits(pte, type) ==
    CASE type = "FETCH" -> has(pte, "X")
      [] type = "LOAD"  -> has(pte, "R") \/ (mxr /\ has(pte, "X"))
      [] type = "STORE" -> has(pte, "R") /\ has(pte, "W")

Owned(pte, type, mode) ==
    IF has(pte, "U") THEN ~(mode = "S" /\ (type = "FETCH" \/ ~sum)) ELSE mode = "S"

(* A leaf of the upper table maps a superpage, which must be aligned.      *)
Aligned(pte, level) == level = 1 => pte.ppn % Fanout = 0

ad(type) == IF type = "STORE" THEN {"A", "D"} ELSE {"A"}

(* What a walk yields: a fault, or the page, the entry and its new flags.  *)
Fault(cause) == [cause |-> cause, page |-> -1, entry |-> <<-1, -1>>, flags |-> {}]

leaf(v, type, mode, entry, level) ==
    LET pte == table[entry] IN
    IF \/ Invalid(pte) \/ Pointer(pte)
       \/ ~Permits(pte, type) \/ ~Owned(pte, type, mode) \/ ~Aligned(pte, level)
    THEN Fault(type)
    ELSE [cause |-> "none",
          page |-> IF level = 1 THEN pte.ppn + v[2] ELSE pte.ppn,
          entry |-> entry, flags |-> pte.flags \cup ad(type)]

walk(v, type, mode) ==
    LET upper == <<Root, v[1]>>
        lower == <<table[upper].ppn, v[2]>>
    IN  IF Invalid(table[upper]) \/ ~Pointer(table[upper])
        THEN leaf(v, type, mode, upper, 1)
        ELSE IF decode(lower[1]) = 0 THEN Fault("LOAD")
        ELSE IF lower \notin DOMAIN table THEN Fault(type)   \* no table: zeros
        ELSE leaf(v, type, mode, lower, 0)

(* Mutant: all modes share the entries of one.                             *)
slot_any_mode(v, type, mode) == <<"U", type, vpn(v) % TLB_ENTRIES>>
(* The index of the TLB, and what translate_virtual_to_physical_addr does  *)
(* with an access in user or supervisor mode.                              *)
slot(v, type, mode) == <<mode, type, vpn(v) % TLB_ENTRIES>>

Cached(v, type, mode) == tlb[slot(v, type, mode)].vpn = vpn(v)

translate(v, type, mode) ==
    IF Cached(v, type, mode)
    THEN [cause |-> "none", page |-> tlb[slot(v, type, mode)].ppn,
          entry |-> <<-1, -1>>, flags |-> {}]
    ELSE walk(v, type, mode)

(* The mode an access is translated in: that of mstatus.mpp for data while *)
(* mprv is set.  In machine mode, and with bare, addresses are physical.   *)
effective_mode(type, prv, mprv, mpp) == IF type # "FETCH" /\ mprv THEN mpp ELSE prv

translate_virtual_to_physical_addr(v, type, prv, mprv, mpp) ==
    LET mode == effective_mode(type, prv, mprv, mpp) IN
    IF bare \/ mode = "M"
    THEN [cause |-> "none", page |-> vpn(v), entry |-> <<-1, -1>>, flags |-> {}]
    ELSE translate(v, type, mode)

-----------------------------------------------------------------------------
(* v2p for one access: a walk stores the flags it has set, and a page it   *)
(* has found enters the TLB, less the bits above 32 that Sv32 has and the  *)
(* mask ~PGMASK clears.                                                    *)
v2p(v, type, prv, mprv, mpp) ==
    LET mode == effective_mode(type, prv, mprv, mpp)
        r == translate_virtual_to_physical_addr(v, type, prv, mprv, mpp)
        translated == ~bare /\ mode # "M" /\ r.cause = "none"
        walked == translated /\ ~Cached(v, type, mode)
    IN  /\ table' = IF walked THEN [table EXCEPT ![r.entry].flags = r.flags] ELSE table
        /\ tlb' = IF walked
                  THEN [tlb EXCEPT ![slot(v, type, mode)] =
                           [vpn |-> vpn(v), ppn |-> r.page % PhysicalPages]]
                  ELSE tlb
        /\ stored' = IF translated /\ type = "STORE" THEN stored \cup {<<v, mode>>} ELSE stored

Access(v, type, read, prv, mprv, mpp) ==
    LET r == translate_virtual_to_physical_addr(v, type, prv, mprv, mpp) IN
    /\ accesses < MaxAccesses /\ accesses' = accesses + 1
    /\ v2p(v, type, prv, mprv, mpp)
    /\ outcome' = IF r.cause = "none" THEN transaction(read, r.page)
                  ELSE [cause |-> r.cause, page |-> vpn(v), port |-> -1]
    /\ UNCHANGED <<bare, sum, mxr, fresh, flagsFresh, changes>>

Contexts == {<<"M", FALSE, "M">>, <<"M", TRUE, "S">>, <<"M", TRUE, "U">>,
             <<"S", FALSE, "U">>, <<"U", FALSE, "M">>}

load_instr ==
    \E v \in VPages, c \in Contexts : Access(v, "FETCH", TRUE, c[1], c[2], c[3])

symbolic_store_data ==
    \E v \in VPages, c \in Contexts : Access(v, "STORE", FALSE, c[1], c[2], c[3])

(* Loads are translated as stores.                                         *)
symbolic_load_data ==
    \E v \in VPages, c \in Contexts : Access(v, "STORE", TRUE, c[1], c[2], c[3])

(* The translation a debugger asks for through mmu_memory_if, if the GDB   *)
(* server has been given the MMUs.                                         *)
debug_v2p ==
    Debugger /\ \E v \in VPages, c \in Contexts : Access(v, "LOAD", TRUE, c[1], c[2], c[3])

(* What the guest can change: the tables, satp.mode, sum and mxr.          *)
Change == changes < MaxChanges /\ changes' = changes + 1

guest_writes_entry ==
    /\ Change
    /\ \E e \in DOMAIN table, pte \in NewEntries : table' = [table EXCEPT ![e] = pte]
    /\ fresh' = FALSE /\ flagsFresh' = FALSE
    /\ UNCHANGED <<bare, sum, mxr, tlb, outcome, stored, accesses>>

guest_enables_paging ==
    /\ bare /\ bare' = FALSE
    /\ UNCHANGED <<table, sum, mxr, tlb, outcome, stored, fresh, flagsFresh,
                   accesses, changes>>

guest_writes_mstatus ==
    /\ Change
    /\ \/ sum' = ~sum /\ UNCHANGED mxr
       \/ mxr' = ~mxr /\ UNCHANGED sum
    /\ fresh' = (fresh /\ tlb = flush_tlb)
    /\ UNCHANGED <<table, bare, tlb, outcome, stored, flagsFresh, accesses>>

Next == \/ load_instr \/ symbolic_store_data \/ symbolic_load_data \/ debug_v2p
        \/ guest_writes_entry \/ guest_enables_paging \/ guest_writes_mstatus

Spec == Init /\ [][Next]_vars

(* The tables a guest sets up: the root table is complete, and all tables  *)
(* are in memory that a port decodes.                                      *)
Proper(t) ==
    /\ t = [e \in DOMAIN t |-> t[e]]
    /\ \A i \in Indices : <<Root, i>> \in DOMAIN t
    /\ \A e \in DOMAIN t : /\ t[e] = [flags |-> t[e].flags, ppn |-> t[e].ppn]
                           /\ t[e].ppn \in Nat
                           /\ decode(e[1]) # 0

-----------------------------------------------------------------------------
(* The translation Sv32 defines: a page has at most one leaf; it gives the *)
(* page if it is aligned and allows the access in this mode.               *)
Leaves(v) ==
    LET upper == <<Root, v[1]>>
        lower == <<table[upper].ppn, v[2]>>
        Flags(e) == IF e \in DOMAIN table THEN table[e].flags ELSE {}
        sound(e) == "V" \in Flags(e) /\ ("W" \in Flags(e) => "R" \in Flags(e))
        leafy(e) == Flags(e) \cap {"R", "X"} # {}
    IN  {[entry |-> e, super |-> TRUE] : e \in {e \in {upper} : sound(e) /\ leafy(e)}}
        \cup {[entry |-> e, super |-> FALSE] :
                e \in {e \in {lower} : sound(upper) /\ ~leafy(upper) /\ sound(e) /\ leafy(e)}}

Allowed(flags, type, mode) ==
    /\ type = "FETCH" => "X" \in flags
    /\ type = "STORE" => "W" \in flags
    /\ type = "LOAD" => "R" \in flags \/ ("X" \in flags /\ mxr)
    /\ mode = "U" => "U" \in flags
    /\ mode = "S" /\ "U" \in flags => sum /\ type # "FETCH"

Pages(v, type, mode) ==
    {table[l.entry].ppn + (IF l.super THEN v[2] ELSE 0) :
        l \in {l \in Leaves(v) : /\ Allowed(table[l.entry].flags, type, mode)
                                 /\ l.super => table[l.entry].ppn % Fanout = 0}}

(* The walk gives the page itself, the TLB what 32 bits hold of it.        *)
Exact(v, type, mode) ==
    LET r == translate(v, type, mode) IN
    IF r.cause = "none"
    THEN \E p \in Pages(v, type, mode) :
            /\ Pages(v, type, mode) = {p}
            /\ r.page = IF Cached(v, type, mode) THEN p % PhysicalPages ELSE p
    ELSE Pages(v, type, mode) = {}

(* As long as the guest changes neither tables nor flags once translations *)
(* are cached, every access is translated to the page Sv32 defines, or     *)
(* faults, in each mode and for each type, whatever has been accessed      *)
(* before: entries of the TLB for other modes, types and pages with the    *)
(* same index do not interfere.  A page beyond the 32-bit addresses, which *)
(* Sv32 has, is the exception: the first access goes to it, later ones,    *)
(* through the TLB, to the page 32 bits leave of it.                       *)
TranslationExact ==
    fresh /\ ~bare => \A v \in VPages, type \in Types, mode \in Modes : Exact(v, type, mode)

(* A page that has been stored to through the MMU has its accessed and     *)
(* dirty flags set, also when the store has met a cached translation.      *)
DirtyTracked ==
    fresh => \A s \in stored : \A l \in Leaves(s[1]) :
                {"A", "D"} \subseteq table[l.entry].flags

(* "optimization only, to void page walk": the TLB makes no difference to  *)
(* the result of a translation, as long as the tables do not change.       *)
TlbIsOptimization ==
    flagsFresh /\ ~bare =>
       \A v \in VPages, type \in Types, mode \in Modes :
          LET t == translate(v, type, mode)  w == walk(v, type, mode)
          IN  t.cause = w.cause /\ t.page = w.page

(* Translations and the flags they leave in the tables are those of Sv32:  *)
(* both of the above statements.                                           *)
TranslationSound == TranslationExact /\ DirtyTracked
=============================================================================
