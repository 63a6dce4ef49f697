---------------------------- MODULE RegisterMaps ----------------------------
(***************************************************************************)
(* How a bus transaction reaches the registers of a device: a LocalRouter  *)
(* with a bank of 32-bit registers and a window of memory (util/tlm_map.h) *)
(* and a RegisterRange (util/memory_map.h).                                *)
(*                                                                         *)
(* The device here has a bank at addresses Bank, a window Start..End-1 and *)
(* a range of RangeSize bytes; a byte is 0 or 1 and a mask takes bytes.    *)
(***************************************************************************)
EXTENDS Integers, Sequences

CONSTANTS Bank,          \* addresses of the registers, multiples of four
          ReadOnly,      \* those with access mode read_only
          Masked,        \* addresses of bytes that the mask of a register clears
          Start, End,    \* the window
          RangeStart, RangeSize, alignment,
          MaxAccesses

Addresses == 0..(RangeStart + RangeSize)
Mapped == (UNION {r..(r + 3) : r \in Bank}) \cup Start..(End - 1)
InRange == RangeStart..(RangeStart + RangeSize - 1)

VARIABLES regs,          \* the registers of the bank, four bytes each
          window, mem,   \* the window's and the range's memory
          guest,         \* history: the last byte written at each address
          answer,        \* [result, addr, data] of the last access
          accesses

vars == <<regs, window, mem, guest, answer, accesses>>

Zeroes(S) == [a \in S |-> 0]

Init ==
    /\ regs = [r \in Bank |-> Zeroes(0..3)]
    /\ window = Zeroes(0..(End - Start - 1)) /\ mem = Zeroes(0..(RangeSize - 1))
    /\ guest = Zeroes(Mapped \cup InRange)
    /\ answer = [result |-> "none", addr |-> 0, data |-> <<>>] /\ accesses = 0

(* A failed assertion, or an exception that nobody handles, is the end.    *)
Access == /\ answer.result \notin {"assertion", "throws"}
          /\ accesses < MaxAccesses /\ accesses' = accesses + 1

Data(len) == [1..len -> {0, 1}]

(* The bytes of f from off, with len of them replaced by d.                *)
Patch(f, off, d) == [i \in DOMAIN f |-> IF i - off + 1 \in DOMAIN d THEN d[i - off + 1] ELSE f[i]]
Slice(f, off, len) == [i \in 1..len |-> f[off + i - 1]]

Answers(result, addr, data) == answer' = [result |-> result, addr |-> addr, data |-> data]

Written(addr, d) ==
    guest' = [a \in DOMAIN guest |->
                 IF a - addr + 1 \in DOMAIN d
                 THEN IF a \in Masked THEN 0 ELSE d[a - addr + 1] ELSE guest[a]]

-----------------------------------------------------------------------------
(* RegisterMapping::try_handle: the access is clamped to the register it   *)
(* begins in and may not leave it.                                         *)

Register(addr) == addr - (addr % 4)
BankHandles(addr) == Register(addr) \in Bank

(* Mutant: every access to a register starts at its first byte.            *)
bank_offset_zero(addr) == 0
bank_offset(addr) == addr % 4

can_write(r) == r \notin ReadOnly

Mask(r, bytes) == [i \in 0..3 |-> IF r + i \in Masked THEN 0 ELSE bytes[i]]

bank_read(addr, len) ==
    /\ Access /\ BankHandles(addr)
    /\ IF len + (addr % 4) > 4 THEN Answers("assertion", addr, <<>>)
       ELSE Answers("read", addr, Slice(regs[Register(addr)], bank_offset(addr), len))
    /\ UNCHANGED <<regs, window, mem, guest>>

bank_write(addr, d) ==
    /\ Access /\ BankHandles(addr)
    /\ IF Len(d) + (addr % 4) > 4 \/ ~can_write(Register(addr))
       THEN Answers("assertion", addr, <<>>) /\ UNCHANGED <<regs, guest>>
       ELSE /\ regs' = [regs EXCEPT ![Register(addr)] =
                           Mask(Register(addr), Patch(@, bank_offset(addr), d))]
            /\ Written(addr, d) /\ Answers("written", addr, <<>>)
    /\ UNCHANGED <<window, mem>>

(* AddressMapping::try_handle and execute_memory_access.                   *)
WindowHandles(addr) == ~BankHandles(addr) /\ addr >= Start /\ addr < End

window_read(addr, len) ==
    /\ Access /\ WindowHandles(addr)
    /\ IF addr + len > End THEN Answers("assertion", addr, <<>>)
       ELSE Answers("read", addr, Slice(window, addr - Start, len))
    /\ UNCHANGED <<regs, window, mem, guest>>

window_write(addr, d) ==
    /\ Access /\ WindowHandles(addr)
    /\ IF addr + Len(d) > End
       THEN Answers("assertion", addr, <<>>) /\ UNCHANGED <<window, guest>>
       ELSE /\ window' = Patch(window, addr - Start, d)
            /\ Written(addr, d) /\ Answers("written", addr, <<>>)
    /\ UNCHANGED <<regs, mem>>

(* LocalRouter::transport: no mapping takes the address.                   *)
transport_throws(addr, len) ==
    /\ Access /\ ~BankHandles(addr) /\ ~WindowHandles(addr)
    /\ Answers("throws", addr, <<>>)
    /\ UNCHANGED <<regs, window, mem, guest>>

-----------------------------------------------------------------------------
(* RegisterRange::process, read and write.                                 *)

Misaligned(addr, len) == addr % alignment # 0 \/ len % alignment # 0
Leaves(addr, len) == addr - RangeStart + len > RangeSize

range_read(addr, len) ==
    /\ Access /\ addr \in InRange
    /\ IF Misaligned(addr, len) \/ Leaves(addr, len) THEN Answers("assertion", addr, <<>>)
       ELSE Answers("read", addr, Slice(mem, addr - RangeStart, len))
    /\ UNCHANGED <<regs, window, mem, guest>>

range_write(addr, d) ==
    /\ Access /\ addr \in InRange
    /\ IF Misaligned(addr, Len(d)) \/ Leaves(addr, Len(d))
       THEN Answers("assertion", addr, <<>>) /\ UNCHANGED <<mem, guest>>
       ELSE /\ mem' = Patch(mem, addr - RangeStart, d)
            /\ Written(addr, d) /\ Answers("written", addr, <<>>)
    /\ UNCHANGED <<regs, window>>

Next ==
    \E addr \in Addresses, len \in {1, 2, 4} :
       \/ bank_read(addr, len) \/ window_read(addr, len) \/ range_read(addr, len)
       \/ transport_throws(addr, len)
       \/ \E d \in Data(len) : bank_write(addr, d) \/ window_write(addr, d) \/ range_write(addr, d)

Spec == Init /\ [][Next]_vars

(* How a device is laid out: an access does not run from the window into a *)
(* register, the range is elsewhere, and masks are those of registers.     *)
Apart ==
    /\ Start \in Nat /\ End \in Nat /\ RangeStart \in Nat /\ RangeSize \in Nat
    /\ \A r \in Bank : r \in Nat /\ r % 4 = 0
    /\ \A a \in Start..(End - 1) : BankHandles(a) => \A b \in Start..a : BankHandles(b)
    /\ InRange \cap Mapped = {}
    /\ Masked \subseteq UNION {r..(r + 3) : r \in Bank}

-----------------------------------------------------------------------------
(* The guest sees a memory of bytes: whatever the widths and offsets of    *)
(* the accesses before, a read through the router returns for every        *)
(* address the byte last written there, less what the register's mask      *)
(* clears.                                                                 *)
MappedIsMemory ==
    answer.result = "read" =>
       \A i \in DOMAIN answer.data : answer.data[i] = guest[answer.addr + i - 1]

=============================================================================
