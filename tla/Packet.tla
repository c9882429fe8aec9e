------------------------------- MODULE Packet -------------------------------
(***************************************************************************)
(* ema::network::packet (include/network/packet.h): a growing buffer with a  *)
(* write and a read position, copied and moved between objects.              *)
(*                                                                         *)
(* Buffers are blocks of a heap of MaxBlocks blocks; an allocation fails     *)
(* when none is left or when it is longer than MaxObject.  The destructor    *)
(* frees nothing and a move drops the target's buffer, so blocks are lost    *)
(* until the heap is exhausted.  Positions and sizes are added modulo W,     *)
(* as u64 is.  memcpy and memset check nothing: an access outside a block    *)
(* sets `fault', and so does an exception that leaves a noexcept operator.   *)
(***************************************************************************)
EXTENDS Naturals, Sequences

CONSTANTS
  Object,     \* the packets of the program
  Byte,       \* the bytes that are written
  Payload,    \* what write is given: sequences of them
  zero, junk, \* the byte memset writes, and an uninitialised one
  nil,        \* nullptr
  W,          \* 2^64
  MaxObject,  \* the longest object the platform allows
  MaxBlocks   \* the blocks of the heap

Block == 1 .. MaxBlocks

ASSUME PacketAssumption ==
  /\ W \in Nat /\ MaxObject \in Nat /\ MaxBlocks \in Nat
  /\ 2 * MaxObject < W
  /\ nil \notin Block
  /\ Payload \subseteq Seq(Byte)
  /\ \A s \in Payload : Len(s) \in 1 .. MaxObject

VARIABLES
  pk,     \* each packet's members: data_, size_, offset_, read_pos_
  mem,    \* the bytes of each block; a free block has none
  io,     \* what the last write was given, or the last read returned
  fault   \* "none", "bounds" or "terminate"

pkVars == <<pk, mem, io, fault>>

Fresh == [data |-> nil, size |-> 0, offset |-> 0, read_pos |-> 0]

PacketInit ==
  /\ pk = [p \in Object |-> Fresh]
  /\ mem = [b \in Block |-> <<>>]
  /\ io = <<>>
  /\ fault = "none"

-----------------------------------------------------------------------------
Add(a, b) == (a + b) % W
Larger(a, b) == IF a > b THEN a ELSE b

(* The n bytes of block d from position a on are there.                     *)
Within(m, d, a, n) == d # nil /\ a + n <= Len(m[d])

(* Memory m after the bytes s were copied to block d at position a.          *)
Copied(m, d, a, s) ==
  [m EXCEPT ![d] = [i \in 1 .. Len(@) |-> IF i \in a + 1 .. a + Len(s) THEN s[i - a] ELSE @[i]]]

(* The block malloc takes, if there is one.                                 *)
Unused == {b \in Block : mem[b] = <<>> /\ \A c \in Block : mem[c] = <<>> => b <= c}

(* malloc and realloc: block b gets n bytes, the first of them those of the  *)
(* block d it replaces.                                                     *)
Resized(d, b, n) ==
  [c \in Block |->
     IF c = b THEN [i \in 1 .. n |-> IF d # nil /\ i <= Len(mem[d]) THEN mem[d][i] ELSE junk]
     ELSE IF c = d THEN <<>> ELSE mem[c]]

(* Memory after the pointer d was dropped.  A block that nobody frees stays   *)
(* taken; what it held cannot be seen any more and is left out.              *)
Dropped(d) == IF d = nil THEN mem ELSE [mem EXCEPT ![d] = <<junk>>]

(* Variant: the buffer grows to twice its size, whatever is to be written.   *)
GrowTwice(k, n) == (k.size * 2) % W

(* The length write asks for.                                               *)
Grow(k, n) == Larger((k.size * 2) % W, Add(k.offset, n))

(* What _realloc(n) can make of the members k and of the memory; nothing,    *)
(* when it throws.                                                          *)
Realloc(k, n) ==
  IF n <= k.size THEN {[k |-> k, mem |-> mem]}
  ELSE {[k |-> [k EXCEPT !.data = b, !.size = n], mem |-> Resized(k.data, b, n)] :
          b \in {c \in Unused \cup ({k.data} \ {nil}) : n <= MaxObject}}

-----------------------------------------------------------------------------
(* packet(size) in the place of an object that was destroyed or never made.  *)
Construct(p, n) ==
  /\ pk[p] = Fresh
  /\ \E r \in Realloc(Fresh, n) : pk' = [pk EXCEPT ![p] = r.k] /\ mem' = r.mem
  /\ UNCHANGED <<io, fault>>

Destruct(p) ==
  /\ pk' = [pk EXCEPT ![p] = Fresh]
  /\ mem' = Dropped(pk[p].data)
  /\ UNCHANGED <<io, fault>>

(* Variant: the position advances, and nothing is copied.                   *)
WriteUncopied(p, s) ==
  LET k == pk[p]
      n == Len(s)
  IN \E r \in IF Add(k.offset, n) > k.size THEN Realloc(k, Grow(k, n))
              ELSE {[k |-> k, mem |-> mem]} :
       /\ pk' = [pk EXCEPT ![p] = [r.k EXCEPT !.offset = Add(@, n)]]
       /\ mem' = r.mem
       /\ io' = s
       /\ UNCHANGED fault

(* Both overloads of write.  When the allocation throws nothing changes.     *)
Write(p, s) ==
  LET k == pk[p]
      n == Len(s)
  IN \E r \in IF Add(k.offset, n) > k.size THEN Realloc(k, Grow(k, n))
              ELSE {[k |-> k, mem |-> mem]} :
       IF Within(r.mem, r.k.data, k.offset, n)
       THEN /\ pk' = [pk EXCEPT ![p] = [r.k EXCEPT !.offset = Add(@, n)]]
            /\ mem' = Copied(r.mem, r.k.data, k.offset, s)
            /\ io' = s
            /\ UNCHANGED fault
       ELSE fault' = "bounds" /\ UNCHANGED <<pk, mem, io>>

(* Both overloads of read, when they return true.                           *)
Read(p, n) ==
  LET k == pk[p]
  IN /\ Add(k.read_pos, n) <= k.offset
     /\ IF Within(mem, k.data, k.read_pos, n)
        THEN /\ io' = SubSeq(mem[k.data], k.read_pos + 1, k.read_pos + n)
             /\ pk' = [pk EXCEPT ![p].read_pos = Add(@, n)]
             /\ UNCHANGED <<mem, fault>>
        ELSE fault' = "bounds" /\ UNCHANGED <<pk, mem, io>>

(* set_pos, and with 0 reset_pos.                                           *)
SetPos(p, n) ==
  /\ pk' = [pk EXCEPT ![p].read_pos = IF n < pk[p].offset THEN n ELSE pk[p].offset]
  /\ UNCHANGED <<mem, io, fault>>

Clear(p) ==
  LET k == pk[p]
  IN IF k.size = 0 \/ k.offset = 0 THEN UNCHANGED pkVars
     ELSE /\ mem' = Copied(mem, k.data, 0, [i \in 1 .. k.offset |-> zero])
          /\ pk' = [pk EXCEPT ![p].offset = 0, ![p].read_pos = 0]
          /\ UNCHANGED <<io, fault>>

Free(p) ==
  LET k == pk[p]
  IN IF k.size = 0 \/ k.data = nil THEN UNCHANGED pkVars
     ELSE /\ mem' = [mem EXCEPT ![k.data] = <<>>]
          /\ pk' = [pk EXCEPT ![p] = Fresh]
          /\ UNCHANGED <<io, fault>>

(* The assignment from a packet with something in it: the bytes, then zeros. *)
Assign(p, q) ==
  LET n == pk[q].offset
  IN \/ /\ Realloc(pk[p], pk[q].size) = {}
        /\ fault' = "terminate"
        /\ UNCHANGED <<pk, mem, io>>
     \/ \E r \in Realloc(pk[p], pk[q].size) :
          IF Within(r.mem, r.k.data, 0, n) /\ Within(r.mem, pk[q].data, 0, n)
          THEN /\ mem' = Copied(r.mem, r.k.data, 0,
                           [i \in 1 .. r.k.size |-> IF i <= n THEN r.mem[pk[q].data][i] ELSE zero])
               /\ pk' = [pk EXCEPT ![p] = [r.k EXCEPT !.offset = n]]
               /\ UNCHANGED <<io, fault>>
          ELSE fault' = "bounds" /\ UNCHANGED <<pk, mem, io>>

(* operator=(const packet&), and with a fresh p the copy constructor.        *)
CopyAssign(p, q) ==
  /\ p # q
  /\ CASE pk[q].size = 0 -> Free(p)
       [] pk[q].size # 0 /\ pk[q].offset = 0 -> Clear(p)
       [] OTHER -> Assign(p, q)

(* Variant: the source keeps its pointer.                                   *)
MoveKeep(p, q) ==
  /\ pk' = [pk EXCEPT ![p] = [pk[q] EXCEPT !.read_pos = pk[p].read_pos], ![q].offset = 0]
  /\ mem' = Dropped(pk[p].data)
  /\ UNCHANGED <<io, fault>>

(* operator=(packet&&), onto itself too, and the move constructor: the       *)
(* target's own buffer is dropped and its read position kept.               *)
MoveAssign(p, q) ==
  /\ pk' = [pk EXCEPT ![p] = [pk[q] EXCEPT !.read_pos = pk[p].read_pos],
                      ![q] = [Fresh EXCEPT !.read_pos = pk[q].read_pos]]
  /\ mem' = Dropped(pk[p].data)
  /\ UNCHANGED <<io, fault>>

-----------------------------------------------------------------------------
PacketNext ==
  /\ fault = "none"
  /\ \E p \in Object :
       \/ \E n \in 0 .. MaxObject : Construct(p, n) \/ SetPos(p, n)
       \/ \E n \in 1 .. MaxObject : Read(p, n)
       \/ \E s \in Payload : Write(p, s)
       \/ Destruct(p) \/ Clear(p) \/ Free(p)
       \/ \E q \in Object : CopyAssign(p, q) \/ MoveAssign(p, q)

PacketSpec == PacketInit /\ [][PacketNext]_pkVars

-----------------------------------------------------------------------------
(* Every buffer belongs to one packet and is as long as size_ says, whatever *)
(* is copied, moved, grown and freed: none is freed twice or used after it   *)
(* was freed, and the write position stays inside (packet.h 15-33, 86-107).  *)
BuffersOwned ==
  \A p \in Object :
    /\ pk[p].data = nil => pk[p].size = 0
    /\ pk[p].data # nil => pk[p].size > 0 /\ pk[p].size = Len(mem[pk[p].data])
    /\ pk[p].offset <= pk[p].size
    /\ \A q \in Object \ {p} : pk[p].data # nil => pk[q].data # pk[p].data

(* No memcpy leaves its buffer, although read and write test sums of u64     *)
(* that could wrap and a read position may be stale after a copy or a move   *)
(* (packet.h 44-76).                                                        *)
NoBadAccess == fault # "bounds"

(* The packets behave as independent streams of bytes: a write appends just  *)
(* the bytes it was given, growing, copying and moving buffers never loses,  *)
(* mixes up or shares bytes, and so a read returns what was written at its   *)
(* position, never an uninitialised byte (packet.h 15-84).                   *)
Contents == [p \in Object |->
  IF pk[p].offset = 0 THEN <<>> ELSE SubSeq(mem[pk[p].data], 1, pk[p].offset)]

Streams == INSTANCE ByteStreams WITH
  Packet <- Object, bytes <- Contents, pos <- [p \in Object |-> pk[p].read_pos]

StreamSpec == Streams!Spec
=============================================================================
