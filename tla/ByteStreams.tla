----------------------------- MODULE ByteStreams -----------------------------
(***************************************************************************)
(* What network::packet promises, without buffers, capacities and pointers:  *)
(* every packet is a sequence of bytes with a read position.  A write        *)
(* appends the bytes it is given, a read returns the bytes at the position,  *)
(* a copy gives the target the source's bytes, a move takes them away from   *)
(* the source, and no operation on one packet changes another.  Copies and   *)
(* moves leave the read positions alone, so that one may lie behind the end  *)
(* of the bytes.                                                            *)
(***************************************************************************)
EXTENDS Naturals, Sequences

CONSTANTS
  Packet,
  Payload  \* what write is given

VARIABLES
  bytes,   \* bytes[p]: the bytes of packet p
  pos,     \* pos[p]: its read position
  io       \* what the last write was given, or the last read returned

vars == <<bytes, pos, io>>

Init ==
  /\ bytes = [p \in Packet |-> <<>>]
  /\ pos = [p \in Packet |-> 0]
  /\ io = <<>>

Write(p) ==
  /\ \E s \in Payload : io' = s /\ bytes' = [bytes EXCEPT ![p] = @ \o s]
  /\ UNCHANGED pos

Read(p) ==
  \E n \in 1 .. Len(bytes[p]) :
    /\ pos[p] + n <= Len(bytes[p])
    /\ io' = SubSeq(bytes[p], pos[p] + 1, pos[p] + n)
    /\ pos' = [pos EXCEPT ![p] = pos[p] + n]
    /\ UNCHANGED bytes

Seek(p) ==
  /\ \E n \in 0 .. Len(bytes[p]) : pos' = [pos EXCEPT ![p] = n]
  /\ UNCHANGED <<bytes, io>>

Empty(p) ==
  /\ bytes' = [bytes EXCEPT ![p] = <<>>]
  /\ pos' = [pos EXCEPT ![p] = 0]
  /\ UNCHANGED io

Copy(p, q) ==
  /\ bytes' = [bytes EXCEPT ![p] = bytes[q]]
  /\ UNCHANGED <<pos, io>>

Move(p, q) ==
  /\ bytes' = [bytes EXCEPT ![p] = bytes[q], ![q] = <<>>]
  /\ UNCHANGED <<pos, io>>

Next ==
  \E p \in Packet :
    \/ Write(p) \/ Read(p) \/ Seek(p) \/ Empty(p)
    \/ \E q \in Packet : Copy(p, q) \/ Move(p, q)

Spec == Init /\ [][Next]_vars
=============================================================================
