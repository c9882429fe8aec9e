---------------------------- MODULE PacketProofs ----------------------------
(***************************************************************************)
(* Proofs about module Packet, for any packets, payloads, heap, word size    *)
(* and largest object, as long as two objects fit into a word.              *)
(***************************************************************************)
EXTENDS Packet, SequenceTheorems, TLAPS

(* What a byte of memory can be.                                            *)
Cell == Byte \cup {zero, junk}

(* Sizes and positions are those of objects, a stale read position too: no   *)
(* sum of two of them wraps.                                                *)
Members == [data : Block \cup {nil}, size : 0 .. MaxObject,
            offset : 0 .. MaxObject, read_pos : 0 .. MaxObject]

PacketTypeOK ==
  /\ pk \in [Object -> Members]
  /\ mem \in [Block -> Seq(Cell)]
  /\ io \in Seq(Cell)
  /\ fault \in {"none", "terminate"}

SafeInv == PacketTypeOK /\ BuffersOwned

(* A function on 1 .. n is a sequence of length n.                          *)
LEMMA FunctionIsSequence ==
  ASSUME NEW S, NEW n \in Nat, NEW f \in [1 .. n -> S]
  PROVE  f \in Seq(S) /\ Len(f) = n
<1>1. f \in Seq(S)
  BY SeqDef
<1> QED
  BY <1>1, LenProperties

(* No sum of a position and a length wraps.                                 *)
LEMMA NoWrap ==
  ASSUME NEW a \in 0 .. MaxObject, NEW b \in 0 .. MaxObject
  PROVE  Add(a, b) = a + b /\ (a * 2) % W = a * 2
BY PacketAssumption DEF Add

(* Members k and memory m are what packet p may become: k owns its buffer,   *)
(* and the buffers of the others are as they were.                          *)
Owns(p, k, m) ==
  /\ k \in Members
  /\ m \in [Block -> Seq(Cell)]
  /\ k.data = nil => k.size = 0
  /\ k.data # nil => k.size > 0 /\ k.size = Len(m[k.data])
  /\ k.offset <= k.size
  /\ \A q \in Object \ {p} :
       pk[q].data # nil => pk[q].data # k.data /\ m[pk[q].data] = mem[pk[q].data]

(* The bytes of a packet with members k in memory m, and all read positions. *)
Bytes(k, m) == IF k.offset = 0 THEN <<>> ELSE SubSeq(m[k.data], 1, k.offset)
Pos == [p \in Object |-> pk[p].read_pos]

(* The bytes of a packet whose positions lie in its block.                  *)
LEMMA BytesOf ==
  ASSUME NEW k \in Members, NEW m \in [Block -> Seq(Cell)], k.offset <= k.size,
         k.data = nil => k.size = 0, k.data # nil => k.size = Len(m[k.data])
  PROVE  /\ Bytes(k, m) \in Seq(Cell) /\ Len(Bytes(k, m)) = k.offset
         /\ \A i \in 1 .. k.offset : Bytes(k, m)[i] = m[k.data][i]
<1>1. PICK o \in Nat : o = k.offset
  BY DEF Members
<1>2. CASE o = 0
  BY <1>1, <1>2, EmptySeq DEF Bytes
<1>3. CASE o # 0
  <2>1. PICK s \in Seq(Cell) : s = m[k.data] /\ Len(s) >= o
    BY <1>1, <1>3 DEF Members
  <2>2. \A i \in 1 .. o : s[i] \in Cell
    BY <2>1, ElementOfSeq
  <2>3. /\ SubSeq(s, 1, o) \in Seq(Cell)
        /\ Len(SubSeq(s, 1, o)) = IF 1 <= o THEN o - 1 + 1 ELSE 0
        /\ \A i \in 1 .. o - 1 + 1 : SubSeq(s, 1, o)[i] = s[1 + i - 1]
    BY <2>2, SubSeqProperties
  <2>4. Bytes(k, m) = SubSeq(s, 1, o)
    BY <1>1, <1>3, <2>1 DEF Bytes
  <2> QED
    BY <1>1, <1>3, <2>1, <2>3, <2>4
<1> QED
  BY <1>2, <1>3

(* A packet that becomes such leaves the invariant and all others alone.     *)
LEMMA OwnerKeeps ==
  ASSUME SafeInv, NEW p \in Object, NEW k, Owns(p, k, mem'), pk' = [pk EXCEPT ![p] = k]
  PROVE  /\ pk' \in [Object -> Members] /\ mem' \in [Block -> Seq(Cell)] /\ BuffersOwned'
         /\ Contents' = [Contents EXCEPT ![p] = Bytes(k, mem')]
         /\ Pos' = [Pos EXCEPT ![p] = k.read_pos]
<1>1. \A q \in Object : pk'[q] = IF q = p THEN k ELSE pk[q]
  BY DEF SafeInv, PacketTypeOK
<1>2. pk' \in [Object -> Members] /\ mem' \in [Block -> Seq(Cell)]
  BY DEF SafeInv, PacketTypeOK, Owns
<1>3. BuffersOwned'
  <2> SUFFICES ASSUME NEW q \in Object
               PROVE  /\ pk'[q].data = nil => pk'[q].size = 0
                      /\ pk'[q].data # nil => pk'[q].size > 0 /\ pk'[q].size = Len(mem'[pk'[q].data])
                      /\ pk'[q].offset <= pk'[q].size
                      /\ \A o \in Object \ {q} : pk'[q].data # nil => pk'[o].data # pk'[q].data
    BY DEF BuffersOwned
  <2>1. CASE q = p
    BY <1>1, <2>1 DEF Owns, SafeInv, BuffersOwned
  <2>2. CASE q # p
    BY <1>1, <2>2 DEF Owns, SafeInv, BuffersOwned
  <2> QED
    BY <2>1, <2>2
<1>4. \A q \in Object \ {p} : Contents'[q] = Contents[q]
  <2> SUFFICES ASSUME NEW q \in Object \ {p} PROVE Contents'[q] = Contents[q]
    OBVIOUS
  <2>1. pk'[q] = pk[q] /\ pk[q] \in Members
    BY <1>1 DEF SafeInv, PacketTypeOK
  <2>2. pk[q].data # nil \/ pk[q].offset = 0
    BY <2>1 DEF SafeInv, BuffersOwned, Members
  <2>3. pk[q].data # nil => mem'[pk[q].data] = mem[pk[q].data]
    BY DEF Owns
  <2> QED
    BY <2>1, <2>2, <2>3 DEF Contents
<1>5. Contents' = [Contents EXCEPT ![p] = Bytes(k, mem')]
  <2>1. Contents'[p] = Bytes(k, mem')
    BY <1>1 DEF Contents, Bytes
  <2>2. Contents = [q \in Object |-> Contents[q]] /\ Contents' = [q \in Object |-> Contents'[q]]
    BY DEF Contents
  <2> QED
    BY <1>4, <2>1, <2>2
<1>6. Pos' = [Pos EXCEPT ![p] = k.read_pos]
  <2>1. \A q \in Object : Pos'[q] = IF q = p THEN k.read_pos ELSE Pos[q]
    BY <1>1 DEF Pos
  <2>2. Pos = [q \in Object |-> Pos[q]] /\ Pos' = [q \in Object |-> Pos'[q]]
    BY DEF Pos
  <2> QED
    BY <2>1, <2>2
<1> QED
  BY <1>2, <1>3, <1>5, <1>6

(* Every packet owns its own buffer.                                        *)
LEMMA OwnsItself ==
  ASSUME SafeInv, NEW p \in Object
  PROVE  Owns(p, pk[p], mem)
BY DEF SafeInv, PacketTypeOK, BuffersOwned, Owns

(* What _realloc makes: at least n bytes, the old ones in front.             *)
LEMMA ReallocGives ==
  ASSUME SafeInv, NEW p \in Object, NEW n \in Nat, NEW r \in Realloc(pk[p], n)
  PROVE  /\ Owns(p, r.k, r.mem)
         /\ r.k.size = Larger(n, pk[p].size)
         /\ r.k.offset = pk[p].offset /\ r.k.read_pos = pk[p].read_pos
         /\ \A i \in 1 .. pk[p].size : r.mem[r.k.data][i] = mem[pk[p].data][i]
<1> DEFINE k == pk[p]
<1>1. k \in Members /\ k.size \in Nat /\ (k.data # nil => k.data \in Block)
  BY DEF SafeInv, PacketTypeOK, Members
<1>2. CASE n <= k.size
  <2>1. r = [k |-> k, mem |-> mem]
    BY <1>2 DEF Realloc
  <2> QED
    BY <1>1, <1>2, <2>1, OwnsItself DEF Larger
<1>3. CASE ~(n <= k.size)
  <2>1. PICK b \in Unused \cup ({k.data} \ {nil}) :
          /\ n <= MaxObject
          /\ r = [k |-> [k EXCEPT !.data = b, !.size = n], mem |-> Resized(k.data, b, n)]
    BY <1>3 DEF Realloc
  <2>2. b \in Block /\ b # nil
    BY <1>1, <2>1, PacketAssumption DEF Unused
  <2> DEFINE f == [i \in 1 .. n |-> IF k.data # nil /\ i <= Len(mem[k.data]) THEN mem[k.data][i] ELSE junk]
  <2>3. \A i \in 1 .. n : f[i] \in Cell
    <3> SUFFICES ASSUME NEW i \in 1 .. n PROVE f[i] \in Cell
      OBVIOUS
    <3>1. CASE k.data # nil /\ i <= Len(mem[k.data])
      <4>1. mem[k.data] \in Seq(Cell) /\ i \in 1 .. Len(mem[k.data])
        BY <1>1, <3>1 DEF SafeInv, PacketTypeOK
      <4>2. mem[k.data][i] \in Cell
        BY <4>1, ElementOfSeq
      <4> QED
        BY <3>1, <4>2
    <3>2. CASE ~(k.data # nil /\ i <= Len(mem[k.data]))
      BY <3>2 DEF Cell
    <3> QED
      BY <3>1, <3>2
  <2>4. f \in [1 .. n -> Cell] /\ f \in Seq(Cell) /\ Len(f) = n
    BY <2>3, FunctionIsSequence
  <2>5. r.mem = [c \in Block |-> IF c = b THEN f ELSE IF c = k.data THEN <<>> ELSE mem[c]]
    BY <2>1 DEF Resized
  <2>6. r.k = [k EXCEPT !.data = b, !.size = n]
    BY <2>1
  <2>7. r.k \in Members /\ r.k.data = b /\ r.k.size = n /\ r.k.offset = k.offset
        /\ r.k.read_pos = k.read_pos
    <3>1. n \in 0 .. MaxObject
      BY <2>1, PacketAssumption
    <3>2. k \in [data : Block \cup {nil}, size : 0 .. MaxObject,
                offset : 0 .. MaxObject, read_pos : 0 .. MaxObject]
      BY <1>1 DEF Members
    <3> HIDE DEF k, f
    <3> QED
      BY <2>2, <2>6, <3>1, <3>2 DEF Members
  <2>8. k.size # 0 => k.data # nil /\ Len(mem[k.data]) = k.size
    BY DEF SafeInv, BuffersOwned
  <2>9. \A i \in 1 .. k.size : f[i] = mem[k.data][i]
    BY <1>1, <1>3, <2>8
  <2> HIDE DEF f
  <2>10. r.mem \in [Block -> Seq(Cell)] /\ r.mem[b] = f
    BY <2>2, <2>4, <2>5 DEF SafeInv, PacketTypeOK
  <2>11. \A q \in Object \ {p} :
           pk[q].data # nil => pk[q].data # b /\ r.mem[pk[q].data] = mem[pk[q].data]
    <3> SUFFICES ASSUME NEW q \in Object \ {p}, pk[q].data # nil
                 PROVE  pk[q].data # b /\ r.mem[pk[q].data] = mem[pk[q].data]
      OBVIOUS
    <3>1. pk[q].data \in Block /\ pk[q].data # k.data /\ Len(mem[pk[q].data]) > 0
      BY DEF SafeInv, PacketTypeOK, Members, BuffersOwned
    <3>2. mem[pk[q].data] # <<>>
      BY <3>1
    <3>3. pk[q].data # b
      BY <2>1, <3>1, <3>2 DEF Unused
    <3> QED
      BY <2>5, <3>1, <3>3
  <2>12. k.offset <= n /\ n > 0
    BY <1>1, <1>3 DEF SafeInv, BuffersOwned, Members
  <2>13. Owns(p, r.k, r.mem)
    BY <2>2, <2>4, <2>7, <2>10, <2>11, <2>12 DEF Owns
  <2> QED
    BY <1>1, <1>3, <2>7, <2>9, <2>10, <2>13 DEF Larger
<1> QED
  BY <1>2, <1>3

(* What memcpy and memset inside a block do.                                *)
LEMMA CopiedGives ==
  ASSUME NEW m \in [Block -> Seq(Cell)], NEW d \in Block, NEW a \in Nat, NEW s \in Seq(Cell),
         a + Len(s) <= Len(m[d])
  PROVE  /\ Copied(m, d, a, s) \in [Block -> Seq(Cell)]
         /\ \A c \in Block \ {d} : Copied(m, d, a, s)[c] = m[c]
         /\ Len(Copied(m, d, a, s)[d]) = Len(m[d])
         /\ \A i \in 1 .. Len(m[d]) :
              Copied(m, d, a, s)[d][i] = IF i \in a + 1 .. a + Len(s) THEN s[i - a] ELSE m[d][i]
<1> DEFINE n == Len(m[d])
           f == [i \in 1 .. n |-> IF i \in a + 1 .. a + Len(s) THEN s[i - a] ELSE m[d][i]]
<1>1. m[d] \in Seq(Cell) /\ n \in Nat /\ Len(s) \in Nat
  BY LenProperties
<1>2. \A i \in 1 .. n : f[i] \in Cell
  <2> SUFFICES ASSUME NEW i \in 1 .. n PROVE f[i] \in Cell
    OBVIOUS
  <2>1. CASE i \in a + 1 .. a + Len(s)
    <3>1. i - a \in 1 .. Len(s)
      BY <1>1, <2>1
    <3>2. s[i - a] \in Cell
      BY <3>1, ElementOfSeq
    <3> QED
      BY <2>1, <3>2
  <2>2. CASE i \notin a + 1 .. a + Len(s)
    <3>1. m[d][i] \in Cell
      BY <1>1, ElementOfSeq
    <3> QED
      BY <2>2, <3>1
  <2> QED
    BY <2>1, <2>2
<1>3. f \in Seq(Cell) /\ Len(f) = n
  <2>1. f \in [1 .. n -> Cell]
    BY <1>2
  <2> QED
    BY <1>1, <2>1, FunctionIsSequence
<1>4. Copied(m, d, a, s) = [m EXCEPT ![d] = f]
  BY DEF Copied
<1> QED
  BY <1>1, <1>3, <1>4

(* Members and memory of a packet that was written to: the new bytes behind  *)
(* the old ones.                                                            *)
LEMMA WriteStep ==
  ASSUME SafeInv, NEW p \in Object, NEW s \in Payload, Write(p, s)
  PROVE  \E k \in Members :
           /\ pk' = [pk EXCEPT ![p] = k]
           /\ Owns(p, k, mem')
           /\ k.offset = pk[p].offset + Len(s) /\ k.read_pos = pk[p].read_pos
           /\ k.data # nil
           /\ \A i \in 1 .. pk[p].offset : mem'[k.data][i] = mem[pk[p].data][i]
           /\ \A i \in 1 .. Len(s) : mem'[k.data][pk[p].offset + i] = s[i]
           /\ io' = s /\ UNCHANGED fault
<1> DEFINE o == pk[p]
           n == Len(s)
<1>1. n \in 1 .. MaxObject /\ s \in Seq(Cell)
  <2>1. s \in Seq(Byte)
    BY PacketAssumption
  <2> QED
    BY <2>1, PacketAssumption, SeqMonotonic DEF Cell
<1>2. o \in Members /\ o.size \in 0 .. MaxObject /\ o.offset \in 0 .. MaxObject /\ o.offset <= o.size
  BY DEF SafeInv, PacketTypeOK, Members, BuffersOwned
<1>3. Add(o.offset, n) = o.offset + n /\ (o.size * 2) % W = o.size * 2
  <2>1. n \in 0 .. MaxObject
    BY <1>1
  <2> QED
    BY <1>2, <2>1, NoWrap
<1>4. \E r \in IF Add(o.offset, n) > o.size THEN Realloc(o, Grow(o, n)) ELSE {[k |-> o, mem |-> mem]} :
        IF Within(r.mem, r.k.data, o.offset, n)
        THEN /\ pk' = [pk EXCEPT ![p] = [r.k EXCEPT !.offset = Add(@, n)]]
             /\ mem' = Copied(r.mem, r.k.data, o.offset, s)
             /\ io' = s /\ UNCHANGED fault
        ELSE fault' = "bounds" /\ UNCHANGED <<pk, mem, io>>
  BY DEF Write
<1>5. PICK r :
        /\ Owns(p, r.k, r.mem)
        /\ r.k.size >= o.offset + n
        /\ r.k.offset = o.offset /\ r.k.read_pos = o.read_pos
        /\ \A i \in 1 .. o.size : r.mem[r.k.data][i] = mem[o.data][i]
        /\ IF Within(r.mem, r.k.data, o.offset, n)
           THEN /\ pk' = [pk EXCEPT ![p] = [r.k EXCEPT !.offset = Add(@, n)]]
                /\ mem' = Copied(r.mem, r.k.data, o.offset, s)
                /\ io' = s /\ UNCHANGED fault
           ELSE fault' = "bounds" /\ UNCHANGED <<pk, mem, io>>
  <2>1. CASE o.offset + n > o.size
    <3> DEFINE g == Grow(o, n)
    <3>1. g \in Nat /\ g >= o.offset + n
      BY <1>1, <1>2, <1>3 DEF Grow, Larger
    <3>2. PICK r \in Realloc(o, g) :
            IF Within(r.mem, r.k.data, o.offset, n)
            THEN /\ pk' = [pk EXCEPT ![p] = [r.k EXCEPT !.offset = Add(@, n)]]
                 /\ mem' = Copied(r.mem, r.k.data, o.offset, s)
                 /\ io' = s /\ UNCHANGED fault
            ELSE fault' = "bounds" /\ UNCHANGED <<pk, mem, io>>
      BY <1>3, <1>4, <2>1
    <3> HIDE DEF g
    <3>3. /\ Owns(p, r.k, r.mem)
          /\ r.k.size = Larger(g, o.size)
          /\ r.k.offset = o.offset /\ r.k.read_pos = o.read_pos
          /\ \A i \in 1 .. o.size : r.mem[r.k.data][i] = mem[o.data][i]
      BY <3>1, <3>2, ReallocGives
    <3>4. r.k.size >= o.offset + n
      BY <1>1, <1>2, <3>1, <3>3 DEF Larger
    <3> QED
      BY <3>2, <3>3, <3>4
  <2>2. CASE ~(o.offset + n > o.size)
    <3> DEFINE r == [k |-> o, mem |-> mem]
    <3>1. IF Within(r.mem, r.k.data, o.offset, n)
          THEN /\ pk' = [pk EXCEPT ![p] = [r.k EXCEPT !.offset = Add(@, n)]]
               /\ mem' = Copied(r.mem, r.k.data, o.offset, s)
               /\ io' = s /\ UNCHANGED fault
          ELSE fault' = "bounds" /\ UNCHANGED <<pk, mem, io>>
      BY <1>3, <1>4, <2>2
    <3>2. /\ Owns(p, r.k, r.mem)
          /\ r.k.size >= o.offset + n
          /\ r.k.offset = o.offset /\ r.k.read_pos = o.read_pos
          /\ \A i \in 1 .. o.size : r.mem[r.k.data][i] = mem[o.data][i]
      BY <1>1, <1>2, <2>2, OwnsItself
    <3> QED
      BY <3>1, <3>2
  <2> QED
    BY <2>1, <2>2
<1>6. /\ r.k \in Members /\ r.mem \in [Block -> Seq(Cell)]
      /\ r.k.data \in Block /\ r.k.data # nil /\ r.k.size = Len(r.mem[r.k.data])
      /\ r.k.size \in 0 .. MaxObject
  <2>1. r.k \in Members /\ r.mem \in [Block -> Seq(Cell)]
    BY <1>5 DEF Owns
  <2>2. r.k.size > 0
    BY <1>1, <1>2, <1>5, <2>1 DEF Members
  <2>3. r.k.data # nil /\ r.k.size = Len(r.mem[r.k.data])
    BY <1>5, <2>2 DEF Owns
  <2> QED
    BY <2>1, <2>3 DEF Members
<1>7. Within(r.mem, r.k.data, o.offset, n)
  BY <1>5, <1>6 DEF Within
<1>k. PICK k : k = [r.k EXCEPT !.offset = o.offset + n]
  OBVIOUS
<1>8. /\ pk' = [pk EXCEPT ![p] = k]
      /\ mem' = Copied(r.mem, r.k.data, o.offset, s)
      /\ io' = s /\ UNCHANGED fault
  <2>1. [r.k EXCEPT !.offset = Add(@, n)] = k
    BY <1>3, <1>5, <1>k
  <2> QED
    BY <1>5, <1>7, <2>1
<1>9. /\ k \in Members /\ k.data = r.k.data /\ k.size = r.k.size
      /\ k.offset = o.offset + n /\ k.read_pos = o.read_pos
  <2>1. o.offset + n \in 0 .. MaxObject
    <3>1. r.k.size >= o.offset + n
      BY <1>5
    <3>2. o.offset \in Nat /\ n \in Nat /\ r.k.size \in Nat /\ r.k.size <= MaxObject
      BY <1>1, <1>2, <1>6
    <3>3. MaxObject \in Nat
      BY PacketAssumption
    <3> HIDE DEF o, n
    <3> QED
      BY <3>1, <3>2, <3>3
  <2>2. r.k \in [data : Block \cup {nil}, size : 0 .. MaxObject,
                 offset : 0 .. MaxObject, read_pos : 0 .. MaxObject]
    BY <1>6 DEF Members
  <2> HIDE DEF o, n
  <2> QED
    BY <1>5, <1>k, <2>1, <2>2 DEF Members
<1>10. /\ mem' \in [Block -> Seq(Cell)]
       /\ \A c \in Block \ {k.data} : mem'[c] = r.mem[c]
       /\ Len(mem'[k.data]) = k.size
       /\ \A i \in 1 .. k.size :
            mem'[k.data][i] = IF i \in o.offset + 1 .. o.offset + n THEN s[i - o.offset]
                              ELSE r.mem[k.data][i]
  <2>1. PICK a \in Nat : a = o.offset
    BY <1>2
  <2>2. PICK m \in [Block -> Seq(Cell)], d \in Block : m = r.mem /\ d = r.k.data
    BY <1>6
  <2>3. a + Len(s) <= Len(m[d])
    BY <1>5, <1>6, <2>1, <2>2
  <2>4. mem' = Copied(m, d, a, s)
    BY <1>8, <2>1, <2>2
  <2>5. /\ mem' \in [Block -> Seq(Cell)]
        /\ \A c \in Block \ {d} : mem'[c] = m[c]
        /\ Len(mem'[d]) = Len(m[d])
        /\ \A i \in 1 .. Len(m[d]) :
             mem'[d][i] = IF i \in a + 1 .. a + Len(s) THEN s[i - a] ELSE m[d][i]
    <3> HIDE DEF n, o
    <3>1. s \in Seq(Cell)
      BY <1>1
    <3>2. /\ Copied(m, d, a, s) \in [Block -> Seq(Cell)]
          /\ \A c \in Block \ {d} : Copied(m, d, a, s)[c] = m[c]
          /\ Len(Copied(m, d, a, s)[d]) = Len(m[d])
          /\ \A i \in 1 .. Len(m[d]) :
               Copied(m, d, a, s)[d][i] = IF i \in a + 1 .. a + Len(s) THEN s[i - a] ELSE m[d][i]
      BY ONLY <2>3, <3>1, CopiedGives, d \in Block, a \in Nat, m \in [Block -> Seq(Cell)]
    <3> QED
      BY <2>4, <3>2, Zenon
  <2> QED
    BY <1>6, <1>9, <2>1, <2>2, <2>5
<1>11. ASSUME NEW i \in 1 .. o.offset PROVE mem'[k.data][i] = mem[o.data][i]
  <2>1. /\ o.offset \in Nat /\ o.size \in Nat /\ k.size \in Nat /\ n \in Nat
        /\ o.offset <= o.size /\ o.offset <= k.size
    BY <1>1, <1>2, <1>5, <1>6, <1>9
  <2>2. i \in 1 .. o.size /\ i \in 1 .. k.size /\ i \notin o.offset + 1 .. o.offset + n
    <3> HIDE DEF o, n
    <3> QED
      BY <1>11, <2>1
  <2>3. mem'[k.data][i] = r.mem[k.data][i]
    BY <1>10, <2>2, Zenon
  <2>4. r.mem[r.k.data][i] = mem[o.data][i]
    BY <1>5, <2>2, Zenon
  <2>5. k.data = r.k.data
    BY <1>9, Zenon
  <2> QED
    BY <2>3, <2>4, <2>5, Zenon
<1>13. ASSUME NEW i \in 1 .. n PROVE mem'[k.data][o.offset + i] = s[i]
  <2>1. /\ o.offset \in Nat /\ k.size \in Nat /\ n \in Nat /\ o.offset + n <= k.size
    BY <1>1, <1>2, <1>5, <1>6, <1>9
  <2>2. /\ o.offset + i \in 1 .. k.size /\ o.offset + i \in o.offset + 1 .. o.offset + n
        /\ (o.offset + i) - o.offset = i
    <3> HIDE DEF o, n
    <3> QED
      BY <1>13, <2>1
  <2> QED
    BY <1>10, <2>2, Zenon
<1>12. Owns(p, k, mem')
  <2>1. \A q \in Object \ {p} :
          pk[q].data # nil => pk[q].data # k.data /\ mem'[pk[q].data] = mem[pk[q].data]
    BY <1>5, <1>9, <1>10 DEF Owns, SafeInv, PacketTypeOK, Members
  <2>2. k.size > 0 /\ k.offset <= k.size
    BY <1>1, <1>2, <1>5, <1>6, <1>9
  <2> QED
    BY <1>6, <1>9, <1>10, <2>1, <2>2 DEF Owns
<1> QED
  BY <1>6, <1>8, <1>9, <1>11, <1>12, <1>13

(* What is overwritten in the buffer of packet p stays its own.             *)
LEMMA OverwriteOwns ==
  ASSUME SafeInv, NEW p \in Object, NEW k \in Members, NEW m \in [Block -> Seq(Cell)],
         Owns(p, k, m), k.data # nil, NEW s \in Seq(Cell), Len(s) <= k.size
  PROVE  /\ Owns(p, k, Copied(m, k.data, 0, s))
         /\ \A i \in 1 .. Len(s) : Copied(m, k.data, 0, s)[k.data][i] = s[i]
<1>1. k.data \in Block /\ k.size > 0 /\ k.size = Len(m[k.data]) /\ Len(s) \in Nat
  BY LenProperties DEF Owns, Members
<1>2. PICK d \in Block : d = k.data
  BY <1>1
<1>3. 0 + Len(s) <= Len(m[d])
  BY <1>1, <1>2
<1>4. /\ Copied(m, d, 0, s) \in [Block -> Seq(Cell)]
      /\ \A c \in Block \ {d} : Copied(m, d, 0, s)[c] = m[c]
      /\ Len(Copied(m, d, 0, s)[d]) = Len(m[d])
      /\ \A i \in 1 .. Len(m[d]) :
           Copied(m, d, 0, s)[d][i] = IF i \in 0 + 1 .. 0 + Len(s) THEN s[i - 0] ELSE m[d][i]
  <2>1. 0 \in Nat
    OBVIOUS
  <2> QED
    BY ONLY <1>3, <2>1, CopiedGives, m \in [Block -> Seq(Cell)], d \in Block, s \in Seq(Cell)
<1>5. \A i \in 1 .. Len(s) : Copied(m, d, 0, s)[d][i] = s[i]
  <2> SUFFICES ASSUME NEW i \in 1 .. Len(s) PROVE Copied(m, d, 0, s)[d][i] = s[i]
    OBVIOUS
  <2>1. i \in 1 .. Len(m[d]) /\ i \in 0 + 1 .. 0 + Len(s) /\ i - 0 = i
    BY <1>1, <1>2
  <2> QED
    BY <1>4, <2>1
<1>6. Owns(p, k, Copied(m, d, 0, s))
  <2>1. \A q \in Object \ {p} : pk[q].data # nil =>
          pk[q].data # d /\ Copied(m, d, 0, s)[pk[q].data] = mem[pk[q].data]
    BY <1>2, <1>4 DEF Owns, SafeInv, PacketTypeOK, Members
  <2> QED
    BY <1>1, <1>2, <1>4, <2>1 DEF Owns
<1> QED
  BY <1>2, <1>5, <1>6

(* An assignment gives the target the bytes of the source.                  *)
LEMMA AssignStep ==
  ASSUME SafeInv, NEW p \in Object, NEW q \in Object \ {p},
         pk[q].size # 0, pk[q].offset # 0, Assign(p, q)
  PROVE  \/ fault' = "terminate" /\ UNCHANGED <<pk, mem, io>>
         \/ \E k \in Members :
              /\ pk' = [pk EXCEPT ![p] = k]
              /\ Owns(p, k, mem')
              /\ k.offset = pk[q].offset /\ k.read_pos = pk[p].read_pos
              /\ k.data # nil
              /\ \A i \in 1 .. k.offset : mem'[k.data][i] = mem[pk[q].data][i]
              /\ UNCHANGED <<io, fault>>
<1>1. PICK n \in 1 .. MaxObject : n = pk[q].offset
  BY DEF SafeInv, PacketTypeOK, Members
<1>2. /\ pk[q] \in Members /\ pk[q].size \in 1 .. MaxObject /\ n <= pk[q].size
      /\ pk[q].data # nil /\ pk[q].data \in Block /\ Len(mem[pk[q].data]) = pk[q].size
  BY <1>1 DEF SafeInv, PacketTypeOK, Members, BuffersOwned
<1>3. CASE fault' = "terminate" /\ UNCHANGED <<pk, mem, io>>
  BY <1>3
<1>4. CASE ~(fault' = "terminate" /\ UNCHANGED <<pk, mem, io>>)
  <2>1. PICK r \in Realloc(pk[p], pk[q].size) :
          IF Within(r.mem, r.k.data, 0, n) /\ Within(r.mem, pk[q].data, 0, n)
          THEN /\ mem' = Copied(r.mem, r.k.data, 0,
                           [i \in 1 .. r.k.size |-> IF i <= n THEN r.mem[pk[q].data][i] ELSE zero])
               /\ pk' = [pk EXCEPT ![p] = [r.k EXCEPT !.offset = n]]
               /\ UNCHANGED <<io, fault>>
          ELSE fault' = "bounds" /\ UNCHANGED <<pk, mem, io>>
    BY <1>1, <1>4 DEF Assign
  <2>2. /\ Owns(p, r.k, r.mem)
        /\ r.k.size = Larger(pk[q].size, pk[p].size)
        /\ r.k.read_pos = pk[p].read_pos
    <3>1. pk[q].size \in Nat
      BY <1>2
    <3> QED
      BY <2>1, <3>1, ReallocGives
  <2>3. r.k \in Members /\ r.k.size \in 1 .. MaxObject /\ n <= r.k.size /\ r.k.data # nil
        /\ r.k.data \in Block /\ r.k.size = Len(r.mem[r.k.data]) /\ r.mem \in [Block -> Seq(Cell)]
    <3>1. pk[p].size \in 0 .. MaxObject
      BY DEF SafeInv, PacketTypeOK, Members
    <3>2. r.k \in Members /\ r.mem \in [Block -> Seq(Cell)]
      BY <2>2 DEF Owns
    <3>3. r.k.size \in 1 .. MaxObject /\ n <= r.k.size
      BY <1>2, <2>2, <3>1 DEF Larger
    <3>4. r.k.data # nil /\ r.k.size = Len(r.mem[r.k.data])
      BY <2>2, <3>3 DEF Owns
    <3> QED
      BY <3>2, <3>3, <3>4 DEF Members
  <2>4. r.mem[pk[q].data] = mem[pk[q].data]
    BY <1>2, <2>2 DEF Owns
  <2>5. Within(r.mem, r.k.data, 0, n) /\ Within(r.mem, pk[q].data, 0, n)
    BY <1>2, <2>3, <2>4 DEF Within
  <2>6. PICK g : g = [i \in 1 .. r.k.size |-> IF i <= n THEN mem[pk[q].data][i] ELSE zero]
    OBVIOUS
  <2>7. g \in Seq(Cell) /\ Len(g) = r.k.size
    <3>1. \A i \in 1 .. r.k.size : g[i] \in Cell
      <4> SUFFICES ASSUME NEW i \in 1 .. r.k.size PROVE g[i] \in Cell
        OBVIOUS
      <4>1. CASE i <= n
        <5>1. mem[pk[q].data] \in Seq(Cell) /\ i \in 1 .. Len(mem[pk[q].data])
          BY <1>2, <4>1 DEF SafeInv, PacketTypeOK
        <5>2. mem[pk[q].data][i] \in Cell
          BY <5>1, ElementOfSeq
        <5> QED
          BY <2>6, <4>1, <5>2
      <4>2. CASE ~(i <= n)
        BY <2>6, <4>2 DEF Cell
      <4> QED
        BY <4>1, <4>2
    <3>2. PICK z \in Nat : z = r.k.size
      BY <2>3
    <3>3. g \in [1 .. z -> Cell]
      BY ONLY <2>6, <3>1, <3>2
    <3>4. g \in Seq(Cell) /\ Len(g) = z
      BY <3>3, FunctionIsSequence
    <3> QED
      BY <3>2, <3>4
  <2>8. PICK k : k = [r.k EXCEPT !.offset = n]
    OBVIOUS
  <2>9. k \in Members /\ k.offset = n /\ k.data = r.k.data /\ k.size = r.k.size
        /\ k.read_pos = pk[p].read_pos
    BY <1>1, <2>2, <2>3, <2>8 DEF Members
  <2>10. /\ mem' = Copied(r.mem, k.data, 0, g)
         /\ pk' = [pk EXCEPT ![p] = k]
         /\ UNCHANGED <<io, fault>>
    BY <2>1, <2>4, <2>5, <2>6, <2>8, <2>9
  <2>11. Owns(p, k, r.mem)
    BY <2>2, <2>3, <2>9 DEF Owns
  <2>12. /\ Owns(p, k, mem')
         /\ \A i \in 1 .. Len(g) : mem'[k.data][i] = g[i]
    <3>1. Len(g) <= k.size /\ k.data # nil
      BY <2>3, <2>7, <2>9
    <3> QED
      BY <2>3, <2>7, <2>9, <2>10, <2>11, <3>1, OverwriteOwns
  <2>13. \A i \in 1 .. n : mem'[k.data][i] = mem[pk[q].data][i]
    <3> SUFFICES ASSUME NEW i \in 1 .. n PROVE mem'[k.data][i] = mem[pk[q].data][i]
      OBVIOUS
    <3>1. i \in 1 .. r.k.size /\ i <= n
      BY <2>3
    <3>2. g[i] = mem[pk[q].data][i]
      BY ONLY <2>6, <3>1
    <3> QED
      BY <2>7, <2>12, <3>1, <3>2
  <2> QED
    BY <1>1, <2>3, <2>9, <2>10, <2>12, <2>13
<1> QED
  BY <1>3, <1>4

(* A step of the streams, or none.                                          *)
StreamStep == Streams!Next \/ UNCHANGED <<Contents, Pos, io>>

(* The bytes of a packet, as Contents gives them.                           *)
LEMMA ContentsOf ==
  ASSUME SafeInv, NEW p \in Object
  PROVE  /\ Contents[p] = Bytes(pk[p], mem) /\ Pos[p] = pk[p].read_pos
         /\ Contents[p] \in Seq(Cell) /\ Len(Contents[p]) = pk[p].offset
         /\ \A i \in 1 .. pk[p].offset : Contents[p][i] = mem[pk[p].data][i]
<1>1. Contents[p] = Bytes(pk[p], mem) /\ Pos[p] = pk[p].read_pos
  BY DEF Contents, Bytes, Pos
<1>2. /\ pk[p] \in Members /\ mem \in [Block -> Seq(Cell)] /\ pk[p].offset <= pk[p].size
      /\ pk[p].data = nil => pk[p].size = 0
      /\ pk[p].data # nil => pk[p].size = Len(mem[pk[p].data])
  BY DEF SafeInv, PacketTypeOK, BuffersOwned
<1> QED
  BY <1>1, <1>2, BytesOf

(* A packet that becomes empty, its read position with it.                  *)
LEMMA EmptyStep ==
  ASSUME SafeInv, NEW p \in Object, NEW k, Owns(p, k, mem'), pk' = [pk EXCEPT ![p] = k],
         k.offset = 0, k.read_pos = 0, UNCHANGED <<io, fault>>
  PROVE  SafeInv' /\ Streams!Empty(p)
<1>1. /\ pk' \in [Object -> Members] /\ mem' \in [Block -> Seq(Cell)] /\ BuffersOwned'
      /\ Contents' = [Contents EXCEPT ![p] = Bytes(k, mem')]
      /\ Pos' = [Pos EXCEPT ![p] = 0]
  BY OwnerKeeps
<1>2. Bytes(k, mem') = <<>>
  BY DEF Bytes
<1> QED
  BY <1>1, <1>2 DEF SafeInv, PacketTypeOK, Streams!Empty, Pos

(* write appends to the packet's stream and to no other.                    *)
LEMMA WriteRefines ==
  ASSUME SafeInv, NEW p \in Object, NEW s \in Payload, Write(p, s)
  PROVE  SafeInv' /\ Streams!Write(p)
<1>1. PICK k \in Members :
        /\ pk' = [pk EXCEPT ![p] = k]
        /\ Owns(p, k, mem')
        /\ k.offset = pk[p].offset + Len(s) /\ k.read_pos = pk[p].read_pos
        /\ k.data # nil
        /\ \A i \in 1 .. pk[p].offset : mem'[k.data][i] = mem[pk[p].data][i]
        /\ \A i \in 1 .. Len(s) : mem'[k.data][pk[p].offset + i] = s[i]
        /\ io' = s /\ UNCHANGED fault
  BY WriteStep
<1>2. /\ pk' \in [Object -> Members] /\ mem' \in [Block -> Seq(Cell)] /\ BuffersOwned'
      /\ Contents' = [Contents EXCEPT ![p] = Bytes(k, mem')]
      /\ Pos' = [Pos EXCEPT ![p] = k.read_pos]
  BY <1>1, OwnerKeeps
<1>3. SafeInv'
  <2>1. s \in Seq(Cell)
    BY PacketAssumption, SeqMonotonic DEF Cell
  <2> QED
    BY <1>1, <1>2, <2>1 DEF SafeInv, PacketTypeOK
<1>4. PICK b, c : b = Contents[p] /\ c = Bytes(k, mem')
  OBVIOUS
<1>5. /\ b \in Seq(Cell) /\ Len(b) = pk[p].offset
      /\ \A i \in 1 .. pk[p].offset : b[i] = mem[pk[p].data][i]
      /\ Pos[p] = pk[p].read_pos
  BY <1>4, ContentsOf
<1>6. /\ c \in Seq(Cell) /\ Len(c) = k.offset
      /\ \A i \in 1 .. k.offset : c[i] = mem'[k.data][i]
  <2>1. /\ k.offset <= k.size /\ (k.data = nil => k.size = 0)
        /\ k.data # nil => k.size = Len(mem'[k.data])
    BY <1>1 DEF Owns
  <2> QED
    BY <1>2, <1>4, <2>1, BytesOf
<1>7. PICK o \in Nat, n \in Nat : o = pk[p].offset /\ n = Len(s) /\ n > 0
  BY PacketAssumption DEF SafeInv, PacketTypeOK, Members
<1>8. /\ Len(c) = o + n /\ Len(b) = o /\ \A i \in 1 .. o : c[i] = b[i]
      /\ \A i \in 1 .. n : c[o + i] = s[i]
  <2>1. Len(c) = o + n /\ Len(b) = o /\ \A i \in 1 .. o : c[i] = b[i]
    BY <1>1, <1>5, <1>6, <1>7
  <2>2. ASSUME NEW i \in 1 .. n PROVE c[o + i] = s[i]
    <3>1. o + i \in 1 .. k.offset
      BY <1>6, <1>7, <2>1
    <3>2. c[o + i] = mem'[k.data][o + i]
      BY <1>6, <3>1, Zenon
    <3>3. mem'[k.data][pk[p].offset + i] = s[i]
      BY <1>1, <1>7, Zenon
    <3> QED
      BY <1>7, <3>2, <3>3, Zenon
  <2> QED
    BY <2>1, <2>2, Zenon
<1>s. s \in Seq(Cell)
  BY PacketAssumption, SeqMonotonic DEF Cell
<1>9. c = b \o s
  <2>1. /\ b \o s \in Seq(Cell) /\ Len(b \o s) = Len(b) + Len(s)
        /\ \A i \in 1 .. Len(b) + Len(s) :
             (b \o s)[i] = IF i <= Len(b) THEN b[i] ELSE s[i - Len(b)]
    BY <1>5, <1>s, ConcatProperties
  <2>2. PICK d \in Seq(Cell) : d = b \o s
    BY <2>1
  <2>3. Len(d) = o + n /\ \A i \in 1 .. o + n : d[i] = IF i <= o THEN b[i] ELSE s[i - o]
    BY <1>7, <1>8, <2>1, <2>2
  <2>4. ASSUME NEW i \in 1 .. o + n PROVE c[i] = d[i]
    <3>1. CASE i <= o
      BY <1>8, <2>3, <3>1
    <3>2. CASE ~(i <= o)
      <4>1. i - o \in 1 .. n /\ o + (i - o) = i
        BY <3>2
      <4> QED
        BY <1>8, <2>3, <3>2, <4>1
    <3> QED
      BY <3>1, <3>2
  <2>5. Len(c) = Len(d)
    BY <1>8, <2>3
  <2> QED
    BY <1>6, <1>8, <2>2, <2>4, <2>5, SeqEqual
<1>10. Contents' = [Contents EXCEPT ![p] = Contents[p] \o s]
  BY <1>2, <1>4, <1>9
<1>11. Pos' = Pos
  <2>1. Pos = [q \in Object |-> Pos[q]]
    BY DEF Pos
  <2> QED
    BY <1>1, <1>2, <1>5, <2>1
<1>12. s \in Payload /\ io' = s
  BY <1>1
<1> QED
  BY <1>3, <1>10, <1>11, <1>12 DEF Streams!Write, Pos

(* read returns the bytes at the read position.                             *)
LEMMA ReadRefines ==
  ASSUME SafeInv, NEW p \in Object, NEW n \in 1 .. MaxObject, Read(p, n)
  PROVE  SafeInv' /\ Streams!Read(p)
<1>1. PICK o \in 0 .. MaxObject, a \in 0 .. MaxObject : o = pk[p].offset /\ a = pk[p].read_pos
  BY DEF SafeInv, PacketTypeOK, Members
<1>2. Add(a, n) = a + n
  BY NoWrap
<1>3. a + n <= o
  BY <1>1, <1>2 DEF Read
<1>4. /\ pk[p] \in Members /\ pk[p].data # nil /\ pk[p].data \in Block
      /\ Len(mem[pk[p].data]) = pk[p].size /\ o <= pk[p].size
  BY <1>1, <1>3 DEF SafeInv, PacketTypeOK, Members, BuffersOwned
<1>5. Within(mem, pk[p].data, a, n)
  BY <1>3, <1>4 DEF Within, Members
<1>6. PICK k : k = [pk[p] EXCEPT !.read_pos = a + n]
  OBVIOUS
<1>7. /\ io' = SubSeq(mem[pk[p].data], a + 1, a + n)
      /\ pk' = [pk EXCEPT ![p] = k]
      /\ UNCHANGED <<mem, fault>>
  <2>1. /\ io' = SubSeq(mem[pk[p].data], a + 1, a + n)
        /\ pk' = [pk EXCEPT ![p].read_pos = Add(@, n)]
        /\ UNCHANGED <<mem, fault>>
    BY <1>1, <1>5 DEF Read
  <2> QED
    BY <1>1, <1>2, <1>6, <2>1
<1>8. k \in Members /\ k.data = pk[p].data /\ k.size = pk[p].size /\ k.offset = o
      /\ k.read_pos = a + n
  <2>1. a + n \in 0 .. MaxObject
    BY <1>1, <1>3, PacketAssumption
  <2> QED
    BY <1>1, <1>4, <1>6, <2>1 DEF Members
<1>9. Owns(p, k, mem) /\ Owns(p, k, mem')
  BY <1>1, <1>7, <1>8, OwnsItself DEF Owns
<1>10. /\ pk' \in [Object -> Members] /\ mem' \in [Block -> Seq(Cell)] /\ BuffersOwned'
       /\ Contents' = [Contents EXCEPT ![p] = Bytes(k, mem')]
       /\ Pos' = [Pos EXCEPT ![p] = a + n]
  <2>1. /\ pk' \in [Object -> Members] /\ mem' \in [Block -> Seq(Cell)] /\ BuffersOwned'
        /\ Contents' = [Contents EXCEPT ![p] = Bytes(k, mem')]
        /\ Pos' = [Pos EXCEPT ![p] = k.read_pos]
    BY <1>7, <1>9, OwnerKeeps, Zenon
  <2>2. k.read_pos = a + n
    BY <1>8, Zenon
  <2> QED
    BY <2>1, <2>2, Zenon
<1>11. PICK b, m : b = Contents[p] /\ m = mem[pk[p].data]
  OBVIOUS
<1>12. /\ b \in Seq(Cell) /\ Len(b) = o /\ Pos[p] = a /\ b = Bytes(pk[p], mem)
       /\ \A i \in 1 .. o : b[i] = m[i]
  BY <1>1, <1>11, ContentsOf
<1>13. m \in Seq(Cell) /\ Len(m) >= o
  BY <1>4, <1>11 DEF SafeInv, PacketTypeOK, Members
<1>14. io' = SubSeq(b, a + 1, a + n) /\ io' \in Seq(Cell)
  <2>1. \A i \in a + 1 .. a + n : b[i] \in Cell /\ m[i] \in Cell
    BY <1>3, <1>12, <1>13, ElementOfSeq
  <2>2. a + 1 \in Int /\ a + n \in Int
    OBVIOUS
  <2>3. /\ SubSeq(b, a + 1, a + n) \in Seq(Cell)
        /\ Len(SubSeq(b, a + 1, a + n)) = IF a + 1 <= a + n THEN a + n - (a + 1) + 1 ELSE 0
        /\ \A i \in 1 .. a + n - (a + 1) + 1 : SubSeq(b, a + 1, a + n)[i] = b[a + 1 + i - 1]
    BY <2>1, <2>2, SubSeqProperties
  <2>4. /\ SubSeq(m, a + 1, a + n) \in Seq(Cell)
        /\ Len(SubSeq(m, a + 1, a + n)) = IF a + 1 <= a + n THEN a + n - (a + 1) + 1 ELSE 0
        /\ \A i \in 1 .. a + n - (a + 1) + 1 : SubSeq(m, a + 1, a + n)[i] = m[a + 1 + i - 1]
    BY <2>1, <2>2, SubSeqProperties
  <2>5. Len(SubSeq(b, a + 1, a + n)) = n /\ Len(SubSeq(m, a + 1, a + n)) = n
    BY <2>3, <2>4
  <2>6. \A i \in 1 .. n : SubSeq(b, a + 1, a + n)[i] = SubSeq(m, a + 1, a + n)[i]
    BY <1>3, <1>12, <2>3, <2>4
  <2>7. SubSeq(b, a + 1, a + n) = SubSeq(m, a + 1, a + n)
    BY <2>3, <2>4, <2>5, <2>6, SeqEqual
  <2> QED
    BY <1>7, <1>11, <2>3, <2>7
<1>15. Contents' = Contents
  <2>1. Bytes(k, mem') = Bytes(pk[p], mem)
    BY <1>1, <1>7, <1>8 DEF Bytes
  <2>2. Contents = [q \in Object |-> Contents[q]]
    BY DEF Contents
  <2> QED
    BY <1>10, <1>11, <1>12, <2>1, <2>2
<1>16. SafeInv'
  BY <1>7, <1>10, <1>14 DEF SafeInv, PacketTypeOK
<1>17. n \in 1 .. Len(Contents[p]) /\ Pos[p] + n <= Len(Contents[p])
  BY <1>3, <1>11, <1>12
<1>18. /\ io' = SubSeq(Contents[p], Pos[p] + 1, Pos[p] + n)
       /\ Pos' = [Pos EXCEPT ![p] = Pos[p] + n]
  BY <1>10, <1>11, <1>12, <1>14
<1> QED
  BY <1>15, <1>16, <1>17, <1>18 DEF Streams!Read, Pos

(* The constructor makes an empty stream, whatever size it reserves.        *)
LEMMA ConstructRefines ==
  ASSUME SafeInv, NEW p \in Object, NEW n \in 0 .. MaxObject, Construct(p, n)
  PROVE  SafeInv' /\ UNCHANGED <<Contents, Pos, io>>
<1>1. PICK r \in Realloc(pk[p], n) : pk' = [pk EXCEPT ![p] = r.k] /\ mem' = r.mem
  BY DEF Construct
<1>2. /\ Owns(p, r.k, mem')
      /\ r.k.offset = pk[p].offset /\ r.k.read_pos = pk[p].read_pos
  BY <1>1, ReallocGives
<1>3. pk[p].offset = 0 /\ UNCHANGED <<io, fault>>
  BY DEF Construct, Fresh
<1>4. /\ pk' \in [Object -> Members] /\ mem' \in [Block -> Seq(Cell)] /\ BuffersOwned'
      /\ Contents' = [Contents EXCEPT ![p] = Bytes(r.k, mem')]
      /\ Pos' = [Pos EXCEPT ![p] = r.k.read_pos]
  BY <1>1, <1>2, OwnerKeeps
<1>5. Bytes(r.k, mem') = Contents[p] /\ Pos[p] = r.k.read_pos
  BY <1>2, <1>3, ContentsOf DEF Bytes
<1>6. Contents = [q \in Object |-> Contents[q]] /\ Pos = [q \in Object |-> Pos[q]]
  BY DEF Contents, Pos
<1>7. SafeInv'
  BY <1>3, <1>4 DEF SafeInv, PacketTypeOK
<1> QED
  BY <1>3, <1>4, <1>5, <1>6, <1>7

(* Setting the read position is a seek of the stream.                       *)
LEMMA SetPosRefines ==
  ASSUME SafeInv, NEW p \in Object, NEW n \in 0 .. MaxObject, SetPos(p, n)
  PROVE  SafeInv' /\ Streams!Seek(p)
<1>1. PICK a \in 0 .. MaxObject : a = (IF n < pk[p].offset THEN n ELSE pk[p].offset)
                                  /\ a <= pk[p].offset
  BY DEF SafeInv, PacketTypeOK, Members
<1>2. PICK k : k = [pk[p] EXCEPT !.read_pos = a]
  OBVIOUS
<1>3. pk[p] \in Members
  BY DEF SafeInv, PacketTypeOK
<1>4. k \in Members /\ k.data = pk[p].data /\ k.size = pk[p].size /\ k.offset = pk[p].offset
      /\ k.read_pos = a
  BY <1>2, <1>3 DEF Members
<1>5. pk' = [pk EXCEPT ![p] = k] /\ UNCHANGED <<mem, io, fault>>
  BY <1>1, <1>2 DEF SetPos
<1>6. Owns(p, k, mem')
  BY <1>4, <1>5, OwnsItself DEF Owns
<1>7. /\ pk' \in [Object -> Members] /\ mem' \in [Block -> Seq(Cell)] /\ BuffersOwned'
      /\ Contents' = [Contents EXCEPT ![p] = Bytes(k, mem')]
      /\ Pos' = [Pos EXCEPT ![p] = a]
  BY <1>4, <1>5, <1>6, OwnerKeeps
<1>8. SafeInv'
  BY <1>5, <1>7 DEF SafeInv, PacketTypeOK
<1>9. Bytes(k, mem') = Contents[p] /\ a \in 0 .. Len(Contents[p])
  <2>1. Contents[p] = Bytes(pk[p], mem) /\ Len(Contents[p]) = pk[p].offset
    BY ContentsOf
  <2>2. pk[p].offset \in Nat
    BY <1>3 DEF Members
  <2> QED
    BY <1>1, <1>4, <1>5, <2>1, <2>2 DEF Bytes
<1>10. Contents' = Contents
  <2>1. Contents = [q \in Object |-> Contents[q]]
    BY DEF Contents
  <2> QED
    BY <1>7, <1>9, <2>1
<1> QED
  BY <1>5, <1>7, <1>8, <1>9, <1>10 DEF Streams!Seek, Pos

(* A buffer that its packet drops or frees was nobody else's.               *)
LEMMA ReleaseOwns ==
  ASSUME SafeInv, NEW p \in Object, NEW m,
         m = Dropped(pk[p].data) \/ (pk[p].data # nil /\ m = [mem EXCEPT ![pk[p].data] = <<>>])
  PROVE  Owns(p, Fresh, m)
<1>1. m \in [Block -> Seq(Cell)]
  <2>1. <<>> \in Seq(Cell) /\ <<junk>> \in Seq(Cell)
    BY DEF Cell
  <2> QED
    BY <2>1 DEF Dropped, SafeInv, PacketTypeOK
<1>2. Fresh \in Members /\ Fresh.data = nil /\ Fresh.size = 0 /\ Fresh.offset = 0
  BY PacketAssumption DEF Fresh, Members
<1>3. \A q \in Object \ {p} : pk[q].data # nil => m[pk[q].data] = mem[pk[q].data]
  <2> SUFFICES ASSUME NEW q \in Object \ {p}, pk[q].data # nil
               PROVE  m[pk[q].data] = mem[pk[q].data]
    OBVIOUS
  <2>1. pk[q].data # pk[p].data /\ pk[q].data \in Block
    BY DEF SafeInv, PacketTypeOK, Members, BuffersOwned
  <2> QED
    BY <2>1 DEF Dropped, SafeInv, PacketTypeOK
<1> QED
  BY <1>1, <1>2, <1>3 DEF Owns

(* The destructor ends the stream of the packet.                            *)
LEMMA DestructRefines ==
  ASSUME SafeInv, NEW p \in Object, Destruct(p)
  PROVE  SafeInv' /\ Streams!Empty(p)
<1>1. Owns(p, Fresh, mem')
  BY ReleaseOwns DEF Destruct
<1> QED
  BY <1>1, EmptyStep DEF Destruct, Fresh

(* free empties the stream, or does nothing.                                *)
LEMMA FreeRefines ==
  ASSUME SafeInv, NEW p \in Object, Free(p)
  PROVE  SafeInv' /\ (Streams!Empty(p) \/ UNCHANGED pkVars)
<1>1. CASE pk[p].size = 0 \/ pk[p].data = nil
  <2>1. UNCHANGED pkVars
    BY <1>1 DEF Free
  <2> QED
    BY <2>1 DEF pkVars, SafeInv, PacketTypeOK, BuffersOwned
<1>2. CASE ~(pk[p].size = 0 \/ pk[p].data = nil)
  <2>1. /\ mem' = [mem EXCEPT ![pk[p].data] = <<>>]
        /\ pk' = [pk EXCEPT ![p] = Fresh]
        /\ UNCHANGED <<io, fault>>
    BY <1>2 DEF Free
  <2>2. Owns(p, Fresh, mem')
    BY <1>2, <2>1, ReleaseOwns
  <2> QED
    BY <2>1, <2>2, EmptyStep DEF Fresh
<1> QED
  BY <1>1, <1>2

(* clear empties the stream, or does nothing.                               *)
LEMMA ClearRefines ==
  ASSUME SafeInv, NEW p \in Object, Clear(p)
  PROVE  SafeInv' /\ (Streams!Empty(p) \/ UNCHANGED pkVars)
<1>1. CASE pk[p].size = 0 \/ pk[p].offset = 0
  <2>1. UNCHANGED pkVars
    BY <1>1 DEF Clear
  <2> QED
    BY <2>1 DEF pkVars, SafeInv, PacketTypeOK, BuffersOwned
<1>2. CASE ~(pk[p].size = 0 \/ pk[p].offset = 0)
  <2>1. PICK o \in Nat : o = pk[p].offset /\ o <= pk[p].size /\ pk[p].data # nil
    BY <1>2 DEF SafeInv, PacketTypeOK, Members, BuffersOwned
  <2>2. PICK z : z = [i \in 1 .. o |-> zero]
    OBVIOUS
  <2>3. z \in Seq(Cell) /\ Len(z) = o
    <3>1. z \in [1 .. o -> Cell]
      BY <2>2 DEF Cell
    <3> QED
      BY <3>1, FunctionIsSequence
  <2>4. PICK k : k = [pk[p] EXCEPT !.offset = 0, !.read_pos = 0]
    OBVIOUS
  <2>5. /\ mem' = Copied(mem, pk[p].data, 0, z)
        /\ pk' = [pk EXCEPT ![p] = k]
        /\ UNCHANGED <<io, fault>>
    <3>1. /\ mem' = Copied(mem, pk[p].data, 0, z)
          /\ pk' = [pk EXCEPT ![p].offset = 0, ![p].read_pos = 0]
          /\ UNCHANGED <<io, fault>>
      BY <1>2, <2>1, <2>2 DEF Clear
    <3> QED
      BY <2>4, <3>1 DEF SafeInv, PacketTypeOK
  <2>6. k \in Members /\ k.data = pk[p].data /\ k.size = pk[p].size /\ k.offset = 0
        /\ k.read_pos = 0
    <3>1. pk[p] \in Members /\ 0 \in 0 .. MaxObject
      BY PacketAssumption DEF SafeInv, PacketTypeOK
    <3> QED
      BY <2>4, <3>1 DEF Members
  <2>7. Owns(p, pk[p], mem')
    <3>1. pk[p] \in Members /\ mem \in [Block -> Seq(Cell)] /\ Owns(p, pk[p], mem)
      BY OwnsItself DEF SafeInv, PacketTypeOK
    <3>2. Len(z) <= pk[p].size
      BY <2>1, <2>3
    <3> QED
      BY <2>1, <2>3, <2>5, <3>1, <3>2, OverwriteOwns
  <2>8. Owns(p, k, mem')
    BY <2>6, <2>7 DEF Owns, Members
  <2> QED
    BY <2>5, <2>6, <2>8, EmptyStep
<1> QED
  BY <1>1, <1>2

(* A copy makes the streams equal and keeps the buffers apart.              *)
LEMMA CopyAssignRefines ==
  ASSUME SafeInv, NEW p \in Object, NEW q \in Object, CopyAssign(p, q)
  PROVE  SafeInv' /\ StreamStep
<1>1. CASE Free(p) \/ Clear(p)
  <2>1. SafeInv' /\ (Streams!Empty(p) \/ UNCHANGED pkVars)
    BY <1>1, FreeRefines, ClearRefines
  <2>2. UNCHANGED pkVars => UNCHANGED <<Contents, Pos, io>>
    BY DEF pkVars, Contents, Pos
  <2> QED
    BY <2>1, <2>2 DEF StreamStep, Streams!Next
<1>2. CASE p # q /\ pk[q].size # 0 /\ pk[q].offset # 0 /\ Assign(p, q)
  <2>1. CASE fault' = "terminate" /\ UNCHANGED <<pk, mem, io>>
    BY <2>1 DEF SafeInv, PacketTypeOK, BuffersOwned, StreamStep, Contents, Pos
  <2>2. CASE ~(fault' = "terminate" /\ UNCHANGED <<pk, mem, io>>)
    <3>1. PICK k \in Members :
            /\ pk' = [pk EXCEPT ![p] = k]
            /\ Owns(p, k, mem')
            /\ k.offset = pk[q].offset /\ k.read_pos = pk[p].read_pos
            /\ k.data # nil
            /\ \A i \in 1 .. k.offset : mem'[k.data][i] = mem[pk[q].data][i]
            /\ UNCHANGED <<io, fault>>
      BY <1>2, <2>2, AssignStep
    <3>2. /\ pk' \in [Object -> Members] /\ mem' \in [Block -> Seq(Cell)] /\ BuffersOwned'
          /\ Contents' = [Contents EXCEPT ![p] = Bytes(k, mem')]
          /\ Pos' = [Pos EXCEPT ![p] = k.read_pos]
      BY <3>1, OwnerKeeps
    <3>3. SafeInv'
      BY <3>1, <3>2 DEF SafeInv, PacketTypeOK
    <3>4. PICK b, c : b = Contents[q] /\ c = Bytes(k, mem')
      OBVIOUS
    <3>5. /\ b \in Seq(Cell) /\ Len(b) = pk[q].offset
          /\ \A i \in 1 .. pk[q].offset : b[i] = mem[pk[q].data][i]
      BY <3>4, ContentsOf
    <3>6. /\ c \in Seq(Cell) /\ Len(c) = k.offset
          /\ \A i \in 1 .. k.offset : c[i] = mem'[k.data][i]
      <4>1. /\ k.offset <= k.size /\ (k.data = nil => k.size = 0)
            /\ k.data # nil => k.size = Len(mem'[k.data])
        BY <3>1 DEF Owns
      <4> QED
        BY <3>2, <3>4, <4>1, BytesOf
    <3>7. b = c
      <4>1. Len(b) = Len(c) /\ \A i \in 1 .. Len(b) : b[i] = c[i]
        BY <3>1, <3>5, <3>6
      <4> QED
        BY <3>5, <3>6, <4>1, SeqEqual
    <3>8. Contents' = [Contents EXCEPT ![p] = Contents[q]]
      BY <3>2, <3>4, <3>7
    <3>9. Pos' = Pos
      <4>1. Pos = [o \in Object |-> Pos[o]] /\ Pos[p] = pk[p].read_pos
        BY DEF Pos
      <4> QED
        BY <3>1, <3>2, <4>1
    <3>10. Streams!Copy(p, q)
      BY <3>1, <3>8, <3>9 DEF Streams!Copy, Pos
    <3> QED
      BY <3>3, <3>10 DEF StreamStep, Streams!Next
  <2> QED
    BY <2>1, <2>2
<1> QED
  BY <1>1, <1>2 DEF CopyAssign

(* A move hands the stream over and leaves the source empty.                *)
LEMMA MoveAssignRefines ==
  ASSUME SafeInv, NEW p \in Object, NEW q \in Object, MoveAssign(p, q)
  PROVE  SafeInv' /\ Streams!Move(p, q)
<1>1. PICK kp, kq : /\ kp = [pk[q] EXCEPT !.read_pos = pk[p].read_pos]
                    /\ kq = [Fresh EXCEPT !.read_pos = pk[q].read_pos]
  OBVIOUS
<1>2. /\ pk' = [pk EXCEPT ![p] = kp, ![q] = kq]
      /\ mem' = Dropped(pk[p].data)
      /\ UNCHANGED <<io, fault>>
  BY <1>1 DEF MoveAssign
<1>3. pk[p] \in Members /\ pk[q] \in Members
  BY DEF SafeInv, PacketTypeOK
<1>4. /\ kp \in Members /\ kp.data = pk[q].data /\ kp.size = pk[q].size
      /\ kp.offset = pk[q].offset /\ kp.read_pos = pk[p].read_pos
  BY <1>1, <1>3 DEF Members
<1>5. /\ kq \in Members /\ kq.data = nil /\ kq.size = 0 /\ kq.offset = 0
      /\ kq.read_pos = pk[q].read_pos
  <2>1. 0 \in 0 .. MaxObject
    BY PacketAssumption
  <2> QED
    BY <1>1, <1>3, <2>1 DEF Fresh, Members
<1>6. /\ mem' \in [Block -> Seq(Cell)]
      /\ \A o \in Object \ {p} : pk[o].data # nil => mem'[pk[o].data] = mem[pk[o].data]
  <2>1. Owns(p, Fresh, mem')
    BY <1>2, ReleaseOwns
  <2> QED
    BY <2>1 DEF Owns
<1>7. \A o \in Object : pk'[o] = IF o = q THEN kq ELSE IF o = p THEN kp ELSE pk[o]
  BY <1>2 DEF SafeInv, PacketTypeOK
<1>8. pk' \in [Object -> Members]
  BY <1>2, <1>4, <1>5 DEF SafeInv, PacketTypeOK
<1>9. BuffersOwned'
  <2> SUFFICES ASSUME NEW o \in Object
               PROVE  /\ pk'[o].data = nil => pk'[o].size = 0
                      /\ pk'[o].data # nil => pk'[o].size > 0 /\ pk'[o].size = Len(mem'[pk'[o].data])
                      /\ pk'[o].offset <= pk'[o].size
                      /\ \A x \in Object \ {o} : pk'[o].data # nil => pk'[x].data # pk'[o].data
    BY DEF BuffersOwned
  <2>1. CASE o = q
    BY <1>5, <1>7, <2>1
  <2>2. CASE o # q /\ o = p
    <3>1. pk'[o].data = pk[q].data /\ pk'[o].size = pk[q].size /\ pk'[o].offset = pk[q].offset
      BY <1>4, <1>7, <2>2
    <3>2. pk[q].data # nil => mem'[pk[q].data] = mem[pk[q].data]
      BY <1>6, <2>2
    <3>3. \A x \in Object \ {q} : pk[q].data # nil => pk[x].data # pk[q].data
      BY DEF SafeInv, BuffersOwned
    <3>4. \A x \in Object \ {o} : pk'[o].data # nil => pk'[x].data # pk'[o].data
      BY <1>4, <1>5, <1>7, <2>2, <3>1, <3>3
    <3> QED
      BY <3>1, <3>2, <3>4 DEF SafeInv, BuffersOwned
  <2>3. CASE o # q /\ o # p
    <3>1. pk'[o].data = pk[o].data /\ pk'[o].size = pk[o].size /\ pk'[o].offset = pk[o].offset
      BY <1>4, <1>7, <2>3
    <3>2. pk[o].data # nil => mem'[pk[o].data] = mem[pk[o].data]
      BY <1>6, <2>3
    <3>3. \A x \in Object \ {o} : pk[o].data # nil => pk[x].data # pk[o].data
      BY DEF SafeInv, BuffersOwned
    <3>4. \A x \in Object \ {o} : pk'[o].data # nil => pk'[x].data # pk'[o].data
      BY <1>4, <1>5, <1>7, <2>3, <3>1, <3>3
    <3> QED
      BY <3>1, <3>2, <3>4 DEF SafeInv, BuffersOwned
  <2> QED
    BY <2>1, <2>2, <2>3
<1>10. SafeInv'
  BY <1>2, <1>6, <1>8, <1>9 DEF SafeInv, PacketTypeOK
<1>11. \A o \in Object : Contents'[o] = IF o = q THEN <<>> ELSE IF o = p THEN Contents[q] ELSE Contents[o]
  <2> SUFFICES ASSUME NEW o \in Object
               PROVE  Contents'[o] = IF o = q THEN <<>> ELSE IF o = p THEN Contents[q] ELSE Contents[o]
    OBVIOUS
  <2>1. Contents'[o] = Bytes(pk'[o], mem')
    BY DEF Contents, Bytes
  <2>2. Contents[o] = Bytes(pk[o], mem) /\ Contents[q] = Bytes(pk[q], mem)
    BY ContentsOf
  <2>3. \A x \in Object \ {p} : pk[x].offset # 0 => mem'[pk[x].data] = mem[pk[x].data]
    BY <1>6 DEF SafeInv, PacketTypeOK, Members, BuffersOwned
  <2>4. CASE o = q
    BY <1>5, <1>7, <2>1, <2>4 DEF Bytes
  <2>5. CASE o # q /\ o = p
    BY <1>4, <1>7, <2>1, <2>2, <2>3, <2>5 DEF Bytes
  <2>6. CASE o # q /\ o # p
    BY <1>7, <2>1, <2>2, <2>3, <2>6 DEF Bytes
  <2> QED
    BY <2>4, <2>5, <2>6
<1>12. Contents' = [Contents EXCEPT ![p] = Contents[q], ![q] = <<>>]
  <2>1. Contents = [o \in Object |-> Contents[o]] /\ Contents' = [o \in Object |-> Contents'[o]]
    BY DEF Contents
  <2> QED
    BY <1>11, <2>1
<1>13. Pos' = Pos
  <2>1. \A o \in Object : pk'[o].read_pos = pk[o].read_pos
    BY <1>4, <1>5, <1>7
  <2> QED
    BY <2>1 DEF Pos
<1> QED
  BY <1>2, <1>10, <1>12, <1>13 DEF Streams!Move, Pos

(* One step of the packets keeps the invariant and is one of the streams.   *)
LEMMA StepRefines ==
  ASSUME SafeInv, [PacketNext]_pkVars
  PROVE  SafeInv' /\ StreamStep
<1>1. CASE UNCHANGED pkVars
  BY <1>1 DEF pkVars, SafeInv, PacketTypeOK, BuffersOwned, StreamStep, Contents, Pos
<1>2. ASSUME NEW p \in Object, NEW n \in 0 .. MaxObject, Construct(p, n) \/ SetPos(p, n)
      PROVE  SafeInv' /\ StreamStep
  BY <1>2, ConstructRefines, SetPosRefines DEF StreamStep, Streams!Next
<1>3. ASSUME NEW p \in Object, NEW n \in 1 .. MaxObject, Read(p, n)
      PROVE  SafeInv' /\ StreamStep
  BY <1>3, ReadRefines DEF StreamStep, Streams!Next
<1>4. ASSUME NEW p \in Object, NEW s \in Payload, Write(p, s)
      PROVE  SafeInv' /\ StreamStep
  BY <1>4, WriteRefines DEF StreamStep, Streams!Next
<1>5. ASSUME NEW p \in Object, Destruct(p) \/ Clear(p) \/ Free(p)
      PROVE  SafeInv' /\ StreamStep
  <2>1. SafeInv' /\ (Streams!Empty(p) \/ UNCHANGED pkVars)
    BY <1>5, DestructRefines, FreeRefines, ClearRefines
  <2>2. UNCHANGED pkVars => UNCHANGED <<Contents, Pos, io>>
    BY DEF pkVars, Contents, Pos
  <2> QED
    BY <2>1, <2>2 DEF StreamStep, Streams!Next
<1>6. ASSUME NEW p \in Object, NEW q \in Object, CopyAssign(p, q) \/ MoveAssign(p, q)
      PROVE  SafeInv' /\ StreamStep
  BY <1>6, CopyAssignRefines, MoveAssignRefines DEF StreamStep, Streams!Next
<1> QED
  BY <1>1, <1>2, <1>3, <1>4, <1>5, <1>6 DEF PacketNext

(* The invariant holds before any packet is constructed.                    *)
LEMMA InitSafe == PacketInit => SafeInv
<1>1. Fresh \in Members /\ Fresh.data = nil /\ Fresh.size = 0 /\ Fresh.offset = 0
  BY PacketAssumption DEF Fresh, Members
<1> QED
  BY <1>1 DEF PacketInit, SafeInv, PacketTypeOK, BuffersOwned

(* The invariant holds in every reachable state.                            *)
LEMMA SafeInvariant == PacketSpec => []SafeInv
<1>1. SafeInv /\ [PacketNext]_pkVars => SafeInv'
  BY StepRefines
<1> QED
  BY <1>1, InitSafe, PTL DEF PacketSpec

(* Every buffer has one owner and the length its owner believes, in every    *)
(* program that copies, moves, grows and frees packets (packet.h 15-33,      *)
(* 86-107).                                                                 *)
THEOREM OneOwner == PacketSpec => []BuffersOwned
<1>1. SafeInv => BuffersOwned
  BY DEF SafeInv
<1> QED
  BY <1>1, SafeInvariant, PTL

(* No read or write leaves its buffer, although the sums of u64 they test    *)
(* could wrap and a read position be stale: both are at most MaxObject, and  *)
(* 2 * MaxObject < W (packet.h 44-76).                                      *)
THEOREM InBounds == PacketSpec => []NoBadAccess
<1>1. SafeInv => NoBadAccess
  BY DEF SafeInv, PacketTypeOK, NoBadAccess
<1> QED
  BY <1>1, SafeInvariant, PTL

(* The packets implement independent streams of bytes: no byte is lost,      *)
(* shared or mixed up, and a read returns what was written at its position    *)
(* (packet.h 15-84).                                                        *)
THEOREM ImplementsStreams == PacketSpec => StreamSpec
<1>1. PacketInit => Streams!Init
  BY DEF PacketInit, Fresh, Streams!Init, Contents
<1>2. SafeInv /\ [PacketNext]_pkVars => [Streams!Next]_(Streams!vars)
  BY StepRefines DEF StreamStep, Streams!vars, Pos
<1> QED
  BY <1>1, <1>2, SafeInvariant, PTL DEF PacketSpec, StreamSpec, Streams!Spec
=============================================================================
