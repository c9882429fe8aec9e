--------------------------- MODULE FileSinkProofs ---------------------------
(***************************************************************************)
(* Proofs about module FileSink (src/logger/file_sink.cpp, log_file.cpp),    *)
(* for every configuration, any number of messages, and any number of        *)
(* crashes and failed calls between any two changes of the directory.        *)
(*                                                                         *)
(* RoutingLogs renames the logs from the highest index down and gives each   *)
(* the number of logs up to it.  That overwrites nothing as long as no index *)
(* is higher than that number (Tight), which a rotation that was cut short   *)
(* leaves true.  The inductive invariant says so of the directory (Shape),   *)
(* bounds the number of logs (Room), follows the messages (Kept), and        *)
(* counts, for each message, the logs that are younger than its own (Aged).  *)
(* While nothing has failed it also says that the order of the indices is    *)
(* the order of writing (Ordered).                                          *)
(***************************************************************************)
EXTENDS FileSink, FiniteSetTheorems, WellFoundedInduction, TLAPS

(* The logs of S up to index i, and those below it.                         *)
Upto(S, i) == {j \in S : j <= i}
Below(S, i) == {j \in S : j < i}

(* No index is higher than the number of logs up to it.                     *)
Tight(S) == \A i \in S : i <= Cardinality(Upto(S, i))

Allowed == IF config.max_file_count = 0 THEN 1 ELSE config.max_file_count

(* The directory: in the middle of a rotation, the logs still to rename and  *)
(* above them those that have got their new index.                          *)
Shape ==
  /\ pc = "ready" => 0 \in exists
  /\ pc = "shift" =>
       /\ size \in Nat \ {0} /\ index = Cardinality(todo) /\ index <= size
       /\ Tight(todo)
       /\ exists = todo \cup ((index + 1) .. size)
  /\ pc = "recycle" => size \in Nat \ {0} /\ exists = 1 .. size
  /\ pc \notin {"shift", "recycle"} => Tight(exists)

(* The number of logs: outside of a rotation there is room for app.log.      *)
Room ==
  /\ pc \in {"shift", "recycle"} => size <= faults + Allowed
  /\ pc \notin {"shift", "recycle"} => Cardinality(exists \cup {0}) <= faults + Allowed

(* Where the messages are.                                                  *)
Kept ==
  /\ \A i \in Index \ exists : disk[i] = <<>>
  /\ NothingClobbered

(* A message in a log is as old as the logs below its own are many, app.log  *)
(* not counted unless a rotation has begun; one that was truncated is older  *)
(* than the latest max_file_count - 1.                                      *)
Safe == ~config.trunc /\ config.max_file_count > 1

AtRest ==
  \A i \in exists \ {0} : \A m \in Elements(disk[i]) :
    m + Cardinality(Below(exists \ {0}, i)) <= written

Aged ==
  /\ pc = "shift" =>
       /\ \A i \in todo : \A m \in Elements(disk[i]) : m + Cardinality(Below(todo, i)) <= written
       /\ \A i \in (index + 1) .. size : \A m \in Elements(disk[i]) : m + i <= written + 1
  /\ pc = "recycle" =>
       /\ config.max_file_count <= size
       /\ \A i \in 1 .. size : \A m \in Elements(disk[i]) : m + i <= written + 1
  /\ pc \notin {"shift", "recycle"} => AtRest
  /\ Safe =>
       /\ pc = "open" => \A m \in Elements(disk[0]) : m + config.max_file_count <= written + 1
       /\ \A m \in dropped : m + config.max_file_count <= written + 1

SinkInv == SinkTypeOK /\ Shape /\ Room /\ Kept /\ Aged

-----------------------------------------------------------------------------
(* Sets of indices are finite, and have a highest member.                   *)
LEMMA IndexFinite ==
  ASSUME NEW n \in Nat, NEW S \in SUBSET (0 .. n)
  PROVE  IsFiniteSet(S) /\ Cardinality(S) \in Nat
<1>1. IsFiniteSet(0 .. n)
  BY FS_Interval
<1>2. IsFiniteSet(S)
  BY <1>1, FS_Subset
<1> QED
  BY <1>2, FS_CardinalityType

(* A subset of a finite set has at most as many members.                    *)
LEMMA SmallerSet ==
  ASSUME NEW T, IsFiniteSet(T), NEW S \in SUBSET T
  PROVE  /\ IsFiniteSet(S) /\ Cardinality(S) \in Nat /\ Cardinality(T) \in Nat
         /\ Cardinality(S) <= Cardinality(T)
<1>1. IsFiniteSet(S) /\ Cardinality(S) <= Cardinality(T)
  BY FS_Subset
<1>2. Cardinality(S) \in Nat /\ Cardinality(T) \in Nat
  BY <1>1, FS_CardinalityType
<1> QED
  BY <1>1, <1>2

(* The log with the highest index is a log.                                 *)
LEMMA OldestIn ==
  ASSUME NEW n \in Nat, NEW S \in SUBSET (0 .. n), S # {}
  PROVE  Oldest(S) \in S /\ \A j \in S : j <= Oldest(S)
<1> DEFINE less == OpToRel(<, Nat)
           D == {n - j : j \in S}
<1>1. D \subseteq Nat /\ D # {}
  <2> HIDE DEF less
  <2>1. \A j \in S : n - j \in Nat
    OBVIOUS
  <2>2. D \subseteq Nat
    BY <2>1, Zenon
  <2>3. PICK j \in S : TRUE
    OBVIOUS
  <2>4. n - j \in D
    BY <2>3, Zenon
  <2> QED
    BY <2>2, <2>4, Zenon
<1>2. IsWellFoundedOn(less, Nat)
  BY NatLessThanWellFounded
<1> HIDE DEF D, less
<1>3. PICK d \in D : \A e \in D : ~ (<<e, d>> \in less)
  BY <1>1, <1>2, WFMin
<1>4. PICK k \in S : d = n - k
  BY <1>3 DEF D
<1>5. ASSUME NEW j \in S PROVE j <= k
  <2>1. n - j \in D /\ n - j \in Nat /\ d \in Nat
    BY <1>1 DEF D
  <2>2. ~ (<<n - j, d>> \in less)
    BY <1>3, <2>1
  <2>3. ~ (n - j < d)
    BY <2>1, <2>2 DEF less, OpToRel
  <2>4. j \in Nat /\ k \in Nat
    OBVIOUS
  <2> QED
    BY <1>4, <2>3, <2>4
<1>6. \E k2 \in S : \A j \in S : j <= k2
  BY <1>5
<1> QED
  BY <1>6 DEF Oldest

(* Tight sets of indices: when the highest log is taken out, when the logs   *)
(* that have their new index are put on top, and when app.log is added.      *)
LEMMA TightBound ==
  ASSUME NEW n \in Nat, NEW S \in SUBSET (0 .. n), Tight(S), NEW i \in S
  PROVE  i <= Cardinality(S)
<1>1. IsFiniteSet(S) /\ Cardinality(S) \in Nat
  BY IndexFinite
<1>2. Cardinality(Upto(S, i)) \in Nat /\ Cardinality(Upto(S, i)) <= Cardinality(S)
  <2>1. Upto(S, i) \in SUBSET S
    BY DEF Upto
  <2> QED
    BY <1>1, <2>1, SmallerSet
<1>3. i <= Cardinality(Upto(S, i)) /\ i \in Nat
  BY DEF Tight
<1> QED
  BY <1>1, <1>2, <1>3

(* Taking the highest index away leaves a tight set, and the ranks of the   *)
(* others.                                                                  *)
LEMMA TightRemoved ==
  ASSUME NEW n \in Nat, NEW S \in SUBSET (0 .. n), Tight(S), NEW k \in S, \A j \in S : j <= k
  PROVE  /\ Cardinality(S \ {k}) = Cardinality(S) - 1
         /\ Cardinality(S) \in Nat \ {0}
         /\ Tight(S \ {k})
         /\ \A i \in S \ {k} : Below(S \ {k}, i) = Below(S, i)
         /\ Below(S, k) = S \ {k}
<1>1. IsFiniteSet(S) /\ Cardinality(S) \in Nat
  BY IndexFinite
<1>2. IsFiniteSet(S \ {k}) /\ Cardinality(S \ {k}) = Cardinality(S) - 1
  BY <1>1, FS_RemoveElement
<1>3. Cardinality(S \ {k}) \in Nat
  BY <1>2, FS_CardinalityType
<1>4. \A i \in S : i \in Nat
  OBVIOUS
<1>5. ASSUME NEW i \in S \ {k}
      PROVE  Upto(S \ {k}, i) = Upto(S, i) /\ Below(S \ {k}, i) = Below(S, i) /\ i <= Cardinality(Upto(S, i))
  BY <1>4 DEF Upto, Below, Tight
<1>6. Tight(S \ {k})
  BY <1>5 DEF Tight
<1>7. Below(S, k) = S \ {k}
  <2>1. \A j \in S : j < k <=> j # k
    BY <1>4
  <2> QED
    BY <2>1, Zenon DEF Below
<1> QED
  BY <1>1, <1>2, <1>3, <1>5, <1>6, <1>7

(* The number of logs that have been renamed.                               *)
LEMMA Interval ==
  ASSUME NEW a \in Nat, NEW b \in Nat, a <= b
  PROVE  IsFiniteSet((a + 1) .. b) /\ Cardinality((a + 1) .. b) = b - a
<1>1. IsFiniteSet((a + 1) .. b)
  BY FS_Interval
<1>2. Cardinality((a + 1) .. b) = IF a + 1 > b THEN 0 ELSE b - (a + 1) + 1
  BY FS_Interval
<1> QED
  BY <1>1, <1>2

Stacked(T, a, s, A) ==
  Tight(T) /\ a = Cardinality(T) /\ a <= s /\ A = T \cup ((a + 1) .. s)

Refilled(T, a, s, A) ==
  /\ Tight(A) /\ Cardinality(A) = s
  /\ \A i \in T : Below(A, i) = Below(T, i)
  /\ \A i \in (a + 1) .. s : Cardinality(Below(A, i)) = i - 1

(* When a rotation is cut short, the logs below and the renamed ones above  *)
(* are tight.                                                               *)
LEMMA TightRefilled ==
  ASSUME NEW n \in Nat, NEW T \in SUBSET (0 .. n), NEW a \in Nat, NEW s \in Nat, NEW A,
         Stacked(T, a, s, A)
  PROVE  Refilled(T, a, s, A)
<1>s. Tight(T) /\ a = Cardinality(T) /\ a <= s
  BY DEF Stacked
<1>1. IsFiniteSet(T) /\ \A i \in T : i \in Nat /\ i <= a
  <2>1. IsFiniteSet(T)
    BY IndexFinite, Zenon
  <2>2. \A i \in T : i <= Cardinality(T)
    BY <1>s, TightBound, Zenon
  <2> QED
    BY <1>s, <2>1, <2>2
<1>2. ASSUME NEW r \in Nat, a <= r
      PROVE  Cardinality(T \cup ((a + 1) .. r)) = r
  <2>1. IsFiniteSet((a + 1) .. r) /\ Cardinality((a + 1) .. r) = r - a
    BY <1>2, Interval
  <2>2. T \cap ((a + 1) .. r) = {}
    BY <1>1
  <2>3. Cardinality(T \cap ((a + 1) .. r)) = 0
    BY <2>2, FS_EmptySet, Zenon
  <2>4. Cardinality(T \cup ((a + 1) .. r))
          = Cardinality(T) + Cardinality((a + 1) .. r) - Cardinality(T \cap ((a + 1) .. r))
    BY <1>1, <2>1, FS_Union
  <2> QED
    BY <1>s, <1>2, <2>1, <2>3, <2>4
<1>3. A = T \cup ((a + 1) .. s)
  BY DEF Stacked
<1>4. ASSUME NEW i \in T
      PROVE  Upto(A, i) = Upto(T, i) /\ Below(A, i) = Below(T, i)
  BY <1>1, <1>3 DEF Upto, Below
<1>5. ASSUME NEW i \in (a + 1) .. s
      PROVE  /\ Upto(A, i) = T \cup ((a + 1) .. i) /\ i \in Nat /\ a <= i
             /\ Below(A, i) = T \cup ((a + 1) .. (i - 1)) /\ i - 1 \in Nat /\ a <= i - 1
  <2>1. i \in Nat /\ a <= i /\ i - 1 \in Nat /\ a <= i - 1 /\ i <= s
    OBVIOUS
  <2>2. \A j \in T : j <= i /\ j < i
    BY <1>1, <2>1
  <2>3. \A j \in (a + 1) .. s : (j <= i <=> j \in (a + 1) .. i) /\ (j < i <=> j \in (a + 1) .. (i - 1))
    BY <2>1
  <2>4. ((a + 1) .. i) \subseteq ((a + 1) .. s) /\ ((a + 1) .. (i - 1)) \subseteq ((a + 1) .. s)
    BY <2>1
  <2>5. Upto(A, i) = T \cup ((a + 1) .. i)
    BY <1>3, <2>2, <2>3, <2>4, Zenon DEF Upto
  <2>6. Below(A, i) = T \cup ((a + 1) .. (i - 1))
    BY <1>3, <2>2, <2>3, <2>4, Zenon DEF Below
  <2> QED
    BY <2>1, <2>5, <2>6
<1>6. Tight(A)
  <2>1. ASSUME NEW i \in T PROVE i <= Cardinality(Upto(A, i))
    BY <1>s, <1>4, <2>1 DEF Tight
  <2>2. ASSUME NEW i \in (a + 1) .. s PROVE i <= Cardinality(Upto(A, i))
    <3>1. Cardinality(Upto(A, i)) = i /\ i \in Nat
      BY <1>2, <1>5
    <3> QED
      BY <3>1
  <2> QED
    BY <1>3, <2>1, <2>2 DEF Tight
<1>7. \A i \in (a + 1) .. s : Cardinality(Below(A, i)) = i - 1
  BY <1>2, <1>5
<1> QED
  BY <1>s, <1>2, <1>3, <1>4, <1>6, <1>7 DEF Refilled

(* Opening app.log leaves a tight set.                                      *)
LEMMA TightZero ==
  ASSUME NEW n \in Nat, NEW S \in SUBSET (0 .. n), Tight(S)
  PROVE  Tight(S \cup {0})
<1> SUFFICES ASSUME NEW i \in S \cup {0} PROVE i <= Cardinality(Upto(S \cup {0}, i))
  BY DEF Tight
<1>1. S \cup {0} \in SUBSET (0 .. n)
  OBVIOUS
<1>2. IsFiniteSet(S \cup {0})
  BY <1>1, IndexFinite
<1>3. Upto(S \cup {0}, i) \in SUBSET (S \cup {0})
  BY DEF Upto
<1>4. IsFiniteSet(Upto(S \cup {0}, i)) /\ Cardinality(Upto(S \cup {0}, i)) \in Nat
  BY <1>2, <1>3, SmallerSet
<1>5. CASE i = 0
  BY <1>4, <1>5
<1>6. CASE i # 0
  <2>1. i \in S /\ i <= Cardinality(Upto(S, i)) /\ i \in Nat
    BY <1>6 DEF Tight
  <2>2. Upto(S, i) \in SUBSET Upto(S \cup {0}, i)
    BY DEF Upto
  <2>3. Cardinality(Upto(S, i)) \in Nat /\ Cardinality(Upto(S, i)) <= Cardinality(Upto(S \cup {0}, i))
    BY <1>4, <2>2, SmallerSet
  <2> QED
    BY <1>4, <2>1, <2>3
<1> QED
  BY <1>5, <1>6

(* A run of indices from 0 or from 1 is tight.                              *)
LEMMA RunTight ==
  ASSUME NEW s \in Nat \ {0}
  PROVE  /\ Tight(1 .. s) /\ Tight(0 .. (s - 1))
         /\ Cardinality(1 .. s) = s /\ Cardinality(0 .. (s - 1)) = s
         /\ \A i \in 1 .. s : Cardinality(Below(1 .. s, i)) = i - 1
         /\ Cardinality((1 .. s) \cup {0}) = s + 1
<1>1. \A a, b \in Int : a <= b => Cardinality(a .. b) = b - a + 1
  BY FS_Interval
<1>2. ASSUME NEW i \in 1 .. s
      PROVE  /\ Upto(1 .. s, i) = 1 .. i /\ Cardinality(1 .. i) = i
             /\ Below(1 .. s, i) = 1 .. (i - 1) /\ Cardinality(1 .. (i - 1)) = i - 1
  <2>1. Upto(1 .. s, i) = 1 .. i /\ Below(1 .. s, i) = 1 .. (i - 1)
    BY DEF Upto, Below
  <2>2. Cardinality(1 .. i) = i
    BY <1>1
  <2>3. CASE i = 1
    <3>1. 1 .. (i - 1) = {}
      BY <2>3
    <3> QED
      BY <2>1, <2>2, <2>3, <3>1, FS_EmptySet
  <2>4. CASE i # 1
    <3>1. Cardinality(1 .. (i - 1)) = (i - 1) - 1 + 1
      BY <1>1, <2>4
    <3> QED
      BY <2>1, <2>2, <3>1
  <2> QED
    BY <2>3, <2>4
<1>3. ASSUME NEW i \in 0 .. (s - 1)
      PROVE  Upto(0 .. (s - 1), i) = 0 .. i /\ Cardinality(0 .. i) = i + 1
  BY <1>1 DEF Upto
<1>4. Tight(1 .. s)
  BY <1>2 DEF Tight
<1>5. Tight(0 .. (s - 1))
  BY <1>3 DEF Tight
<1>6. Cardinality(1 .. s) = s /\ Cardinality(0 .. (s - 1)) = s
  BY <1>1
<1>7. (1 .. s) \cup {0} = 0 .. s
  OBVIOUS
<1>8. Cardinality(0 .. s) = s + 1
  BY <1>1
<1> QED
  BY <1>2, <1>4, <1>5, <1>6, <1>7, <1>8

-----------------------------------------------------------------------------
(* The parts of the invariant.                                              *)
LEMMA Bounds ==
  /\ MaxIndex \in Nat /\ Index = 0 .. MaxIndex /\ 0 \in Index
  /\ SinkTypeOK => /\ Allowed \in Nat \ {0} /\ Allowed <= MaxCount + 1 /\ faults \in Nat
               /\ faults <= MaxFaults /\ config.max_file_count \in Nat
               /\ config.max_file_count <= Allowed
<1>1. MaxIndex \in Nat /\ Index = 0 .. MaxIndex /\ 0 \in Index
  BY FileSinkAssumption DEF MaxIndex, Index
<1>2. ASSUME SinkTypeOK
      PROVE  /\ config.max_file_count \in 0 .. MaxCount /\ faults \in 0 .. MaxFaults
  BY <1>2 DEF SinkTypeOK, Config
<1> QED
  BY <1>1, <1>2, FileSinkAssumption DEF Allowed

(* A log's messages.                                                        *)
LEMMA ElementsOf ==
  /\ Elements(<<>>) = {}
  /\ \A s \in Seq(Msgs), m \in Msgs :
       Append(s, m) \in Seq(Msgs) /\ Elements(Append(s, m)) = Elements(s) \cup {m}
  /\ \A s \in Seq(Msgs) : Elements(s) \subseteq Msgs
<1>1. Elements(<<>>) = {}
  BY DEF Elements
<1>2. ASSUME NEW s \in Seq(Msgs), NEW m \in Msgs
      PROVE  Append(s, m) \in Seq(Msgs) /\ Elements(Append(s, m)) = Elements(s) \cup {m}
  <2>1. /\ Append(s, m) \in Seq(Msgs) /\ Len(Append(s, m)) = Len(s) + 1 /\ Len(s) \in Nat
        /\ \A i \in 1 .. Len(s) : Append(s, m)[i] = s[i]
        /\ Append(s, m)[Len(s) + 1] = m
    OBVIOUS
  <2>2. PICK a : a = Append(s, m)
    OBVIOUS
  <2>3. 1 .. Len(a) = (1 .. Len(s)) \cup {Len(s) + 1}
    BY <2>1, <2>2
  <2>4. Elements(a) = Elements(s) \cup {m}
    BY <2>1, <2>2, <2>3 DEF Elements
  <2> QED
    BY <2>1, <2>2, <2>4
<1>3. ASSUME NEW s \in Seq(Msgs) PROVE Elements(s) \subseteq Msgs
  BY DEF Elements
<1> QED
  BY <1>1, <1>2, <1>3

(* Where a message is: what NothingClobbered says, message by message.       *)
LEMMA KeptParts ==
  SinkTypeOK =>
    (NothingClobbered <=>
       /\ \A m : m \in dropped \/ (\E i \in exists : m \in Elements(disk[i])) <=> m \in 1 .. written
       /\ \A m : ~(m \in dropped /\ \E i \in exists : m \in Elements(disk[i]))
       /\ \A i, j \in exists : i # j => \A m : ~(m \in Elements(disk[i]) /\ m \in Elements(disk[j])))
<1>1. \A m : m \in OnDisk <=> \E i \in exists : m \in Elements(disk[i])
  BY DEF OnDisk
<1> QED
  BY <1>1, Zenon DEF NothingClobbered

(* A rename to an index that is free, or to its own, keeps every message.    *)
LEMMA RenameKeeps ==
  ASSUME SinkTypeOK, Kept, NEW i \in exists, NEW j \in Index, j = i \/ j \notin exists,
         Rename(i, j), UNCHANGED <<written, dropped>>
  PROVE  /\ exists' \subseteq Index /\ disk' \in [Index -> Seq(Msgs)]
         /\ exists' = (exists \ {i}) \cup {j}
         /\ disk'[j] = disk[i]
         /\ \A k \in Index : k # i /\ k # j => disk'[k] = disk[k]
         /\ Kept'
<1>1. /\ exists' = (exists \ {i}) \cup {j} /\ i \in Index /\ exists \subseteq Index
      /\ disk' = [k \in Index |-> IF k = j THEN disk[i] ELSE IF k = i THEN <<>> ELSE disk[k]]
  BY DEF Rename, SinkTypeOK
<1>2. /\ exists' \subseteq Index /\ disk' \in [Index -> Seq(Msgs)] /\ disk'[j] = disk[i]
      /\ \A k \in Index : k # i /\ k # j => disk'[k] = disk[k]
      /\ i # j => disk'[i] = <<>>
  BY <1>1 DEF SinkTypeOK
<1>3. \A k \in Index \ exists' : disk'[k] = <<>>
  BY <1>1, <1>2 DEF Kept
<1>4. \A k \in exists : k # i => k # j /\ k \in exists' /\ disk'[k] = disk[k]
  BY <1>1, <1>2
<1>5. \A k \in exists' : k # j => k \in exists /\ k # i /\ disk'[k] = disk[k]
  BY <1>1, <1>2
<1>6. \A m : (\E k \in exists : m \in Elements(disk[k])) <=> (\E k \in exists' : m \in Elements(disk'[k]))
  BY <1>1, <1>2, <1>4, <1>5, Zenon
<1>7. \A k, l \in exists' : k # l => \A m : ~(m \in Elements(disk'[k]) /\ m \in Elements(disk'[l]))
  <2>1. \A k, l \in exists : k # l => \A m : ~(m \in Elements(disk[k]) /\ m \in Elements(disk[l]))
    BY KeptParts, Zenon DEF Kept
  <2> QED
    BY <1>1, <1>2, <1>5, <2>1
<1>8. NothingClobbered'
  <2>1. \A m : (m \in OnDisk <=> \E k \in exists : m \in Elements(disk[k]))
             /\ (m \in OnDisk' <=> \E k \in exists' : m \in Elements(disk'[k]))
    BY DEF OnDisk
  <2>2. OnDisk' = OnDisk
    BY <1>6, <2>1, Zenon
  <2>3. \A k, l \in exists' : k # l => Elements(disk'[k]) \cap Elements(disk'[l]) = {}
    BY <1>7, Zenon
  <2> QED
    BY <2>2, <2>3 DEF Kept, NothingClobbered
<1> QED
  BY <1>1, <1>2, <1>3, <1>8 DEF Kept

(* Opening app.log keeps every message, or moves those of app.log to the     *)
(* dropped ones.                                                            *)
LEMMA OpenKeeps ==
  ASSUME SinkTypeOK, Kept, NEW trunc \in BOOLEAN, OpenLog(trunc), UNCHANGED written
  PROVE  /\ exists' \subseteq Index /\ disk' \in [Index -> Seq(Msgs)] /\ cur_size' \in Nat
         /\ \A k \in Index : k # 0 => disk'[k] = disk[k]
         /\ dropped' \subseteq Msgs
         /\ dropped' \subseteq dropped \cup Elements(disk[0])
         /\ ~trunc => dropped' = dropped
         /\ Kept'
<1>1. exists' = exists \cup {0} /\ 0 \in Index /\ exists \subseteq Index /\ disk \in [Index -> Seq(Msgs)]
  BY Bounds DEF OpenLog, SinkTypeOK
<1>2. CASE trunc
  <2>1. /\ disk' = [disk EXCEPT ![0] = <<>>] /\ dropped' = dropped \cup Elements(disk[0])
        /\ cur_size' = 2 * Len(disk'[0])
    BY <1>2 DEF OpenLog
  <2>2. /\ disk' \in [Index -> Seq(Msgs)] /\ disk'[0] = <<>>
        /\ \A k \in Index : k # 0 => disk'[k] = disk[k]
    BY <1>1, <2>1
  <2>3. cur_size' \in Nat
    BY <1>1, <2>1, <2>2
  <2>4. Elements(disk[0]) \subseteq Msgs /\ dropped \subseteq Msgs
    BY <1>1, ElementsOf DEF SinkTypeOK
  <2>5. \A k \in Index \ exists' : disk'[k] = <<>>
    BY <1>1, <2>2 DEF Kept
  <2>6. Elements(disk'[0]) = {} /\ (0 \notin exists => Elements(disk[0]) = {})
    BY <1>1, <2>2, ElementsOf DEF Kept
  <2>7. \A k \in exists' : k # 0 => k \in exists /\ disk'[k] = disk[k]
    BY <1>1, <2>2
  <2>8. \A k \in exists : k # 0 => k \in exists' /\ disk'[k] = disk[k]
    BY <1>1, <2>2
  <2>9. \A m : m \in OnDisk' <=> \E k \in exists : k # 0 /\ m \in Elements(disk[k])
    BY <2>6, <2>7, <2>8, Zenon DEF OnDisk
  <2>10. \A m : m \in OnDisk <=> m \in Elements(disk[0]) \/ \E k \in exists : k # 0 /\ m \in Elements(disk[k])
    BY <1>1, <2>6 DEF OnDisk
  <2>11. /\ OnDisk \cup dropped = 1 .. written /\ OnDisk \cap dropped = {}
         /\ \A i, j \in exists : i # j => Elements(disk[i]) \cap Elements(disk[j]) = {}
    BY DEF Kept, NothingClobbered
  <2>12. OnDisk' \cup dropped' = 1 .. written'
    BY <2>1, <2>9, <2>10, <2>11
  <2>13. OnDisk' \cap dropped' = {}
    <3>1. \A k \in exists : k # 0 => Elements(disk[k]) \cap Elements(disk[0]) = {}
      BY <1>1, <2>6, <2>11
    <3>2. \A m \in OnDisk' : m \notin Elements(disk[0])
      BY <2>9, <3>1
    <3> QED
      BY <2>1, <2>9, <2>10, <2>11, <3>2
  <2>14. \A k, l \in exists' : k # l => Elements(disk'[k]) \cap Elements(disk'[l]) = {}
    BY <2>6, <2>7, <2>11
  <2>15. NothingClobbered'
    BY <2>12, <2>13, <2>14 DEF NothingClobbered
  <2> QED
    BY <1>1, <1>2, <2>1, <2>2, <2>3, <2>4, <2>5, <2>15 DEF Kept
<1>3. CASE ~trunc
  <2>1. disk' = disk /\ dropped' = dropped /\ cur_size' = 2 * Len(disk[0])
    BY <1>3 DEF OpenLog
  <2>2. 0 \notin exists => Elements(disk[0]) = {}
    BY <1>1, ElementsOf DEF Kept
  <2>3. \A m : m \in OnDisk' <=> m \in OnDisk
    BY <1>1, <2>1, <2>2 DEF OnDisk
  <2>4. \A k, l \in exists' : k # l => Elements(disk'[k]) \cap Elements(disk'[l]) = {}
    BY <1>1, <2>1, <2>2 DEF Kept, NothingClobbered
  <2>5. NothingClobbered'
    BY <2>1, <2>3, <2>4 DEF Kept, NothingClobbered
  <2>6. cur_size' \in Nat
    BY <1>1, <2>1
  <2> QED
    BY <1>1, <1>3, <2>1, <2>5, <2>6 DEF Kept, SinkTypeOK
<1> QED
  BY <1>2, <1>3

(* Writing a message.                                                       *)
LEMMA WriteKeeps ==
  ASSUME SinkTypeOK, Kept, 0 \in exists, NEW w \in Msgs, w = written + 1, written' = w,
         disk' = [disk EXCEPT ![0] = Append(@, w)], UNCHANGED <<exists, dropped>>
  PROVE  /\ disk' \in [Index -> Seq(Msgs)]
         /\ \A k \in Index : k # 0 => disk'[k] = disk[k]
         /\ Elements(disk'[0]) \subseteq 1 .. w
         /\ Kept'
<1>1. 0 \in Index /\ exists \subseteq Index /\ disk \in [Index -> Seq(Msgs)]
  BY Bounds DEF SinkTypeOK
<1>2. /\ disk' \in [Index -> Seq(Msgs)] /\ Elements(disk'[0]) = Elements(disk[0]) \cup {w}
      /\ \A k \in Index : k # 0 => disk'[k] = disk[k]
  BY <1>1, ElementsOf
<1>3. /\ OnDisk \cup dropped = 1 .. written /\ OnDisk \cap dropped = {}
      /\ \A i, j \in exists : i # j => Elements(disk[i]) \cap Elements(disk[j]) = {}
  BY DEF Kept, NothingClobbered
<1>4. written \in Nat /\ w \in Nat /\ w \notin 1 .. written /\ 1 .. w = (1 .. written) \cup {w}
  BY FileSinkAssumption DEF SinkTypeOK
<1>5. \A m : m \in OnDisk' <=> m \in OnDisk \/ m = w
  <2>1. \A m : m \in OnDisk' => m \in OnDisk \/ m = w
    BY <1>1, <1>2 DEF OnDisk
  <2>2. \A m : m \in OnDisk => m \in OnDisk'
    <3>1. \A k \in exists' : Elements(disk[k]) \subseteq Elements(disk'[k])
      BY <1>1, <1>2
    <3> QED
      BY <3>1 DEF OnDisk
  <2>3. w \in OnDisk'
    BY <1>1, <1>2 DEF OnDisk
  <2> QED
    BY <2>1, <2>2, <2>3
<1>6. w \notin OnDisk /\ w \notin dropped
  BY <1>3, <1>4
<1>7. OnDisk' \cup dropped' = 1 .. written' /\ OnDisk' \cap dropped' = {}
  BY <1>3, <1>4, <1>5, <1>6
<1>8. \A k \in exists : w \notin Elements(disk[k])
  BY <1>6 DEF OnDisk
<1>9. \A k, l \in exists' : k # l => Elements(disk'[k]) \cap Elements(disk'[l]) = {}
  <2>1. \A k \in exists : \A m \in Elements(disk'[k]) : m \in Elements(disk[k]) \/ (m = w /\ k = 0)
    BY <1>1, <1>2
  <2>2. ASSUME NEW k \in exists, NEW l \in exists, k # l,
               NEW m, m \in Elements(disk'[k]), m \in Elements(disk'[l])
        PROVE  FALSE
    <3>1. CASE m = w
      <4>1. k = 0 /\ l = 0
        BY <1>8, <2>1, <2>2, <3>1
      <4> QED
        BY <2>2, <4>1
    <3>2. CASE m # w
      <4>1. m \in Elements(disk[k]) /\ m \in Elements(disk[l])
        BY <2>1, <2>2, <3>2
      <4>2. Elements(disk[k]) \cap Elements(disk[l]) = {}
        BY <1>3, <2>2
      <4> QED
        BY <4>1, <4>2
    <3> QED
      BY <3>1, <3>2
  <2> QED
    BY <2>2
<1>10. NothingClobbered'
  BY <1>7, <1>9 DEF NothingClobbered
<1>11. Elements(disk'[0]) \subseteq 1 .. w
  <2>1. Elements(disk[0]) \subseteq OnDisk
    BY DEF OnDisk
  <2> QED
    BY <1>2, <1>3, <1>4, <2>1
<1>12. \A k \in Index \ exists' : disk'[k] = <<>>
  BY <1>1, <1>2 DEF Kept
<1> QED
  BY <1>2, <1>10, <1>11, <1>12 DEF Kept

-----------------------------------------------------------------------------
(* Wherever a rotation is cut short, it leaves a directory like one between  *)
(* two rotations, with at most one log too many.                            *)
LEMMA CutShort ==
  ASSUME SinkInv
  PROVE  /\ Tight(exists) /\ AtRest
         /\ Cardinality(exists \cup {0}) \in Nat
         /\ Cardinality(exists \cup {0}) <= faults + Allowed + 1
<1>t. SinkTypeOK /\ Shape /\ Room /\ Aged
  BY DEF SinkInv
<1>b. /\ MaxIndex \in Nat /\ Index = 0 .. MaxIndex /\ 0 \in Index /\ Allowed \in Nat /\ faults \in Nat
      /\ exists \in SUBSET (0 .. MaxIndex) /\ todo \in SUBSET (0 .. MaxIndex)
      /\ disk \in [Index -> Seq(Msgs)] /\ written \in Nat
  BY <1>t, Bounds, FileSinkAssumption DEF SinkTypeOK
<1>f. IsFiniteSet(exists) /\ Cardinality(exists) \in Nat
  BY <1>b, IndexFinite
<1>c. /\ Cardinality(exists \cup {0}) \in Nat
      /\ Cardinality(exists \cup {0}) <= Cardinality(exists) + 1
  <2>1. /\ IsFiniteSet(exists \cup {0})
        /\ Cardinality(exists \cup {0}) = IF 0 \in exists THEN Cardinality(exists) ELSE Cardinality(exists) + 1
    BY <1>f, FS_AddElement
  <2> QED
    BY <1>f, <2>1
<1>m. \A i \in exists : \A m \in Elements(disk[i]) : m \in Nat
  <2>1. Msgs \subseteq Nat
    BY DEF Msgs
  <2> QED
    BY <1>b, <2>1, ElementsOf
<1>w. ASSUME NEW i \in exists
      PROVE  /\ Cardinality(Below(exists \ {0}, i)) \in Nat
             /\ Cardinality(Below(exists, i)) \in Nat
             /\ Cardinality(Below(exists \ {0}, i)) <= Cardinality(Below(exists, i))
  <2>1. Below(exists \ {0}, i) \in SUBSET Below(exists, i) /\ Below(exists, i) \in SUBSET exists
    BY DEF Below
  <2>2. IsFiniteSet(Below(exists, i))
    BY <1>f, <2>1, SmallerSet
  <2> QED
    BY <2>1, <2>2, SmallerSet
<1>1. CASE pc \notin {"shift", "recycle"}
  BY <1>t, <1>1, <1>b, <1>c DEF Shape, Room, Aged
<1>2. CASE pc = "shift"
  <2>1. /\ size \in Nat /\ index = Cardinality(todo) /\ index <= size /\ Tight(todo)
        /\ exists = todo \cup ((index + 1) .. size) /\ size <= faults + Allowed
    BY <1>t, <1>2 DEF Shape, Room
  <2>2. index \in Nat
    BY <1>b, <2>1, IndexFinite
  <2>3. /\ Tight(exists) /\ Cardinality(exists) = size
        /\ \A i \in todo : Below(exists, i) = Below(todo, i)
        /\ \A i \in (index + 1) .. size : Cardinality(Below(exists, i)) = i - 1
    <3>1. PICK n \in Nat, a \in Nat, s \in Nat : n = MaxIndex /\ a = index /\ s = size
      BY <1>b, <2>1, <2>2, Zenon
    <3>2. PICK T \in SUBSET (0 .. n) : T = todo
      BY <1>b, <3>1, Zenon
    <3>3. PICK A : A = exists
      OBVIOUS
    <3>4. Stacked(T, a, s, A)
      BY <2>1, <3>1, <3>2, <3>3 DEF Stacked
    <3>5. Refilled(T, a, s, A)
      BY <3>4, TightRefilled, Zenon
    <3> QED
      BY <3>1, <3>2, <3>3, <3>5, Zenon DEF Refilled
  <2>4. ASSUME NEW i \in exists \ {0}, NEW m \in Elements(disk[i])
        PROVE  m + Cardinality(Below(exists \ {0}, i)) <= written
    <3>1. m + Cardinality(Below(exists, i)) <= written
      <4>1. CASE i \in todo
        <5>1. m + Cardinality(Below(todo, i)) <= written
          BY <1>t, <1>2, <4>1 DEF Aged
        <5>2. Below(exists, i) = Below(todo, i)
          BY <2>3, <4>1
        <5> QED
          BY <5>1, <5>2, Zenon
      <4>2. CASE i \in (index + 1) .. size
        <5>1. m + i <= written + 1 /\ Cardinality(Below(exists, i)) = i - 1 /\ i \in Nat /\ m \in Nat
          BY <1>t, <1>2, <1>m, <2>2, <2>3, <4>2 DEF Aged
        <5> QED
          BY <1>b, <5>1
      <4> QED
        BY <2>1, <4>1, <4>2
    <3>2. PICK k \in Nat : k = m
      BY <1>m
    <3>3. PICK c, d \in Nat : /\ c = Cardinality(Below(exists \ {0}, i))
                              /\ d = Cardinality(Below(exists, i)) /\ c <= d
      BY <1>w, Zenon
    <3>4. k + d <= written /\ written \in Nat
      BY <1>b, <3>1, <3>2, <3>3, Zenon
    <3>5. k + c <= written
      BY ONLY <3>3, <3>4
    <3> QED
      BY <3>2, <3>3, <3>5, Zenon
  <2>5. AtRest
    BY <2>4, Zenon DEF AtRest
  <2>6. Cardinality(exists \cup {0}) <= faults + Allowed + 1
    BY <1>b, <1>c, <1>f, <2>1, <2>3
  <2> QED
    BY <1>c, <2>3, <2>5, <2>6
<1>3. CASE pc = "recycle"
  <2>1. size \in Nat \ {0} /\ exists = 1 .. size /\ size <= faults + Allowed
    BY <1>t, <1>3 DEF Shape, Room
  <2>2. /\ Tight(exists) /\ Cardinality(exists) = size
        /\ \A i \in 1 .. size : Cardinality(Below(exists, i)) = i - 1
    BY <2>1, RunTight
  <2>3. ASSUME NEW i \in exists \ {0}, NEW m \in Elements(disk[i])
        PROVE  m + Cardinality(Below(exists \ {0}, i)) <= written
    <3>1. m + i <= written + 1 /\ Cardinality(Below(exists, i)) = i - 1 /\ i \in Nat /\ m \in Nat
      BY <1>t, <1>3, <1>m, <2>1, <2>2 DEF Aged
    <3>2. PICK c, d \in Nat : /\ c = Cardinality(Below(exists \ {0}, i))
                              /\ d = Cardinality(Below(exists, i)) /\ c <= d
      BY <1>w, Zenon
    <3>3. m + c <= written
      BY <1>b, <3>1, <3>2
    <3> QED
      BY <3>2, <3>3, Zenon
  <2>4. AtRest
    BY <2>3, Zenon DEF AtRest
  <2>5. Cardinality(exists \cup {0}) <= faults + Allowed + 1
    BY <1>b, <1>c, <1>f, <2>1, <2>2
  <2> QED
    BY <1>c, <2>2, <2>4, <2>5
<1> QED
  BY <1>1, <1>2, <1>3

(* The steps, one action after the other.                                   *)
LEMMA CutStep ==
  ASSUME SinkInv, Fail \/ Crash
  PROVE  SinkInv'
<1>1. /\ pc' \in {"shut", "down"} /\ faults' = faults + 1 /\ faults < MaxFaults
      /\ UNCHANGED <<config, dir, exists, disk, cur_size, todo, index, size, written, dropped>>
  BY DEF Fail, Crash
<1>2. SinkTypeOK' /\ Allowed' = Allowed /\ AtRest' /\ Kept'
  <2>1. SinkTypeOK'
    BY <1>1, FileSinkAssumption DEF SinkInv, SinkTypeOK, PC
  <2>2. AtRest' /\ Allowed' = Allowed
    BY <1>1, CutShort DEF AtRest, Allowed
  <2>3. Kept'
    BY <1>1 DEF SinkInv, Kept, NothingClobbered, OnDisk
  <2> QED
    BY <2>1, <2>2, <2>3
<1>3. Shape'
  BY <1>1, CutShort DEF Shape, Tight, Upto
<1>4. Room'
  BY <1>1, <1>2, CutShort, Bounds DEF SinkInv, Room
<1>5. Aged'
  BY <1>1, <1>2 DEF SinkInv, Aged, Safe
<1> QED
  BY <1>2, <1>3, <1>4, <1>5 DEF SinkInv

(* Creating the directory and closing the log change no file.               *)
LEMMA QuietStep ==
  ASSUME SinkInv, InitDirectory \/ Uninit
  PROVE  SinkInv'
<1>1. /\ pc' \in {"down", "ready", "shut"} /\ (pc' = "ready" => pc = "ready")
      /\ pc \in {"down", "ready", "shut"} /\ dir' \in BOOLEAN
      /\ UNCHANGED <<config, exists, disk, cur_size, todo, index, size, written, dropped, faults>>
  BY DEF InitDirectory, Uninit, SinkInv, SinkTypeOK
<1>2. SinkTypeOK'
  BY <1>1 DEF SinkInv, SinkTypeOK, PC
<1>3. Shape'
  BY <1>1 DEF SinkInv, Shape, Tight, Upto
<1>4. Room'
  BY <1>1 DEF SinkInv, Room, Allowed
<1>5. Kept'
  BY <1>1 DEF SinkInv, Kept, NothingClobbered, OnDisk
<1>6. Aged'
  BY <1>1 DEF SinkInv, Aged, AtRest, Safe
<1> QED
  BY <1>2, <1>3, <1>4, <1>5, <1>6 DEF SinkInv

(* Opening app.log, at Init or after a rotation, keeps the invariant.       *)
LEMMA OpenStep ==
  ASSUME SinkInv, InitOpen \/ Reopen
  PROVE  SinkInv'
<1>t. SinkTypeOK /\ Shape /\ Room /\ Kept /\ Aged
  BY DEF SinkInv
<1>1. PICK trunc \in BOOLEAN :
        /\ OpenLog(trunc) /\ pc \notin {"shift", "recycle"}
        /\ trunc => config.trunc \/ pc = "open"
        /\ UNCHANGED <<config, dir, todo, index, size, written, faults>>
  <2>1. config.trunc \in BOOLEAN
    BY <1>t DEF SinkTypeOK, Config
  <2>2. CASE InitOpen
    BY <2>1, <2>2 DEF InitOpen
  <2>3. CASE Reopen
    BY <2>3 DEF Reopen
  <2> QED
    BY <2>2, <2>3
<1>2. pc' = "ready" /\ exists' = exists \cup {0}
  BY <1>1 DEF OpenLog
<1>3. /\ exists' \subseteq Index /\ disk' \in [Index -> Seq(Msgs)] /\ cur_size' \in Nat
      /\ \A k \in Index : k # 0 => disk'[k] = disk[k]
      /\ dropped' \subseteq Msgs
      /\ dropped' \subseteq dropped \cup Elements(disk[0])
      /\ ~trunc => dropped' = dropped
      /\ Kept'
  BY <1>t, <1>1, OpenKeeps, Zenon
<1>4. SinkTypeOK'
  BY <1>t, <1>1, <1>2, <1>3 DEF SinkTypeOK, PC
<1>5. Tight(exists')
  <2>1. MaxIndex \in Nat /\ exists \in SUBSET (0 .. MaxIndex) /\ Tight(exists)
    BY <1>t, <1>1, Bounds DEF SinkTypeOK, Shape
  <2>2. Tight(exists \cup {0})
    BY <2>1, TightZero
  <2> QED
    BY <1>2, <2>2, Zenon
<1>6. Shape'
  BY <1>2, <1>5 DEF Shape, Tight, Upto
<1>7. Room'
  <2>1. exists' \cup {0} = exists \cup {0}
    BY <1>2
  <2>2. Cardinality(exists \cup {0}) <= faults + Allowed
    BY <1>t, <1>1 DEF Room
  <2>3. Cardinality(exists' \cup {0}) <= faults' + Allowed'
    BY <1>1, <2>1, <2>2, Zenon DEF Allowed
  <2> QED
    BY <1>2, <2>3 DEF Room
<1>8. AtRest'
  <2>1. AtRest /\ exists \subseteq Index
    BY <1>t, <1>1 DEF Aged, SinkTypeOK
  <2>2. exists' \ {0} = exists \ {0}
    BY <1>2
  <2>3. \A i \in exists \ {0} : disk'[i] = disk[i]
    BY <1>3, <2>1
  <2> QED
    BY <1>1, <2>1, <2>2, <2>3, Zenon DEF AtRest
<1>9. Aged'
  <2>1. ASSUME Safe', NEW m \in dropped' PROVE m + config'.max_file_count <= written' + 1
    <3>1. Safe
      BY <1>1, <2>1 DEF Safe
    <3>2. CASE m \in dropped
      BY <1>t, <1>1, <3>1, <3>2 DEF Aged
    <3>3. CASE m \notin dropped
      <4>1. m \in Elements(disk[0]) /\ pc = "open"
        BY <1>1, <1>3, <2>1, <3>1, <3>3 DEF Safe
      <4> QED
        BY <1>t, <1>1, <3>1, <4>1 DEF Aged
    <3> QED
      BY <3>2, <3>3
  <2> QED
    BY <1>2, <1>8, <2>1 DEF Aged
<1> QED
  BY <1>3, <1>4, <1>6, <1>7, <1>9 DEF SinkInv

(* Writing a message, and beginning a rotation, keeps the invariant.        *)
LEMMA LogStep ==
  ASSUME SinkInv, Log
  PROVE  SinkInv'
<1>t. SinkTypeOK /\ Shape /\ Room /\ Kept /\ Aged
  BY DEF SinkInv
<1>1. /\ pc = "ready" /\ written + 1 <= MaxMsgs /\ written' = written + 1
      /\ disk' = [disk EXCEPT ![0] = Append(@, written + 1)] /\ cur_size' = cur_size + 1
      /\ UNCHANGED <<config, dir, exists, dropped, faults>>
  BY DEF Log
<1>2. PICK w \in Msgs : w = written + 1 /\ w \in Nat /\ written \in Nat
  BY <1>t, <1>1, FileSinkAssumption DEF SinkTypeOK, Msgs
<1>3. /\ 0 \in exists /\ Tight(exists) /\ AtRest /\ Cardinality(exists \cup {0}) <= faults + Allowed
      /\ exists \subseteq Index /\ todo \subseteq Index
  BY <1>t, <1>1 DEF Shape, Room, Aged, SinkTypeOK
<1>4. /\ disk' \in [Index -> Seq(Msgs)]
      /\ \A k \in Index : k # 0 => disk'[k] = disk[k]
      /\ Elements(disk'[0]) \subseteq 1 .. w
      /\ Kept'
  BY <1>t, <1>1, <1>2, <1>3, WriteKeeps
<1>n. \A i \in exists \ {0} : \A m \in Elements(disk[i]) : m \in Nat
  <2>1. Msgs \subseteq Nat
    BY DEF Msgs
  <2> QED
    BY <1>t, <1>3, <2>1, ElementsOf DEF SinkTypeOK
<1>f. IsFiniteSet(exists) /\ Cardinality(exists) \in Nat
  BY <1>3, Bounds, IndexFinite
<1>c. ASSUME NEW i
      PROVE  IsFiniteSet(Below(exists \ {0}, i)) /\ Cardinality(Below(exists \ {0}, i)) \in Nat
  <2>1. Below(exists \ {0}, i) \in SUBSET exists
    BY DEF Below
  <2> QED
    BY <1>f, <2>1, SmallerSet
<1>r. AtRest'
  <2>1. ASSUME NEW i \in exists \ {0}, NEW m \in Elements(disk'[i])
        PROVE  m + Cardinality(Below(exists \ {0}, i)) <= written'
    <3>1. m \in Elements(disk[i])
      BY <1>3, <1>4, <2>1
    <3>2. m + Cardinality(Below(exists \ {0}, i)) <= written
      BY <1>3, <3>1 DEF AtRest
    <3>3. m \in Nat /\ Cardinality(Below(exists \ {0}, i)) \in Nat
      BY <1>n, <1>c, <3>1
    <3> QED
      BY <1>1, <1>2, <3>2, <3>3
  <2> QED
    BY <1>1, <2>1, Zenon DEF AtRest
<1>s. ASSUME Safe', NEW m \in dropped' PROVE m + config'.max_file_count <= written' + 1
  <2>1. Safe /\ m \in dropped /\ dropped \subseteq Msgs /\ config.max_file_count \in Nat
    BY <1>t, <1>1, <1>s, Bounds DEF Safe, SinkTypeOK
  <2>2. m + config.max_file_count <= written + 1 /\ m \in Nat
    BY <1>t, <2>1 DEF Aged, Msgs
  <2> QED
    BY <1>1, <1>2, <2>1, <2>2
<1>y. ASSUME pc' \in PC, todo' \subseteq Index, index' \in Index, size' \in Index
      PROVE  SinkTypeOK'
  <2>1. written' \in 0 .. MaxMsgs /\ cur_size' \in Nat
    BY <1>t, <1>1, <1>2, FileSinkAssumption DEF SinkTypeOK
  <2> QED
    BY <1>t, <1>1, <1>4, <1>y, <2>1 DEF SinkTypeOK
<1>5. CASE pc' = "ready" /\ UNCHANGED <<todo, index, size>>
  <2>1. SinkTypeOK'
    BY <1>t, <1>5, <1>y DEF SinkTypeOK, PC
  <2>2. Shape'
    BY <1>1, <1>3, <1>5 DEF Shape, Tight, Upto
  <2>3. Room'
    BY <1>1, <1>3, <1>5 DEF Room, Allowed
  <2>4. Aged'
    BY <1>5, <1>r, <1>s DEF Aged
  <2> QED
    BY <1>4, <2>1, <2>2, <2>3, <2>4 DEF SinkInv
<1>6. CASE config.max_file_count = 1 /\ pc' = "open" /\ UNCHANGED <<todo, index, size>>
  <2>1. SinkTypeOK'
    BY <1>t, <1>6, <1>y DEF SinkTypeOK, PC
  <2>2. Shape'
    BY <1>1, <1>3, <1>6 DEF Shape, Tight, Upto
  <2>3. Room'
    BY <1>1, <1>3, <1>6 DEF Room, Allowed
  <2>4. Aged'
    BY <1>1, <1>6, <1>r DEF Aged, Safe
  <2> QED
    BY <1>4, <2>1, <2>2, <2>3, <2>4 DEF SinkInv
<1>7. CASE RoutingLogs
  <2>1. pc' = "shift" /\ todo' = exists /\ index' = Cardinality(exists) /\ size' = Cardinality(exists)
    BY <1>7 DEF RoutingLogs
  <2>2. exists \cup {0} = exists
    BY <1>3
  <2>3. Cardinality(exists) <= faults + Allowed
    BY <1>3, <2>2, Zenon
  <2>4. Cardinality(exists) # 0
    BY <1>3, <1>f, FS_EmptySet
  <2>5. Cardinality(exists) \in Index
    BY <1>t, <1>f, <2>3, Bounds, FileSinkAssumption DEF Index, MaxIndex
  <2>6. SinkTypeOK'
    BY <1>3, <1>y, <2>1, <2>5 DEF PC
  <2>7. Shape'
    <3>1. exists' = todo' \cup ((index' + 1) .. size')
      BY <1>1, <1>f, <2>1
    <3>2. /\ size' \in Nat \ {0} /\ index' = Cardinality(todo') /\ index' <= size'
      BY <1>f, <2>1, <2>4
    <3>3. Tight(todo')
      BY <1>3, <2>1, Zenon
    <3> QED
      BY <2>1, <3>1, <3>2, <3>3 DEF Shape, Tight, Upto
  <2>8. Room'
    BY <1>1, <2>1, <2>3 DEF Room, Allowed
  <2>9. ASSUME NEW i \in exists, NEW m \in Elements(disk'[i])
        PROVE  m + Cardinality(Below(exists, i)) <= written'
    <3>1. CASE i = 0
      <4>1. Below(exists, i) = {}
        <5>1. \A k \in exists : k \in Nat /\ ~(k < 0)
          BY <1>3, Bounds
        <5> QED
          BY <3>1, <5>1, Zenon DEF Below
      <4>2. Cardinality(Below(exists, i)) = 0
        BY <4>1, FS_EmptySet, Zenon
      <4>3. m \in 1 .. w
        BY <1>4, <2>9, <3>1
      <4> QED
        BY <1>1, <1>2, <4>2, <4>3
    <3>2. CASE i # 0
      <4>1. i \in Nat /\ i > 0 /\ m \in Elements(disk[i])
        BY <1>3, <1>4, <2>9, <3>2, Bounds
      <4>2. Below(exists, i) = Below(exists \ {0}, i) \cup {0} /\ 0 \notin Below(exists \ {0}, i)
        BY <1>3, <4>1 DEF Below
      <4>3. PICK b : b = Below(exists \ {0}, i)
        OBVIOUS
      <4>4. IsFiniteSet(b) /\ Cardinality(b) \in Nat /\ 0 \notin b
        BY <1>c, <4>2, <4>3, Zenon
      <4>5. Cardinality(b \cup {0}) = Cardinality(b) + 1
        BY <4>4, FS_AddElement
      <4>6. Cardinality(Below(exists, i)) = Cardinality(b) + 1
        BY <4>2, <4>3, <4>5, Zenon
      <4>7. m + Cardinality(b) <= written /\ m \in Nat
        BY <1>3, <1>n, <3>2, <4>1, <4>3 DEF AtRest
      <4> QED
        BY <1>1, <1>2, <4>4, <4>6, <4>7
    <3> QED
      BY <3>1, <3>2
  <2>10. (index' + 1) .. size' = {}
    BY <1>f, <2>1
  <2>11. \A i \in todo' : \A m \in Elements(disk'[i]) : m + Cardinality(Below(todo', i)) <= written'
    BY <2>1, <2>9, Zenon
  <2>12. Aged'
    BY <1>s, <2>1, <2>10, <2>11 DEF Aged, Below
  <2> QED
    BY <1>4, <2>6, <2>7, <2>8, <2>12 DEF SinkInv
<1> QED
  BY <1>1, <1>5, <1>6, <1>7 DEF Log

(* One rename of a rotation keeps the invariant.                            *)
LEMMA ShiftStep ==
  ASSUME SinkInv, Shift
  PROVE  SinkInv'
<1>t. SinkTypeOK /\ Shape /\ Room /\ Kept /\ Aged
  BY DEF SinkInv
<1>b. /\ MaxIndex \in Nat /\ Index = 0 .. MaxIndex /\ todo \in SUBSET (0 .. MaxIndex)
      /\ exists \subseteq Index /\ written \in Nat
  BY <1>t, Bounds, FileSinkAssumption DEF SinkTypeOK
<1>1. PICK i \in todo : i = Oldest(todo) /\ \A j \in todo : j <= i
  BY <1>b, OldestIn DEF Shift
<1>2. /\ pc = "shift" /\ i \in exists /\ Rename(i, index) /\ todo' = todo \ {i} /\ index' = index - 1
      /\ UNCHANGED <<config, dir, pc, cur_size, size, written, dropped, faults>>
  BY <1>1 DEF Shift
<1>3. /\ size \in Nat \ {0} /\ index = Cardinality(todo) /\ index <= size /\ Tight(todo)
      /\ exists = todo \cup ((index + 1) .. size)
  BY <1>t, <1>2 DEF Shape
<1>4. /\ Cardinality(todo \ {i}) = Cardinality(todo) - 1
      /\ Cardinality(todo) \in Nat \ {0}
      /\ Tight(todo \ {i})
      /\ \A k \in todo \ {i} : Below(todo \ {i}, k) = Below(todo, k)
      /\ Below(todo, i) = todo \ {i}
  BY <1>b, <1>1, <1>3, TightRemoved
<1>5. i <= Cardinality(todo)
  BY <1>b, <1>3, TightBound
<1>6. PICK j \in Nat \ {0} : j = index /\ i \in Nat /\ i <= j /\ index' = j - 1 /\ j <= size
  BY <1>b, <1>2, <1>3, <1>4, <1>5
<1>7. j \in Index /\ (j = i \/ j \notin exists)
  <2>1. j \in Index
    BY <1>t, <1>6 DEF SinkTypeOK
  <2>2. ASSUME j \in exists PROVE j = i
    <3>1. j \in todo
      BY <1>3, <1>6, <2>2
    <3>2. j <= i
      BY <1>1, <3>1
    <3> QED
      BY <1>6, <3>2
  <2> QED
    BY <2>1, <2>2
<1>8. /\ exists' \subseteq Index /\ disk' \in [Index -> Seq(Msgs)]
      /\ exists' = (exists \ {i}) \cup {j} /\ disk'[j] = disk[i]
      /\ \A k \in Index : k # i /\ k # j => disk'[k] = disk[k]
      /\ Kept'
  <2>1. Rename(i, j)
    BY <1>2, <1>6
  <2> QED
    BY <1>t, <1>2, <1>7, <2>1, RenameKeeps
<1>9. SinkTypeOK'
  <2>1. index' \in Index /\ todo' \subseteq Index
    BY <1>b, <1>2, <1>6, <1>7
  <2> QED
    BY <1>t, <1>2, <1>8, <2>1 DEF SinkTypeOK
<1>10. Shape'
  <2>1. exists' = todo' \cup ((index' + 1) .. size')
    <3>1. index' + 1 = j /\ (j .. size) = {j} \cup ((j + 1) .. size) /\ i \notin ((j + 1) .. size)
      BY <1>3, <1>6
    <3>2. exists' = (todo \ {i}) \cup ((j + 1) .. size) \cup {j}
      BY <1>3, <1>6, <1>8, <3>1
    <3>3. exists' = todo' \cup (j .. size)
      BY <1>2, <3>1, <3>2, Zenon
    <3> QED
      BY <1>2, <3>1, <3>3
  <2>2. size' \in Nat \ {0} /\ index' <= size'
    BY <1>2, <1>3, <1>6
  <2>3. index' = Cardinality(todo')
    BY <1>2, <1>3, <1>4
  <2>4. Tight(todo')
    BY <1>2, <1>4, Zenon
  <2> QED
    BY <1>2, <2>1, <2>2, <2>3, <2>4 DEF Shape, Tight, Upto
<1>11. Room'
  BY <1>t, <1>2 DEF Room, Allowed
<1>12. ASSUME NEW k \in todo', NEW m \in Elements(disk'[k])
       PROVE  m + Cardinality(Below(todo', k)) <= written'
  <2>1. k \in todo \ {i} /\ k # i /\ k \in Index
    BY <1>2, <1>b
  <2>2. k # j
    BY <1>1, <1>6, <1>7, <2>1, <1>3
  <2>3. m \in Elements(disk[k])
    BY <1>8, <1>12, <2>1, <2>2
  <2>4. m + Cardinality(Below(todo, k)) <= written
    BY <1>t, <1>2, <2>1, <2>3 DEF Aged
  <2>5. Below(todo', k) = Below(todo, k)
    BY <1>2, <1>4, <2>1
  <2> QED
    BY <1>2, <2>4, <2>5, Zenon
<1>13. ASSUME NEW k \in (index' + 1) .. size', NEW m \in Elements(disk'[k])
       PROVE  m + k <= written' + 1
  <2>1. CASE k = j
    <3>1. m \in Elements(disk[i])
      BY <1>8, <1>13, <2>1
    <3>2. m + Cardinality(Below(todo, i)) <= written
      BY <1>t, <1>2, <1>1, <3>1 DEF Aged
    <3>3. Cardinality(Below(todo, i)) = j - 1
      BY <1>3, <1>4, <1>6
    <3>4. m \in Nat
      <4>1. i \in Index /\ disk[i] \in Seq(Msgs)
        BY <1>t, <1>b DEF SinkTypeOK
      <4> QED
        BY <3>1, <4>1, ElementsOf DEF Msgs
    <3> QED
      BY <1>2, <1>b, <2>1, <3>2, <3>3, <3>4
  <2>2. CASE k # j
    <3>1. k \in (j + 1) .. size /\ k \in Index /\ k # i
      <4>1. size \in Nat /\ size <= MaxIndex
        BY <1>t, <1>3, <1>b DEF SinkTypeOK
      <4>2. k \in j .. size
        BY <1>2, <1>6
      <4> QED
        BY <1>6, <1>b, <2>2, <4>1, <4>2
    <3>2. m \in Elements(disk[k])
      BY <1>8, <1>13, <2>2, <3>1
    <3> QED
      BY <1>t, <1>2, <1>6, <3>1, <3>2 DEF Aged
  <2> QED
    BY <2>1, <2>2
<1>14. Aged'
  <2>1. Safe' => \A m \in dropped' : m + config'.max_file_count <= written' + 1
    BY <1>t, <1>2 DEF Aged, Safe
  <2>2. /\ \A k \in todo' : \A m \in Elements(disk'[k]) : m + Cardinality(Below(todo', k)) <= written'
        /\ \A k \in (index' + 1) .. size' : \A m \in Elements(disk'[k]) : m + k <= written' + 1
    BY <1>12, <1>13, Zenon
  <2> QED
    BY <1>2, <2>1, <2>2 DEF Aged, Below
<1> QED
  BY <1>8, <1>9, <1>10, <1>11, <1>14 DEF SinkInv

(* The end of the renames keeps the invariant.                              *)
LEMMA ShiftedStep ==
  ASSUME SinkInv, Shifted
  PROVE  SinkInv'
<1>t. SinkTypeOK /\ Shape /\ Room /\ Kept /\ Aged
  BY DEF SinkInv
<1>1. /\ pc = "shift" /\ todo = {}
      /\ pc' = IF size < config.max_file_count THEN "open" ELSE "recycle"
      /\ UNCHANGED <<config, dir, exists, disk, cur_size, todo, index, size, written, dropped, faults>>
  BY DEF Shifted
<1>2. /\ index = 0 /\ size \in Nat \ {0} /\ exists = 1 .. size /\ size <= faults + Allowed
      /\ config.max_file_count \in Nat /\ written \in Nat
  <2>1. /\ index = Cardinality(todo) /\ size \in Nat \ {0} /\ size <= faults + Allowed
        /\ exists = todo \cup ((index + 1) .. size)
    BY <1>t, <1>1 DEF Shape, Room
  <2>2. index = 0
    BY <1>1, <2>1, FS_EmptySet, Zenon
  <2> QED
    BY <1>t, <1>1, <2>1, <2>2, Bounds, FileSinkAssumption DEF SinkTypeOK
<1>3. \A i \in 1 .. size : \A m \in Elements(disk[i]) : m + i <= written + 1
  BY <1>t, <1>1, <1>2 DEF Aged
<1>4. SinkTypeOK'
  BY <1>t, <1>1 DEF SinkTypeOK, PC
<1>5. Kept'
  BY <1>t, <1>1 DEF Kept, NothingClobbered, OnDisk
<1>6. AtRest /\ Tight(exists)
  BY CutShort
<1>7. Shape'
  BY <1>1, <1>2, <1>6 DEF Shape, Tight, Upto
<1>8. Room'
  <2>1. CASE size < config.max_file_count
    <3>1. Cardinality(exists \cup {0}) = size + 1
      BY <1>2, RunTight
    <3>2. Allowed = config.max_file_count /\ faults \in Nat
      BY <1>t, <1>2, <2>1, Bounds DEF Allowed
    <3> QED
      BY <1>1, <1>2, <2>1, <3>1, <3>2 DEF Room, Allowed
  <2>2. CASE ~(size < config.max_file_count)
    BY <1>1, <1>2, <2>2 DEF Room, Allowed
  <2> QED
    BY <2>1, <2>2
<1>9. Aged'
  <2>1. 0 \notin exists /\ 0 \in Index
    BY <1>2, Bounds
  <2>2. Elements(disk[0]) = {}
    BY <1>t, <2>1, ElementsOf DEF Kept
  <2>3. Safe' => \A m \in dropped' : m + config'.max_file_count <= written' + 1
    BY <1>t, <1>1 DEF Aged, Safe
  <2>4. AtRest'
    BY <1>1, <1>6 DEF AtRest, Below
  <2>5. pc' = "recycle" => config'.max_file_count <= size'
    BY <1>1, <1>2
  <2> QED
    BY <1>1, <1>3, <2>2, <2>3, <2>4, <2>5 DEF Aged
<1> QED
  BY <1>4, <1>5, <1>7, <1>8, <1>9 DEF SinkInv

(* Renaming the oldest log back to app.log keeps the invariant.             *)
LEMMA RecycleStep ==
  ASSUME SinkInv, Recycle
  PROVE  SinkInv'
<1>t. SinkTypeOK /\ Shape /\ Room /\ Kept /\ Aged
  BY DEF SinkInv
<1>1. /\ pc = "recycle" /\ size \in exists /\ Rename(size, 0) /\ pc' = "open"
      /\ UNCHANGED <<config, dir, cur_size, todo, index, size, written, dropped, faults>>
  BY DEF Recycle
<1>2. /\ size \in Nat \ {0} /\ exists = 1 .. size /\ size <= faults + Allowed
      /\ config.max_file_count \in Nat /\ config.max_file_count <= size /\ written \in Nat
      /\ 0 \in Index /\ 0 \notin exists /\ exists \subseteq Index
  BY <1>t, <1>1, Bounds, FileSinkAssumption DEF Shape, Room, Aged, SinkTypeOK
<1>3. \A i \in 1 .. size : \A m \in Elements(disk[i]) : m + i <= written + 1 /\ m \in Nat
  <2>1. \A i \in 1 .. size : Elements(disk[i]) \subseteq Msgs
    BY <1>t, <1>2, ElementsOf DEF SinkTypeOK
  <2> QED
    BY <1>t, <1>1, <2>1 DEF Aged, Msgs
<1>4. /\ exists' \subseteq Index /\ disk' \in [Index -> Seq(Msgs)]
      /\ exists' = (exists \ {size}) \cup {0} /\ disk'[0] = disk[size]
      /\ \A k \in Index : k # size /\ k # 0 => disk'[k] = disk[k]
      /\ Kept'
  BY <1>t, <1>1, <1>2, RenameKeeps
<1>5. SinkTypeOK'
  BY <1>t, <1>1, <1>4 DEF SinkTypeOK, PC
<1>6. exists' = 0 .. (size - 1)
  BY <1>2, <1>4
<1>7. Tight(exists') /\ Cardinality(exists') = size
  BY <1>2, <1>6, RunTight
<1>8. Shape'
  BY <1>1, <1>7 DEF Shape, Tight, Upto
<1>9. Room'
  <2>1. exists' \cup {0} = exists'
    BY <1>4
  <2>2. Cardinality(exists' \cup {0}) = size
    BY <1>7, <2>1, Zenon
  <2> QED
    BY <1>1, <1>2, <2>2 DEF Room, Allowed
<1>10. AtRest'
  <2>1. ASSUME NEW i \in exists' \ {0}, NEW m \in Elements(disk'[i])
        PROVE  m + Cardinality(Below(exists' \ {0}, i)) <= written'
    <3>1. i \in 1 .. size /\ i # size /\ i # 0 /\ i \in Index
      BY <1>2, <1>6
    <3>2. m \in Elements(disk[i])
      BY <1>4, <2>1, <3>1
    <3>3. Below(exists' \ {0}, i) = Below(1 .. size, i)
      <4>1. \A k \in 0 .. (size - 1) : k # 0 => k \in 1 .. size
        BY <1>2
      <4>2. \A k \in 1 .. size : k < i => k \in 0 .. (size - 1) /\ k # 0
        BY <1>2, <3>1
      <4> QED
        BY <1>6, <4>1, <4>2, Zenon DEF Below
    <3>4. Cardinality(Below(1 .. size, i)) = i - 1
      BY <1>2, <3>1, RunTight
    <3>5. m + i <= written + 1 /\ m \in Nat
      BY <1>3, <3>1, <3>2
    <3>6. m + (i - 1) <= written'
      BY <1>1, <1>2, <3>1, <3>5
    <3> QED
      BY <3>3, <3>4, <3>6, Zenon
  <2> QED
    BY <2>1, Zenon DEF AtRest, Below
<1>11. Aged'
  <2>1. \A m \in Elements(disk'[0]) : m + config'.max_file_count <= written' + 1
    <3>1. size \in 1 .. size
      BY <1>2
    <3>2. ASSUME NEW m \in Elements(disk[size])
          PROVE  m + config.max_file_count <= written + 1
      <4>1. m + size <= written + 1 /\ m \in Nat
        BY <1>3, <3>1
      <4> QED
        BY <1>2, <4>1
    <3> QED
      BY <1>1, <1>4, <3>2, Zenon
  <2>2. Safe' => \A m \in dropped' : m + config'.max_file_count <= written' + 1
    BY <1>t, <1>1 DEF Aged, Safe
  <2> QED
    BY <1>1, <1>10, <2>1, <2>2 DEF Aged
<1> QED
  BY <1>4, <1>5, <1>8, <1>9, <1>11 DEF SinkInv

-----------------------------------------------------------------------------
(* The invariant holds of an empty directory.                               *)
LEMMA SinkInitially == SinkInit => SinkInv
<1> SUFFICES ASSUME SinkInit PROVE SinkInv
  OBVIOUS
<1>1. SinkTypeOK
  <2>1. <<>> \in Seq(Msgs) /\ 0 \in Index /\ 0 \in 0 .. MaxMsgs /\ 0 \in 0 .. MaxFaults
    BY Bounds, FileSinkAssumption
  <2> QED
    BY <2>1 DEF SinkInit, SinkTypeOK, PC
<1>2. Shape
  BY DEF SinkInit, Shape, Tight
<1>3. Room
  <2>1. exists \cup {0} = {0}
    BY DEF SinkInit
  <2>2. Cardinality(exists \cup {0}) = 1
    BY <2>1, FS_Singleton, Zenon
  <2> QED
    BY <1>1, <2>2, Bounds DEF SinkInit, Room
<1>4. Kept
  <2>1. OnDisk = {}
    BY DEF SinkInit, OnDisk
  <2>2. 1 .. 0 = {}
    OBVIOUS
  <2> QED
    BY <2>1, <2>2 DEF SinkInit, Kept, NothingClobbered
<1>5. Aged
  BY DEF SinkInit, Aged, AtRest
<1> QED
  BY <1>1, <1>2, <1>3, <1>4, <1>5 DEF SinkInv

(* The invariant holds in every reachable state.                            *)
LEMMA SinkInvariant == SinkSpec => []SinkInv
<1>1. SinkInv /\ UNCHANGED sinkVars => SinkInv'
  <2> SUFFICES ASSUME SinkInv, UNCHANGED sinkVars PROVE SinkInv'
    OBVIOUS
  <2> USE DEF sinkVars, SinkInv
  <2>1. SinkTypeOK'
    BY DEF SinkTypeOK
  <2>2. Shape' /\ Room'
    BY DEF Shape, Room, Allowed, Tight, Upto
  <2>3. Kept'
    BY DEF Kept, NothingClobbered, OnDisk
  <2>4. Aged'
    BY DEF Aged, AtRest, Safe
  <2> QED
    BY <2>1, <2>2, <2>3, <2>4
<1>2. SinkInv /\ [SinkNext]_sinkVars => SinkInv'
  BY <1>1, CutStep, QuietStep, OpenStep, LogStep, ShiftStep, ShiftedStep, RecycleStep DEF SinkNext
<1> QED
  BY <1>2, SinkInitially, PTL DEF SinkSpec

(* FileSink: every variable of the sink and of the directory keeps its type.   *)
(* In particular no shift renames a log beyond the highest index, however      *)
(* often the sink crashes or fails in the middle of one (file_sink.cpp 81-102). *)
THEOREM SinkTypeCorrect == SinkSpec => []SinkTypeOK
<1>1. SinkInv => SinkTypeOK
  BY DEF SinkInv
<1> QED
  BY <1>1, SinkInvariant, PTL

(* FileSink: renaming never destroys a log.  Every message is in exactly one *)
(* log or was removed by a truncation, whatever crashes and fails in the     *)
(* middle of RoutingLogs (file_sink.cpp 81-102, log_file.cpp 28-38).         *)
THEOREM NothingLost == SinkSpec => []NothingClobbered
<1>1. SinkInv => NothingClobbered
  BY DEF SinkInv, Kept
<1> QED
  BY <1>1, SinkInvariant, PTL

(* FileSink: no rotation leaves more logs than max_file_count, except that   *)
(* each crash or failure can leave one more (file_sink.cpp 94-101).          *)
THEOREM CountBounded == SinkSpec => []CountBound
<1>1. ASSUME SinkInv PROVE CountBound
  <2>1. /\ MaxIndex \in Nat /\ exists \in SUBSET (0 .. MaxIndex) /\ Allowed \in Nat /\ faults \in Nat
    BY <1>1, Bounds DEF SinkInv, SinkTypeOK
  <2>2. IsFiniteSet(exists) /\ Cardinality(exists) \in Nat
    BY <2>1, IndexFinite
  <2>3. Cardinality(exists) <= faults + Allowed
    <3>1. CASE pc \notin {"shift", "recycle"}
      <4>1. exists \cup {0} \in SUBSET (0 .. MaxIndex)
        BY <2>1
      <4>2. IsFiniteSet(exists \cup {0})
        BY <2>1, <4>1, IndexFinite
      <4>3. /\ Cardinality(exists) <= Cardinality(exists \cup {0})
            /\ Cardinality(exists \cup {0}) \in Nat
        BY <4>2, SmallerSet
      <4>4. Cardinality(exists \cup {0}) <= faults + Allowed
        BY <1>1, <3>1 DEF SinkInv, Room
      <4> QED
        BY <2>1, <2>2, <4>3, <4>4
    <3>2. CASE pc = "recycle"
      <4>1. size \in Nat \ {0} /\ exists = 1 .. size /\ size <= faults + Allowed
        BY <1>1, <3>2 DEF SinkInv, Shape, Room
      <4> QED
        BY <4>1, RunTight
    <3>3. CASE pc = "shift"
      <4>1. /\ size \in Nat \ {0} /\ index = Cardinality(todo) /\ index <= size /\ Tight(todo)
            /\ exists = todo \cup ((index + 1) .. size) /\ size <= faults + Allowed
            /\ todo \in SUBSET (0 .. MaxIndex)
        BY <1>1, <3>3, Bounds DEF SinkInv, Shape, Room, SinkTypeOK
      <4>2. index \in Nat /\ size \in Nat
        BY <2>1, <4>1, IndexFinite
      <4>3. Stacked(todo, index, size, exists)
        BY <4>1 DEF Stacked
      <4>4. Refilled(todo, index, size, exists)
        BY <2>1, <4>1, <4>2, <4>3, TightRefilled, Zenon
      <4> QED
        BY <4>1, <4>4 DEF Refilled
    <3> QED
      BY <3>1, <3>2, <3>3
  <2> QED
    BY <2>3 DEF CountBound, Allowed
<1> QED
  BY <1>1, SinkInvariant, PTL

(* FileSink: with max_file_count files the latest max_file_count - 1         *)
(* messages stay on disk whatever crashes and fails: what a rotation empties *)
(* is older (file_sink.cpp 14, 84, 94-101).                                 *)
THEOREM LatestStay == SinkSpec => []LatestKept
<1>1. ASSUME SinkInv PROVE LatestKept
  <2> SUFFICES ASSUME Safe, NEW m \in 1 .. written, m + config.max_file_count > written + 1
               PROVE  m \in OnDisk
    BY DEF LatestKept, Safe
  <2>1. m \notin dropped
    <3>1. \A k \in dropped : k + config.max_file_count <= written + 1
      BY <1>1 DEF SinkInv, Aged
    <3>2. config.max_file_count \in Nat /\ written \in Nat /\ m \in Nat
      BY <1>1, Bounds, FileSinkAssumption DEF SinkInv, SinkTypeOK
    <3> QED
      BY <3>1, <3>2
  <2>2. OnDisk \cup dropped = 1 .. written
    BY <1>1 DEF SinkInv, Kept, NothingClobbered
  <2> QED
    BY <2>1, <2>2
<1> QED
  BY <1>1, SinkInvariant, PTL

-----------------------------------------------------------------------------
(* While nothing has gone wrong, the order of the indices is the order of    *)
(* writing: every log rises, a log with a higher index is older, except that *)
(* the one a rotation is about to empty is the oldest of all under index 0,  *)
(* and, unless Init truncates, what was removed is older than what is left.  *)
Rising(s) == \A k, l \in 1 .. Len(s) : k < l => s[k] < s[l]

Earlier(s, t) == \A a \in Elements(s), b \in Elements(t) : a < b

Ordered ==
  faults = 0 =>
    /\ \A i \in Index : Rising(disk[i])
    /\ \A i, j \in Index : i > j /\ (j # 0 \/ pc # "open") => Earlier(disk[i], disk[j])
    /\ pc = "open" => \A i \in Index \ {0} : Earlier(disk[0], disk[i])
    /\ ~config.trunc => \A i \in Index, d \in dropped : \A m \in Elements(disk[i]) : d < m

(* An empty log rises, and is earlier and later than every other.            *)
LEMMA EmptyLog ==
  Elements(<<>>) = {} /\ Rising(<<>>) /\ \A t : Earlier(<<>>, t) /\ Earlier(t, <<>>)
<1>1. Elements(<<>>) = {}
  BY DEF Elements
<1> QED
  BY <1>1 DEF Rising, Earlier

(* A step that leaves the logs alone and is not near an opening keeps order. *)
LEMMA OrderedSame ==
  ASSUME Ordered, pc # "open", pc' # "open", UNCHANGED <<config, disk, dropped, faults>>
  PROVE  Ordered'
BY DEF Ordered, Earlier, Rising, Elements

(* Opening app.log keeps the order: what it removes, if anything, is at the  *)
(* end of a rotation the oldest there is.                                   *)
LEMMA OrderedOpen ==
  ASSUME SinkInv, Ordered, InitOpen \/ Reopen
  PROVE  Ordered'
<1>t. SinkTypeOK /\ 0 \in Index /\ Index \subseteq Nat
  BY Bounds DEF SinkInv
<1>1. PICK tr \in BOOLEAN : /\ OpenLog(tr) /\ UNCHANGED <<config, faults>>
                            /\ pc \in {"down", "ready", "shut"} => tr = config.trunc
                            /\ pc = "open" => tr
                            /\ pc \in {"down", "ready", "shut", "open"}
  BY <1>t DEF InitOpen, Reopen, SinkTypeOK, Config
<1>2. CASE ~tr
  BY <1>1, <1>2, OrderedSame DEF OpenLog
<1>3. CASE tr
  <2>1. /\ disk' = [disk EXCEPT ![0] = <<>>] /\ dropped' = dropped \cup Elements(disk[0]) /\ pc' = "ready"
    BY <1>1, <1>3 DEF OpenLog
  <2>2. disk'[0] = <<>> /\ \A i \in Index \ {0} : disk'[i] = disk[i]
    BY <1>t, <2>1 DEF SinkTypeOK
  <2> SUFFICES ASSUME faults = 0 PROVE Ordered'
    BY <1>1 DEF Ordered
  <2>3. \A i \in Index : Rising(disk'[i])
    BY <2>2, EmptyLog DEF Ordered
  <2>4. \A i, j \in Index : i > j => Earlier(disk'[i], disk'[j])
    <3> SUFFICES ASSUME NEW i \in Index, NEW j \in Index, i > j PROVE Earlier(disk'[i], disk'[j])
      OBVIOUS
    <3>1. i # 0
      BY <1>t
    <3>2. CASE j = 0
      BY <2>2, <3>2, EmptyLog
    <3>3. CASE j # 0
      BY <2>2, <3>1, <3>3 DEF Ordered
    <3> QED
      BY <3>2, <3>3
  <2>5. ASSUME ~config.trunc, NEW i \in Index, NEW d \in dropped', NEW m \in Elements(disk'[i])
        PROVE  d < m
    <3>1. i # 0 /\ m \in Elements(disk[i]) /\ pc = "open"
      BY <1>1, <1>3, <2>2, <2>5, EmptyLog
    <3>2. CASE d \in dropped
      BY <2>5, <3>1, <3>2 DEF Ordered
    <3>3. CASE d \in Elements(disk[0])
      BY <3>1, <3>3 DEF Ordered, Earlier
    <3> QED
      BY <2>1, <3>2, <3>3
  <2> QED
    BY <1>1, <2>1, <2>3, <2>4, <2>5 DEF Ordered, Rising, Earlier, Elements
<1> QED
  BY <1>2, <1>3

(* A message is later than all others, and a single log that is about to be  *)
(* emptied is the only one.                                                 *)
LEMMA OrderedLog ==
  ASSUME SinkInv, Ordered, Log
  PROVE  Ordered'
<1>t. SinkTypeOK /\ Room /\ Kept /\ 0 \in Index /\ Index \subseteq Nat
  BY Bounds DEF SinkInv
<1>1. /\ pc = "ready" /\ disk' = [disk EXCEPT ![0] = Append(@, written + 1)]
      /\ UNCHANGED <<config, exists, dropped, faults>>
      /\ pc' = "open" => config.max_file_count = 1
  BY DEF Log, RoutingLogs
<1>2. PICK s \in Seq(Msgs) : s = disk[0] /\ disk'[0] = Append(s, written + 1)
  BY <1>t, <1>1 DEF SinkTypeOK
<1>3. \A i \in Index \ {0} : disk'[i] = disk[i]
  BY <1>t, <1>1 DEF SinkTypeOK
<1>4. PICK w \in Nat : w = written + 1 /\ w \in Msgs /\ written \in Nat
  BY <1>t, FileSinkAssumption DEF Log, SinkTypeOK, Msgs
<1>5. \A i \in Index : \A m \in Elements(disk[i]) : m \in Nat /\ m < w
  <2>1. ASSUME NEW i \in Index, NEW m \in Elements(disk[i]) PROVE m \in 1 .. written
    <3>1. i \in exists
      BY <1>t, <2>1, EmptyLog DEF Kept
    <3>2. m \in OnDisk
      BY <2>1, <3>1 DEF OnDisk
    <3> QED
      BY <1>t, <3>2 DEF Kept, NothingClobbered
  <2> QED
    BY <1>4, <2>1
<1>6. Elements(Append(s, w)) = Elements(s) \cup {w} /\ (Rising(s) => Rising(Append(s, w)))
  <2>1. /\ Len(Append(s, w)) = Len(s) + 1 /\ Append(s, w)[Len(s) + 1] = w /\ Len(s) \in Nat
        /\ \A k \in 1 .. Len(s) : Append(s, w)[k] = s[k]
    BY <1>4
  <2>2. \A k \in 1 .. Len(s) : s[k] \in Nat /\ s[k] < w
    BY <1>t, <1>2, <1>5 DEF Elements
  <2>3. Elements(Append(s, w)) = Elements(s) \cup {w}
    <3>1. 1 .. Len(s) + 1 = (1 .. Len(s)) \cup {Len(s) + 1}
      BY <2>1
    <3> QED
      BY <2>1, <3>1 DEF Elements
  <2>4. ASSUME Rising(s), NEW k \in 1 .. Len(s) + 1, NEW l \in 1 .. Len(s) + 1, k < l
        PROVE  Append(s, w)[k] < Append(s, w)[l]
    <3>1. k \in 1 .. Len(s)
      BY <2>1, <2>4
    <3>2. CASE l = Len(s) + 1
      BY <2>1, <2>2, <3>1, <3>2
    <3>3. CASE l \in 1 .. Len(s)
      BY <2>1, <2>4, <3>1, <3>3 DEF Rising
    <3> QED
      BY <2>1, <3>2, <3>3
  <2> QED
    BY <2>1, <2>3, <2>4 DEF Rising
<1>7. Elements(disk'[0]) = Elements(disk[0]) \cup {w}
  BY <1>2, <1>4, <1>6
<1> SUFFICES ASSUME faults = 0 PROVE Ordered'
  BY <1>1 DEF Ordered
<1>8. \A i \in Index : Rising(disk'[i])
  BY <1>t, <1>2, <1>3, <1>4, <1>6 DEF Ordered
<1>9. \A i, j \in Index : i > j => Earlier(disk'[i], disk'[j])
  <2> SUFFICES ASSUME NEW i \in Index, NEW j \in Index, i > j PROVE Earlier(disk'[i], disk'[j])
    OBVIOUS
  <2>1. disk'[i] = disk[i] /\ Earlier(disk[i], disk[j])
    BY <1>t, <1>1, <1>3 DEF Ordered
  <2>2. CASE j = 0
    BY <1>5, <1>7, <2>1, <2>2 DEF Earlier
  <2>3. CASE j # 0
    BY <1>3, <2>1, <2>3
  <2> QED
    BY <2>2, <2>3
<1>10. ASSUME pc' = "open", NEW i \in Index \ {0} PROVE Earlier(disk'[0], disk'[i])
  <2>1. i \notin exists
    <3> SUFFICES ASSUME i \in exists PROVE FALSE
      OBVIOUS
    <3>1. Cardinality(exists \cup {0}) <= 1
      <4>1. Cardinality(exists \cup {0}) <= faults + Allowed
        BY <1>t, <1>1 DEF Room
      <4> QED
        BY <1>1, <1>10, <4>1 DEF Allowed
    <3>2. exists \cup {0} \in SUBSET (0 .. MaxIndex) /\ MaxIndex \in Nat
      BY <1>t, Bounds DEF SinkTypeOK
    <3>3. IsFiniteSet(exists \cup {0})
      BY <3>2, IndexFinite
    <3>4. {0} \cup {i} \in SUBSET (exists \cup {0})
      OBVIOUS
    <3>5. Cardinality({0} \cup {i}) = 2
      <4>1. IsFiniteSet({0}) /\ Cardinality({0}) = 1 /\ i \notin {0}
        BY FS_Singleton
      <4>2. Cardinality({0} \cup {i}) = 1 + 1
        BY <4>1, FS_AddElement, Zenon
      <4>3. 1 + 1 = 2
        OBVIOUS
      <4> QED
        BY <4>2, <4>3, Zenon
    <3>6. /\ Cardinality({0} \cup {i}) <= Cardinality(exists \cup {0})
          /\ Cardinality(exists \cup {0}) \in Nat
      BY ONLY <3>3, <3>4, SmallerSet
    <3>7. PICK n \in Nat : n = Cardinality(exists \cup {0})
      BY <3>6, Zenon
    <3>8. n <= 1 /\ 2 <= n
      BY <3>1, <3>5, <3>6, <3>7, Zenon
    <3> QED
      BY ONLY <3>8, n \in Nat
  <2>2. disk'[i] = <<>>
    BY <1>t, <1>3, <2>1 DEF Kept
  <2> QED
    BY <2>2, EmptyLog
<1>11. ASSUME ~config.trunc, NEW i \in Index, NEW d \in dropped, NEW m \in Elements(disk'[i])
       PROVE  d < m
  <2>1. CASE m \in Elements(disk[i])
    BY <1>11, <2>1 DEF Ordered
  <2>2. CASE m = w
    <3>1. d \in 1 .. written
      BY <1>t DEF Kept, NothingClobbered
    <3> QED
      BY <1>4, <2>2, <3>1
  <2> QED
    BY <1>3, <1>7, <1>11, <2>1, <2>2
<1> QED
  BY <1>1, <1>8, <1>9, <1>10, <1>11 DEF Ordered, Rising, Earlier, Elements

(* A rename of a rotation moves a log up, above those still to rename and    *)
(* below those already renamed.                                             *)
LEMMA OrderedShift ==
  ASSUME SinkInv, Ordered, Shift
  PROVE  Ordered'
<1>t. SinkTypeOK /\ Shape /\ Kept /\ MaxIndex \in Nat /\ Index = 0 .. MaxIndex /\ todo \in SUBSET (0 .. MaxIndex)
  BY Bounds DEF SinkInv, SinkTypeOK
<1>1. PICK i \in todo : i = Oldest(todo) /\ \A j \in todo : j <= i
  BY <1>t, OldestIn DEF Shift
<1>2. /\ pc = "shift" /\ i \in exists /\ Rename(i, index)
      /\ UNCHANGED <<config, pc, dropped, faults>>
  BY <1>1 DEF Shift
<1>3. /\ size \in Nat /\ index = Cardinality(todo) /\ Tight(todo)
      /\ exists = todo \cup ((index + 1) .. size)
  BY <1>t, <1>2 DEF Shape
<1>4. i <= Cardinality(todo)
  BY <1>t, <1>3, TightBound
<1>5. PICK n \in Nat : n = index /\ n \in Index /\ i \in Nat /\ i <= n
  BY <1>t, <1>3, <1>4 DEF SinkTypeOK
<1>6. /\ disk'[n] = disk[i] /\ i \in Index
      /\ i # n => disk'[i] = <<>>
      /\ \A k \in Index : k # i /\ k # n => disk'[k] = disk[k]
  BY <1>t, <1>2, <1>5 DEF Rename
<1>7. \A k \in Index : k > i /\ k <= n => disk[k] = <<>>
  <2>1. ASSUME NEW k \in Index, k > i, k <= n PROVE k \notin exists
    <3>1. k \notin todo
      BY <1>t, <1>1, <1>5, <2>1
    <3> QED
      BY <1>t, <1>3, <1>5, <2>1, <3>1
  <2> QED
    BY <1>t, <2>1 DEF Kept
<1> SUFFICES ASSUME faults = 0 PROVE Ordered'
  BY <1>2 DEF Ordered
<1>8. \A k \in Index : Rising(disk'[k])
  BY <1>5, <1>6, EmptyLog DEF Ordered
<1>9. ASSUME NEW k \in Index, NEW l \in Index, k > l PROVE Earlier(disk'[k], disk'[l])
  <2>0. \A a, b \in Index : a > b => Earlier(disk[a], disk[b])
    BY <1>2 DEF Ordered
  <2>1. CASE disk'[k] = <<>> \/ disk'[l] = <<>>
    BY <2>1, EmptyLog
  <2>2. CASE disk'[k] # <<>> /\ disk'[l] # <<>> /\ k = n
    <3>1. l # i /\ l # n /\ disk'[l] = disk[l]
      BY <1>t, <1>5, <1>6, <1>9, <2>2
    <3>2. i > l
      BY <1>t, <1>5, <1>7, <1>9, <2>2, <3>1
    <3> QED
      BY <1>6, <2>0, <2>2, <3>1, <3>2
  <2>3. CASE disk'[k] # <<>> /\ disk'[l] # <<>> /\ k # n /\ l = n
    <3>1. k # i /\ disk'[k] = disk[k] /\ k > i
      BY <1>t, <1>5, <1>6, <1>9, <2>3
    <3> QED
      BY <1>6, <2>0, <2>3, <3>1
  <2>4. CASE disk'[k] # <<>> /\ disk'[l] # <<>> /\ k # n /\ l # n
    <3>1. disk'[k] = disk[k] /\ disk'[l] = disk[l]
      BY <1>6, <2>4
    <3> QED
      BY <1>9, <2>0, <3>1
  <2> QED
    BY <2>1, <2>2, <2>3, <2>4
<1>10. ASSUME ~config.trunc, NEW k \in Index, NEW d \in dropped, NEW m \in Elements(disk'[k])
       PROVE  d < m
  <2>1. \E l \in Index : m \in Elements(disk[l])
    BY <1>5, <1>6, <1>10, EmptyLog
  <2> QED
    BY <1>10, <2>1 DEF Ordered
<1> QED
  BY <1>2, <1>8, <1>9, <1>10 DEF Ordered, Rising, Earlier, Elements

(* When the renames are done nothing is left under index 0.                  *)
LEMMA OrderedShifted ==
  ASSUME SinkInv, Ordered, Shifted
  PROVE  Ordered'
<1>1. pc = "shift" /\ todo = {} /\ UNCHANGED <<config, disk, dropped, faults>>
  BY DEF Shifted
<1>2. disk[0] = <<>>
  <2>1. exists = {} \cup ((index + 1) .. size) /\ index \in Nat /\ size \in Nat /\ 0 \in Index
    BY <1>1, Bounds DEF SinkInv, Shape, SinkTypeOK
  <2>2. 0 \notin exists
    BY <2>1
  <2> QED
    BY <2>1, <2>2 DEF SinkInv, Kept
<1>3. \A i \in Index : Earlier(disk[0], disk[i])
  BY <1>2, EmptyLog
<1> QED
  BY <1>1, <1>3 DEF Ordered, Rising, Earlier, Elements

(* Taking the oldest log back puts it under index 0, older than all others.  *)
LEMMA OrderedRecycle ==
  ASSUME SinkInv, Ordered, Recycle
  PROVE  Ordered'
<1>t. SinkTypeOK /\ Shape /\ Kept /\ 0 \in Index /\ Index \subseteq Nat
  BY Bounds DEF SinkInv
<1>1. /\ pc = "recycle" /\ pc' = "open" /\ Rename(size, 0) /\ UNCHANGED <<config, dropped, faults>>
      /\ size \in Index /\ size # 0 /\ exists = 1 .. size
  BY <1>t DEF Recycle, Shape, SinkTypeOK
<1>2. /\ disk'[0] = disk[size] /\ disk'[size] = <<>>
      /\ \A k \in Index : k # size /\ k # 0 => disk'[k] = disk[k]
  BY <1>t, <1>1 DEF Rename
<1>3. \A k \in Index : k > size => disk[k] = <<>>
  <2>1. \A k \in Index : k > size => k \notin exists
    BY <1>t, <1>1
  <2> QED
    BY <1>t, <2>1 DEF Kept
<1> SUFFICES ASSUME faults = 0 PROVE Ordered'
  BY <1>1 DEF Ordered
<1>4. \A a, b \in Index : a > b => Earlier(disk[a], disk[b])
  BY <1>1 DEF Ordered
<1>5. \A k \in Index : Rising(disk'[k])
  BY <1>1, <1>2, EmptyLog DEF Ordered
<1>6. ASSUME NEW k \in Index, NEW l \in Index, k > l, l # 0 PROVE Earlier(disk'[k], disk'[l])
  <2>1. CASE k = size \/ l = size
    BY <1>2, <2>1, EmptyLog
  <2>2. CASE k # size /\ l # size
    <3>1. k # 0
      BY <1>t, <1>6
    <3>2. disk'[k] = disk[k] /\ disk'[l] = disk[l]
      BY <1>2, <1>6, <2>2, <3>1
    <3> QED
      BY <1>4, <1>6, <3>2
  <2> QED
    BY <2>1, <2>2
<1>7. ASSUME NEW k \in Index \ {0} PROVE Earlier(disk'[0], disk'[k])
  <2>1. CASE k = size \/ k > size
    BY <1>2, <1>3, <1>t, <1>1, <2>1, EmptyLog
  <2>2. CASE size > k
    <3>1. k # size /\ disk'[k] = disk[k]
      BY <1>t, <1>1, <1>2, <2>2
    <3> QED
      BY <1>1, <1>2, <1>4, <2>2, <3>1
  <2> QED
    BY <1>t, <1>1, <2>1, <2>2
<1>8. ASSUME ~config.trunc, NEW k \in Index, NEW d \in dropped, NEW m \in Elements(disk'[k])
      PROVE  d < m
  <2>1. \E l \in Index : m \in Elements(disk[l])
    BY <1>1, <1>2, <1>8, EmptyLog
  <2> QED
    BY <1>8, <2>1 DEF Ordered
<1> QED
  BY <1>1, <1>5, <1>6, <1>7, <1>8 DEF Ordered, Rising, Earlier, Elements

(* The order is kept by every step, and a fault ends what it promises.       *)
LEMMA OrderInvariant == SinkSpec => [](SinkInv /\ Ordered)
<1>1. SinkInit => Ordered
  <2> SUFFICES ASSUME SinkInit PROVE Ordered
    OBVIOUS
  <2>1. (\A i \in Index : disk[i] = <<>>) /\ dropped = {}
    BY DEF SinkInit
  <2> QED
    BY <2>1, EmptyLog DEF Ordered, SinkInit
<1>2. ASSUME SinkInv, Ordered, [SinkNext]_sinkVars PROVE Ordered'
  <2>1. CASE UNCHANGED sinkVars
    BY <1>2, <2>1 DEF sinkVars, Ordered, Rising, Earlier, Elements
  <2>2. CASE InitDirectory \/ Uninit
    <3>1. pc # "open" /\ pc' # "open" /\ UNCHANGED <<config, disk, dropped, faults>>
      BY <2>2 DEF InitDirectory, Uninit
    <3> QED
      BY <1>2, <3>1, OrderedSame
  <2>3. CASE Fail \/ Crash
    <3>1. faults \in Nat /\ faults' = faults + 1
      BY <1>2, <2>3, Bounds DEF Fail, Crash, SinkInv, SinkTypeOK
    <3>2. faults' # 0
      BY <3>1
    <3> QED
      BY <3>2 DEF Ordered
  <2> QED
    BY <1>2, <2>1, <2>2, <2>3, OrderedOpen, OrderedLog, OrderedShift, OrderedShifted, OrderedRecycle
       DEF SinkNext
<1> QED
  BY <1>1, <1>2, SinkInvariant, PTL DEF SinkSpec

(* FileSink: between rotations, and while nothing went wrong, the logs read  *)
(* from the highest index down hold the messages in the order of writing,    *)
(* and those up to the latest without a gap unless Init truncates app.log    *)
(* (file_sink.cpp 8-16, 81-102).                                            *)
THEOREM ReadsInOrder == SinkSpec => []LatestInOrder
<1>1. ASSUME SinkInv, Ordered PROVE LatestInOrder
  <2> SUFFICES ASSUME faults = 0, pc \in {"ready", "down"} PROVE LatestInOrder
    BY DEF LatestInOrder
  <2>t. SinkTypeOK /\ exists \subseteq Index /\ disk \in [Index -> Seq(Msgs)]
    BY <1>1 DEF SinkInv, SinkTypeOK
  <2>1. ASSUME NEW i \in exists, NEW j \in exists, NEW k \in 1 .. Len(disk[i]), NEW l \in 1 .. Len(disk[j]),
               i > j \/ (i = j /\ k < l)
        PROVE  disk[i][k] < disk[j][l]
    <3>1. CASE i > j
      <4>1. Earlier(disk[i], disk[j])
        BY <1>1, <2>t, <3>1 DEF Ordered
      <4>2. disk[i][k] \in Elements(disk[i]) /\ disk[j][l] \in Elements(disk[j])
        BY DEF Elements
      <4> QED
        BY <4>1, <4>2 DEF Earlier
    <3>2. CASE i = j /\ k < l
      <4>1. Rising(disk[i])
        BY <1>1, <2>t DEF Ordered
      <4> QED
        BY <3>2, <4>1 DEF Rising
    <3> QED
      BY <2>1, <3>1, <3>2
  <2>2. ASSUME ~config.trunc, NEW m \in OnDisk, NEW n \in m .. written PROVE n \in OnDisk
    <3>1. OnDisk \cup dropped = 1 .. written /\ written \in Nat
      BY <1>1, FileSinkAssumption DEF SinkInv, Kept, NothingClobbered, SinkTypeOK
    <3>2. m \in 1 .. written /\ n \in 1 .. written /\ m <= n
      BY <3>1
    <3>3. PICK i \in exists : m \in Elements(disk[i])
      BY DEF OnDisk
    <3>4. n \notin dropped
      <4>1. \A d \in dropped : d < m
        BY <1>1, <2>t, <2>2, <3>3 DEF Ordered
      <4>2. m \in Nat /\ n \in Nat
        BY <3>1, <3>2
      <4> QED
        BY <3>2, <4>1, <4>2
    <3> QED
      BY <3>1, <3>2, <3>4
  <2> QED
    BY <2>1, <2>2 DEF LatestInOrder
<1> QED
  BY <1>1, OrderInvariant, PTL
=============================================================================
