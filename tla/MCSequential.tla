---------------------------- MODULE MCSequential ----------------------------
(***************************************************************************)
(* The four components of the library that one thread uses alone, in one     *)
(* model: the log files, a program's packets, a SQLite connection and a call *)
(* of a string operation.  They share nothing, so a behaviour is one of one  *)
(* of them while the others stay as they began.                             *)
(***************************************************************************)
EXTENDS FileSink, Packet, Sqlite3cpp, StringOps

CONSTANTS a, b    \* two bytes, and two characters

(* Writes of one byte and of two.                                           *)
Payloads == {<<a>>, <<a, b>>}

VARIABLE part     \* the component whose behaviour it is

Parts == {"sink", "packet", "sqlite", "strings"}

allVars == <<part, sinkVars, pkVars, sqlVars, strVars>>

(* The components that do not run begin in one of their initial states.      *)
PartInit ==
  /\ part \in Parts
  /\ SinkInit
  /\ part # "sink" => dir /\ config = [max_file_size |-> 0, max_file_count |-> 0, trunc |-> FALSE]
  /\ PacketInit
  /\ SqlInit
  /\ part # "strings" => call = [op |-> "replace", text |-> <<>>, pat |-> <<>>, to |-> <<>>]
  /\ StringInit

SinkPart == part = "sink" /\ SinkNext /\ UNCHANGED <<part, pkVars, sqlVars, strVars>>
PacketPart == part = "packet" /\ PacketNext /\ UNCHANGED <<part, sinkVars, sqlVars, strVars>>
SqlPart == part = "sqlite" /\ SqlNext /\ UNCHANGED <<part, sinkVars, pkVars, strVars>>
StringPart == part = "strings" /\ StringNext /\ UNCHANGED <<part, sinkVars, pkVars, sqlVars>>

(* The program may have no more use for a packet, a connection or a string;  *)
(* the sink always takes another message, is opened again or is at a bound.  *)
Idle == part # "sink" /\ UNCHANGED allVars

PartNext == SinkPart \/ PacketPart \/ SqlPart \/ StringPart \/ Idle

(* Only the calls on strings are fair, as in StringSpec.                     *)
PartSpec == PartInit /\ [][PartNext]_allVars /\ WF_strVars(StringPart)
=============================================================================
