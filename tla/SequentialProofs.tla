-------------------------- MODULE SequentialProofs --------------------------
(***************************************************************************)
(* Of the two components that one thread uses: Sqlite3cpp is safe until its   *)
(* first reported failure, for any number of contexts, connections,          *)
(* statements and rows; and the calls of ema::String return what they should  *)
(* for texts and patterns of every length.                                  *)
(***************************************************************************)
EXTENDS Integers, Sequences, Sqlite3cpp, StringOps, FiniteSetTheorems, WellFoundedInduction,
        NaturalsInduction, TLAPS

(* Statements are made in the order of their numbers.                       *)
UsedUpTo(n) == \A s \in Stmt : stmts[s].st # "none" <=> s <= n
InOrder == \E n \in 0 .. MaxStmts : UsedUpTo(n)

(* A statement that somebody can reach is live, belongs to a connection and  *)
(* is reached from one place only.                                          *)
Reached ==
  /\ exec # 0 => stmts[exec].st = "live"
  /\ \A x \in Ctx : ctx[x] # 0 =>
       /\ stmts[ctx[x]].st = "live"
       /\ ctx[x] # exec
       /\ \A y \in Ctx \ {x} : ctx[y] # ctx[x]
  /\ \A s \in Stmt : stmts[s].st = "live" => stmts[s].conn # 0

(* Memory is given back only by a failure, which is reported.               *)
NothingFreed ==
  ~reported => ub # "freed" /\ \A c \in Conn : conns[c].st # "freed"

SafeInv == SqlTypeOK /\ InOrder /\ Reached /\ NothingFreed

ConnRecord == [st : {"none", "open", "freed", "closed"},
               err : StepCode \cup {"OK"}, tx : BOOLEAN]

(* The next statement is one that was never made.                           *)
LEMMA FreshStmt ==
  ASSUME SqlTypeOK, InOrder, NewStmt \in Stmt
  PROVE  UsedUpTo(NewStmt - 1) /\ stmts[NewStmt].st = "none"
<1>1. PICK n \in 0 .. MaxStmts : UsedUpTo(n)
  BY DEF InOrder
<1>2. {s \in Stmt : stmts[s].st # "none"} = 1 .. n
  BY <1>1, SqliteAssumption DEF UsedUpTo, Stmt
<1>3. NewStmt = n + 1
  <2>1. Cardinality(1 .. n) = n
    BY FS_Interval
  <2> QED
    BY <1>2, <2>1 DEF NewStmt
<1> QED
  BY <1>1, <1>3, SqliteAssumption DEF UsedUpTo

(* Error keeps the connections connections, and frees nothing unless there   *)
(* is an error.                                                             *)
LEMMA ErrorKeepsTypes ==
  ASSUME NEW d \in {0} \cup Conn, NEW cs \in [Conn -> ConnRecord]
  PROVE  Error(d, cs) \in [Conn -> ConnRecord]
BY DEF Error, ConnRecord

(* What Ends does: types stay, and memory is given back only in a report.    *)
LEMMA EndsKeeps ==
  ASSUME SqlTypeOK, NothingFreed, NEW c \in Conn, NEW code \in StepCode \cup {"OK"},
         NEW tx \in BOOLEAN, NEW ok \in BOOLEAN, Ends(c, code, tx, ok)
  PROVE  /\ conns' \in [Conn -> ConnRecord]
         /\ reported' \in BOOLEAN
         /\ ub' = ub /\ ub = "none" => NothingFreed'
<1> DEFINE cs == [conns EXCEPT ![c].err = code, ![c].tx = tx]
<1>1. /\ conns' = IF ok THEN cs ELSE Error(db, cs)
      /\ reported' = (reported \/ ~ok)
  BY DEF Ends
<1>2. cs \in [Conn -> ConnRecord] /\ \A d \in Conn : cs[d].st = conns[d].st
  <2>1. conns \in [Conn -> ConnRecord] /\ conns[c] \in ConnRecord
    BY DEF SqlTypeOK, ConnRecord
  <2>2. cs = [conns EXCEPT ![c] = [conns[c] EXCEPT !.err = code, !.tx = tx]]
    BY <2>1
  <2>3. [conns[c] EXCEPT !.err = code, !.tx = tx] \in ConnRecord
    BY <2>1 DEF ConnRecord
  <2>4. [conns[c] EXCEPT !.err = code, !.tx = tx].st = conns[c].st
    BY <2>1 DEF ConnRecord
  <2> HIDE DEF cs
  <2> QED
    BY <2>1, <2>2, <2>3, <2>4
<1>3. reported' \in BOOLEAN
  BY <1>1
<1> HIDE DEF cs
<1>4. conns' \in [Conn -> ConnRecord]
  BY <1>1, <1>2, ErrorKeepsTypes DEF SqlTypeOK
<1>5. ub' = ub /\ ub = "none" => NothingFreed'
  BY <1>1, <1>2 DEF NothingFreed
<1> QED
  BY <1>3, <1>4, <1>5

(* Most calls leave the transaction as it is.                               *)
LEMMA EndsKeepsTx ==
  ASSUME SqlTypeOK, NothingFreed, NEW c \in Conn, NEW code \in StepCode \cup {"OK"},
         NEW ok \in BOOLEAN, Ends(c, code, conns[c].tx, ok)
  PROVE  /\ conns' \in [Conn -> ConnRecord]
         /\ reported' \in BOOLEAN
         /\ ub' = ub /\ ub = "none" => NothingFreed'
<1>1. conns[c].tx \in BOOLEAN
  BY DEF SqlTypeOK
<1> QED
  BY <1>1, EndsKeeps

(* A statement leaves the connection in a transaction or out of one.        *)
LEMMA TxAfterType ==
  ASSUME SqlTypeOK, NEW c \in Conn, NEW code
  PROVE  TxAfter(conns[c].tx, code) \subseteq BOOLEAN
<1>1. conns[c].tx \in BOOLEAN
  BY DEF SqlTypeOK
<1> QED
  BY <1>1 DEF TxAfter

(* A call that touches freed memory happens only after a report.            *)
LEMMA UndefinedKeeps ==
  ASSUME SafeInv, NEW what \in {"freed", "text"}, Undefined(what),
         what = "freed" => \E c \in Conn : conns[c].st = "freed"
  PROVE  SafeInv'
BY DEF SafeInv, Undefined, SqlTypeOK, InOrder, UsedUpTo, Reached, NothingFreed

(* Calls on the connection leave the statements alone.                      *)
LEMMA ConnectionCallsKeep ==
  ASSUME SafeInv, ub = "none",
         \/ \E code \in StepCode \cup {"OK"} :
              Open(code) \/ \E begin \in BOOLEAN : Transact(begin, code)
         \/ Close \/ AskError
  PROVE  SafeInv'
<1>1. ASSUME UNCHANGED <<stmts, ctx, exec, rows, ub>>, db' \in {0} \cup Conn,
             conns' \in [Conn -> ConnRecord], reported' \in BOOLEAN, NothingFreed'
      PROVE  SafeInv'
  BY <1>1 DEF SafeInv, SqlTypeOK, ConnRecord, InOrder, UsedUpTo, Reached
<1>2. ASSUME NEW code \in StepCode \cup {"OK"}, Open(code)
      PROVE  SafeInv'
  <2> DEFINE cs == [conns EXCEPT ![db'] = [st |-> "open", err |-> code, tx |-> FALSE]]
  <2>1. /\ db' \in {0} \cup Conn
        /\ conns' = IF db' = 0 THEN conns ELSE IF code = "OK" THEN cs ELSE Error(db', cs)
        /\ db' = 0 => code = "ERROR"
        /\ reported' = (reported \/ code # "OK")
        /\ UNCHANGED <<stmts, ctx, exec, rows, ub>>
    BY <1>2 DEF Open
  <2>2. cs \in [Conn -> ConnRecord] /\ conns \in [Conn -> ConnRecord]
    BY DEF SafeInv, SqlTypeOK, ConnRecord
  <2>3. \A c \in Conn : cs[c].st = "freed" => conns[c].st = "freed"
    BY DEF SafeInv, SqlTypeOK
  <2> HIDE DEF cs
  <2>4. conns' \in [Conn -> ConnRecord]
    BY <2>1, <2>2, ErrorKeepsTypes
  <2>5. reported' \in BOOLEAN
    BY <2>1 DEF SafeInv, SqlTypeOK
  <2>6. NothingFreed'
    BY <2>1, <2>3 DEF SafeInv, NothingFreed
  <2> QED
    BY <1>1, <2>1, <2>4, <2>5, <2>6
<1>3. ASSUME NEW code \in StepCode \cup {"OK"}, NEW begin \in BOOLEAN, Transact(begin, code)
      PROVE  SafeInv'
  <2>1. db \in Conn
    BY <1>3 DEF SafeInv, SqlTypeOK, Transact
  <2>2. CASE Dangling /\ Undefined("freed")
    BY <2>1, <2>2, UndefinedKeeps DEF Dangling
  <2>3. CASE ~(Dangling /\ Undefined("freed"))
    <3>1. PICK tx \in IF code = "OK" THEN {begin} ELSE {conns[db].tx, conns[db].tx /\ begin} :
            /\ Ends(db, code, tx, code = "OK")
            /\ UNCHANGED <<db, stmts, ctx, exec, rows, ub>>
      BY <1>3, <2>3, Zenon DEF Transact
    <3>2. tx \in BOOLEAN
      <4>1. conns[db].tx \in BOOLEAN
        BY <2>1 DEF SafeInv, SqlTypeOK
      <4> QED
        BY <3>1, <4>1
    <3>3. conns' \in [Conn -> ConnRecord] /\ reported' \in BOOLEAN /\ NothingFreed'
      BY <2>1, <3>1, <3>2, EndsKeeps DEF SafeInv
    <3> QED
      BY <1>1, <2>1, <3>1, <3>3
  <2> QED
    BY <2>2, <2>3
<1>4. CASE Close \/ AskError
  <2>1. db \in Conn
    BY <1>4 DEF SafeInv, SqlTypeOK, Close, AskError
  <2>2. CASE Dangling /\ Undefined("freed")
    BY <2>1, <2>2, UndefinedKeeps DEF Dangling
  <2>3. CASE Close /\ ~(Dangling /\ Undefined("freed"))
    <3>1. /\ conns' = [conns EXCEPT ![db].st = "closed"]
          /\ db' = 0
          /\ UNCHANGED <<stmts, ctx, exec, rows, reported, ub>>
      BY <2>3 DEF Close
    <3>2. conns' \in [Conn -> ConnRecord] /\ reported' \in BOOLEAN
      BY <2>1, <3>1 DEF SafeInv, SqlTypeOK, ConnRecord
    <3>3. NothingFreed'
      BY <2>1, <3>1 DEF SafeInv, SqlTypeOK, NothingFreed
    <3> QED
      BY <1>1, <3>1, <3>2, <3>3
  <2>4. CASE AskError /\ ~(Dangling /\ Undefined("freed"))
    <3>1. /\ conns' = Error(db, conns)
          /\ reported' = (reported \/ conns[db].err # "OK")
          /\ UNCHANGED <<db, stmts, ctx, exec, rows, ub>>
      BY <2>4 DEF AskError
    <3>2. conns \in [Conn -> ConnRecord]
      BY DEF SafeInv, SqlTypeOK, ConnRecord
    <3>3. conns' \in [Conn -> ConnRecord] /\ reported' \in BOOLEAN
      BY <2>1, <3>1, <3>2, ErrorKeepsTypes DEF SafeInv, SqlTypeOK
    <3>4. NothingFreed'
      BY <2>1, <3>1 DEF SafeInv, NothingFreed, Error
    <3> QED
      BY <1>1, <2>1, <3>1, <3>3, <3>4
  <2> QED
    BY <1>4, <2>2, <2>3, <2>4
<1> QED
  BY <1>2, <1>3, <1>4

(* The statements, the contexts and Exec of a state where only a fresh       *)
(* statement was added: one that one context or Exec reaches.               *)
LEMMA NewStmtKeeps ==
  ASSUME SafeInv, NewStmt \in Stmt, NEW c \in Conn, NEW code \in StepCode \cup {"new"},
         stmts' = [stmts EXCEPT ![NewStmt] = Live(c, code)],
         \/ exec' = NewStmt /\ ctx' = ctx
         \/ exec' = exec /\ \E x \in Ctx : ctx' = [ctx EXCEPT ![x] = NewStmt]
  PROVE  /\ stmts' \in [Stmt -> [st : {"none", "live", "gone"}, conn : {0} \cup Conn,
                                 rc : StepCode \cup {"new"}, text : {"none", "held", "dead"}]]
         /\ ctx' \in [Ctx -> {0} \cup Stmt] /\ exec' \in {0} \cup Stmt
         /\ InOrder' /\ Reached'
<1>0. PICK n \in Stmt : n = NewStmt
  OBVIOUS
<1>1. n \in Nat \ {0} /\ UsedUpTo(n - 1) /\ stmts[n].st = "none"
  BY <1>0, FreshStmt, SqliteAssumption DEF SafeInv, Stmt
<1>2. n # exec /\ \A x \in Ctx : ctx[x] # n
  BY <1>1 DEF SafeInv, Reached
<1>3. stmts' = [stmts EXCEPT ![n] = Live(c, code)] /\ c # 0
  BY <1>0, SqliteAssumption DEF Conn
<1>4. \/ exec' = n /\ ctx' = ctx
      \/ exec' = exec /\ \E x \in Ctx : ctx' = [ctx EXCEPT ![x] = n]
  BY <1>0
<1>5. \A s \in Stmt : stmts'[s] = IF s = n THEN Live(c, code) ELSE stmts[s]
  BY <1>1, <1>3 DEF SafeInv, SqlTypeOK
<1>6. InOrder'
  <2>1. UsedUpTo(n)'
    BY <1>1, <1>5, SqliteAssumption DEF UsedUpTo, Live, Stmt
  <2> QED
    BY <1>1, <2>1, SqliteAssumption DEF InOrder, Stmt
<1>7. \A x \in Ctx : ctx'[x] = ctx[x] \/ (ctx'[x] = n /\ exec' = exec)
  BY <1>4 DEF SafeInv, SqlTypeOK
<1>8. Reached'
  <2>1. exec' # 0 => stmts'[exec'].st = "live"
    BY <1>1, <1>2, <1>4, <1>5 DEF SafeInv, Reached, SqlTypeOK, Live
  <2>2. \A s \in Stmt : stmts'[s].st = "live" => stmts'[s].conn # 0
    BY <1>3, <1>5 DEF SafeInv, Reached, Live
  <2>3. \A x \in Ctx : ctx'[x] # 0 =>
          stmts'[ctx'[x]].st = "live" /\ ctx'[x] # exec'
    BY <1>1, <1>2, <1>4, <1>5, <1>7 DEF SafeInv, Reached, SqlTypeOK, Live
  <2>4. \A x \in Ctx : ctx'[x] # 0 => \A y \in Ctx \ {x} : ctx'[y] # ctx'[x]
    <3>1. CASE ctx' = ctx
      BY <3>1 DEF SafeInv, Reached
    <3>2. CASE \E x \in Ctx : ctx' = [ctx EXCEPT ![x] = n]
      BY <1>1, <1>2, <3>2 DEF SafeInv, Reached, SqlTypeOK
    <3> QED
      BY <1>4, <3>1, <3>2
  <2> QED
    BY <2>1, <2>2, <2>3, <2>4 DEF Reached
<1> QED
  BY <1>1, <1>3, <1>4, <1>6, <1>8, SqliteAssumption DEF SafeInv, SqlTypeOK, Live

(* Exec: its statement is its own.                                          *)
LEMMA ExecKeeps ==
  ASSUME SafeInv, ub = "none",
         ExecDone \/ ExecRow \/ \E code \in StepCode \cup {"OK"} : ExecBegin(code)
  PROVE  SafeInv'
<1>1. ASSUME NEW code \in StepCode \cup {"OK"}, ExecBegin(code)
      PROVE  SafeInv'
  <2>1. db \in Conn
    BY <1>1 DEF SafeInv, SqlTypeOK, ExecBegin
  <2>2. CASE Dangling /\ Undefined("freed")
    BY <2>1, <2>2, UndefinedKeeps DEF Dangling
  <2>3. CASE Ends(db, "ERROR", conns[db].tx, FALSE) /\ UNCHANGED <<db, stmts, ctx, exec, rows, ub>>
    <3>1. conns' \in [Conn -> ConnRecord] /\ reported' \in BOOLEAN /\ NothingFreed'
      BY <2>1, <2>3, EndsKeepsTx DEF SafeInv, StepCode
    <3> QED
      BY <2>3, <3>1 DEF SafeInv, SqlTypeOK, ConnRecord, InOrder, UsedUpTo, Reached
  <2>4. CASE /\ ~Dangling
             /\ NewStmt \in Stmt
             /\ code \in StepCode
             /\ stmts' = [stmts EXCEPT ![NewStmt] = Live(db, code)]
             /\ exec' = NewStmt
             /\ rows' = 0
             /\ \E tx \in TxAfter(conns[db].tx, code) : Ends(db, code, tx, TRUE)
             /\ UNCHANGED <<db, ctx, ub>>
    <3>1. /\ stmts' \in [Stmt -> [st : {"none", "live", "gone"}, conn : {0} \cup Conn,
                                  rc : StepCode \cup {"new"}, text : {"none", "held", "dead"}]]
          /\ exec' \in {0} \cup Stmt
          /\ InOrder' /\ Reached'
      BY <2>1, <2>4, NewStmtKeeps
    <3>2. PICK tx \in TxAfter(conns[db].tx, code) : Ends(db, code, tx, TRUE)
      BY <2>4
    <3>3. conns' \in [Conn -> ConnRecord] /\ reported' \in BOOLEAN /\ NothingFreed'
      BY <2>1, <2>4, <3>2, EndsKeeps, TxAfterType DEF SafeInv
    <3>4. rows' \in 0 .. MaxRows
      BY <2>4, SqliteAssumption
    <3> QED
      BY <2>4, <3>1, <3>3, <3>4 DEF SafeInv, SqlTypeOK, ConnRecord
  <2> QED
    BY <1>1, <2>2, <2>3, <2>4 DEF ExecBegin
<1>2. CASE ExecDone
  <2>1. /\ exec \in Stmt /\ exec' = 0
        /\ stmts' = [stmts EXCEPT ![exec] = Gone]
        /\ conns' = [conns EXCEPT ![db].err = "OK"]
        /\ UNCHANGED <<db, ctx, rows, reported, ub>>
    BY <1>2 DEF ExecDone, SafeInv, SqlTypeOK
  <2>2. \A s \in Stmt : stmts'[s] = IF s = exec THEN Gone ELSE stmts[s]
    BY <2>1 DEF SafeInv, SqlTypeOK
  <2>3. \A c \in Conn : conns'[c].st = conns[c].st
    BY <2>1 DEF SafeInv, SqlTypeOK
  <2>4. SqlTypeOK'
    <3>1. stmts' \in [Stmt -> [st : {"none", "live", "gone"}, conn : {0} \cup Conn,
                               rc : StepCode \cup {"new"}, text : {"none", "held", "dead"}]]
      BY <2>1 DEF SafeInv, SqlTypeOK, Gone
    <3>2. conns' \in [Conn -> [st : {"none", "open", "freed", "closed"},
                               err : StepCode \cup {"OK"}, tx : BOOLEAN]]
      <4>1. conns \in [Conn -> ConnRecord]
        BY DEF SafeInv, SqlTypeOK, ConnRecord
      <4>2. ASSUME NEW c \in Conn PROVE [conns[c] EXCEPT !.err = "OK"] \in ConnRecord
        BY <4>1 DEF ConnRecord
      <4>3. conns' = [c \in Conn |-> IF c = db THEN [conns[c] EXCEPT !.err = "OK"] ELSE conns[c]]
        BY <2>1, <4>1
      <4>4. conns' \in [Conn -> ConnRecord]
        BY <4>1, <4>2, <4>3
      <4> QED
        BY <4>4 DEF ConnRecord
    <3> QED
      BY <2>1, <3>1, <3>2 DEF SafeInv, SqlTypeOK
  <2>5. InOrder'
    BY <2>1, <2>2 DEF SafeInv, InOrder, UsedUpTo, Reached, Gone
  <2>6. Reached'
    BY <2>1, <2>2, SqliteAssumption DEF SafeInv, SqlTypeOK, Reached, Gone, Stmt
  <2>7. NothingFreed'
    BY <2>1, <2>3 DEF SafeInv, NothingFreed
  <2> QED
    BY <2>4, <2>5, <2>6, <2>7 DEF SafeInv
<1>3. CASE ExecRow
  <2>1. UNCHANGED <<db, conns, stmts, ctx, ub>>
    BY <1>3 DEF ExecRow
  <2>2. /\ exec' \in {0, exec}
        /\ reported' \in BOOLEAN
        /\ rows' \in 0 .. MaxRows
        /\ reported => reported'
    <3>1. CASE rows < MaxRows
      <4>1. rows' = rows + 1 /\ exec' = exec /\ reported' = reported
        BY <1>3, <3>1 DEF ExecRow
      <4> QED
        BY <3>1, <4>1, SqliteAssumption DEF SafeInv, SqlTypeOK
    <3>2. CASE ~(rows < MaxRows)
      BY <1>3, <3>2 DEF ExecRow, SafeInv, SqlTypeOK
    <3> QED
      BY <3>1, <3>2
  <2>3. SqlTypeOK'
    BY <2>1, <2>2 DEF SafeInv, SqlTypeOK
  <2>4. InOrder' /\ NothingFreed'
    BY <2>1, <2>2 DEF SafeInv, InOrder, UsedUpTo, NothingFreed
  <2>5. Reached'
    BY <2>1, <2>2, SqliteAssumption DEF SafeInv, SqlTypeOK, Reached, Stmt
  <2> QED
    BY <2>3, <2>4, <2>5 DEF SafeInv
<1> QED
  BY <1>1, <1>2, <1>3

(* What a context's statement is, and what using it after a failure means.   *)
LEMMA ContextStmt ==
  ASSUME SafeInv, NEW x \in Ctx, ctx[x] # 0
  PROVE  /\ ctx[x] \in Stmt /\ stmts[ctx[x]].st = "live"
         /\ stmts[ctx[x]].conn \in Conn
         /\ Unusable(x) => \E c \in Conn : conns[c].st = "freed"
BY DEF SafeInv, SqlTypeOK, Reached, Unusable

(* A prepared statement's owner is the context alone.                       *)
LEMMA PrepareKeeps ==
  ASSUME SafeInv, ub = "none", NEW x \in Ctx, NEW code \in StepCode \cup {"OK"},
         Prepare(x, code)
  PROVE  SafeInv'
<1>1. CASE Dangling /\ Undefined("freed")
  BY <1>1, UndefinedKeeps DEF Dangling, SafeInv, SqlTypeOK
<1>2. ASSUME ctx' = [ctx EXCEPT ![x] = 0], UNCHANGED <<db, stmts, exec, rows, ub>>,
             conns' \in [Conn -> ConnRecord], reported' \in BOOLEAN, NothingFreed'
      PROVE  SafeInv'
  <2>1. SqlTypeOK' /\ InOrder'
    BY <1>2 DEF SafeInv, SqlTypeOK, ConnRecord, InOrder, UsedUpTo
  <2>2. \A y \in Ctx : ctx'[y] = IF y = x THEN 0 ELSE ctx[y]
    BY <1>2 DEF SafeInv, SqlTypeOK
  <2>3. Reached'
    BY <1>2, <2>2 DEF SafeInv, Reached
  <2> QED
    BY <1>2, <2>1, <2>3 DEF SafeInv
<1>3. CASE /\ ctx' = [ctx EXCEPT ![x] = 0]
           /\ IF db = 0 THEN reported' = TRUE /\ UNCHANGED conns
              ELSE Ends(db, "ERROR", conns[db].tx, FALSE)
           /\ UNCHANGED <<db, stmts, exec, rows, ub>>
  <2>1. CASE db = 0
    BY <1>2, <1>3, <2>1 DEF SafeInv, SqlTypeOK, ConnRecord, NothingFreed
  <2>2. CASE db # 0
    <3>1. db \in Conn /\ "ERROR" \in StepCode \cup {"OK"}
      BY <2>2 DEF SafeInv, SqlTypeOK, StepCode
    <3>2. conns' \in [Conn -> ConnRecord] /\ reported' \in BOOLEAN /\ NothingFreed'
      BY <1>3, <2>2, <3>1, EndsKeepsTx DEF SafeInv
    <3> QED
      BY <1>2, <1>3, <3>2
  <2> QED
    BY <2>1, <2>2
<1>4. CASE /\ db # 0
           /\ NewStmt \in Stmt
           /\ ctx' = [ctx EXCEPT ![x] = NewStmt]
           /\ stmts' = [stmts EXCEPT ![NewStmt] = Live(db, "new")]
           /\ Ends(db, "OK", conns[db].tx, TRUE)
           /\ UNCHANGED <<db, exec, rows, ub>>
  <2>1. db \in Conn
    BY <1>4 DEF SafeInv, SqlTypeOK
  <2>2. conns' \in [Conn -> ConnRecord] /\ reported' \in BOOLEAN /\ NothingFreed'
    BY <1>4, <2>1, EndsKeepsTx DEF SafeInv
  <2>3. /\ stmts' \in [Stmt -> [st : {"none", "live", "gone"}, conn : {0} \cup Conn,
                                rc : StepCode \cup {"new"}, text : {"none", "held", "dead"}]]
        /\ ctx' \in [Ctx -> {0} \cup Stmt]
        /\ InOrder' /\ Reached'
    BY <1>4, <2>1, NewStmtKeeps
  <2> QED
    BY <1>4, <2>2, <2>3 DEF SafeInv, SqlTypeOK, ConnRecord
<1>5. CASE /\ db # 0
           /\ ctx' = [ctx EXCEPT ![x] = 0]
           /\ Ends(db, "OK", conns[db].tx, TRUE)
           /\ UNCHANGED <<db, stmts, exec, rows, ub>>
  <2>1. db \in Conn
    BY <1>5 DEF SafeInv, SqlTypeOK
  <2>2. conns' \in [Conn -> ConnRecord] /\ reported' \in BOOLEAN /\ NothingFreed'
    BY <1>5, <2>1, EndsKeepsTx DEF SafeInv
  <2> QED
    BY <1>2, <1>5, <2>2
<1> QED
  BY <1>1, <1>3, <1>4, <1>5 DEF Prepare

(* Binding, stepping and losing a text change a statement in place.         *)
LEMMA StmtChangeKeeps ==
  ASSUME SafeInv, NEW s \in Stmt, NEW code \in StepCode \cup {"new"},
         NEW bound \in {"none", "held", "dead"},
         \/ stmts' = [stmts EXCEPT ![s].text = bound]
         \/ stmts' = [stmts EXCEPT ![s].rc = code],
         UNCHANGED <<db, ctx, exec, rows, ub>>,
         conns' \in [Conn -> ConnRecord], reported' \in BOOLEAN, NothingFreed'
  PROVE  SafeInv'
<1>1. SqlTypeOK'
  BY DEF SafeInv, SqlTypeOK, ConnRecord
<1>2. \A t \in Stmt : stmts'[t].st = stmts[t].st /\ stmts'[t].conn = stmts[t].conn
  <2>1. CASE stmts' = [stmts EXCEPT ![s].text = bound]
    BY <2>1 DEF SafeInv, SqlTypeOK
  <2>2. CASE stmts' = [stmts EXCEPT ![s].rc = code]
    BY <2>2 DEF SafeInv, SqlTypeOK
  <2> QED
    BY <2>1, <2>2
<1>3. InOrder'
  BY <1>2 DEF SafeInv, InOrder, UsedUpTo
<1>4. Reached'
  BY <1>2 DEF SafeInv, SqlTypeOK, Reached
<1> QED
  BY <1>1, <1>3, <1>4 DEF SafeInv

(* The calls on a prepared statement keep the invariant.                    *)
LEMMA StmtCallsKeep ==
  ASSUME SafeInv, ub = "none", NEW x \in Ctx,
         \/ \E code \in StepCode \cup {"OK"} : Step(x, code)
         \/ \E bound \in {"none", "held"}, ok \in BOOLEAN : BindValue(x, bound, ok)
         \/ Finalize(x)
  PROVE  SafeInv'
<1>1. CASE Unusable(x) /\ Undefined("freed")
  BY <1>1, ContextStmt, UndefinedKeeps DEF Unusable
<1>2. CASE Usable(x) /\ Undefined("text")
  BY <1>2, UndefinedKeeps
<1> DEFINE s == ctx[x]
<1>3. ASSUME NEW code \in StepCode \cup {"OK"}, Step(x, code), Usable(x),
             ~Undefined("text"), ~Unusable(x)
      PROVE  SafeInv'
  <2>1. /\ code \in StepCode
        /\ stmts' = [stmts EXCEPT ![s].rc = code]
        /\ \E tx \in TxAfter(conns[stmts[s].conn].tx, code) :
             Ends(stmts[s].conn, code, tx, code = "ROW")
        /\ UNCHANGED <<db, ctx, exec, rows, ub>>
    BY <1>3 DEF Step
  <2>2. s \in Stmt /\ stmts[s].conn \in Conn
    BY <1>3, ContextStmt DEF Usable
  <2>3. conns' \in [Conn -> ConnRecord] /\ reported' \in BOOLEAN /\ NothingFreed'
    <3>1. PICK tx \in TxAfter(conns[stmts[s].conn].tx, code) :
            Ends(stmts[s].conn, code, tx, code = "ROW")
      BY <2>1
    <3> QED
      BY <2>1, <2>2, <3>1, EndsKeeps, TxAfterType DEF SafeInv
  <2> HIDE DEF s
  <2> QED
    BY <2>1, <2>2, <2>3, StmtChangeKeeps
<1>4. ASSUME NEW bound \in {"none", "held"}, NEW ok \in BOOLEAN, BindValue(x, bound, ok),
             Usable(x), ~Unusable(x)
      PROVE  SafeInv'
  <2>1. /\ stmts' = [stmts EXCEPT ![s].text = IF ok THEN bound ELSE @]
        /\ Ends(stmts[s].conn, IF ok THEN "OK" ELSE "ERROR", conns[stmts[s].conn].tx, ok)
        /\ UNCHANGED <<db, ctx, exec, rows, ub>>
    BY <1>4 DEF BindValue
  <2>2. s \in Stmt /\ stmts[s].conn \in Conn
    BY <1>4, ContextStmt DEF Usable
  <2>3. conns' \in [Conn -> ConnRecord] /\ reported' \in BOOLEAN /\ NothingFreed'
    <3>1. (IF ok THEN "OK" ELSE "ERROR") \in StepCode \cup {"OK"}
      BY DEF StepCode
    <3> QED
      BY <2>1, <2>2, <3>1, EndsKeepsTx DEF SafeInv
  <2>4. \E v \in {"none", "held", "dead"} : stmts' = [stmts EXCEPT ![s].text = v]
    <3>1. (IF ok THEN bound ELSE stmts[s].text) \in {"none", "held", "dead"}
      BY <2>2 DEF SafeInv, SqlTypeOK
    <3> QED
      BY <2>1, <2>2, <3>1 DEF SafeInv, SqlTypeOK
  <2> HIDE DEF s
  <2> QED
    BY <2>1, <2>2, <2>3, <2>4, StmtChangeKeeps DEF StepCode
<1>5. ASSUME Finalize(x), Usable(x), ~Unusable(x)
      PROVE  SafeInv'
  <2> DEFINE bad == stmts[s].rc \in {"BUSY", "ERROR"}
  <2>1. /\ stmts' = [stmts EXCEPT ![s] = Gone]
        /\ ctx' = [ctx EXCEPT ![x] = 0]
        /\ IF stmts[s].rc = "new" THEN UNCHANGED <<conns, reported>>
           ELSE Ends(stmts[s].conn, IF bad THEN stmts[s].rc ELSE "OK",
                     conns[stmts[s].conn].tx, ~bad)
        /\ UNCHANGED <<db, exec, rows, ub>>
    BY <1>5 DEF Finalize
  <2>2. s \in Stmt /\ stmts[s].conn \in Conn /\ s # 0 /\ stmts[s].st = "live"
    BY <1>5, ContextStmt DEF Usable
  <2>3. conns' \in [Conn -> ConnRecord] /\ reported' \in BOOLEAN /\ NothingFreed'
    <3>1. CASE stmts[s].rc = "new"
      BY <2>1, <3>1 DEF SafeInv, SqlTypeOK, ConnRecord, NothingFreed
    <3>2. CASE stmts[s].rc # "new"
      <4>1. (IF bad THEN stmts[s].rc ELSE "OK") \in StepCode \cup {"OK"}
        BY DEF StepCode
      <4>2. bad \in BOOLEAN
        OBVIOUS
      <4> QED
        BY <2>1, <2>2, <3>2, <4>1, <4>2, EndsKeepsTx DEF SafeInv
    <3> QED
      BY <3>1, <3>2
  <2> HIDE DEF bad
  <2>4. /\ \A t \in Stmt : stmts'[t] = IF t = s THEN Gone ELSE stmts[t]
        /\ \A y \in Ctx : ctx'[y] = IF y = x THEN 0 ELSE ctx[y]
    BY <2>1, <2>2 DEF SafeInv, SqlTypeOK
  <2>5. SqlTypeOK'
    BY <2>1, <2>2, <2>3, SqliteAssumption DEF SafeInv, SqlTypeOK, ConnRecord, Gone
  <2>6. InOrder'
    BY <2>2, <2>4 DEF SafeInv, InOrder, UsedUpTo, Gone
  <2>7. Reached'
    <3>1. exec' = exec /\ exec # s
      BY <2>1, <2>2 DEF SafeInv, Reached
    <3>2. \A y \in Ctx \ {x} : ctx[y] # s
      BY <2>2 DEF SafeInv, Reached
    <3> QED
      BY <2>2, <2>4, <3>1, <3>2 DEF SafeInv, SqlTypeOK, Reached, Gone
  <2> QED
    BY <2>3, <2>5, <2>6, <2>7 DEF SafeInv
<1>6. CASE ~Usable(x)
  BY <1>1, <1>6 DEF Step, BindValue, Finalize
<1>7. CASE Usable(x)
  <2>1. ~Unusable(x)
    BY <1>7 DEF Usable, Unusable
  <2> QED
    BY <1>2, <1>3, <1>4, <1>5, <1>7, <2>1
<1> QED
  BY <1>6, <1>7

(* The calls of the wrapper keep the invariant (sqlite3_impl.cpp 10-23,       *)
(* 104-192).                                                                 *)
LEMMA SafeInvariant == SqlSpec => []SafeInv
<1>1. SqlInit => SafeInv
  <2>1. SqlInit => UsedUpTo(0)
    BY SqliteAssumption DEF SqlInit, UsedUpTo, Stmt
  <2>2. SqlInit => InOrder
    BY <2>1, SqliteAssumption DEF InOrder
  <2>3. ASSUME SqlInit PROVE SqlTypeOK
    <3>1. conns \in [Conn -> ConnRecord]
      BY <2>3 DEF SqlInit, ConnRecord
    <3>2. stmts \in [Stmt -> [st : {"none", "live", "gone"}, conn : {0} \cup Conn,
                              rc : StepCode \cup {"new"}, text : {"none", "held", "dead"}]]
      BY <2>3 DEF SqlInit
    <3>3. ctx \in [Ctx -> {0} \cup Stmt] /\ reported \in BOOLEAN
      BY <2>3 DEF SqlInit
    <3>4. db \in {0} \cup Conn /\ exec \in {0} \cup Stmt /\ rows \in 0 .. MaxRows
      BY <2>3, SqliteAssumption DEF SqlInit
    <3> QED
      BY <2>3, <3>1, <3>2, <3>3, <3>4 DEF SqlInit, SqlTypeOK, ConnRecord
  <2>4. SqlInit => Reached /\ NothingFreed
    BY DEF SqlInit, Reached, NothingFreed
  <2> QED
    BY <2>2, <2>3, <2>4 DEF SafeInv
<1>2. SafeInv /\ [SqlNext]_sqlVars => SafeInv'
  <2> SUFFICES ASSUME SafeInv, [SqlNext]_sqlVars PROVE SafeInv'
    OBVIOUS
  <2>1. CASE SqlNext
    <3>1. ASSUME NEW s \in Stmt, TextEnds(s)
          PROVE  SafeInv'
      <4>1. conns' \in [Conn -> ConnRecord] /\ reported' \in BOOLEAN /\ NothingFreed'
        BY <3>1 DEF TextEnds, SafeInv, SqlTypeOK, ConnRecord, NothingFreed
      <4> QED
        BY <3>1, <4>1, StmtChangeKeeps DEF TextEnds
    <3>2. ub = "none"
      BY <2>1 DEF SqlNext
    <3> QED
      BY <2>1, <3>1, <3>2, ConnectionCallsKeep, ExecKeeps, PrepareKeeps, StmtCallsKeep DEF SqlNext
  <2>2. CASE UNCHANGED sqlVars
    BY <2>2 DEF sqlVars, SafeInv, SqlTypeOK, InOrder, UsedUpTo, Reached, NothingFreed
  <2> QED
    BY <2>1, <2>2
<1> QED
  BY <1>1, <1>2, PTL DEF SqlSpec

(* As long as every call has succeeded no call touches memory that was given *)
(* back, for any number of contexts, connections and statements              *)
(* (sqlite3_impl.cpp 10-23, 104-192).                                       *)
THEOREM SafeBeforeFailure == SqlSpec => []SafeUntilReported
<1>1. SafeInv => SafeUntilReported
  BY DEF SafeInv, NothingFreed, SafeUntilReported
<1> QED
  BY <1>1, SafeInvariant, PTL

(* Sqlite3cpp: every variable of the wrapper keeps its type, also after a      *)
(* failure (sqlite3_impl.cpp 10-23, 104-192).                                *)
THEOREM SqliteTypeCorrect == SqlSpec => []SqlTypeOK
<1>1. SafeInv => SqlTypeOK
  BY DEF SafeInv
<1> QED
  BY <1>1, SafeInvariant, PTL

-----------------------------------------------------------------------------
(***************************************************************************)
(* ema::String.  The argument: while replace and split run, the cuts that    *)
(* they have made are those of a scan that has come to a place q of the       *)
(* text (Scanned), and what they have built is what the reference builds      *)
(* around those cuts (Replaced, Listed).                                     *)
(***************************************************************************)
(* A bounded sequence is a sequence.                                        *)
LEMMA BoundedIsSeq ==
  ASSUME NEW T, NEW n \in Nat, NEW x \in BoundedSeq(T, n)
  PROVE  x \in Seq(T) /\ Len(x) \in Nat /\ Len(x) <= n
<1>1. PICK m \in 0 .. n : x \in [1 .. m -> T]
  BY SMTT(30) DEF BoundedSeq, SeqOf
<1> QED
  BY <1>1

(* A sequence that is short enough is a bounded sequence.                    *)
LEMMA SeqIsBounded ==
  ASSUME NEW T, NEW n \in Nat, NEW x \in Seq(T), Len(x) <= n
  PROVE  x \in BoundedSeq(T, n)
<1>1. Len(x) \in 0 .. n /\ x \in [1 .. Len(x) -> T]
  OBVIOUS
<1> QED
  BY <1>1 DEF BoundedSeq, SeqOf

(* A set of numbers that is not empty has a least one.                      *)
LEMMA LeastIn ==
  ASSUME NEW A \in SUBSET Nat, A # {}
  PROVE  \E i \in A : \A j \in A : i <= j
<1> DEFINE less == OpToRel(<, Nat)
<1>1. IsWellFoundedOn(less, Nat)
  BY NatLessThanWellFounded
<1> HIDE DEF less
<1>2. PICK i \in A : \A j \in A : ~ (<<j, i>> \in less)
  BY <1>1, WFMin
<1>3. ASSUME NEW j \in A PROVE i <= j
  <2>1. ~ (<<j, i>> \in less) /\ i \in Nat /\ j \in Nat
    BY <1>2
  <2> QED
    BY <2>1 DEF less, OpToRel
<1> QED
  BY <1>2, <1>3

(* find returns the first occurrence from there on, or npos if there is none. *)
LEMMA FindFirst ==
  ASSUME NEW s \in Seq(Char), NEW pat \in Seq(Char), NEW from \in Nat,
         NEW p, p = Find(s, pat, from)
  PROVE  \/ p = NPOS /\ \A i \in from .. Len(s) : ~Occurs(s, pat, i)
         \/ /\ p \in from .. Len(s) /\ Occurs(s, pat, p)
            /\ \A i \in from .. Len(s) : Occurs(s, pat, i) => p <= i
<1> DEFINE at == {i \in from .. Len(s) : Occurs(s, pat, i)}
<1>1. CASE at = {}
  <2>1. p = NPOS
    BY <1>1 DEF Find
  <2> QED
    BY <1>1, <2>1
<1>2. CASE at # {}
  <2>1. p = CHOOSE i \in at : \A j \in at : i <= j
    BY <1>2 DEF Find
  <2>2. \E i \in at : \A j \in at : i <= j
    <3>1. at \subseteq Nat
      OBVIOUS
    <3> HIDE DEF at
    <3> QED
      BY <1>2, <3>1, LeastIn
  <2>3. p \in at /\ \A j \in at : p <= j
    <3> HIDE DEF at
    <3> QED
      BY <2>1, <2>2
  <2> QED
    BY <2>3
<1> QED
  BY <1>1, <1>2

(***************************************************************************)
(* The cuts of a scan that has come to q: occurrences that do not overlap,   *)
(* that end by q, and that overlap every other occurrence before q from its  *)
(* left.                                                                    *)
(***************************************************************************)
Scanned(s, pat, c, q) ==
  /\ c \in Seq(0 .. Len(s)) /\ q = Left(c, pat, Len(c)) /\ q \in Len(c) .. Len(s)
  /\ \A k \in 1 .. Len(c) : Occurs(s, pat, c[k]) /\ c[k] + Len(pat) <= q
  /\ \A k, l \in 1 .. Len(c) : k < l => c[k] + Len(pat) <= c[l]
  /\ \A i \in 0 .. Len(s) : i < q /\ Occurs(s, pat, i) =>
       \E k \in 1 .. Len(c) : c[k] <= i /\ i < c[k] + Len(pat)

FirstFrom(s, pat, q, i) ==
  /\ i \in q .. Len(s) /\ Occurs(s, pat, i)
  /\ \A j \in q .. Len(s) : Occurs(s, pat, j) => i <= j

NoneFrom(s, pat, q) == \A j \in q .. Len(s) : ~Occurs(s, pat, j)

(* The scan starts with no cut.                                             *)
LEMMA ScanStart ==
  ASSUME NEW s \in Seq(Char), NEW pat \in Seq(Char)
  PROVE  Scanned(s, pat, <<>>, 0)
BY DEF Scanned, Left

(* It goes on behind the first occurrence that it meets.                     *)
LEMMA ScanStep ==
  ASSUME NEW s \in Seq(Char), NEW pat \in Seq(Char), pat # <<>>,
         NEW c, NEW q, Scanned(s, pat, c, q), NEW i, FirstFrom(s, pat, q, i)
  PROVE  /\ Scanned(s, pat, Append(c, i), i + Len(pat))
         /\ \A k \in 0 .. Len(c) : Left(Append(c, i), pat, k) = Left(c, pat, k)
         /\ \A k \in 0 .. Len(c) - 1 : Right(s, Append(c, i), k) = Right(s, c, k)
         /\ Right(s, Append(c, i), Len(c)) = i
<1> DEFINE d == Append(c, i)
           n == Len(c)
           L == Len(pat)
<1>1. /\ c \in Seq(0 .. Len(s)) /\ n \in Nat /\ q = Left(c, pat, n) /\ q \in n .. Len(s)
      /\ \A k \in 1 .. n : Occurs(s, pat, c[k]) /\ c[k] + L <= q
      /\ \A k, l \in 1 .. n : k < l => c[k] + L <= c[l]
      /\ \A j \in 0 .. Len(s) : j < q /\ Occurs(s, pat, j) =>
           \E k \in 1 .. n : c[k] <= j /\ j < c[k] + L
  BY DEF Scanned
<1>2. L \in Nat /\ L >= 1 /\ Len(s) \in Nat /\ q \in Nat
  BY <1>1
<1>3. /\ i \in q .. Len(s) /\ Occurs(s, pat, i) /\ i \in Nat /\ i + L <= Len(s)
      /\ \A j \in q .. Len(s) : Occurs(s, pat, j) => i <= j
  BY <1>1, <1>2 DEF FirstFrom, Occurs
<1>4. /\ d \in Seq(0 .. Len(s)) /\ Len(d) = n + 1
      /\ \A k \in 1 .. n : d[k] = c[k] /\ c[k] \in Nat
      /\ d[n + 1] = i
  BY <1>1, <1>3
<1>0. \A k \in 1 .. n + 1 : k = n + 1 \/ k \in 1 .. n
  BY <1>1
<1> HIDE DEF d
<1>5. ASSUME NEW k \in 1 .. n + 1
      PROVE  Occurs(s, pat, d[k]) /\ d[k] + L <= i + L
  <2>1. CASE k = n + 1
    BY <1>2, <1>3, <1>4, <2>1
  <2>2. CASE k \in 1 .. n
    <3>1. d[k] = c[k] /\ c[k] \in Nat /\ Occurs(s, pat, c[k]) /\ c[k] + L <= q
      BY <1>1, <1>4, <2>2
    <3>2. q <= i
      BY <1>2, <1>3
    <3> QED
      BY <1>2, <1>3, <3>1, <3>2
  <2> QED
    BY <1>0, <2>1, <2>2
<1>6. \A k, l \in 1 .. n + 1 : k < l => d[k] + L <= d[l]
  <2> SUFFICES ASSUME NEW k \in 1 .. n + 1, NEW l \in 1 .. n + 1, k < l
               PROVE  d[k] + L <= d[l]
    OBVIOUS
  <2>1. k \in 1 .. n /\ d[k] = c[k]
    BY <1>1, <1>4, SMTT(30)
  <2>2. CASE l = n + 1
    BY <1>1, <1>2, <1>3, <1>4, <2>1, <2>2, SMTT(30)
  <2>3. CASE l \in 1 .. n
    BY <1>1, <1>2, <1>3, <1>4, <2>1, <2>3
  <2> QED
    BY <1>0, <2>2, <2>3
<1>7. ASSUME NEW j \in 0 .. Len(s), j < i + L, Occurs(s, pat, j)
      PROVE  \E k \in 1 .. n + 1 : d[k] <= j /\ j < d[k] + L
  <2>1. CASE j < q
    <3>1. PICK k \in 1 .. n : c[k] <= j /\ j < c[k] + L
      BY <1>1, <1>7, <2>1
    <3> QED
      BY <1>1, <1>4, <3>1
  <2>2. CASE q <= j
    <3>1. i <= j
      BY <1>2, <1>3, <1>7, <2>2
    <3> QED
      BY <1>1, <1>4, <1>7, <3>1
  <2> QED
    BY <1>2, <2>1, <2>2
<1>8. Scanned(s, pat, d, i + L)
  <2>1. i + L = Left(d, pat, n + 1)
    BY <1>1, <1>4 DEF Left
  <2>2. i + L \in n + 1 .. Len(s)
    BY <1>1, <1>2, <1>3
  <2> QED
    BY <1>4, <1>5, <1>6, <1>7, <2>1, <2>2 DEF Scanned
<1>9. \A k \in 0 .. n : Left(d, pat, k) = Left(c, pat, k)
  BY <1>1, <1>4 DEF Left
<1>10. \A k \in 0 .. n - 1 : Right(s, d, k) = Right(s, c, k)
  BY <1>1, <1>4, SMTT(30) DEF Right
<1>11. Right(s, d, n) = i
  BY <1>1, <1>4 DEF Right
<1> QED
  BY <1>8, <1>9, <1>10, <1>11 DEF d

(* At the end they are the cuts.                                            *)
LEMMA ScanEnd ==
  ASSUME NEW s \in Seq(Char), NEW pat \in Seq(Char),
         NEW c, NEW q, Scanned(s, pat, c, q), NoneFrom(s, pat, q)
  PROVE  c \in Cuts(s, pat)
<1> DEFINE All == {i \in 0 .. Len(s) : Occurs(s, pat, i)}
<1>1. c \in Seq(0 .. Len(s)) /\ Len(c) \in Nat /\ Len(c) <= Len(s) /\ Len(s) \in Nat /\ q \in Nat
  BY DEF Scanned
<1>2. \A k \in 1 .. Len(c) : c[k] \in All
  BY <1>1 DEF Scanned
<1>3. c \in Seq(All)
  <2> HIDE DEF All
  <2> QED
    BY <1>1, <1>2
<1>4. c \in BoundedSeq(All, Len(s))
  <2> HIDE DEF All
  <2> QED
    BY <1>1, <1>3, SeqIsBounded
<1>5. \A i \in All : \E k \in 1 .. Len(c) : c[k] <= i /\ i < c[k] + Len(pat)
  <2> SUFFICES ASSUME NEW i \in All
               PROVE  \E k \in 1 .. Len(c) : c[k] <= i /\ i < c[k] + Len(pat)
    OBVIOUS
  <2>1. i < q
    BY <1>1 DEF NoneFrom
  <2> QED
    BY <2>1 DEF Scanned
<1>6. \A k, l \in 1 .. Len(c) : k < l => c[k] + Len(pat) <= c[l]
  BY DEF Scanned
<1> QED
  BY <1>4, <1>5, <1>6 DEF Cuts

(* Two cuts that agree before k: where one has a k-th, so has the other, and  *)
(* not behind it.                                                           *)
LEMMA CutsAgree ==
  ASSUME NEW s \in Seq(Char), NEW pat \in Seq(Char),
         NEW c \in Cuts(s, pat), NEW d \in Cuts(s, pat), NEW k \in 1 .. Len(c),
         \A j \in 1 .. Len(c) : j < k => j <= Len(d) /\ c[j] = d[j]
  PROVE  k <= Len(d) /\ d[k] <= c[k]
<1> DEFINE All == {i \in 0 .. Len(s) : Occurs(s, pat, i)}
<1>1. /\ c \in BoundedSeq(All, Len(s)) /\ d \in BoundedSeq(All, Len(s))
      /\ \A i, l \in 1 .. Len(c) : i < l => c[i] + Len(pat) <= c[l]
      /\ \A i, l \in 1 .. Len(d) : i < l => d[i] + Len(pat) <= d[l]
      /\ \A i \in All : \E l \in 1 .. Len(d) : d[l] <= i /\ i < d[l] + Len(pat)
  BY DEF Cuts
<1>2. c \in Seq(All) /\ d \in Seq(All) /\ Len(c) \in Nat /\ Len(d) \in Nat /\ Len(pat) \in Nat
  <2>1. Len(s) \in Nat
    OBVIOUS
  <2> HIDE DEF All
  <2> QED
    BY <1>1, <2>1, BoundedIsSeq
<1>3. \A a \in All : a \in Nat
  OBVIOUS
<1> HIDE DEF All
<1>4. PICK l \in 1 .. Len(d) : d[l] <= c[k] /\ c[k] < d[l] + Len(pat)
  <2>1. c[k] \in All
    BY <1>2
  <2> QED
    BY <1>1, <2>1
<1>5. c[k] \in Nat /\ d[l] \in Nat
  BY <1>2, <1>3
<1>6. ~(l < k)
  <2> SUFFICES ASSUME l < k PROVE FALSE
    OBVIOUS
  <2>1. l \in 1 .. Len(c) /\ c[l] = d[l]
    BY <1>2
  <2>2. c[l] + Len(pat) <= c[k]
    BY <1>1, <2>1
  <2> QED
    BY <1>2, <1>4, <1>5, <2>1, <2>2
<1>7. k \in 1 .. Len(d)
  BY <1>2, <1>6
<1>8. d[k] \in Nat
  BY <1>2, <1>3, <1>7
<1>9. CASE k = l
  BY <1>4, <1>7, <1>9
<1>10. CASE k < l
  <2>1. d[k] + Len(pat) <= d[l]
    BY <1>1, <1>7, <1>10
  <2> QED
    BY <1>2, <1>4, <1>5, <1>7, <1>8, <2>1
<1> QED
  BY <1>2, <1>6, <1>9, <1>10

(* There is no other sequence of cuts.                                      *)
LEMMA CutsUnique ==
  ASSUME NEW s \in Seq(Char), NEW pat \in Seq(Char),
         NEW c \in Cuts(s, pat), NEW d \in Cuts(s, pat)
  PROVE  c = d
<1> DEFINE All == {i \in 0 .. Len(s) : Occurs(s, pat, i)}
           Same(k) == k <= Len(c) /\ k <= Len(d) /\ c[k] = d[k]
           Apart == {k \in Nat \ {0} : (k <= Len(c) \/ k <= Len(d)) /\ ~Same(k)}
<1>1. c \in BoundedSeq(All, Len(s)) /\ d \in BoundedSeq(All, Len(s))
  BY DEF Cuts
<1>2. /\ c \in Seq(All) /\ d \in Seq(All) /\ Len(c) \in Nat /\ Len(d) \in Nat
  <2>1. Len(s) \in Nat
    OBVIOUS
  <2> HIDE DEF All
  <2> QED
    BY <1>1, <2>1, BoundedIsSeq
<1>3. \A a \in All : a \in Nat
  OBVIOUS
<1> HIDE DEF All
<1>4. Apart = {}
  <2> SUFFICES ASSUME Apart # {} PROVE FALSE
    OBVIOUS
  <2>1. PICK k \in Apart : \A j \in Apart : k <= j
    <3>1. Apart \subseteq Nat
      OBVIOUS
    <3> HIDE DEF Apart
    <3> QED
      BY <3>1, LeastIn
  <2>2. k \in Nat \ {0} /\ (k <= Len(c) \/ k <= Len(d)) /\ ~Same(k)
    OBVIOUS
  <2>3. \A j \in Nat \ {0} : j < k /\ (j <= Len(c) \/ j <= Len(d)) => Same(j)
    BY <2>1, <2>2
  <2>4. ASSUME k <= Len(c) PROVE k <= Len(d) /\ d[k] <= c[k]
    <3>1. k \in 1 .. Len(c) /\ \A j \in 1 .. Len(c) : j < k => j <= Len(d) /\ c[j] = d[j]
      BY <1>2, <2>2, <2>3, <2>4
    <3> QED
      BY ONLY <3>1, CutsAgree, s \in Seq(Char), pat \in Seq(Char), c \in Cuts(s, pat), d \in Cuts(s, pat)
  <2>5. ASSUME k <= Len(d) PROVE k <= Len(c) /\ c[k] <= d[k]
    <3>1. k \in 1 .. Len(d) /\ \A j \in 1 .. Len(d) : j < k => j <= Len(c) /\ d[j] = c[j]
      BY <1>2, <2>2, <2>3, <2>5
    <3> QED
      BY ONLY <3>1, CutsAgree, s \in Seq(Char), pat \in Seq(Char), c \in Cuts(s, pat), d \in Cuts(s, pat)
  <2>6. k <= Len(c) /\ k <= Len(d) /\ c[k] <= d[k] /\ d[k] <= c[k]
    BY <2>2, <2>4, <2>5
  <2>7. c[k] \in Nat /\ d[k] \in Nat
    BY <1>2, <1>3, <2>2, <2>6
  <2> QED
    BY <2>2, <2>6, <2>7
<1>5. \A k \in Nat \ {0} : k <= Len(c) \/ k <= Len(d) => Same(k)
  BY <1>4
<1>6. Len(c) = Len(d)
  BY <1>2, <1>5
<1> QED
  BY <1>2, <1>5, <1>6

(* How far replace has moved what is behind k cuts.                          *)
Moved(pat, to, k) == k * Len(to) - k * Len(pat)

(* One cut more moves it by the difference of the lengths.                   *)
LEMMA MovedOnce ==
  ASSUME NEW pat \in Seq(Char), NEW to \in Seq(Char), NEW k \in Nat
  PROVE  /\ Moved(pat, to, k) \in Int
         /\ Moved(pat, to, k + 1) = Moved(pat, to, k) + Len(to) - Len(pat)
         /\ Moved(pat, to, 0) = 0
<1>1. PICK t \in Nat, l \in Nat : t = Len(to) /\ l = Len(pat)
  OBVIOUS
<1>2. k * t \in Int /\ k * l \in Int /\ (k + 1) * t = k * t + t /\ (k + 1) * l = k * l + l
  OBVIOUS
<1> QED
  BY <1>1, <1>2 DEF Moved

(* The text t of a replace that has come to p: behind p what s has behind q,  *)
(* before p the pieces of s and the replacements between them.               *)
Replaced(t, p, s, pat, to, c, q) ==
  /\ t \in Seq(Char) /\ p \in Nat /\ Len(t) = p + Len(s) - q
  /\ p = q + Moved(pat, to, Len(c))
  /\ \A i \in 1 .. Len(s) - q : t[p + i] = s[q + i]
  /\ \A k \in 0 .. Len(c) - 1 : \A i \in Left(c, pat, k) + 1 .. Right(s, c, k) :
       i + Moved(pat, to, k) \in 1 .. p /\ t[i + Moved(pat, to, k)] = s[i]
  /\ \A k \in 1 .. Len(c) : \A i \in 1 .. Len(to) :
       c[k] + Moved(pat, to, k - 1) + i \in 1 .. p /\ t[c[k] + Moved(pat, to, k - 1) + i] = to[i]

(* Nothing is replaced at first.                                            *)
LEMMA ReplacedStart ==
  ASSUME NEW s \in Seq(Char), NEW pat \in Seq(Char), NEW to \in Seq(Char)
  PROVE  Replaced(s, 0, s, pat, to, <<>>, 0)
<1>1. Moved(pat, to, 0) = 0
  BY MovedOnce
<1> QED
  BY <1>1 DEF Replaced

(* The pattern occurs behind p in t where it occurs behind q in s.           *)
LEMMA SameTail ==
  ASSUME NEW s \in Seq(Char), NEW pat \in Seq(Char), NEW t \in Seq(Char),
         NEW p \in Nat, NEW q \in Nat, q <= Len(s), Len(t) = p + Len(s) - q,
         \A i \in 1 .. Len(s) - q : t[p + i] = s[q + i],
         NEW j \in Nat
  PROVE  Occurs(t, pat, p + j) <=> Occurs(s, pat, q + j)
<1>0. Len(pat) \in Nat /\ Len(s) \in Nat /\ Len(t) \in Nat
  OBVIOUS
<1>1. PICK L \in Nat, m \in Nat, n \in Nat : L = Len(pat) /\ m = Len(s) /\ n = Len(t)
  BY <1>0, Zenon
<1>2. p + j + L <= n <=> q + j + L <= m
  BY <1>1
<1>3. ASSUME q + j + L <= m
      PROVE  SubSeq(t, p + j + 1, p + j + L) = SubSeq(s, q + j + 1, q + j + L)
  <2>1. p + j + L <= n
    BY <1>2, <1>3
  <2>2. \A i \in 1 .. L : t[p + j + i] = s[q + j + i]
    <3> SUFFICES ASSUME NEW i \in 1 .. L PROVE t[p + j + i] = s[q + j + i]
      OBVIOUS
    <3>1. j + i \in 1 .. Len(s) - q
      BY <1>1, <1>3
    <3>2. t[p + (j + i)] = s[q + (j + i)]
      BY <3>1
    <3> QED
      BY <3>2
  <2>3. /\ SubSeq(t, p + j + 1, p + j + L) = [i \in 1 .. L |-> t[p + j + i]]
        /\ SubSeq(s, q + j + 1, q + j + L) = [i \in 1 .. L |-> s[q + j + i]]
    BY <1>1, <1>3, <2>1
  <2> QED
    BY <2>2, <2>3
<1> QED
  BY <1>1, <1>2, <1>3 DEF Occurs

(* What a concatenation holds.                                              *)
LEMMA Joined ==
  ASSUME NEW a \in Seq(Char), NEW b \in Seq(Char)
  PROVE  /\ a \o b \in Seq(Char) /\ Len(a \o b) = Len(a) + Len(b)
         /\ \A i \in 1 .. Len(a) : (a \o b)[i] = a[i]
         /\ \A i \in 1 .. Len(b) : (a \o b)[Len(a) + i] = b[i]
<1>1. Len(a) \in Nat /\ Len(b) \in Nat /\ a \o b \in Seq(Char) /\ Len(a \o b) = Len(a) + Len(b)
  OBVIOUS
<1>2. \A i \in 1 .. Len(a) : (a \o b)[i] = a[i]
  OBVIOUS
<1>3. ASSUME NEW i \in 1 .. Len(b) PROVE (a \o b)[Len(a) + i] = b[i]
  <2>1. Len(a) + i \in 1 .. Len(a) + Len(b) /\ Len(a) + i > Len(a) /\ (Len(a) + i) - Len(a) = i
    BY <1>1
  <2> QED
    BY <1>1, <2>1
<1> QED
  BY <1>1, <1>2, <1>3

(* u is t with the characters after x, as many as pat has, replaced.         *)
IsSplice(t, x, pat, to, u) ==
  /\ u \in Seq(Char) /\ Len(u) = Len(t) - Len(pat) + Len(to)
  /\ \A i \in 1 .. x : u[i] = t[i]
  /\ \A i \in 1 .. Len(to) : u[x + i] = to[i]
  /\ \A i \in 1 .. Len(t) - x - Len(pat) : u[x + Len(to) + i] = t[x + Len(pat) + i]

(* That is what std::string::replace makes.                                 *)
LEMMA Spliced ==
  ASSUME NEW t \in Seq(Char), NEW pat \in Seq(Char), NEW to \in Seq(Char), NEW x \in Nat,
         x + Len(pat) <= Len(t),
         NEW u, u = SubSeq(t, 1, x) \o to \o SubSeq(t, x + Len(pat) + 1, Len(t))
  PROVE  IsSplice(t, x, pat, to, u)
<1>1. PICK L \in Nat, T \in Nat, n \in Nat : L = Len(pat) /\ T = Len(to) /\ n = Len(t)
  OBVIOUS
<1> DEFINE a == SubSeq(t, 1, x)
           b == SubSeq(t, x + L + 1, n)
<1>2. /\ a \in Seq(Char) /\ Len(a) = x /\ \A i \in 1 .. x : a[i] = t[i]
  BY <1>1
<1>3. /\ b \in Seq(Char) /\ Len(b) = n - x - L /\ \A i \in 1 .. n - x - L : b[i] = t[x + L + i]
  BY <1>1
<1>4. u = (a \o to) \o b
  BY <1>1
<1> HIDE DEF a, b
<1> DEFINE w == a \o to
<1>5. /\ w \in Seq(Char) /\ Len(w) = x + T
      /\ \A i \in 1 .. x : w[i] = a[i]
      /\ \A i \in 1 .. T : w[x + i] = to[i]
  BY <1>1, <1>2, Joined
<1>6. u = w \o b
  BY <1>4
<1> HIDE DEF w
<1>7. /\ u \in Seq(Char) /\ Len(u) = x + T + (n - x - L)
      /\ \A i \in 1 .. x + T : u[i] = w[i]
      /\ \A i \in 1 .. n - x - L : u[x + T + i] = b[i]
  <2>1. /\ w \o b \in Seq(Char) /\ Len(w \o b) = Len(w) + Len(b)
        /\ \A i \in 1 .. Len(w) : (w \o b)[i] = w[i]
        /\ \A i \in 1 .. Len(b) : (w \o b)[Len(w) + i] = b[i]
    BY ONLY <1>3, <1>5, Joined
  <2> QED
    BY ONLY <1>3, <1>5, <1>6, <2>1
<1>8. ASSUME NEW i \in 1 .. x PROVE u[i] = t[i]
  <2>1. i \in 1 .. x + T
    BY <1>1
  <2> QED
    BY <1>2, <1>5, <1>7, <2>1
<1>9. ASSUME NEW i \in 1 .. T PROVE u[x + i] = to[i]
  <2>1. x + i \in 1 .. x + T
    BY <1>1
  <2> QED
    BY <1>5, <1>7, <2>1
<1>10. \A i \in 1 .. n - x - L : u[x + T + i] = t[x + L + i]
  BY <1>3, <1>7
<1>11. Len(u) = n - L + T
  <2>1. x + T + (n - x - L) = n - L + T
    OBVIOUS
  <2> QED
    BY ONLY <1>7, <2>1
<1> QED
  BY ONLY <1>1, <1>7, <1>8, <1>9, <1>10, <1>11 DEF IsSplice

(* What find meets behind p in t it would meet behind q in s.                *)
LEMMA SameFind ==
  ASSUME NEW s \in Seq(Char), NEW pat \in Seq(Char), NEW to \in Seq(Char),
         NEW c, NEW q, Scanned(s, pat, c, q),
         NEW t, NEW p, Replaced(t, p, s, pat, to, c, q)
  PROVE  /\ NoneFrom(t, pat, p) => NoneFrom(s, pat, q)
         /\ \A x : FirstFrom(t, pat, p, x) =>
              /\ x \in p .. Len(t) /\ x + Len(pat) <= Len(t)
              /\ FirstFrom(s, pat, q, x - p + q)
<1>1. /\ t \in Seq(Char) /\ p \in Nat /\ q \in Nat /\ q <= Len(s) /\ Len(t) = p + Len(s) - q
      /\ \A i \in 1 .. Len(s) - q : t[p + i] = s[q + i]
  BY DEF Scanned, Replaced
<1>2. \A j \in Nat : Occurs(t, pat, p + j) <=> Occurs(s, pat, q + j)
  BY <1>1, SameTail
<1>3. PICK m \in Nat, n \in Nat : m = Len(s) /\ n = Len(t) /\ n = p + m - q /\ q <= m
  BY <1>1
<1>4. \A j \in q .. m : Occurs(t, pat, j - q + p) <=> Occurs(s, pat, j)
  <2> SUFFICES ASSUME NEW j \in q .. m PROVE Occurs(t, pat, j - q + p) <=> Occurs(s, pat, j)
    OBVIOUS
  <2>1. j - q \in Nat /\ p + (j - q) = j - q + p /\ q + (j - q) = j
    BY <1>1
  <2>2. Occurs(t, pat, p + (j - q)) <=> Occurs(s, pat, q + (j - q))
    BY <1>2, <2>1
  <2> QED
    BY <2>1, <2>2
<1>5. \A j \in q .. m : j - q + p \in p .. n
  BY <1>1, <1>3
<1>6. NoneFrom(t, pat, p) => NoneFrom(s, pat, q)
  BY <1>3, <1>4, <1>5 DEF NoneFrom
<1>7. ASSUME NEW x, FirstFrom(t, pat, p, x)
      PROVE  /\ x \in p .. Len(t) /\ x + Len(pat) <= Len(t)
             /\ FirstFrom(s, pat, q, x - p + q)
  <2>1. /\ x \in p .. n /\ Occurs(t, pat, x)
        /\ \A j \in p .. n : Occurs(t, pat, j) => x <= j
    BY <1>3, <1>7 DEF FirstFrom
  <2>2. x \in Nat /\ x - p + q \in q .. m /\ (x - p + q) - q + p = x
    BY <1>1, <1>3, <2>1
  <2>3. Occurs(s, pat, x - p + q)
    BY <1>4, <2>1, <2>2
  <2>4. ASSUME NEW j \in q .. m, Occurs(s, pat, j) PROVE x - p + q <= j
    <3>1. Occurs(t, pat, j - q + p) /\ j - q + p \in p .. n
      BY <1>4, <1>5, <2>4
    <3>2. x <= j - q + p
      BY <2>1, <3>1
    <3> QED
      BY <1>1, <2>2, <3>2
  <2>5. x + Len(pat) <= n
    BY <1>3, <2>1 DEF Occurs
  <2> QED
    BY <1>3, <2>1, <2>2, <2>3, <2>4, <2>5 DEF FirstFrom
<1> QED
  BY <1>6, <1>7

(* The length of a sequence is a number.                                    *)
LEMMA LenIsNat ==
  ASSUME NEW T, NEW y \in Seq(T)
  PROVE  Len(y) \in Nat
OBVIOUS

(* The next replacement.                                                    *)
LEMMA ReplacedStep ==
  ASSUME NEW s \in Seq(Char), NEW pat \in Seq(Char), pat # <<>>, NEW to \in Seq(Char),
         NEW c, NEW q \in Nat, Scanned(s, pat, c, q),
         NEW t, NEW p \in Nat, Replaced(t, p, s, pat, to, c, q),
         NEW x \in Nat, FirstFrom(t, pat, p, x), NEW u, IsSplice(t, x, pat, to, u)
  PROVE  \E d, r : Scanned(s, pat, d, r) /\ Replaced(u, x + Len(to), s, pat, to, d, r)
<1> DEFINE M(k) == Moved(pat, to, k)
<1>1. /\ t \in Seq(Char) /\ q <= Len(s) /\ Len(t) = p + Len(s) - q
      /\ c \in Seq(0 .. Len(s)) /\ Len(c) \in Nat
      /\ p = q + M(Len(c))
      /\ \A j \in 1 .. Len(s) - q : t[p + j] = s[q + j]
  BY SMTT(30) DEF Scanned, Replaced
<1>2. /\ x \in p .. Len(t) /\ x + Len(pat) <= Len(t) /\ FirstFrom(s, pat, q, x - p + q)
  BY SameFind
<1>4. PICK L \in Nat, T \in Nat, m \in Nat, n \in Nat, h \in Nat :
        L = Len(pat) /\ T = Len(to) /\ m = Len(s) /\ n = Len(t) /\ h = Len(c)
  BY <1>1, Zenon, LenIsNat
<1>0. n = p + m - q /\ q <= m /\ p <= x /\ x + L <= n
  <2>1. n = p + m - q /\ q <= m /\ x + L <= n /\ x \in p .. n
    BY ONLY <1>1, <1>2, <1>4, Zenon
  <2> QED
    BY ONLY <2>1, x \in Nat, p \in Nat, n \in Nat
<1>5. PICK i \in Nat : i = x - p + q /\ q <= i /\ i + L <= m
  BY <1>0
<1> DEFINE d == Append(c, i)
<1>3. /\ Scanned(s, pat, d, i + L)
      /\ \A k \in 0 .. h : Left(d, pat, k) = Left(c, pat, k)
      /\ \A k \in 0 .. h - 1 : Right(s, d, k) = Right(s, c, k)
      /\ Right(s, d, h) = i
  <2>1. FirstFrom(s, pat, q, i)
    BY ONLY <1>2, <1>5, Zenon
  <2>2. /\ Scanned(s, pat, Append(c, i), i + Len(pat))
        /\ \A k \in 0 .. Len(c) : Left(Append(c, i), pat, k) = Left(c, pat, k)
        /\ \A k \in 0 .. Len(c) - 1 : Right(s, Append(c, i), k) = Right(s, c, k)
        /\ Right(s, Append(c, i), Len(c)) = i
    BY ONLY s \in Seq(Char), pat \in Seq(Char), pat # <<>>, Scanned(s, pat, c, q), <2>1, ScanStep
  <2> QED
    BY ONLY <1>4, <2>2, Zenon
<1>6. /\ u \in Seq(Char) /\ Len(u) = n - L + T
      /\ \A j \in 1 .. x : u[j] = t[j]
      /\ \A j \in 1 .. T : u[x + j] = to[j]
      /\ \A j \in 1 .. n - x - L : u[x + T + j] = t[x + L + j]
  BY <1>4 DEF IsSplice
<1>7. PICK a \in Int : M(h) = a /\ M(h + 1) = a + T - L /\ p = q + a
  BY <1>1, <1>4, MovedOnce
<1>8. Len(d) = h + 1 /\ d[h + 1] = i /\ \A k \in 1 .. h : d[k] = c[k]
  BY <1>1, <1>4, <1>5
<1>9. Left(c, pat, h) = q
  BY <1>4 DEF Scanned
<1> HIDE DEF d, M
<1>10. x + T \in Nat /\ n - L + T = x + T + m - (i + L) /\ x + T = (i + L) + (a + T - L)
  BY <1>0, <1>5, <1>7
<1>11. ASSUME NEW j \in 1 .. m - (i + L) PROVE u[x + T + j] = s[i + L + j]
  <2>1. /\ j \in 1 .. n - x - L /\ x + L + j = p + (i - q + L + j)
        /\ i - q + L + j \in 1 .. m - q /\ q + (i - q + L + j) = i + L + j
    BY <1>0, <1>5
  <2>2. u[x + T + j] = t[x + L + j]
    BY <1>6, <2>1
  <2>3. t[p + (i - q + L + j)] = s[q + (i - q + L + j)]
    BY <1>1, <1>4, <2>1
  <2> QED
    BY <2>1, <2>2, <2>3
<1>12. ASSUME NEW k \in 0 .. h, NEW j \in Left(d, pat, k) + 1 .. Right(s, d, k)
       PROVE  j + M(k) \in 1 .. x + T /\ u[j + M(k)] = s[j]
  <2>1. CASE k = h
    <3>1. j \in q + 1 .. i
      BY <1>3, <1>9, <2>1
    <3>2. /\ j + a = p + (j - q) /\ j - q \in 1 .. m - q /\ p + (j - q) \in 1 .. x
          /\ q + (j - q) = j /\ p + (j - q) \in 1 .. x + T
      BY <1>0, <1>5, <1>7, <3>1
    <3>3. u[p + (j - q)] = t[p + (j - q)] /\ t[p + (j - q)] = s[q + (j - q)]
      BY <1>1, <1>4, <1>6, <3>2
    <3> QED
      BY <1>7, <2>1, <3>2, <3>3
  <2>2. CASE k # h
    <3>1. k \in 0 .. Len(c) - 1 /\ j \in Left(c, pat, k) + 1 .. Right(s, c, k)
      BY <1>3, <1>4, <2>2
    <3>2. j + M(k) \in 1 .. p /\ t[j + M(k)] = s[j]
      BY <3>1 DEF Replaced, M
    <3>3. \A y \in 1 .. p : y \in 1 .. x /\ y \in 1 .. x + T
      BY <1>0
    <3> QED
      BY <1>6, <3>2, <3>3
  <2> QED
    BY <2>1, <2>2
<1>13. ASSUME NEW k \in 1 .. h + 1, NEW j \in 1 .. T
       PROVE  d[k] + M(k - 1) + j \in 1 .. x + T /\ u[d[k] + M(k - 1) + j] = to[j]
  <2>1. CASE k = h + 1
    <3>1. k - 1 = h /\ d[k] = i
      BY <1>8, <2>1
    <3>2. i + a + j = x + j /\ x + j \in 1 .. x + T
      BY <1>5, <1>7
    <3> QED
      BY <1>6, <1>7, <3>1, <3>2
  <2>2. CASE k # h + 1
    <3>1. d[k] = c[k] /\ k \in 1 .. Len(c) /\ j \in 1 .. Len(to)
      BY <1>4, <1>8, <2>2
    <3>2. c[k] + M(k - 1) + j \in 1 .. p /\ t[c[k] + M(k - 1) + j] = to[j]
      BY <3>1 DEF Replaced, M
    <3>3. \A y \in 1 .. p : y \in 1 .. x /\ y \in 1 .. x + T
      BY <1>0
    <3> QED
      BY <1>6, <3>1, <3>2, <3>3
  <2> QED
    BY <2>1, <2>2
<1>14. Replaced(u, x + T, s, pat, to, d, i + L)
  <2>1. Len(d) - 1 = h
    BY <1>8
  <2>2. x + T = i + L + M(Len(d)) /\ Len(u) = x + T + m - (i + L)
    BY <1>6, <1>7, <1>8, <1>10
  <2> QED
    BY <1>4, <1>6, <1>8, <1>10, <1>11, <1>12, <1>13, <2>1, <2>2 DEF Replaced, M
<1> QED
  BY <1>3, <1>4, <1>14

(* The text that ReplaceRight asks for.                                     *)
IsReplaced(t, s, pat, to) ==
  \E c \in Cuts(s, pat) :
    /\ Len(t) = Len(s) + Moved(pat, to, Len(c))
    /\ \A k \in 0 .. Len(c) : \A i \in Left(c, pat, k) + 1 .. Right(s, c, k) :
         t[i + Moved(pat, to, k)] = s[i]
    /\ \A k \in 1 .. Len(c) : \A i \in 1 .. Len(to) :
         t[c[k] + Moved(pat, to, k - 1) + i] = to[i]

(* That is the text after the last replacement.                              *)
LEMMA ReplacedEnd ==
  ASSUME NEW s \in Seq(Char), NEW pat \in Seq(Char), NEW to \in Seq(Char),
         NEW c, NEW q \in Nat, Scanned(s, pat, c, q),
         NEW t, NEW p \in Nat, Replaced(t, p, s, pat, to, c, q), NoneFrom(t, pat, p)
  PROVE  IsReplaced(t, s, pat, to)
<1> DEFINE M(k) == Moved(pat, to, k)
<1>1. c \in Cuts(s, pat)
  BY SameFind, ScanEnd
<1>2. /\ q <= Len(s) /\ Len(t) = p + Len(s) - q
      /\ c \in Seq(0 .. Len(s)) /\ Len(c) \in Nat
      /\ p = q + M(Len(c))
      /\ \A j \in 1 .. Len(s) - q : t[p + j] = s[q + j]
  BY SMTT(30) DEF Scanned, Replaced
<1>3. PICK m \in Nat, h \in Nat : m = Len(s) /\ h = Len(c)
  BY <1>2, LenIsNat, Zenon
<1>4. PICK a \in Int : a = M(h) /\ p = q + a /\ q <= m
  BY <1>2, <1>3, MovedOnce
<1>5. Left(c, pat, h) = q /\ Right(s, c, h) = m
  BY <1>3 DEF Scanned, Right
<1> HIDE DEF M
<1>6. Len(t) = m + a
  <2>1. p + m - q = m + a
    BY <1>4
  <2> QED
    BY ONLY <1>2, <1>3, <2>1
<1>7. ASSUME NEW k \in 0 .. h, NEW i \in Left(c, pat, k) + 1 .. Right(s, c, k)
      PROVE  t[i + M(k)] = s[i]
  <2>1. CASE k = h
    <3>1. i \in q + 1 .. m
      BY <1>5, <2>1
    <3>2. i + a = p + (i - q) /\ i - q \in 1 .. m - q /\ q + (i - q) = i
      BY <1>4, <3>1
    <3>3. t[p + (i - q)] = s[q + (i - q)]
      BY <1>2, <1>3, <3>2
    <3> QED
      BY <1>4, <2>1, <3>2, <3>3
  <2>2. CASE k # h
    <3>1. k \in 0 .. Len(c) - 1
      BY <1>3, <2>2
    <3> QED
      BY <3>1 DEF Replaced, M
  <2> QED
    BY <2>1, <2>2
<1>8. \A k \in 1 .. Len(c) : \A i \in 1 .. Len(to) :
        t[c[k] + Moved(pat, to, k - 1) + i] = to[i]
  BY DEF Replaced
<1> QED
  BY <1>1, <1>3, <1>4, <1>6, <1>7, <1>8 DEF M, IsReplaced

-----------------------------------------------------------------------------
(* What the calls are about.                                                *)
LEMMA CallTypes ==
  ASSUME call \in Call
  PROVE  /\ Len(call.text) \in Nat /\ Len(call.text) <= MaxText
         /\ call.text \in Seq(Char \cup High)
         /\ call.op # "trim" => call.text \in Seq(Char)
         /\ call.op \in {"replace", "split"} => call.pat \in Seq(Char)
         /\ call.op = "replace" => call.to \in Seq(Char)
         /\ call.op = "split" => call.keep_empty \in BOOLEAN
<1>1. MaxText \in Nat /\ MaxPat \in Nat
  BY StringAssumption
<1>2. /\ call.op = "trim" => call.text \in BoundedSeq(Char \cup High, MaxText)
      /\ call.op # "trim" => call.text \in BoundedSeq(Char, MaxText)
      /\ call.op \in {"replace", "split"} => call.pat \in BoundedSeq(Char, MaxPat)
      /\ call.op = "replace" => call.to \in BoundedSeq(Char, MaxPat)
      /\ call.op = "split" => call.keep_empty \in BOOLEAN
  BY DEF Call
<1>3. CASE call.op = "trim"
  BY <1>1, <1>2, <1>3, BoundedIsSeq
<1>4. CASE call.op # "trim"
  <2>1. call.text \in Seq(Char) /\ Len(call.text) \in Nat /\ Len(call.text) <= MaxText
    BY <1>1, <1>2, <1>4, BoundedIsSeq
  <2>2. call.text \in Seq(Char \cup High)
    BY <2>1
  <2> QED
    BY <1>1, <1>2, <1>4, <2>1, <2>2, BoundedIsSeq
<1> QED
  BY <1>3, <1>4

ReplaceInv ==
  call.op = "replace" =>
    /\ text \in Seq(Char) /\ Len(text) < NPOS /\ pos \in 0 .. Len(text)
    /\ call.pat = <<>> => ~done
    /\ (call.pat # <<>> /\ done) => IsReplaced(text, call.text, call.pat, call.to)
    /\ (call.pat # <<>> /\ ~done) =>
         \E c, q : /\ Scanned(call.text, call.pat, c, q)
                   /\ Replaced(text, pos, call.text, call.pat, call.to, c, q)

(* It holds of every call that begins.                                      *)
LEMMA ReplaceBegins ==
  ASSUME StringInit
  PROVE  ReplaceInv
<1> SUFFICES ASSUME call.op = "replace" PROVE ReplaceInv
  BY DEF ReplaceInv
<1>1. /\ call \in Call /\ text = call.text /\ pos = 0 /\ done = FALSE
  BY DEF StringInit
<1>2. /\ call.text \in Seq(Char) /\ call.pat \in Seq(Char) /\ call.to \in Seq(Char)
      /\ Len(call.text) \in Nat /\ Len(call.text) <= MaxText
  BY <1>1, CallTypes
<1>3. Len(call.text) < NPOS /\ 0 \in 0 .. Len(call.text)
  BY <1>2, StringAssumption DEF NPOS
<1>4. /\ Scanned(call.text, call.pat, <<>>, 0)
      /\ Replaced(call.text, 0, call.text, call.pat, call.to, <<>>, 0)
  BY <1>2, ScanStart, ReplacedStart
<1> QED
  BY <1>1, <1>2, <1>3, <1>4 DEF ReplaceInv

(* find at a place in the text gives a place behind it, or npos if there is   *)
(* none; an empty pattern is found at once.                                  *)
LEMMA FindFrom ==
  ASSUME NEW s \in Seq(Char), NEW pat \in Seq(Char), NEW from \in 0 .. Len(s), Len(s) < NPOS,
         NPOS \in Nat, NEW p, p = Find(s, pat, from)
  PROVE  /\ p = NPOS => NoneFrom(s, pat, from)
         /\ p # NPOS => FirstFrom(s, pat, from, p) /\ p \in Nat
         /\ pat = <<>> => p = from
<1>1. from \in Nat /\ Len(s) \in Nat
  OBVIOUS
<1>2. \/ p = NPOS /\ \A i \in from .. Len(s) : ~Occurs(s, pat, i)
      \/ /\ p \in from .. Len(s) /\ Occurs(s, pat, p)
         /\ \A i \in from .. Len(s) : Occurs(s, pat, i) => p <= i
  BY <1>1, FindFirst
<1>3. p \in from .. Len(s) => p # NPOS /\ p \in Nat
  BY <1>1
<1>4. pat = <<>> => Occurs(s, pat, from)
  BY <1>1 DEF Occurs
<1>5. pat = <<>> => p = from
  <2> SUFFICES ASSUME pat = <<>> PROVE p = from
    OBVIOUS
  <2>1. p \in from .. Len(s) /\ p <= from
    BY <1>1, <1>2, <1>4
  <2> QED
    BY <1>1, <2>1
<1> QED
  BY <1>2, <1>3, <1>5 DEF NoneFrom, FirstFrom

(* A step of replace's loop keeps it.                                       *)
LEMMA ReplaceKeeps ==
  ASSUME call \in Call, ReplaceInv, ReplaceStep
  PROVE  ReplaceInv'
<1> DEFINE p == Find(text, call.pat, pos)
<1>1. /\ call.op = "replace" /\ ~done
      /\ call' = call
      /\ \/ p = NPOS /\ done' = TRUE /\ text' = text /\ pos' = pos
         \/ /\ p # NPOS /\ Len(text) + Len(call.to) <= MaxLen
            /\ text' = SubSeq(text, 1, p) \o call.to \o SubSeq(text, p + Len(call.pat) + 1, Len(text))
            /\ pos' = p + Len(call.to)
            /\ done' = done
  BY DEF ReplaceStep, Resume
<1>2. /\ call.text \in Seq(Char) /\ call.pat \in Seq(Char) /\ call.to \in Seq(Char)
  BY <1>1, CallTypes
<1>3. /\ text \in Seq(Char) /\ Len(text) < NPOS /\ pos \in 0 .. Len(text) /\ pos \in Nat
      /\ NPOS \in Nat /\ MaxLen < NPOS /\ MaxLen \in Nat
  BY <1>1, StringAssumption DEF ReplaceInv, NPOS
<1>4. /\ p = NPOS => NoneFrom(text, call.pat, pos)
      /\ p # NPOS => FirstFrom(text, call.pat, pos, p) /\ p \in Nat
      /\ call.pat = <<>> => p = pos
  <2> HIDE DEF p
  <2>1. p = Find(text, call.pat, pos)
    BY DEF p
  <2> QED
    BY ONLY <1>2, <1>3, <2>1, FindFrom
<1> HIDE DEF p
<1>5. CASE p = NPOS
  <2>1. done' = TRUE /\ text' = text /\ pos' = pos
    BY <1>1, <1>5
  <2>2. call.pat # <<>>
    BY <1>3, <1>4, <1>5
  <2>3. PICK c, q : /\ Scanned(call.text, call.pat, c, q)
                    /\ Replaced(text, pos, call.text, call.pat, call.to, c, q)
    BY <1>1, <2>2 DEF ReplaceInv
  <2>4. q \in Nat
    BY <2>3 DEF Scanned
  <2>5. IsReplaced(text, call.text, call.pat, call.to)
    BY ONLY <1>2, <1>3, <1>4, <1>5, <2>3, <2>4, ReplacedEnd
  <2> QED
    BY <1>1, <1>3, <2>1, <2>2, <2>5 DEF ReplaceInv
<1>6. CASE p # NPOS
  <2>1. /\ p \in Nat /\ FirstFrom(text, call.pat, pos, p) /\ Len(text) + Len(call.to) <= MaxLen
        /\ text' = SubSeq(text, 1, p) \o call.to \o SubSeq(text, p + Len(call.pat) + 1, Len(text))
        /\ pos' = p + Len(call.to) /\ done' = done
    BY <1>1, <1>4, <1>6
  <2>2. p + Len(call.pat) <= Len(text)
    BY <2>1 DEF FirstFrom, Occurs
  <2>3. IsSplice(text, p, call.pat, call.to, text')
    BY ONLY <1>2, <1>3, <2>1, <2>2, Spliced
  <2>4. PICK L \in Nat, T \in Nat, n \in Nat : L = Len(call.pat) /\ T = Len(call.to) /\ n = Len(text)
    BY <1>2, <1>3, LenIsNat, Zenon
  <2>5. text' \in Seq(Char) /\ Len(text') = n - L + T /\ pos' = p + T
    BY <2>1, <2>3, <2>4 DEF IsSplice
  <2>6. n - L + T < NPOS /\ p + T \in 0 .. n - L + T
    <3>1. p + L <= n /\ n + T <= MaxLen
      BY ONLY <2>1, <2>2, <2>4, Zenon
    <3>2. p \in Nat /\ MaxLen < NPOS /\ MaxLen \in Nat /\ NPOS \in Nat
      BY <1>3, <2>1
    <3> QED
      BY ONLY <3>1, <3>2, L \in Nat, T \in Nat, n \in Nat
  <2>7. ASSUME call.pat # <<>>
        PROVE  \E d, r : /\ Scanned(call.text, call.pat, d, r)
                         /\ Replaced(text', pos', call.text, call.pat, call.to, d, r)
    <3>1. PICK c, q : /\ Scanned(call.text, call.pat, c, q)
                      /\ Replaced(text, pos, call.text, call.pat, call.to, c, q)
      BY <1>1, <2>7 DEF ReplaceInv
    <3>2. q \in Nat
      BY <3>1 DEF Scanned
    <3>3. \E d, r : /\ Scanned(call.text, call.pat, d, r)
                    /\ Replaced(text', p + Len(call.to), call.text, call.pat, call.to, d, r)
      BY ONLY <1>2, <1>3, <2>1, <2>3, <2>7, <3>1, <3>2, ReplacedStep
    <3> QED
      BY <2>1, <3>3
  <2> QED
    BY <1>1, <2>1, <2>5, <2>6, <2>7 DEF ReplaceInv, NPOS
<1> QED
  BY <1>5, <1>6

(* ReplaceInv is more than ReplaceRight.                                    *)
LEMMA ReplaceInvRight == ReplaceInv => ReplaceRight
BY DEF ReplaceInv, ReplaceRight, IsReplaced, Moved

-----------------------------------------------------------------------------
(* The tokens tk are the pieces around the cuts c whose numbers are in K, in  *)
(* their order.                                                             *)
Listed(tk, s, pat, c, K) ==
  \E f \in [1 .. Len(tk) -> K] :
    /\ \A i, j \in 1 .. Len(tk) : i < j => f[i] < f[j]
    /\ K = {f[i] : i \in 1 .. Len(tk)}
    /\ \A i \in 1 .. Len(tk) : tk[i] = Piece(s, pat, c, f[i])

(* One piece more.                                                          *)
LEMMA ListedAppend ==
  ASSUME NEW tk \in Seq(Seq(Char)), NEW s, NEW pat, NEW c, NEW h \in Nat,
         NEW K \in SUBSET (0 .. h - 1), Listed(tk, s, pat, c, K),
         NEW token \in Seq(Char), token = Piece(s, pat, c, h)
  PROVE  Listed(Append(tk, token), s, pat, c, K \cup {h})
<1>1. PICK f \in [1 .. Len(tk) -> K] :
        /\ \A i, j \in 1 .. Len(tk) : i < j => f[i] < f[j]
        /\ K = {f[i] : i \in 1 .. Len(tk)}
        /\ \A i \in 1 .. Len(tk) : tk[i] = Piece(s, pat, c, f[i])
  BY DEF Listed
<1>2. PICK n \in Nat : n = Len(tk)
  BY LenIsNat, Zenon
<1> DEFINE tl == Append(tk, token)
           g == [i \in 1 .. n + 1 |-> IF i = n + 1 THEN h ELSE f[i]]
<1>3. Len(tl) = n + 1 /\ tl[n + 1] = token /\ \A i \in 1 .. n : tl[i] = tk[i]
  BY <1>2
<1>4. \A i \in 1 .. n + 1 : i = n + 1 \/ i \in 1 .. n
  OBVIOUS
<1>5. g[n + 1] = h /\ \A i \in 1 .. n : g[i] = f[i] /\ f[i] \in K /\ f[i] \in Nat /\ f[i] < h
  <2>1. \A i \in 1 .. n : f[i] \in K
    BY <1>2
  <2>2. \A y \in K : y \in Nat /\ y < h
    OBVIOUS
  <2>3. \A i \in 1 .. n : i \in 1 .. n + 1 /\ i # n + 1
    OBVIOUS
  <2>4. n + 1 \in 1 .. n + 1
    OBVIOUS
  <2>5. g[n + 1] = h
    BY <2>4, Zenon
  <2>6. \A i \in 1 .. n : g[i] = f[i]
    BY <2>3, Zenon
  <2> HIDE DEF g
  <2> QED
    BY <2>1, <2>2, <2>5, <2>6, Zenon
<1>6. g \in [1 .. n + 1 -> K \cup {h}]
  BY <1>2, <1>4
<1> HIDE DEF g, tl
<1>7. ASSUME NEW i \in 1 .. n + 1, NEW j \in 1 .. n + 1, i < j PROVE g[i] < g[j]
  <2>1. i \in 1 .. n
    BY <1>7
  <2>2. CASE j = n + 1
    BY <1>5, <2>1, <2>2
  <2>3. CASE j \in 1 .. n
    <3>1. f[i] < f[j]
      BY <1>1, <1>2, <1>7, <2>1, <2>3
    <3> QED
      BY <1>5, <2>1, <2>3, <3>1
  <2> QED
    BY <1>4, <2>2, <2>3
<1>8. K \cup {h} = {g[i] : i \in 1 .. n + 1}
  <2>1. ASSUME NEW y \in K \cup {h} PROVE \E i \in 1 .. n + 1 : y = g[i]
    <3>1. CASE y = h
      BY <1>5, <3>1
    <3>2. CASE y \in K
      <4>1. PICK i \in 1 .. n : y = f[i]
        BY <1>1, <1>2, <3>2
      <4> QED
        BY <1>5, <4>1
    <3> QED
      BY <3>1, <3>2
  <2>2. \A i \in 1 .. n + 1 : g[i] \in K \cup {h}
    BY <1>6
  <2> QED
    BY <2>1, <2>2
<1>9. ASSUME NEW i \in 1 .. n + 1 PROVE tl[i] = Piece(s, pat, c, g[i])
  <2>1. CASE i = n + 1
    BY <1>3, <1>5, <2>1
  <2>2. CASE i \in 1 .. n
    BY <1>1, <1>2, <1>3, <1>5, <2>2
  <2> QED
    BY <1>4, <2>1, <2>2
<1>10. Listed(tl, s, pat, c, K \cup {h})
  BY <1>3, <1>6, <1>7, <1>8, <1>9 DEF Listed
<1> QED
  BY <1>10 DEF tl

(* Cuts with the same pieces.                                               *)
LEMMA ListedSame ==
  ASSUME NEW tk, NEW s, NEW pat, NEW c, NEW d, NEW K, Listed(tk, s, pat, c, K),
         \A k \in K : Piece(s, pat, c, k) = Piece(s, pat, d, k)
  PROVE  Listed(tk, s, pat, d, K)
<1>1. PICK f \in [1 .. Len(tk) -> K] :
        /\ \A i, j \in 1 .. Len(tk) : i < j => f[i] < f[j]
        /\ K = {f[i] : i \in 1 .. Len(tk)}
        /\ \A i \in 1 .. Len(tk) : tk[i] = Piece(s, pat, c, f[i])
  BY DEF Listed
<1>2. \A i \in 1 .. Len(tk) : tk[i] = Piece(s, pat, d, f[i])
  BY <1>1
<1> QED
  BY <1>1, <1>2 DEF Listed

(* The numbers of the first h pieces that are wanted, and of all of them.     *)
Wanted(s, pat, c, keep, h) == {k \in 0 .. h - 1 : Piece(s, pat, c, k) # <<>> \/ keep}
AllWanted(s, pat, c, keep) ==
  {k \in 0 .. Len(c) : Piece(s, pat, c, k) # <<>> \/ (keep /\ k < Len(c))}

(* The tokens that SplitRight asks for.                                     *)
IsSplit(tk, s, pat, keep) ==
  \E c \in Cuts(s, pat) : Listed(tk, s, pat, c, AllWanted(s, pat, c, keep))

(* tl is tk with the token, if it is wanted.                                *)
Taken(tk, token, keep, tl) == tl = IF token # <<>> \/ keep THEN Append(tk, token) ELSE tk

(* A part of a text is a text, and a list with a text more is a list.         *)
LEMMA TokenTypes ==
  /\ \A s \in Seq(Char) : \A a, b \in Nat : b <= Len(s) => SubSeq(s, a + 1, b) \in Seq(Char)
  /\ \A tk \in Seq(Seq(Char)) : \A token \in Seq(Char) : Append(tk, token) \in Seq(Seq(Char))
OBVIOUS

(* The next delimiter is found at i.                                        *)
LEMMA SplitGoesOn ==
  ASSUME NEW s \in Seq(Char), NEW pat \in Seq(Char), pat # <<>>, NEW keep \in BOOLEAN,
         NEW c, NEW q \in Nat, Scanned(s, pat, c, q),
         NEW tk \in Seq(Seq(Char)), Listed(tk, s, pat, c, Wanted(s, pat, c, keep, Len(c))),
         NEW i \in Nat, FirstFrom(s, pat, q, i),
         NEW tl, Taken(tk, SubSeq(s, q + 1, i), keep, tl)
  PROVE  /\ \E d : /\ Scanned(s, pat, d, i + Len(pat))
                   /\ Listed(tl, s, pat, d, Wanted(s, pat, d, keep, Len(d)))
         /\ i < Len(s) /\ i + Len(pat) <= Len(s)
         /\ i + Len(pat) = Len(s) => IsSplit(tl, s, pat, keep)
<1> DEFINE d == Append(c, i)
           token == SubSeq(s, q + 1, i)
<1>1. PICK L \in Nat, m \in Nat, h \in Nat : L = Len(pat) /\ m = Len(s) /\ h = Len(c)
  BY LenIsNat, Zenon DEF Scanned
<1>2. L >= 1
  BY <1>1
<1>3. /\ Scanned(s, pat, d, i + L)
      /\ \A k \in 0 .. h : Left(d, pat, k) = Left(c, pat, k)
      /\ \A k \in 0 .. h - 1 : Right(s, d, k) = Right(s, c, k)
      /\ Right(s, d, h) = i
  <2>1. /\ Scanned(s, pat, Append(c, i), i + Len(pat))
        /\ \A k \in 0 .. Len(c) : Left(Append(c, i), pat, k) = Left(c, pat, k)
        /\ \A k \in 0 .. Len(c) - 1 : Right(s, Append(c, i), k) = Right(s, c, k)
        /\ Right(s, Append(c, i), Len(c)) = i
    BY ONLY s \in Seq(Char), pat \in Seq(Char), pat # <<>>, Scanned(s, pat, c, q),
            FirstFrom(s, pat, q, i), ScanStep
  <2> QED
    BY ONLY <1>1, <2>1, Zenon
<1>4. Len(d) = h + 1
  BY <1>1 DEF Scanned
<1>5. i + L <= m /\ i < m
  <2>1. i + L <= m
    BY <1>1 DEF FirstFrom, Occurs
  <2> QED
    BY <1>2, <2>1
<1>6. token \in Seq(Char) /\ q <= i /\ i <= m
  <2>1. i \in q .. m
    BY <1>1 DEF FirstFrom
  <2> QED
    BY <1>1, <2>1
<1>7. Piece(s, pat, d, h) = token
  <2>1. Left(c, pat, h) = q
    BY <1>1 DEF Scanned
  <2>2. Left(d, pat, h) = q
    <3>1. h \in 0 .. h
      OBVIOUS
    <3> QED
      BY ONLY <1>3, <2>1, <3>1, Zenon
  <2> QED
    BY ONLY <1>3, <2>2, Zenon DEF Piece
<1>8. \A k \in 0 .. h - 1 : Piece(s, pat, d, k) = Piece(s, pat, c, k)
  <2>1. \A k \in 0 .. h - 1 : k \in 0 .. h
    OBVIOUS
  <2> QED
    BY <1>3, <2>1 DEF Piece
<1> HIDE DEF d, token
<1> DEFINE K == Wanted(s, pat, c, keep, h)
<1>9. K = Wanted(s, pat, d, keep, h) /\ K \subseteq 0 .. h - 1
  BY <1>8 DEF Wanted
<1>10. Wanted(s, pat, d, keep, h + 1) = IF token # <<>> \/ keep THEN K \cup {h} ELSE K
  <2>1. \A k : k \in 0 .. (h + 1) - 1 <=> k \in 0 .. h - 1 \/ k = h
    OBVIOUS
  <2>2. \A k : k \in Wanted(s, pat, d, keep, h + 1) <=>
               k \in 0 .. (h + 1) - 1 /\ (Piece(s, pat, d, k) # <<>> \/ keep)
    BY Zenon DEF Wanted
  <2>3. \A k : k \in K <=> k \in 0 .. h - 1 /\ (Piece(s, pat, d, k) # <<>> \/ keep)
    BY <1>9, Zenon DEF Wanted
  <2>4. \A k : k \in Wanted(s, pat, d, keep, h + 1) <=> k \in K \/ (k = h /\ (token # <<>> \/ keep))
    BY <1>7, <2>1, <2>2, <2>3, Zenon
  <2> HIDE DEF K
  <2> QED
    BY <2>4, Zenon
<1>11. Listed(tk, s, pat, d, K)
  <2>1. Listed(tk, s, pat, c, K)
    BY <1>1
  <2>2. \A k \in K : Piece(s, pat, c, k) = Piece(s, pat, d, k)
    BY <1>8, <1>9
  <2> HIDE DEF K
  <2> QED
    BY <2>1, <2>2, ListedSame
<1> HIDE DEF K
<1>12. Listed(tl, s, pat, d, Wanted(s, pat, d, keep, h + 1))
  <2>1. CASE token # <<>> \/ keep
    <3>1. Listed(Append(tk, token), s, pat, d, K \cup {h})
      BY ONLY <1>1, <1>6, <1>7, <1>9, <1>11, tk \in Seq(Seq(Char)), h \in Nat, ListedAppend
    <3>2. tl = Append(tk, token)
      BY <2>1 DEF token, Taken
    <3> QED
      BY <1>10, <2>1, <3>1, <3>2
  <2>2. CASE ~(token # <<>> \/ keep)
    <3>1. tl = tk
      BY <2>2 DEF token, Taken
    <3> QED
      BY <1>10, <1>11, <2>2, <3>1
  <2> QED
    BY <2>1, <2>2
<1>13. ASSUME i + L = m PROVE IsSplit(tl, s, pat, keep)
  <2>1. NoneFrom(s, pat, i + L)
    <3> SUFFICES ASSUME NEW j \in m .. m, Occurs(s, pat, j) PROVE FALSE
      BY <1>1, <1>13 DEF NoneFrom
    <3>1. j + L <= m
      BY <1>1 DEF Occurs
    <3> QED
      BY <1>2, <3>1
  <2>2. d \in Cuts(s, pat)
    BY ONLY s \in Seq(Char), pat \in Seq(Char), <1>3, <2>1, ScanEnd
  <2>3. Piece(s, pat, d, h + 1) = <<>>
    <3>1. Left(d, pat, h + 1) = m /\ Right(s, d, h + 1) = m
      BY <1>1, <1>3, <1>4, <1>13 DEF Scanned, Right
    <3> QED
      BY <1>1, <3>1 DEF Piece
  <2>4. AllWanted(s, pat, d, keep) = Wanted(s, pat, d, keep, h + 1)
    <3>1. \A k : k \in 0 .. h + 1 <=> k \in 0 .. (h + 1) - 1 \/ k = h + 1
      OBVIOUS
    <3>2. \A k \in 0 .. (h + 1) - 1 : k < h + 1
      OBVIOUS
    <3>3. ~(h + 1 < h + 1)
      OBVIOUS
    <3> QED
      BY <1>4, <2>3, <3>1, <3>2, <3>3, Zenon DEF AllWanted, Wanted
  <2> QED
    BY <1>12, <2>2, <2>4 DEF IsSplit
<1> QED
  BY <1>1, <1>3, <1>4, <1>5, <1>12, <1>13 DEF d

(* There is no delimiter any more.                                          *)
LEMMA SplitEnds ==
  ASSUME NEW s \in Seq(Char), NEW pat \in Seq(Char), NEW keep \in BOOLEAN,
         NEW c, NEW q \in Nat, Scanned(s, pat, c, q), q < Len(s), NoneFrom(s, pat, q),
         NEW tk \in Seq(Seq(Char)), Listed(tk, s, pat, c, Wanted(s, pat, c, keep, Len(c)))
  PROVE  /\ SubSeq(s, q + 1, Len(s)) # <<>>
         /\ IsSplit(Append(tk, SubSeq(s, q + 1, Len(s))), s, pat, keep)
<1> DEFINE token == SubSeq(s, q + 1, Len(s))
<1>1. PICK m \in Nat, h \in Nat : m = Len(s) /\ h = Len(c)
  BY LenIsNat, Zenon DEF Scanned
<1>2. token \in Seq(Char) /\ token # <<>>
  <2>1. q < m
    BY ONLY <1>1, q < Len(s), Zenon
  <2>2. SubSeq(s, q + 1, m) \in Seq(Char) /\ Len(SubSeq(s, q + 1, m)) = m - q
    BY ONLY <1>1, <2>1, s \in Seq(Char), q \in Nat, m \in Nat
  <2>3. token \in Seq(Char) /\ Len(token) = m - q
    BY ONLY <1>1, <2>2, Zenon
  <2> HIDE DEF token
  <2> QED
    BY ONLY <2>1, <2>3, q \in Nat, m \in Nat
<1>3. c \in Cuts(s, pat)
  BY ONLY s \in Seq(Char), pat \in Seq(Char), Scanned(s, pat, c, q), NoneFrom(s, pat, q), ScanEnd
<1>4. Piece(s, pat, c, h) = token
  BY <1>1 DEF Scanned, Piece, Right
<1> HIDE DEF token
<1> DEFINE K == Wanted(s, pat, c, keep, h)
<1>5. K \subseteq 0 .. h - 1
  BY DEF Wanted
<1>6. AllWanted(s, pat, c, keep) = K \cup {h}
  <2>1. \A k : k \in 0 .. h <=> k \in 0 .. h - 1 \/ k = h
    OBVIOUS
  <2>2. \A k \in 0 .. h - 1 : k < h
    OBVIOUS
  <2> QED
    BY <1>1, <1>2, <1>4, <2>1, <2>2, Zenon DEF AllWanted, Wanted
<1>7. Listed(tk, s, pat, c, K)
  BY <1>1
<1> HIDE DEF K
<1>8. Listed(Append(tk, token), s, pat, c, K \cup {h})
  BY ONLY <1>2, <1>4, <1>5, <1>7, tk \in Seq(Seq(Char)), h \in Nat, ListedAppend
<1> QED
  BY <1>2, <1>3, <1>6, <1>8 DEF IsSplit, token

SplitInv ==
  call.op = "split" =>
    /\ text = call.text /\ tokens \in Seq(Seq(Char))
    /\ call.text = <<>> => tokens = <<>>
    /\ (call.text # <<>> /\ call.pat = <<>>) => ~done /\ pos = 0
    /\ (call.text # <<>> /\ call.pat # <<>> /\ done) =>
         IsSplit(tokens, call.text, call.pat, call.keep_empty)
    /\ (call.text # <<>> /\ call.pat # <<>> /\ ~done) =>
         /\ pos \in Nat /\ pos < Len(call.text)
         /\ \E c : /\ Scanned(call.text, call.pat, c, pos)
                   /\ Listed(tokens, call.text, call.pat, c,
                             Wanted(call.text, call.pat, c, call.keep_empty, Len(c)))

(* It holds of every call that begins.                                      *)
LEMMA SplitBegins ==
  ASSUME StringInit
  PROVE  SplitInv
<1> SUFFICES ASSUME call.op = "split" PROVE SplitInv
  BY DEF SplitInv
<1>1. /\ call \in Call /\ text = call.text /\ pos = 0 /\ done = FALSE /\ tokens = <<>>
  BY DEF StringInit
<1>2. call.text \in Seq(Char) /\ call.pat \in Seq(Char)
  BY <1>1, CallTypes
<1>3. call.text # <<>> => 0 \in Nat /\ 0 < Len(call.text)
  BY <1>2
<1>4. Scanned(call.text, call.pat, <<>>, 0)
  BY <1>2, ScanStart
<1>5. Listed(<<>>, call.text, call.pat, <<>>, Wanted(call.text, call.pat, <<>>, call.keep_empty, Len(<<>>)))
  <2>1. Wanted(call.text, call.pat, <<>>, call.keep_empty, Len(<<>>)) = {}
    BY DEF Wanted
  <2>2. <<>> \in [1 .. Len(<<>>) -> {}] /\ 1 .. Len(<<>>) = {}
    OBVIOUS
  <2>3. {} = {<<>>[i] : i \in 1 .. Len(<<>>)}
    BY <2>2
  <2> QED
    BY <2>1, <2>2, <2>3 DEF Listed
<1>6. <<>> \in Seq(Seq(Char))
  OBVIOUS
<1> QED
  BY <1>1, <1>3, <1>4, <1>5, <1>6 DEF SplitInv

(* A step of split's loop keeps it.                                         *)
LEMMA SplitKeeps ==
  ASSUME call \in Call, SplitInv, SplitStep
  PROVE  SplitInv'
<1> DEFINE found == Find(text, call.pat, pos)
           p == IF found = NPOS THEN Len(text) ELSE found
           token == SubSeq(text, pos + 1, p)
           next == p + Len(call.pat)
<1>1. /\ call.op = "split" /\ ~done /\ call' = call /\ text' = text
      /\ text = <<>> => tokens' = tokens
      /\ text # <<>> =>
           /\ tokens' = IF token # <<>> \/ call.keep_empty THEN Append(tokens, token) ELSE tokens
           /\ pos' = next
           /\ done' = ~(p < Len(text) /\ next < Len(text))
  BY DEF SplitStep, More
<1>2. /\ call.text \in Seq(Char) /\ call.pat \in Seq(Char) /\ call.keep_empty \in BOOLEAN
      /\ Len(call.text) \in Nat /\ Len(call.text) < NPOS /\ NPOS \in Nat
  BY <1>1, CallTypes, StringAssumption DEF NPOS
<1>3. text = call.text /\ tokens \in Seq(Seq(Char))
  BY <1>1 DEF SplitInv
<1>4. CASE call.text = <<>>
  BY <1>1, <1>3, <1>4 DEF SplitInv
<1>5. ASSUME call.text # <<>>, pos \in 0 .. Len(text)
      PROVE  /\ found = NPOS => NoneFrom(text, call.pat, pos)
             /\ found # NPOS => FirstFrom(text, call.pat, pos, found) /\ found \in Nat
             /\ call.pat = <<>> => found = pos
  <2>1. found = Find(text, call.pat, pos)
    OBVIOUS
  <2> HIDE DEF found
  <2> QED
    BY ONLY <1>2, <1>3, <1>5, <2>1, FindFrom
<1>6. CASE call.text # <<>> /\ call.pat = <<>>
  <2>1. pos = 0 /\ pos \in 0 .. Len(text) /\ 0 < Len(text)
    BY <1>1, <1>2, <1>3, <1>6 DEF SplitInv
  <2>2. found = 0
    BY <1>5, <1>6, <2>1
  <2> HIDE DEF found
  <2>3. p = 0 /\ next = 0
    BY <1>2, <1>3, <1>6, <2>1, <2>2
  <2>4. token = <<>>
    BY <1>2, <1>3, <2>1, <2>3
  <2> HIDE DEF token, next, p
  <2>5. pos' = 0 /\ done' = FALSE
    BY <1>1, <1>3, <1>6, <2>1, <2>3
  <2>6. tokens' \in Seq(Seq(Char))
    <3>1. <<>> \in Seq(Char)
      OBVIOUS
    <3> QED
      BY ONLY <1>1, <1>3, <1>6, <2>4, <3>1, TokenTypes, Zenon
  <2> QED
    BY <1>1, <1>3, <1>6, <2>5, <2>6 DEF SplitInv
<1>7. CASE call.text # <<>> /\ call.pat # <<>>
  <2>1. pos \in Nat /\ pos < Len(call.text) /\ pos \in 0 .. Len(text)
    BY <1>1, <1>2, <1>3, <1>7 DEF SplitInv
  <2>2. PICK c : /\ Scanned(call.text, call.pat, c, pos)
                 /\ Listed(tokens, call.text, call.pat, c,
                           Wanted(call.text, call.pat, c, call.keep_empty, Len(c)))
    BY <1>1, <1>7 DEF SplitInv
  <2>3. /\ found = NPOS => NoneFrom(call.text, call.pat, pos)
        /\ found # NPOS => FirstFrom(call.text, call.pat, pos, found) /\ found \in Nat
    BY <1>3, <1>5, <1>7, <2>1
  <2> HIDE DEF found
  <2>4. CASE found = NPOS
    <3>1. p = Len(call.text) /\ token = SubSeq(call.text, pos + 1, Len(call.text))
      BY <1>3, <2>4
    <3>2. /\ SubSeq(call.text, pos + 1, Len(call.text)) # <<>>
          /\ IsSplit(Append(tokens, SubSeq(call.text, pos + 1, Len(call.text))),
                     call.text, call.pat, call.keep_empty)
      BY ONLY <1>2, <1>3, <2>1, <2>2, <2>3, <2>4, SplitEnds
    <3>3. token \in Seq(Char)
      <4>1. Len(call.text) <= Len(call.text)
        BY <1>2
      <4> QED
        BY ONLY <1>2, <2>1, <3>1, <4>1, TokenTypes
    <3> HIDE DEF token, next, p
    <3>4. tokens' = Append(tokens, token) /\ done' = TRUE
      <4>1. ~(Len(call.text) < Len(call.text))
        BY <1>2
      <4>2. token # <<>>
        BY ONLY <3>1, <3>2, Zenon
      <4> QED
        BY ONLY <1>1, <1>3, <1>7, <3>1, <4>1, <4>2, Zenon
    <3>5. tokens' \in Seq(Seq(Char))
      BY ONLY <1>3, <3>3, <3>4, TokenTypes, Zenon
    <3>6. IsSplit(tokens', call.text, call.pat, call.keep_empty)
      BY ONLY <3>1, <3>2, <3>4, Zenon
    <3> QED
      BY <1>1, <1>3, <1>7, <3>4, <3>5, <3>6 DEF SplitInv
  <2>5. CASE found # NPOS
    <3>1. p = found /\ token = SubSeq(call.text, pos + 1, found) /\ next = found + Len(call.pat)
      BY <1>3, <2>5
    <3>2. Taken(tokens, SubSeq(call.text, pos + 1, found), call.keep_empty, tokens')
      <4>1. tokens' = IF token # <<>> \/ call.keep_empty THEN Append(tokens, token) ELSE tokens
        BY ONLY <1>1, <1>3, <1>7
      <4> HIDE DEF token
      <4> QED
        BY ONLY <3>1, <4>1, Zenon DEF Taken
    <3> HIDE DEF token, next, p
    <3>3. /\ \E d : /\ Scanned(call.text, call.pat, d, found + Len(call.pat))
                    /\ Listed(tokens', call.text, call.pat, d,
                              Wanted(call.text, call.pat, d, call.keep_empty, Len(d)))
          /\ found < Len(call.text) /\ found + Len(call.pat) <= Len(call.text)
          /\ found + Len(call.pat) = Len(call.text) =>
               IsSplit(tokens', call.text, call.pat, call.keep_empty)
      BY ONLY <1>2, <1>3, <1>7, <2>1, <2>2, <2>3, <2>5, <3>2, SplitGoesOn
    <3>4. /\ pos' = found + Len(call.pat) /\ pos' \in Nat /\ pos' <= Len(call.text)
          /\ done' <=> pos' = Len(call.text)
      <4>1. PICK L \in Nat : L = Len(call.pat)
        BY <1>2, LenIsNat, Zenon
      <4>2. /\ found + L \in Nat
            /\ (~(found < Len(call.text) /\ found + L < Len(call.text))
                  <=> found + L = Len(call.text))
        <5>1. PICK f \in Nat, n \in Nat : f = found /\ n = Len(call.text)
          BY <1>2, <2>3, <2>5, LenIsNat
        <5>2. f < n /\ f + L <= n
          BY ONLY <3>3, <4>1, <5>1, Zenon
        <5>3. f + L \in Nat /\ (~(f < n /\ f + L < n) <=> f + L = n)
          BY ONLY <5>2, f \in Nat, n \in Nat, L \in Nat
        <5> QED
          BY ONLY <5>1, <5>3, Zenon
      <4> QED
        BY ONLY <1>1, <1>3, <1>7, <3>1, <3>3, <4>1, <4>2, Zenon
    <3>5. tokens' \in Seq(Seq(Char))
      <4>1. SubSeq(call.text, pos + 1, found) \in Seq(Char)
        <5>1. found <= Len(call.text)
          BY <1>2, <2>3, <2>5, <3>3
        <5> QED
          BY ONLY <1>2, <2>1, <2>3, <2>5, <5>1, TokenTypes
      <4> QED
        BY ONLY <1>3, <3>2, <4>1, TokenTypes, Zenon DEF Taken
    <3>6. ~done' => pos' < Len(call.text)
      BY <1>2, <3>4
    <3> QED
      BY <1>1, <1>3, <1>7, <3>3, <3>4, <3>5, <3>6 DEF SplitInv
  <2> QED
    BY <2>4, <2>5
<1> QED
  BY <1>4, <1>6, <1>7

(* SplitInv is more than SplitRight.                                        *)
LEMMA SplitInvRight == SplitInv => SplitRight
<1> SUFFICES ASSUME SplitInv, call.op = "split", done, call.text # <<>>
             PROVE  SplitRight
  BY DEF SplitInv, SplitRight
<1>1. IsSplit(tokens, call.text, call.pat, call.keep_empty)
  BY DEF SplitInv
<1> QED
  BY <1>1 DEF SplitRight, IsSplit, Listed, AllWanted

-----------------------------------------------------------------------------
(* The bytes that a text needs: one for every character, and one more for     *)
(* each of the wide ones.                                                   *)
LEMMA BytesNeeded ==
  ASSUME NEW s \in Seq(Char)
  PROVE  /\ BytesBefore(s, Len(s) + 1) \in Nat
         /\ (\A i \in 1 .. Len(s) : s[i] \notin Wide) => BytesBefore(s, Len(s) + 1) = Len(s)
         /\ (\E i \in 1 .. Len(s) : s[i] \in Wide) => BytesBefore(s, Len(s) + 1) > Len(s)
<1>1. PICK n \in Nat : n = Len(s)
  BY LenIsNat, Zenon
<1> DEFINE W == {j \in 1 .. n : s[j] \in Wide}
<1>2. BytesBefore(s, Len(s) + 1) = n + Cardinality(W)
  <2>1. n + 1 - 1 = n
    OBVIOUS
  <2> QED
    BY ONLY <1>1, <2>1 DEF BytesBefore
<1>3. IsFiniteSet(W) /\ Cardinality(W) \in Nat /\ (Cardinality(W) = 0 <=> W = {})
  <2>1. IsFiniteSet(1 .. n)
    BY FS_Interval
  <2>2. IsFiniteSet(W)
    BY <2>1, FS_Subset
  <2> HIDE DEF W
  <2> QED
    BY <2>2, FS_CardinalityType, FS_EmptySet
<1>4. (\A i \in 1 .. Len(s) : s[i] \notin Wide) <=> W = {}
  BY <1>1
<1> HIDE DEF W
<1> QED
  BY <1>1, <1>2, <1>3, <1>4

(* The last byte is one of the last character.                              *)
LEMMA LastByte ==
  ASSUME NEW s \in Seq(Char), s # <<>>
  PROVE  LET k == BytesBefore(s, Len(s) + 1)
         IN \E x \in Char \X {1, 2} : \E i \in 1 .. Len(s) :
              x[1] = s[i] /\ k = BytesBefore(s, i) + x[2] /\ (x[2] = 2 => s[i] \in Wide)
<1>1. PICK n \in Nat : n = Len(s) /\ n >= 1
  OBVIOUS
<1> DEFINE W == {j \in 1 .. n : s[j] \in Wide}
           V == {j \in 1 .. n - 1 : s[j] \in Wide}
<1>2. BytesBefore(s, n + 1) = n + Cardinality(W) /\ BytesBefore(s, n) = n - 1 + Cardinality(V)
  <2>1. n + 1 - 1 = n
    OBVIOUS
  <2> QED
    BY ONLY <2>1 DEF BytesBefore
<1>3. IsFiniteSet(V) /\ Cardinality(V) \in Nat
  <2>1. IsFiniteSet(1 .. n - 1)
    BY FS_Interval
  <2>2. IsFiniteSet(V)
    BY <2>1, FS_Subset
  <2> HIDE DEF V
  <2> QED
    BY <2>2, FS_CardinalityType
<1>4. n \in 1 .. n /\ s[n] \in Char /\ n \notin V
  BY <1>1
<1>5. CASE s[n] \in Wide
  <2>1. W = V \cup {n}
    BY <1>1, <1>4, <1>5
  <2> HIDE DEF W, V
  <2>2. Cardinality(W) = Cardinality(V) + 1
    BY <1>3, <1>4, <2>1, FS_AddElement
  <2>3. n + Cardinality(W) = n - 1 + Cardinality(V) + 2
    BY <1>3, <2>2
  <2>4. <<s[n], 2>> \in Char \X {1, 2}
    BY <1>4
  <2> QED
    BY <1>1, <1>2, <1>4, <1>5, <2>3, <2>4
<1>6. CASE s[n] \notin Wide
  <2>1. W = V
    BY <1>6
  <2> HIDE DEF W, V
  <2>2. n + Cardinality(W) = n - 1 + Cardinality(V) + 1
    BY <1>3, <2>1
  <2>3. <<s[n], 1>> \in Char \X {1, 2}
    BY <1>4
  <2> QED
    BY <1>1, <1>2, <1>4, <2>2, <2>3
<1> QED
  BY <1>5, <1>6

WideInv == call.op = "from_wstring" => text = call.text /\ FromWstringRight

(* The one step of from_wstring establishes its property.                    *)
LEMMA FromWstringKeeps ==
  ASSUME call \in Call, WideInv, FromWstring
  PROVE  WideInv'
<1> DEFINE s == call.text
           k == BytesBefore(s, Len(s) + 1)
<1>1. call.op = "from_wstring" /\ call' = call /\ text' = text /\ text = s
  BY DEF FromWstring, WideInv
<1>2. s \in Seq(Char) /\ Len(s) \in Nat
  BY <1>1, CallTypes
<1>3. /\ k \in Nat
      /\ (\A i \in 1 .. Len(s) : s[i] \notin Wide) => k = Len(s)
      /\ (\E i \in 1 .. Len(s) : s[i] \in Wide) => k > Len(s)
  BY <1>2, BytesNeeded
<1>4. Encoded(s) = [j \in 1 .. k |-> Encoded(s)[j]] /\ Len(Encoded(s)) = k
  <2>1. PICK N \in Nat : N = k
    BY <1>3
  <2> DEFINE Byte(j) == CHOOSE x \in Char \X {1, 2} : \E i \in 1 .. Len(s) :
                /\ x[1] = s[i]
                /\ j = BytesBefore(s, i) + x[2]
                /\ x[2] = 2 => s[i] \in Wide
  <2>2. Encoded(s) = [j \in 1 .. N |-> Byte(j)]
    BY <2>1 DEF Encoded
  <2> HIDE DEF Byte
  <2> QED
    BY <2>1, <2>2
<1>5. PICK n \in 0 .. Len(s) :
        /\ k <= Len(s) => n = k
        /\ tokens' = [j \in 1 .. k |-> IF j <= n THEN Encoded(s)[j] ELSE nul]
  BY <1>1, <1>4 DEF FromWstring, Room
<1> HIDE DEF k
<1>6. CASE \A i \in 1 .. Len(s) : s[i] \notin Wide
  <2>1. n = k /\ k = Len(s)
    BY <1>2, <1>3, <1>5, <1>6
  <2>2. \A j \in 1 .. k : j <= n
    BY <1>3, <2>1
  <2>3. tokens' = [j \in 1 .. k |-> Encoded(s)[j]]
    BY <1>5, <2>2
  <2> QED
    BY <1>1, <1>4, <1>6, <2>3 DEF WideInv, FromWstringRight
<1>7. CASE \E i \in 1 .. Len(s) : s[i] \in Wide
  <2>1. k > Len(s) /\ s # <<>>
    BY <1>2, <1>3, <1>7
  <2>2. k \in 1 .. k /\ ~(k <= n)
    BY <1>2, <1>3, <2>1
  <2>3. tokens'[k] = nul
    BY <1>5, <2>2
  <2>4. Encoded(s)[k] \in Char \X {1, 2}
    <3>1. \E x \in Char \X {1, 2} : \E i \in 1 .. Len(s) :
            x[1] = s[i] /\ k = BytesBefore(s, i) + x[2] /\ (x[2] = 2 => s[i] \in Wide)
      BY <1>2, <2>1, LastByte DEF k
    <3>2. Encoded(s)[k] = CHOOSE x \in Char \X {1, 2} : \E i \in 1 .. Len(s) :
            x[1] = s[i] /\ k = BytesBefore(s, i) + x[2] /\ (x[2] = 2 => s[i] \in Wide)
      BY <2>2 DEF Encoded, k
    <3> QED
      BY <3>1, <3>2
  <2>5. tokens' # Encoded(s)
    BY <2>3, <2>4, StringAssumption
  <2> QED
    BY <1>1, <1>7, <2>5 DEF WideInv, FromWstringRight
<1> QED
  BY <1>6, <1>7

-----------------------------------------------------------------------------
TrimInv == call.op = "trim" => (done \/ text = call.text) /\ TrimRight

(* The one step of trim establishes its property.                           *)
LEMMA TrimKeeps ==
  ASSUME call \in Call, TrimInv, Trim
  PROVE  TrimInv'
<1>1. /\ call.op = "trim" /\ call' = call /\ text = call.text
      /\ ~done
  BY DEF Trim, TrimInv
<1>2. PICK s \in Seq(Char \cup High) : s = call.text
  BY CallTypes
<1>3. PICK n \in Nat : n = Len(s)
  BY <1>2
<1>4. PICK i \in 1 .. Len(text) + 1, k \in 0 .. Len(text) :
        /\ StartsAt(i) /\ EndsAt(k)
        /\ \/ text' = Trimmed(i, k) /\ done' = TRUE
           \/ UNCHANGED <<text, done>>
  BY DEF Trim
<1>5. /\ i \in Nat /\ k \in Nat /\ i >= 1 /\ i <= n + 1 /\ k <= n
      /\ \A j \in 1 .. i - 1 : s[j] \in Space
      /\ i <= n => s[i] \notin Space
      /\ \A j \in k + 1 .. n : s[j] \in Space \cup High
      /\ k > 0 => s[k] \notin Space
  BY <1>1, <1>2, <1>3, <1>4 DEF StartsAt, EndsAt
<1>6. CASE UNCHANGED <<text, done>>
  BY <1>1, <1>6 DEF TrimInv, TrimRight
<1>7. CASE text' = Trimmed(i, k) /\ done' = TRUE
  <2>1. CASE i > k
    <3>1. text' = <<>>
      BY <1>7, <2>1 DEF Trimmed
    <3>2. Len(<<>>) = 0 /\ SubSeq(s, 1, 0) = <<>> /\ 0 \in 0 .. n /\ 0 + 0 <= n
      BY <1>2, <1>3
    <3>3. ASSUME NEW j \in 0 + 0 + 1 .. n PROVE s[j] \in Space \cup High
      <4>1. CASE j <= k
        <5>1. j \in 1 .. i - 1
          BY <1>5, <2>1, <4>1
        <5> QED
          BY <1>5, <5>1
      <4>2. CASE ~(j <= k)
        <5>1. j \in k + 1 .. n
          BY <1>5, <4>2
        <5> QED
          BY <1>5, <5>1
      <4> QED
        BY <4>1, <4>2
    <3>4. \A j \in 1 .. 0 : s[j] \in Space
      OBVIOUS
    <3>5. TrimRight'
      BY <1>1, <1>2, <1>3, <3>1, <3>2, <3>3, <3>4 DEF TrimRight
    <3> QED
      BY <1>7, <3>5 DEF TrimInv
  <2>2. CASE ~(i > k)
    <3>1. PICK r : r = SubSeq(s, i, k)
      OBVIOUS
    <3>2. Len(r) = k - i + 1 /\ \A j \in 1 .. k - i + 1 : r[j] = s[i + j - 1]
      BY <1>2, <1>3, <1>5, <2>2, <3>1
    <3>3. text' = r
      BY <1>1, <1>2, <1>7, <2>2, <3>1 DEF Trimmed
    <3>4. PICK a \in 0 .. n : a = i - 1
      BY <1>5, <2>2
    <3>5. /\ a + Len(r) = k /\ a + 1 = i
          /\ 1 \in 1 .. k - i + 1 /\ k - i + 1 \in 1 .. k - i + 1
          /\ i + 1 - 1 = i /\ i + (k - i + 1) - 1 = k
      BY <1>5, <2>2, <3>2, <3>4
    <3>6. r[1] = s[i] /\ r[Len(r)] = s[k]
      BY <3>2, <3>5
    <3>7. s[i] \notin Space /\ s[k] \notin Space
      BY <1>5, <2>2
    <3>8. /\ a + Len(r) <= n /\ r = SubSeq(s, a + 1, a + Len(r))
          /\ \A j \in 1 .. a : s[j] \in Space
          /\ \A j \in a + Len(r) + 1 .. n : s[j] \in Space \cup High
      BY <1>5, <3>1, <3>4, <3>5
    <3>9. \E b \in 0 .. Len(s) :
            /\ b + Len(r) <= Len(s) /\ r = SubSeq(s, b + 1, b + Len(r))
            /\ \A j \in 1 .. b : s[j] \in Space
            /\ \A j \in b + Len(r) + 1 .. Len(s) : s[j] \in Space \cup High
            /\ r # <<>> => r[1] \notin Space /\ r[Len(r)] \notin Space
      BY ONLY <1>3, <3>4, <3>6, <3>7, <3>8, Zenon
    <3>10. TrimRight'
      BY ONLY <1>1, <1>2, <3>3, <3>9, Zenon DEF TrimRight
    <3> QED
      BY <1>7, <3>10 DEF TrimInv
  <2> QED
    BY <2>1, <2>2
<1> QED
  BY <1>4, <1>6, <1>7

-----------------------------------------------------------------------------
StringInv == call \in Call /\ ReplaceInv /\ SplitInv /\ TrimInv /\ WideInv

(* The invariant of ema::String's calls, by one case for each of them.        *)
LEMMA StringInvariant == StringSpec => []StringInv
<1>1. StringInit => StringInv
  <2> SUFFICES ASSUME StringInit PROVE StringInv
    OBVIOUS
  <2>1. call \in Call /\ text = call.text /\ ~done
    BY DEF StringInit
  <2>2. WideInv /\ TrimInv
    BY <2>1 DEF WideInv, FromWstringRight, TrimInv, TrimRight
  <2> QED
    BY <2>1, <2>2, ReplaceBegins, SplitBegins DEF StringInv
<1>2. StringInv /\ [StringNext]_strVars => StringInv'
  <2> SUFFICES ASSUME StringInv, [StringNext]_strVars PROVE StringInv'
    OBVIOUS
  <2>0. call \in Call /\ ReplaceInv /\ SplitInv /\ TrimInv /\ WideInv
    BY DEF StringInv
  <2>1. CASE ReplaceStep
    <3>1. call' = call /\ call.op = "replace"
      BY <2>1 DEF ReplaceStep
    <3>2. ReplaceInv'
      BY <2>0, <2>1, ReplaceKeeps
    <3> QED
      BY <2>0, <3>1, <3>2 DEF StringInv, SplitInv, TrimInv, WideInv
  <2>2. CASE SplitStep
    <3>1. call' = call /\ call.op = "split"
      BY <2>2 DEF SplitStep
    <3>2. SplitInv'
      BY <2>0, <2>2, SplitKeeps
    <3> QED
      BY <2>0, <3>1, <3>2 DEF StringInv, ReplaceInv, TrimInv, WideInv
  <2>3. CASE Trim
    <3>1. call' = call /\ call.op = "trim"
      BY <2>3 DEF Trim
    <3>2. TrimInv'
      BY <2>0, <2>3, TrimKeeps
    <3> QED
      BY <2>0, <3>1, <3>2 DEF StringInv, ReplaceInv, SplitInv, WideInv
  <2>4. CASE FromWstring
    <3>1. call' = call /\ call.op = "from_wstring"
      BY <2>4 DEF FromWstring
    <3>2. WideInv'
      BY <2>0, <2>4, FromWstringKeeps
    <3> QED
      BY <2>0, <3>1, <3>2 DEF StringInv, ReplaceInv, SplitInv, TrimInv
  <2>5. CASE UNCHANGED strVars
    <3>1. call' = call /\ text' = text /\ pos' = pos /\ tokens' = tokens /\ done' = done
      BY <2>5 DEF strVars
    <3> QED
      BY <2>0, <3>1 DEF StringInv, ReplaceInv, SplitInv, TrimInv, TrimRight, WideInv,
          FromWstringRight
  <2> QED
    BY <2>1, <2>2, <2>3, <2>4, <2>5 DEF StringNext
<1> QED
  BY <1>1, <1>2, PTL DEF StringSpec

(* replace puts the replacement in the place of every occurrence that a scan  *)
(* from the left meets and never looks into what it put there, for texts,     *)
(* patterns and replacements of every length (str.cpp 88-95).                *)
THEOREM ReplaceIsRight == StringSpec => []ReplaceRight
<1>1. StringInv => ReplaceRight
  BY ReplaceInvRight DEF StringInv
<1> QED
  BY <1>1, StringInvariant, PTL

(* split returns exactly the pieces between the delimiters that are wanted,   *)
(* in their order, for texts and delimiters of every length                  *)
(* (str.cpp 97-109).                                                        *)
THEOREM SplitIsRight == StringSpec => []SplitRight
<1>1. StringInv => SplitRight
  BY SplitInvRight DEF StringInv
<1> QED
  BY <1>1, StringInvariant, PTL

(* trim leaves the text between the outer spaces, of every length; of the      *)
(* characters that ::isspace is not defined for it may lose some at the end   *)
(* (str.cpp 75-86).                                                         *)
THEOREM TrimIsRight == StringSpec => []TrimRight
<1>1. StringInv => TrimRight
  BY DEF StringInv, TrimInv, TrimRight
<1> QED
  BY <1>1, StringInvariant, PTL

(* from_wstring returns the text in UTF-8 if and only if no character of it    *)
(* takes two bytes (str.cpp 115-123).                                       *)
THEOREM FromWstringIsRight == StringSpec => []FromWstringRight
<1>1. StringInv => FromWstringRight
  BY DEF StringInv, WideInv, FromWstringRight
<1> QED
  BY <1>1, StringInvariant, PTL

(* What is left to scan shrinks.                                            *)
Nearer ==
  (call.op \in {"replace", "split"} /\ call.pat # <<>>) =>
    \/ done'
    \/ Len(text') - pos' \in Nat /\ Len(text') - pos' < Len(text) - pos

(* Every step of a call with a pattern ends it or leaves it less of the text   *)
(* to scan, whatever the replacement contains: the loops of replace and split *)
(* cannot run for ever, in texts of every length (str.cpp 88-109).           *)
THEOREM LoopsShrink == StringSpec => [][Nearer]_strVars
<1>1. StringInv /\ [StringNext]_strVars => [Nearer]_strVars
  <2> SUFFICES ASSUME StringInv, StringNext, call.op \in {"replace", "split"}, call.pat # <<>>, ~done'
               PROVE  Len(text') - pos' \in Nat /\ Len(text') - pos' < Len(text) - pos
    BY DEF Nearer
  <2>1. /\ call \in Call /\ ReplaceInv /\ SplitInv
        /\ call.text \in Seq(Char) /\ call.pat \in Seq(Char)
        /\ Len(call.text) \in Nat /\ Len(call.text) < NPOS /\ NPOS \in Nat
    BY CallTypes, StringAssumption DEF StringInv, NPOS
  <2>2. CASE ReplaceStep
    <3> DEFINE p == Find(text, call.pat, pos)
    <3>1. /\ call.op = "replace" /\ p # NPOS /\ pos' = p + Len(call.to)
          /\ text' = SubSeq(text, 1, p) \o call.to \o SubSeq(text, p + Len(call.pat) + 1, Len(text))
      BY <2>2 DEF ReplaceStep, Resume
    <3>2. call.to \in Seq(Char) /\ text \in Seq(Char) /\ Len(text) < NPOS /\ pos \in 0 .. Len(text)
      BY <2>1, <3>1, CallTypes DEF ReplaceInv
    <3>3. FirstFrom(text, call.pat, pos, p) /\ p \in Nat
      <4>1. p = Find(text, call.pat, pos)
        OBVIOUS
      <4>2. p # NPOS /\ NPOS \in Nat /\ Len(text) < NPOS
        BY <2>1, <3>1, <3>2
      <4>3. text \in Seq(Char) /\ call.pat \in Seq(Char) /\ pos \in 0 .. Len(text)
        BY <2>1, <3>2
      <4> HIDE DEF p
      <4> QED
        BY ONLY <4>1, <4>2, <4>3, FindFrom
    <3> HIDE DEF p
    <3>4. p \in pos .. Len(text) /\ p + Len(call.pat) <= Len(text)
      BY <3>3 DEF FirstFrom, Occurs
    <3>5. IsSplice(text, p, call.pat, call.to, text')
      BY ONLY <2>1, <3>1, <3>2, <3>3, <3>4, Spliced
    <3>6. PICK L \in Nat, T \in Nat, n \in Nat :
            L = Len(call.pat) /\ T = Len(call.to) /\ n = Len(text)
      BY <2>1, <3>2, LenIsNat, Zenon
    <3>7. L >= 1
      BY <2>1, <3>6
    <3>8. Len(text') = n - L + T /\ pos' = p + T
      BY <3>1, <3>5, <3>6 DEF IsSplice
    <3>9. p \in Nat /\ pos \in Nat /\ pos <= p /\ p + L <= n
      BY <3>2, <3>3, <3>4, <3>6
    <3>10. (n - L + T) - (p + T) \in Nat /\ (n - L + T) - (p + T) < n - pos
      BY ONLY <3>7, <3>9, L \in Nat, T \in Nat, n \in Nat
    <3> QED
      BY ONLY <3>6, <3>8, <3>10, Zenon
  <2>3. CASE SplitStep
    <3> DEFINE found == Find(text, call.pat, pos)
               p == IF found = NPOS THEN Len(text) ELSE found
    <3>1. /\ call.op = "split" /\ ~done /\ call' = call /\ text' = text
          /\ text # <<>> /\ pos' = p + Len(call.pat) /\ p < Len(text)
      BY <2>3 DEF SplitStep, More
    <3>2. text = call.text /\ pos \in Nat /\ pos < Len(text) /\ pos \in 0 .. Len(text)
      BY <2>1, <3>1 DEF SplitInv
    <3>3. p = found /\ found # NPOS
      BY <2>1, <3>1, <3>2
    <3>4. FirstFrom(text, call.pat, pos, found) /\ found \in Nat
      <4>1. found = Find(text, call.pat, pos)
        OBVIOUS
      <4> HIDE DEF found, p
      <4> QED
        BY ONLY <2>1, <3>2, <3>3, <4>1, FindFrom
    <3> HIDE DEF found, p
    <3>5. PICK L \in Nat, n \in Nat : L = Len(call.pat) /\ n = Len(text) /\ L >= 1
      BY <2>1, <3>2
    <3>6. found \in pos .. n /\ found + L <= n
      BY <3>4, <3>5 DEF FirstFrom, Occurs
    <3>7. n - (found + L) \in Nat /\ n - (found + L) < n - pos
      <4>1. pos \in Nat /\ found \in Nat /\ pos <= found /\ found + L <= n /\ L >= 1
        BY <3>2, <3>4, <3>5, <3>6
      <4> QED
        BY ONLY <4>1, L \in Nat, n \in Nat
    <3> QED
      BY ONLY <3>1, <3>3, <3>5, <3>7, Zenon
  <2>4. ~Trim /\ ~FromWstring
    BY DEF Trim, FromWstring
  <2> QED
    BY <2>2, <2>3, <2>4 DEF StringNext
<1> QED
  BY <1>1, StringInvariant, PTL DEF StringSpec
=============================================================================
