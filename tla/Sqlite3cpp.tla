----------------------------- MODULE Sqlite3cpp -----------------------------
(***************************************************************************)
(* ema::db::Sqlite3cpp (src/db/sqlite3/sqlite3_impl.cpp): a wrapper of one    *)
(* SQLite connection, with prepared statements held in contexts.  SQLite is   *)
(* the environment: it answers each call with one of the result codes it may  *)
(* give, and keeps the last one as the connection's error code, ROW and DONE   *)
(* included.                                                                *)
(*                                                                         *)
(* Error() gives the connection's memory back with sqlite3_free and keeps    *)
(* the pointer.  A call that touches memory after that, or a bound text      *)
(* after its owner let it go, is undefined and sets `ub', which ends the     *)
(* behaviour.  SQL texts and values are left out; "ERROR" stands for every   *)
(* code that is neither of the others, "BUSY" for LOCKED too.                *)
(***************************************************************************)
EXTENDS Naturals, FiniteSets

CONSTANTS
  Ctx,       \* the caller's Sqlite3Contexts
  MaxOpens,  \* model bound: connections ever opened
  MaxStmts,  \* model bound: statements ever prepared
  MaxRows    \* rows that fit into memory

ASSUME SqliteAssumption == MaxOpens \in Nat /\ MaxStmts \in Nat /\ MaxRows \in Nat

Conn == 1 .. MaxOpens
Stmt == 1 .. MaxStmts

(* What sqlite3_step returns, as far as Exec tells the codes apart.          *)
StepCode == {"ROW", "DONE", "BUSY", "ERROR"}

VARIABLES
  db,        \* db_: a connection, 0 for null
  conns,     \* each connection: its memory, its error code, in a transaction?
  stmts,     \* each statement: its memory, its connection, result and bound text
  ctx,       \* each context's statement, 0 for null
  exec,      \* the statement of an Exec in its loop, 0 when there is none
  rows,      \* how many rows it has collected
  reported,  \* a call has returned false, or Error a text
  ub         \* "none", "freed" or "text"

sqlVars == <<db, conns, stmts, ctx, exec, rows, reported, ub>>

SqlTypeOK ==
  /\ db \in {0} \cup Conn
  /\ conns \in [Conn -> [st : {"none", "open", "freed", "closed"},
                         err : StepCode \cup {"OK"}, tx : BOOLEAN]]
  /\ stmts \in [Stmt -> [st : {"none", "live", "gone"}, conn : {0} \cup Conn,
                         rc : StepCode \cup {"new"}, text : {"none", "held", "dead"}]]
  /\ ctx \in [Ctx -> {0} \cup Stmt]
  /\ exec \in {0} \cup Stmt
  /\ rows \in 0 .. MaxRows
  /\ reported \in BOOLEAN
  /\ ub \in {"none", "freed", "text"}

SqlInit ==
  /\ db = 0
  /\ conns = [c \in Conn |-> [st |-> "none", err |-> "OK", tx |-> FALSE]]
  /\ stmts = [s \in Stmt |-> [st |-> "none", conn |-> 0, rc |-> "new", text |-> "none"]]
  /\ ctx = [x \in Ctx |-> 0]
  /\ exec = 0 /\ rows = 0
  /\ reported = FALSE
  /\ ub = "none"

-----------------------------------------------------------------------------
NewConn == Cardinality({c \in Conn : conns[c].st # "none"}) + 1
NewStmt == Cardinality({s \in Stmt : stmts[s].st # "none"}) + 1

Live(c, code) == [st |-> "live", conn |-> c, rc |-> code, text |-> "none"]
Gone == [st |-> "gone", conn |-> 0, rc |-> "new", text |-> "none"]

Dangling == db # 0 /\ conns[db].st = "freed"

Undefined(what) ==
  /\ ub' = what
  /\ UNCHANGED <<db, conns, stmts, ctx, exec, rows, reported>>

(* Error(), applied to the connections as the failing call left them.        *)
Error(d, cs) ==
  IF d # 0 /\ cs[d].err # "OK" THEN [cs EXCEPT ![d].st = "freed"] ELSE cs

(* A call that ends with this code, OK for success, on connection c, in a    *)
(* transaction or not: the code is kept, and on failure Error() follows.     *)
Ends(c, code, tx, ok) ==
  LET cs == [conns EXCEPT ![c].err = code, ![c].tx = tx]
  IN /\ conns' = IF ok THEN cs ELSE Error(db, cs)
     /\ reported' = (reported \/ ~ok)

(* A failing sqlite3_open_v2 also leaves a connection, unless memory is out; *)
(* a connection that was open in db_ is forgotten.                          *)
Open(code) ==
  /\ exec = 0
  /\ NewConn \in Conn
  /\ code \in {"OK", "ERROR"}
  /\ db' \in {NewConn, 0}
  /\ db' = 0 => code = "ERROR"
  /\ conns' = IF db' = 0 THEN conns
              ELSE LET cs == [conns EXCEPT ![db'] = [st |-> "open", err |-> code, tx |-> FALSE]]
                   IN IF code = "OK" THEN cs ELSE Error(db', cs)
  /\ reported' = (reported \/ code # "OK")
  /\ UNCHANGED <<stmts, ctx, exec, rows, ub>>

(* Variant: the pointer is kept.                                            *)
CloseKeep ==
  /\ exec = 0 /\ db # 0
  /\ \/ Dangling /\ Undefined("freed")
     \/ /\ ~Dangling
        /\ conns' = [conns EXCEPT ![db].st = "freed"]
        /\ UNCHANGED <<db, stmts, ctx, exec, rows, reported, ub>>

(* Close, and the destructor.  close_v2 keeps the memory for as long as      *)
(* there are statements.                                                    *)
Close ==
  /\ exec = 0 /\ db # 0
  /\ \/ Dangling /\ Undefined("freed")
     \/ /\ ~Dangling
        /\ conns' = [conns EXCEPT ![db].st = "closed"]
        /\ db' = 0
        /\ UNCHANGED <<stmts, ctx, exec, rows, reported, ub>>

(* The caller asks for the last error.                                      *)
AskError ==
  /\ exec = 0 /\ db # 0
  /\ \/ Dangling /\ Undefined("freed")
     \/ /\ ~Dangling
        /\ conns' = Error(db, conns)
        /\ reported' = (reported \/ conns[db].err # "OK")
        /\ UNCHANGED <<db, stmts, ctx, exec, rows, ub>>

(* Where a statement that was in this mode, and of which a step has met this *)
(* code, may leave the connection: it may itself be a BEGIN, a COMMIT or a   *)
(* ROLLBACK, and some errors roll the transaction back.                      *)
TxAfter(tx, code) ==
  CASE code = "DONE" -> BOOLEAN [] code = "ERROR" -> {tx, FALSE} [] OTHER -> {tx}

(* Begin, Commit and Rollback.  SQLite refuses a Begin inside a transaction  *)
(* and the others outside of one; a Commit can meet a lock, and each can     *)
(* fail otherwise, a Commit with the transaction rolled back.                *)
Transact(begin, code) ==
  /\ exec = 0 /\ db # 0
  /\ \/ Dangling /\ Undefined("freed")
     \/ /\ ~Dangling
        /\ code \in IF begin = conns[db].tx THEN {"ERROR"} ELSE {"OK", "BUSY", "ERROR"}
        /\ begin => code # "BUSY"
        /\ \E tx \in IF code = "OK" THEN {begin} ELSE {conns[db].tx, conns[db].tx /\ begin} :
             Ends(db, code, tx, code = "OK")
        /\ UNCHANGED <<db, stmts, ctx, exec, rows, ub>>

-----------------------------------------------------------------------------
(* Exec prepares a statement and steps it once, before its loop.             *)
ExecBegin(code) ==
  /\ exec = 0 /\ db # 0
  /\ \/ Dangling /\ Undefined("freed")
     \/ /\ ~Dangling
        /\ Ends(db, "ERROR", conns[db].tx, FALSE)
        /\ UNCHANGED <<db, stmts, ctx, exec, rows, ub>>
     \/ /\ ~Dangling
        /\ NewStmt \in Stmt
        /\ code \in StepCode
        /\ stmts' = [stmts EXCEPT ![NewStmt] = Live(db, code)]
        /\ exec' = NewStmt
        /\ rows' = 0
        /\ \E tx \in TxAfter(conns[db].tx, code) : Ends(db, code, tx, TRUE)
        /\ UNCHANGED <<db, ctx, ub>>

ExecDone ==
  /\ exec # 0
  /\ stmts[exec].rc = "DONE"
  /\ stmts' = [stmts EXCEPT ![exec] = Gone]
  /\ conns' = [conns EXCEPT ![db].err = "OK"]
  /\ exec' = 0
  /\ UNCHANGED <<db, ctx, rows, reported, ub>>

(* The loop does not step again and has no exit for a row: the same row is   *)
(* taken until memory is exhausted, after MaxRows of them, and bad_alloc      *)
(* leaves Exec.  With any other code the loop spins for ever, which is no     *)
(* step.                                                                    *)
ExecRow ==
  /\ exec # 0
  /\ stmts[exec].rc = "ROW"
  /\ IF rows < MaxRows
     THEN rows' = rows + 1 /\ UNCHANGED <<exec, reported>>
     ELSE exec' = 0 /\ reported' = TRUE /\ UNCHANGED rows
  /\ UNCHANGED <<db, conns, stmts, ctx, ub>>

-----------------------------------------------------------------------------
(* Prepare: without a connection SQLite refuses and clears the context, whose *)
(* earlier statement is forgotten; a text with nothing but a comment is        *)
(* accepted and gives no statement.                                          *)
Prepare(x, code) ==
  /\ exec = 0
  /\ code \in {"OK", "ERROR"}
  /\ \/ Dangling /\ Undefined("freed")
     \/ /\ ~Dangling /\ (db = 0 \/ code = "ERROR")
        /\ ctx' = [ctx EXCEPT ![x] = 0]
        /\ IF db = 0 THEN reported' = TRUE /\ UNCHANGED conns ELSE Ends(db, "ERROR", conns[db].tx, FALSE)
        /\ UNCHANGED <<db, stmts, exec, rows, ub>>
     \/ /\ ~Dangling /\ db # 0 /\ code = "OK"
        /\ NewStmt \in Stmt
        /\ ctx' = [ctx EXCEPT ![x] = NewStmt]
        /\ stmts' = [stmts EXCEPT ![NewStmt] = Live(db, "new")]
        /\ Ends(db, "OK", conns[db].tx, TRUE)
        /\ UNCHANGED <<db, exec, rows, ub>>
     \/ /\ ~Dangling /\ db # 0 /\ code = "OK"
        /\ ctx' = [ctx EXCEPT ![x] = 0]
        /\ Ends(db, "OK", conns[db].tx, TRUE)
        /\ UNCHANGED <<db, stmts, exec, rows, ub>>

(* The statement in context x, of a connection that is there.                *)
Usable(x) == ctx[x] # 0 /\ conns[stmts[ctx[x]].conn].st # "freed"
Unusable(x) == ctx[x] # 0 /\ conns[stmts[ctx[x]].conn].st = "freed"

(* BindValue, and with several values BindValues, which binds each of them   *)
(* to the first parameter.  SQLite takes no value once the statement was     *)
(* stepped, or when it has no parameter.  A text stays the caller's           *)
(* (SQLITE_STATIC).                                                         *)
BindValue(x, text, ok) ==
  LET s == ctx[x]
  IN /\ exec = 0
     /\ \/ Unusable(x) /\ Undefined("freed")
        \/ /\ Usable(x)
           /\ ok => stmts[s].rc = "new"
           /\ stmts' = [stmts EXCEPT ![s].text = IF ok THEN text ELSE @]
           /\ Ends(stmts[s].conn, IF ok THEN "OK" ELSE "ERROR", conns[stmts[s].conn].tx, ok)
           /\ UNCHANGED <<db, ctx, exec, rows, ub>>

(* The caller's value ends while a statement still points to its text.       *)
TextEnds(s) ==
  /\ stmts[s].text = "held"
  /\ stmts' = [stmts EXCEPT ![s].text = "dead"]
  /\ UNCHANGED <<db, conns, ctx, exec, rows, reported, ub>>

(* Step.  The end of the rows is a failure like any other.                   *)
Step(x, code) ==
  LET s == ctx[x]
  IN /\ exec = 0
     /\ code \in StepCode
     /\ \/ Unusable(x) /\ Undefined("freed")
        \/ Usable(x) /\ stmts[s].text = "dead" /\ Undefined("text")
        \/ /\ Usable(x) /\ stmts[s].text # "dead"
           /\ stmts' = [stmts EXCEPT ![s].rc = code]
           /\ \E tx \in TxAfter(conns[stmts[s].conn].tx, code) :
                Ends(stmts[s].conn, code, tx, code = "ROW")
           /\ UNCHANGED <<db, ctx, exec, rows, ub>>

(* Finalize reports once more what the last Step met.                        *)
Finalize(x) ==
  LET s == ctx[x]
      bad == stmts[s].rc \in {"BUSY", "ERROR"}
  IN /\ exec = 0
     /\ \/ Unusable(x) /\ Undefined("freed")
        \/ /\ Usable(x)
           /\ stmts' = [stmts EXCEPT ![s] = Gone]
           /\ ctx' = [ctx EXCEPT ![x] = 0]
           /\ IF stmts[s].rc = "new" THEN UNCHANGED <<conns, reported>>
              ELSE Ends(stmts[s].conn, IF bad THEN stmts[s].rc ELSE "OK",
                        conns[stmts[s].conn].tx, ~bad)
           /\ UNCHANGED <<db, exec, rows, ub>>

-----------------------------------------------------------------------------
SqlNext ==
  /\ ub = "none"
  /\ \/ \E code \in StepCode \cup {"OK"} :
          \/ Open(code)
          \/ ExecBegin(code)
          \/ \E begin \in BOOLEAN : Transact(begin, code)
          \/ \E x \in Ctx : Prepare(x, code) \/ Step(x, code)
     \/ Close \/ AskError \/ ExecDone \/ ExecRow
     \/ \E x \in Ctx :
          \/ Finalize(x)
          \/ \E text \in {"none", "held"}, ok \in BOOLEAN : BindValue(x, text, ok)
     \/ \E s \in Stmt : TextEnds(s)

SqlSpec == SqlInit /\ [][SqlNext]_sqlVars

-----------------------------------------------------------------------------
(* As long as every call has succeeded, the wrapper touches no memory that   *)
(* was given back: each connection is released once, by Close or by a        *)
(* failure that was reported, and a statement never outlives its             *)
(* connection's memory.  After a reported failure no call is safe any more   *)
(* (sqlite3_impl.cpp 10-23, 104-192).                                       *)
SafeUntilReported == ub = "freed" => reported
=============================================================================
