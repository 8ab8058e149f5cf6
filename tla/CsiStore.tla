------------------------------ MODULE CsiStore ------------------------------
(***************************************************************************)
(* recvCSIToDatabase: receivers that store every CSI report in PostgreSQL, *)
(* one row of csi_status and one multi-row INSERT into csi_data per        *)
(* report.                                                                 *)
(*                                                                         *)
(* Each PQexec is one step: PostgreSQL runs every statement in a           *)
(* transaction of its own.  A statement may fail, before or after its      *)
(* effect is committed; the code then closes the connection and never      *)
(* opens it again.  A process may be killed between any two steps and be   *)
(* started again on the same tables.                                       *)
(***************************************************************************)
EXTENDS Integers, Sequences

CONSTANTS
  Procs,       \* receiver processes that share the database
  Shapes,      \* the kernel's reports: csi_len and num_tones * nr, the rows to insert
  GarbageLens, \* csi_status->csi_len as malloc leaves it
  MaxMsgs,     \* bound: messages handled
  MaxStarts,   \* bound: times each receiver is started
  MaxFails,    \* bound: statements that fail
  MaxErrors    \* bound: read() calls that fail

ASSUME StoreAssumption ==
  /\ Shapes \subseteq [csi_len : Nat, rows : Nat] /\ GarbageLens \subseteq Nat
  /\ {MaxMsgs, MaxStarts, MaxFails, MaxErrors} \subseteq Nat

VARIABLES
  pc,         \* pc[p]: "off", "init1", "init2", "read", "insert", "select", "matrix"
  conn,       \* conn[p]: the PGconn is not NULL
  buf_addr,   \* buf_addr[p]: the report in the buffer
  csi_len,    \* csi_len[p]: csi_status->csi_len
  msg,        \* msg[p]: number of the message being saved, for the properties
  id,         \* id[p]: csi_status_id of the message being saved
  starts,     \* starts[p]: times p has been started
  seqs, tables,          \* the sequences, the tables exist
  csi_status, csi_data,  \* rows: the row's position is its id; INSERTs
  msgs,       \* messages handled so far, with the process run that read them
  fails, errors

proc == <<pc, conn, buf_addr, csi_len, msg, id, starts>>
db == <<seqs, tables, csi_status, csi_data>>
vars == <<proc, db, msgs, fails, errors>>

\* Before the first report buf_addr is zero: no tones and no antennas.
ZeroReport == [report |-> 0, csi_len |-> 0, rows |-> 0]
Run(p) == <<p, starts[p]>>
-----------------------------------------------------------------------------
Init ==
  /\ pc = [p \in Procs |-> "off"] /\ conn = [p \in Procs |-> FALSE]
  /\ buf_addr = [p \in Procs |-> ZeroReport] /\ csi_len = [p \in Procs |-> 0]
  /\ msg = [p \in Procs |-> 0] /\ id = [p \in Procs |-> 0] /\ starts = [p \in Procs |-> 0]
  /\ seqs = FALSE /\ tables = FALSE /\ csi_status = <<>> /\ csi_data = {}
  /\ msgs = <<>> /\ fails = 0 /\ errors = 0

Goto(p, l) == pc' = [pc EXCEPT ![p] = l]

pg_close(p) == conn' = [conn EXCEPT ![p] = FALSE]

\* A statement succeeds.
Ok(p, l) == Goto(p, l) /\ UNCHANGED <<conn, fails>>

\* Mutant of Failed: the connection stays open.
FailedOpen(p) ==
  /\ fails < MaxFails /\ fails' = fails + 1
  /\ Goto(p, "read") /\ UNCHANGED conn

\* A statement fails: the error is printed, the connection closed, and the
\* caller returns to the main loop, which ignores the result.
Failed(p) ==
  /\ fails < MaxFails /\ fails' = fails + 1
  /\ pg_close(p) /\ Goto(p, "read")

\* The process starts: pg_connect, then malloc and open_csi_device.  main
\* ignores whether the connection succeeded.
Start(p) ==
  /\ pc[p] = "off" /\ starts[p] < MaxStarts
  /\ \E c \in BOOLEAN : conn' = [conn EXCEPT ![p] = c]
  /\ \E g \in GarbageLens : csi_len' = [csi_len EXCEPT ![p] = g]
  /\ buf_addr' = [buf_addr EXCEPT ![p] = ZeroReport]
  /\ id' = [id EXCEPT ![p] = 0] /\ msg' = [msg EXCEPT ![p] = 0]
  /\ starts' = [starts EXCEPT ![p] = @ + 1]
  /\ Goto(p, "init1")
  /\ UNCHANGED <<db, msgs, fails, errors>>

\* csi_init_table creates the sequences; the result is not looked at.
InitSequences(p) ==
  /\ pc[p] = "init1"
  /\ IF conn[p] THEN seqs' \in {seqs, TRUE} /\ Goto(p, "init2")
                ELSE Goto(p, "read") /\ UNCHANGED seqs
  /\ UNCHANGED <<conn, buf_addr, csi_len, msg, id, starts>>
  /\ UNCHANGED <<tables, csi_status, csi_data, msgs, fails, errors>>

\* Mutant of InitTables: the second result is ignored like the first.
InitTablesUnchecked(p) ==
  /\ pc[p] = "init2"
  /\ tables' = (tables \/ seqs) /\ Ok(p, "read")
  /\ UNCHANGED <<buf_addr, csi_len, msg, id, starts>>
  /\ UNCHANGED <<seqs, csi_status, csi_data, msgs, errors>>

\* csi_init_table creates the tables, whose defaults need the sequences.
InitTables(p) ==
  /\ pc[p] = "init2"
  /\ \/ (tables \/ seqs) /\ tables' = TRUE /\ (Ok(p, "read") \/ Failed(p))
     \/ UNCHANGED tables /\ Failed(p)
     \/ ~ tables /\ ~ seqs /\ pg_close(p) /\ Goto(p, "read") /\ UNCHANGED <<tables, fails>>
  /\ UNCHANGED <<buf_addr, csi_len, msg, id, starts>>
  /\ UNCHANGED <<seqs, csi_status, csi_data, msgs, errors>>

\* A message of p is handed to save_csi.
Message(p, r) ==
  /\ Len(msgs) < MaxMsgs
  /\ msgs' = Append(msgs, [by |-> Run(p), report |-> r.report, csi_len |-> r.csi_len])
  /\ msg' = [msg EXCEPT ![p] = Len(msgs) + 1]
  /\ Goto(p, "insert")

\* read() returns a report.  record_status takes every field from it but
\* csi_len, which its little-endian branch does not set; the payload copy that
\* uses it as an offset fills data_buf, which nothing reads, or ends the process
\* (Kill).  A time-out, cnt = 0, changes nothing.
ReadReport(p) ==
  /\ pc[p] = "read"
  /\ \E s \in Shapes :
        LET r == [report |-> Len(msgs) + 1, csi_len |-> s.csi_len, rows |-> s.rows]
        IN  buf_addr' = [buf_addr EXCEPT ![p] = r] /\ Message(p, r)
  /\ UNCHANGED <<conn, csi_len, id, starts, db, fails, errors>>

\* read() fails: "if (cnt)" takes -1 for a message, and the buffer still holds
\* the report before.
ReadError(p) ==
  /\ pc[p] = "read" /\ errors < MaxErrors
  /\ errors' = errors + 1
  /\ Message(p, buf_addr[p])
  /\ UNCHANGED <<conn, buf_addr, csi_len, id, starts, db, fails>>

\* Mutant of SkipSave: the connection is opened again for the message at hand.
SkipSaveReconnects(p) ==
  /\ pc[p] = "insert" /\ ~ conn[p]
  /\ conn' = [conn EXCEPT ![p] = TRUE]
  /\ UNCHANGED <<pc, buf_addr, csi_len, msg, id, starts, db, msgs, fails, errors>>

\* save_csi without a connection returns at once.
SkipSave(p) ==
  /\ pc[p] = "insert" /\ ~ conn[p]
  /\ Goto(p, "read")
  /\ UNCHANGED <<conn, buf_addr, csi_len, msg, id, starts, db, msgs, fails, errors>>

\* save_csi_status: INSERT INTO csi_status; the id is the next of the sequence.
InsertStatus(p) ==
  /\ pc[p] = "insert" /\ conn[p]
  /\ \/ /\ csi_status' = Append(csi_status, [msg |-> msg[p], csi_len |-> csi_len[p]])
        /\ Ok(p, "select") \/ Failed(p)
     \/ UNCHANGED csi_status /\ Failed(p)
  /\ UNCHANGED <<buf_addr, csi_len, msg, id, starts, seqs, tables, csi_data, msgs, errors>>

\* Mutants of LatestId: ORDER BY id ASC; nextval of the sequence.
FirstId == 1
NextId == Len(csi_status) + 1

\* SELECT id FROM csi_status ORDER BY id DESC LIMIT 1
LatestId == Len(csi_status)

\* save_csi_status: the id of the row just inserted is read back.
SelectId(p) ==
  /\ pc[p] = "select"
  /\ \/ id' = [id EXCEPT ![p] = LatestId] /\ Ok(p, "matrix")
     \/ UNCHANGED id /\ Failed(p)
  /\ UNCHANGED <<buf_addr, csi_len, msg, starts, db, msgs, errors>>

\* Mutant of InsertMatrix: a failed statement is retried from the status row on.
InsertMatrixRetry(p) ==
  /\ pc[p] = "matrix"
  /\ csi_data' = csi_data \cup {[status_id |-> id[p], msg |-> msg[p]]}
  /\ \/ Ok(p, "read")
     \/ fails < MaxFails /\ fails' = fails + 1 /\ Goto(p, "insert") /\ UNCHANGED conn
  /\ UNCHANGED <<buf_addr, csi_len, msg, id, starts, seqs, tables, csi_status, msgs, errors>>

\* save_csi_matrix: one INSERT with a row per antenna and tone.  A report
\* without rows makes a statement the server rejects.
InsertMatrix(p) ==
  /\ pc[p] = "matrix"
  /\ IF buf_addr[p].rows = 0
     THEN pg_close(p) /\ Goto(p, "read") /\ UNCHANGED <<csi_data, fails>>
     ELSE \/ /\ csi_data' = csi_data \cup {[status_id |-> id[p], msg |-> msg[p]]}
             /\ Ok(p, "read") \/ Failed(p)
          \/ UNCHANGED csi_data /\ Failed(p)
  /\ UNCHANGED <<buf_addr, csi_len, msg, id, starts, seqs, tables, csi_status, msgs, errors>>

\* Ctrl+C or kill -9 (no handler is installed), or one of the early returns of
\* main for its arguments or the device: the connection goes with the process.
Kill(p) ==
  /\ pc[p] # "off"
  /\ Goto(p, "off") /\ pg_close(p)
  /\ UNCHANGED <<buf_addr, csi_len, msg, id, starts, db, msgs, fails, errors>>

Next == \E p \in Procs :
  \/ Start(p) \/ InitSequences(p) \/ InitTables(p)
  \/ ReadReport(p) \/ ReadError(p)
  \/ SkipSave(p) \/ InsertStatus(p) \/ SelectId(p) \/ InsertMatrix(p)
  \/ Kill(p)

Spec == Init /\ [][Next]_vars
-----------------------------------------------------------------------------
(***************************************************************************)
(* Properties.                                                             *)
(***************************************************************************)
\* Type invariant of the store; the csi_status_id that save_csi_status returns
\* is the id of a row.
TypeOK ==
  /\ pc \in [Procs -> {"off", "init1", "init2", "read", "insert", "select", "matrix"}]
  /\ conn \in [Procs -> BOOLEAN]
  /\ buf_addr \in [Procs -> [report : Nat, csi_len : Nat, rows : Nat]]
  /\ csi_len \in [Procs -> Nat] /\ msg \in [Procs -> 0 .. Len(msgs)]
  /\ id \in [Procs -> 0 .. Len(csi_status)]
  /\ starts \in [Procs -> 0 .. MaxStarts]
  /\ seqs \in BOOLEAN /\ tables \in BOOLEAN
  /\ csi_status \in Seq([msg : Nat, csi_len : Nat])
  /\ csi_data \subseteq [status_id : Nat, msg : Nat]
  /\ msgs \in Seq([by : Procs \X Nat, report : Nat, csi_len : Nat])
  /\ fails \in 0 .. MaxFails /\ errors \in 0 .. MaxErrors

HasStatus(m) == \E i \in 1 .. Len(csi_status) : csi_status[i].msg = m
HasData(m) == \E d \in csi_data : d.msg = m

\* p may hang a matrix of message m on row k, whose own row is i.
Hangs(p, i, k, m) ==
  /\ csi_status[i].msg = m /\ k \in i .. Len(csi_status)
  /\ k = i \/ msgs[csi_status[k].msg].by[1] # p

\* A matrix hangs on the status row of its own report or, since the SELECT of
\* save_csi_status finds the latest row, on a later row of another receiver:
\* never on an older row, on a row that does not exist, or on another report of
\* the same receiver, across failed statements, kills and restarts.
Attribution ==
  \A d \in csi_data : \E i \in 1 .. Len(csi_status) :
    Hangs(msgs[d.msg].by[1], i, d.status_id, d.msg)

\* What save_csi_status prints as the id of its INSERT: every matrix is stored
\* under the row of its own report.
OwnRow == \A d \in csi_data : csi_status[d.status_id].msg = d.msg

\* No message is stored twice: save_csi never repeats a statement whose fate
\* it does not know.
StoredOnce ==
  /\ \A i, j \in 1 .. Len(csi_status) : csi_status[i].msg = csi_status[j].msg => i = j
  /\ \A d, e \in csi_data : d.msg = e.msg => d = e

\* What one run of the main loop has stored is a prefix of what it has read:
\* a message with a status row is preceded by complete ones only.  A run
\* therefore leaves at most one status row without its matrix.
StorePrefix ==
  \A m, n \in 1 .. Len(msgs) :
    m < n /\ msgs[m].by = msgs[n].by /\ HasStatus(n) => HasStatus(m) /\ HasData(m)

\* An open connection has its tables: the unchecked result of the first
\* statement of csi_init_table never leaves a receiver inserting into nothing.
TablesReady ==
  \A p \in Procs : conn[p] /\ pc[p] \in {"read", "insert", "select", "matrix"} => tables

\* What a receiver has read in this run, and what of it is complete in the
\* database.
Read(p) == {m \in 1 .. Len(msgs) : msgs[m].by = Run(p)}
Kept(p) == {m \in Read(p) : HasStatus(m) /\ HasData(m)}
Cap(p) == INSTANCE Capture WITH on <- conn[p], read <- Read(p), kept <- Kept(p)

\* Each receiver implements the abstract capture, whatever the others do to the
\* tables: while its connection is open, everything it has read is stored but
\* the message at hand, and after the first failure it stores nothing more,
\* although main ignores the result of save_csi.  (This is Cap(p)!Spec for every
\* p, with the steps of all of them under one box.)
Captured == (\A p \in Procs : Cap(p)!Init) /\ [][\A p \in Procs : Cap(p)!Step]_vars

\* What csi_fun.h says of the column: csi_len is the length of the CSI data.
StatusCsiLen ==
  \A i \in 1 .. Len(csi_status) : csi_status[i].csi_len = msgs[csi_status[i].msg].csi_len
-----------------------------------------------------------------------------
(***************************************************************************)
(* The inductive invariant.                                                *)
(***************************************************************************)
Saving == {"insert", "select", "matrix"}

\* A message belongs to a run that has been started; a receiver saves the last
\* message of its run, and reads none before its tables are set up.
Messages ==
  /\ \A m \in 1 .. Len(msgs) : msgs[m].by[2] <= starts[msgs[m].by[1]]
  /\ \A p \in Procs :
       /\ pc[p] \in Saving => /\ msg[p] \in 1 .. Len(msgs) /\ msgs[msg[p]].by = Run(p)
                              /\ \A m \in 1 .. Len(msgs) : msgs[m].by = Run(p) => m <= msg[p]
       /\ pc[p] \in {"init1", "init2"} => \A m \in 1 .. Len(msgs) : msgs[m].by # Run(p)

\* Rows belong to messages, and a matrix has a status row.
Rows ==
  /\ \A i \in 1 .. Len(csi_status) : csi_status[i].msg \in 1 .. Len(msgs)
  /\ \A d \in csi_data : HasStatus(d.msg)

\* How far each message being saved has come.  Behind p's own status row there
\* are only rows of other receivers.
Progress ==
  \A p \in Procs :
    /\ pc[p] = "insert" => ~ HasStatus(msg[p])
    /\ pc[p] \in Saving => ~ HasData(msg[p])
    /\ pc[p] = "select" => \E i \in 1 .. Len(csi_status) :
                             \A k \in i .. Len(csi_status) : Hangs(p, i, k, msg[p])
    /\ pc[p] = "matrix" => \E i \in 1 .. Len(csi_status) : Hangs(p, i, id[p], msg[p])

\* An open connection: the process runs, and everything it has read is stored
\* but for the message at hand.
Open ==
  \A p \in Procs :
    /\ pc[p] \in {"init2", "select", "matrix"} => conn[p]
    /\ pc[p] = "off" => ~ conn[p]
    /\ conn[p] => \A m \in 1 .. Len(msgs) :
                    \/ msgs[m].by # Run(p)
                    \/ pc[p] \in Saving /\ m = msg[p]
                    \/ HasStatus(m) /\ HasData(m)

Inv ==
  /\ TypeOK /\ Messages /\ Rows /\ Progress /\ Open
  /\ Attribution /\ StoredOnce /\ StorePrefix /\ TablesReady
=============================================================================
