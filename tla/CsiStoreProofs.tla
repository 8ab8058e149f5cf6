--------------------------- MODULE CsiStoreProofs ---------------------------
(***************************************************************************)
(* TLAPS proofs about CsiStore: any number of receivers on one database,   *)
(* any reports, and any number of failed statements, failed reads, kills   *)
(* and restarts.                                                           *)
(***************************************************************************)
EXTENDS CsiStore, TLAPS

States == {"off", "init1", "init2", "read", "insert", "select", "matrix"}
Report == [report : Nat, csi_len : Nat, rows : Nat]
Row == [msg : Nat, csi_len : Nat]
Note == [by : Procs \X Nat, report : Nat, csi_len : Nat]

\* The bounds are numbers.
LEMMA Bounds == {MaxMsgs, MaxStarts, MaxFails, MaxErrors} \subseteq Nat
BY StoreAssumption

\* The initial state has its type.
LEMMA InitType == Init => TypeOK
<1> SUFFICES ASSUME Init PROVE TypeOK
  OBVIOUS
<1>1. 0 \in 0 .. MaxStarts /\ 0 \in 0 .. MaxFails /\ 0 \in 0 .. MaxErrors
  BY Bounds
<1>2. conn \in [Procs -> BOOLEAN] /\ seqs \in BOOLEAN /\ tables \in BOOLEAN
  BY Zenon DEF Init
<1>3. buf_addr \in [Procs -> [report : Nat, csi_len : Nat, rows : Nat]]
  BY DEF Init, ZeroReport
<1>4. /\ csi_status \in Seq([msg : Nat, csi_len : Nat]) /\ Len(csi_status) = 0
      /\ msgs \in Seq([by : Procs \X Nat, report : Nat, csi_len : Nat]) /\ Len(msgs) = 0
  BY DEF Init
<1> QED  BY <1>1, <1>2, <1>3, <1>4 DEF Init, TypeOK

\* A failed statement keeps the types of what it touches.
LEMMA FailedType ==
  ASSUME TypeOK, NEW p \in Procs, Failed(p)
  PROVE  pc' \in [Procs -> States] /\ conn' \in [Procs -> BOOLEAN] /\ fails' \in 0 .. MaxFails
<1>1. fails' \in 0 .. MaxFails
  BY Bounds DEF TypeOK, Failed
<1>2. pc' \in [Procs -> States]
  BY DEF TypeOK, Failed, Goto, States
<1>3. conn' \in [Procs -> BOOLEAN]
  BY Zenon DEF TypeOK, Failed, pg_close
<1> QED  BY <1>1, <1>2, <1>3

\* So does a successful one.
LEMMA OkType ==
  ASSUME TypeOK, NEW p \in Procs, NEW l \in States, Ok(p, l)
  PROVE  pc' \in [Procs -> States] /\ conn' \in [Procs -> BOOLEAN] /\ fails' \in 0 .. MaxFails
BY DEF TypeOK, Ok, Goto, States

\* Closing the connection and going back to the main loop, or ending.
LEMMA CloseType ==
  ASSUME TypeOK, NEW p \in Procs, NEW l \in States, pg_close(p), Goto(p, l)
  PROVE  pc' \in [Procs -> States] /\ conn' \in [Procs -> BOOLEAN]
<1>1. pc' \in [Procs -> States]
  BY DEF TypeOK, Goto, States
<1>2. conn' \in [Procs -> BOOLEAN]
  BY Zenon DEF TypeOK, pg_close
<1> QED  BY <1>1, <1>2

\* Handing a message to save_csi.
LEMMA MessageType ==
  ASSUME TypeOK, NEW p \in Procs, NEW r \in Report, Message(p, r)
  PROVE  /\ msgs' \in Seq(Note) /\ Len(msgs') = Len(msgs) + 1 /\ Len(msgs) \in Nat
         /\ msgs'[Len(msgs) + 1] = [by |-> Run(p), report |-> r.report, csi_len |-> r.csi_len]
         /\ \A m \in 1 .. Len(msgs) : msgs'[m] = msgs[m]
         /\ msg' \in [Procs -> 0 .. Len(msgs')]
         /\ pc' \in [Procs -> States]
<1> DEFINE e == [by |-> Run(p), report |-> r.report, csi_len |-> r.csi_len]
<1>1. msgs \in Seq(Note) /\ Len(msgs) \in Nat /\ msg \in [Procs -> 0 .. Len(msgs)]
  BY DEF TypeOK, Note
<1>2. e \in Note
  BY DEF TypeOK, Run, Note, Report
<1>3. msgs' = Append(msgs, e)
  BY DEF Message
<1> HIDE DEF e
<1>4. /\ msgs' \in Seq(Note) /\ Len(msgs') = Len(msgs) + 1
      /\ msgs'[Len(msgs) + 1] = e
      /\ \A m \in 1 .. Len(msgs) : msgs'[m] = msgs[m]
  BY <1>1, <1>2, <1>3
<1>5. msg' = [msg EXCEPT ![p] = Len(msgs) + 1]
  BY DEF Message
<1>6. msg' \in [Procs -> 0 .. Len(msgs')]
  BY <1>1, <1>4, <1>5
<1>7. pc' \in [Procs -> States]
  BY DEF TypeOK, Message, Goto, States
<1> QED  BY <1>1, <1>4, <1>6, <1>7 DEF e

\* A row appended to csi_status.
LEMMA RowType ==
  ASSUME TypeOK, NEW p \in Procs,
         csi_status' = Append(csi_status, [msg |-> msg[p], csi_len |-> csi_len[p]])
  PROVE  /\ csi_status' \in Seq(Row) /\ Len(csi_status') = Len(csi_status) + 1
         /\ Len(csi_status) \in Nat
         /\ csi_status'[Len(csi_status) + 1] = [msg |-> msg[p], csi_len |-> csi_len[p]]
         /\ \A i \in 1 .. Len(csi_status) : csi_status'[i] = csi_status[i]
         /\ id \in [Procs -> 0 .. Len(csi_status')]
<1> DEFINE e == [msg |-> msg[p], csi_len |-> csi_len[p]]
<1>1. csi_status \in Seq(Row) /\ Len(csi_status) \in Nat /\ id \in [Procs -> 0 .. Len(csi_status)]
  BY DEF TypeOK, Row
<1>2. e \in Row
  BY DEF TypeOK, Row
<1> HIDE DEF e
<1>3. /\ csi_status' \in Seq(Row) /\ Len(csi_status') = Len(csi_status) + 1
      /\ csi_status'[Len(csi_status) + 1] = e
      /\ \A i \in 1 .. Len(csi_status) : csi_status'[i] = csi_status[i]
  BY <1>1, <1>2 DEF e
<1>4. id \in [Procs -> 0 .. Len(csi_status')]
  BY <1>1, <1>3
<1> QED  BY <1>1, <1>3, <1>4 DEF e

\* Every step keeps the types.
LEMMA NextType == TypeOK /\ [Next]_vars => TypeOK'
<1> SUFFICES ASSUME TypeOK, [Next]_vars PROVE TypeOK'
  OBVIOUS
<1> USE DEF proc, db
<1>1. CASE UNCHANGED vars
  BY <1>1 DEF TypeOK, vars
<1>2. ASSUME NEW p \in Procs, Start(p) PROVE TypeOK'
  <2>1. pc' \in [Procs -> States] /\ starts' \in [Procs -> 0 .. MaxStarts]
    <3>1. starts \in [Procs -> 0 .. MaxStarts] /\ starts[p] + 1 \in 0 .. MaxStarts
      BY <1>2, Bounds DEF TypeOK, Start
    <3>2. starts' = [starts EXCEPT ![p] = starts[p] + 1]
      BY <1>2 DEF Start
    <3>3. pc' \in [Procs -> States]
      BY <1>2 DEF TypeOK, Start, Goto, States
    <3> QED  BY <3>1, <3>2, <3>3
  <2>2. conn' \in [Procs -> BOOLEAN]
    BY <1>2, Zenon DEF TypeOK, Start
  <2>3. csi_len' \in [Procs -> Nat]
    BY <1>2, StoreAssumption DEF TypeOK, Start
  <2>4. Len(msgs) \in Nat /\ Len(csi_status) \in Nat
    BY DEF TypeOK
  <2>5. /\ buf_addr' \in [Procs -> Report] /\ msg' \in [Procs -> 0 .. Len(msgs)]
        /\ id' \in [Procs -> 0 .. Len(csi_status)]
    BY <1>2, <2>4 DEF TypeOK, Start, ZeroReport, Report
  <2> QED  BY <1>2, <2>1, <2>2, <2>3, <2>5 DEF TypeOK, Start, States, Report
<1>3. ASSUME NEW p \in Procs, InitSequences(p) PROVE TypeOK'
  <2>1. pc' \in [Procs -> States]
    BY <1>3 DEF TypeOK, InitSequences, Goto, States
  <2>2. seqs' \in BOOLEAN
    BY <1>3, Zenon DEF TypeOK, InitSequences
  <2> QED  BY <1>3, <2>1, <2>2 DEF TypeOK, InitSequences, States
<1>4. ASSUME NEW p \in Procs, InitTables(p) PROVE TypeOK'
  <2>1. tables' \in BOOLEAN
    BY <1>4, Zenon DEF TypeOK, InitTables
  <2>2. pc' \in [Procs -> States] /\ conn' \in [Procs -> BOOLEAN] /\ fails' \in 0 .. MaxFails
    <3>1. \/ Ok(p, "read") \/ Failed(p)
          \/ pg_close(p) /\ Goto(p, "read") /\ UNCHANGED fails
      BY <1>4 DEF InitTables
    <3>2. "read" \in States
      BY DEF States
    <3>3. fails \in 0 .. MaxFails
      BY DEF TypeOK
    <3> QED  BY <3>1, <3>2, <3>3, OkType, FailedType, CloseType
  <2> QED  BY <1>4, <2>1, <2>2 DEF TypeOK, InitTables, States
<1>5. ASSUME NEW p \in Procs, ReadReport(p) PROVE TypeOK'
  <2>1. PICK s \in Shapes :
          /\ buf_addr' = [buf_addr EXCEPT ![p] = [report |-> Len(msgs) + 1, csi_len |-> s.csi_len, rows |-> s.rows]]
          /\ Message(p, [report |-> Len(msgs) + 1, csi_len |-> s.csi_len, rows |-> s.rows])
    BY <1>5 DEF ReadReport
  <2>2. Len(msgs) + 1 \in Nat /\ s \in [csi_len : Nat, rows : Nat]
    BY StoreAssumption DEF TypeOK
  <2>3. [report |-> Len(msgs) + 1, csi_len |-> s.csi_len, rows |-> s.rows] \in Report
    BY <2>2 DEF Report
  <2>4. buf_addr' \in [Procs -> Report]
    BY <2>1, <2>3 DEF TypeOK, Report
  <2>5. msgs' \in Seq(Note) /\ msg' \in [Procs -> 0 .. Len(msgs')] /\ pc' \in [Procs -> States]
    BY <2>1, <2>3, MessageType
  <2> QED  BY <1>5, <2>4, <2>5 DEF TypeOK, ReadReport, Report, Note, States
<1>6. ASSUME NEW p \in Procs, ReadError(p) PROVE TypeOK'
  <2>1. buf_addr[p] \in Report
    BY DEF TypeOK, Report
  <2>2. msgs' \in Seq(Note) /\ msg' \in [Procs -> 0 .. Len(msgs')] /\ pc' \in [Procs -> States]
    BY <1>6, <2>1, MessageType DEF ReadError
  <2>3. errors' \in 0 .. MaxErrors
    BY <1>6, Bounds DEF TypeOK, ReadError
  <2> QED  BY <1>6, <2>2, <2>3 DEF TypeOK, ReadError, Note, States
<1>7. ASSUME NEW p \in Procs, SkipSave(p) PROVE TypeOK'
  <2>1. pc' \in [Procs -> States]
    BY <1>7 DEF TypeOK, SkipSave, Goto, States
  <2> QED  BY <1>7, <2>1 DEF TypeOK, SkipSave, States
<1>8. ASSUME NEW p \in Procs, InsertStatus(p) PROVE TypeOK'
  <2>1. pc' \in [Procs -> States] /\ conn' \in [Procs -> BOOLEAN] /\ fails' \in 0 .. MaxFails
    <3>1. Ok(p, "select") \/ Failed(p)
      BY <1>8 DEF InsertStatus
    <3>2. "select" \in States
      BY DEF States
    <3> QED  BY <3>1, <3>2, OkType, FailedType
  <2>2. csi_status' \in Seq(Row) /\ id \in [Procs -> 0 .. Len(csi_status')]
    <3>1. CASE csi_status' = Append(csi_status, [msg |-> msg[p], csi_len |-> csi_len[p]])
      BY <3>1, RowType
    <3>2. CASE csi_status' = csi_status
      BY <3>2 DEF TypeOK, Row
    <3> QED  BY <1>8, <3>1, <3>2 DEF InsertStatus
  <2> QED  BY <1>8, <2>1, <2>2 DEF TypeOK, InsertStatus, States, Row
<1>9. ASSUME NEW p \in Procs, SelectId(p) PROVE TypeOK'
  <2>1. pc' \in [Procs -> States] /\ conn' \in [Procs -> BOOLEAN] /\ fails' \in 0 .. MaxFails
    <3>1. Ok(p, "matrix") \/ Failed(p)
      BY <1>9 DEF SelectId
    <3>2. "matrix" \in States
      BY DEF States
    <3> QED  BY <3>1, <3>2, OkType, FailedType
  <2>2. id' \in [Procs -> 0 .. Len(csi_status)]
    <3>1. id \in [Procs -> 0 .. Len(csi_status)] /\ Len(csi_status) \in 0 .. Len(csi_status)
      BY DEF TypeOK
    <3>2. id' = id \/ id' = [id EXCEPT ![p] = Len(csi_status)]
      BY <1>9 DEF SelectId, LatestId
    <3> QED  BY <3>1, <3>2
  <2> QED  BY <1>9, <2>1, <2>2 DEF TypeOK, SelectId, States
<1>10. ASSUME NEW p \in Procs, InsertMatrix(p) PROVE TypeOK'
  <2>1. pc' \in [Procs -> States] /\ conn' \in [Procs -> BOOLEAN] /\ fails' \in 0 .. MaxFails
    <3>1. \/ Ok(p, "read") \/ Failed(p)
          \/ pg_close(p) /\ Goto(p, "read") /\ UNCHANGED fails
      BY <1>10 DEF InsertMatrix
    <3>2. "read" \in States
      BY DEF States
    <3>3. fails \in 0 .. MaxFails
      BY DEF TypeOK
    <3> QED  BY <3>1, <3>2, <3>3, OkType, FailedType, CloseType
  <2>2. [status_id |-> id[p], msg |-> msg[p]] \in [status_id : Nat, msg : Nat]
    BY DEF TypeOK
  <2>3. csi_data' \in {csi_data, csi_data \cup {[status_id |-> id[p], msg |-> msg[p]]}}
    BY <1>10 DEF InsertMatrix
  <2>4. csi_data' \subseteq [status_id : Nat, msg : Nat]
    BY <2>2, <2>3 DEF TypeOK
  <2> QED  BY <1>10, <2>1, <2>4 DEF TypeOK, InsertMatrix, States
<1>11. ASSUME NEW p \in Procs, Kill(p) PROVE TypeOK'
  <2>1. pc' \in [Procs -> States] /\ conn' \in [Procs -> BOOLEAN]
    BY <1>11, CloseType, "off" \in States DEF Kill, States
  <2> QED  BY <1>11, <2>1 DEF TypeOK, Kill, States
<1> QED  BY <1>1, <1>2, <1>3, <1>4, <1>5, <1>6, <1>7, <1>8, <1>9, <1>10, <1>11 DEF Next
-----------------------------------------------------------------------------
\* What the invariant says of the tables and the messages.
Rest == /\ Messages /\ Rows /\ Progress /\ Open
        /\ Attribution /\ StoredOnce /\ StorePrefix /\ TablesReady

\* Hangs in the next state, of given rows and a given message.
HangsNext(p, i, k, m) ==
  /\ csi_status'[i].msg = m /\ k \in i .. Len(csi_status')
  /\ k = i \/ msgs'[csi_status'[k].msg].by[1] # p

HasStatusNext(m) == \E i \in 1 .. Len(csi_status') : csi_status'[i].msg = m

\* The initial state.
LEMMA InitRest == Init => Rest
<1> SUFFICES ASSUME Init PROVE Rest
  OBVIOUS
<1>1. Len(msgs) = 0 /\ Len(csi_status) = 0 /\ csi_data = {}
  BY DEF Init
<1>2. \A p \in Procs : pc[p] = "off" /\ conn[p] = FALSE
  BY DEF Init
<1> QED  BY <1>1, <1>2 DEF Rest, Messages, Rows, Progress, Open, Saving,
                           Attribution, StoredOnce, StorePrefix, TablesReady, HasStatus

\* A step that gives up: p goes back to its main loop, or ends, without a
\* connection, and the tables keep their rows.
LEMMA Abandon ==
  ASSUME TypeOK, Rest, NEW p \in Procs, NEW l \in {"read", "off"},
         pc' = [pc EXCEPT ![p] = l], conn' = [conn EXCEPT ![p] = FALSE],
         UNCHANGED <<csi_status, csi_data, msgs, msg, id, starts>>, tables => tables'
  PROVE  Rest'
<1>1. \A q \in Procs : pc'[q] = IF q = p THEN l ELSE pc[q]
  BY DEF TypeOK
<1>2. \A q \in Procs : conn'[q] = IF q = p THEN FALSE ELSE conn[q]
  BY Zenon DEF TypeOK
<1>3. \A m : HasStatus(m)' = HasStatus(m) /\ HasData(m)' = HasData(m)
  BY DEF HasStatus, HasData
<1>4. \A q : Run(q)' = Run(q)
  BY DEF Run
<1>5. \A q, i, k, m : Hangs(q, i, k, m)' = Hangs(q, i, k, m)
  BY DEF Hangs
<1>6. Messages'
  BY <1>1, <1>4 DEF Rest, Messages, Saving
<1>7. Rows' /\ Attribution' /\ StoredOnce' /\ StorePrefix'
  BY <1>3, <1>5 DEF Rest, Rows, Attribution, StoredOnce, StorePrefix
<1>8. Progress'
  BY <1>1, <1>3, <1>5 DEF Rest, Progress, Saving
<1>9. Open'
  <2>1. Open
    BY DEF Rest
  <2>2. ASSUME NEW q \in Procs
        PROVE  /\ pc'[q] \in {"init2", "select", "matrix"} => conn'[q]
               /\ pc'[q] = "off" => ~ conn'[q]
    <3>1. CASE q = p
      BY <1>1, <1>2, <3>1
    <3>2. CASE q # p
      BY <1>1, <1>2, <2>1, <3>2 DEF Open
    <3> QED  BY <3>1, <3>2
  <2>3. ASSUME NEW q \in Procs, conn'[q], NEW m \in 1 .. Len(msgs), msgs[m].by = Run(q)
        PROVE  (pc'[q] \in Saving /\ m = msg[q]) \/ (HasStatus(m) /\ HasData(m))
    <3>1. q # p
      BY <1>2, <2>3
    <3>2. conn[q] /\ pc'[q] = pc[q]
      BY <1>1, <1>2, <2>3, <3>1
    <3> QED  BY <2>1, <2>3, <3>2 DEF Open
  <2> QED  BY <1>3, <1>4, <2>2, <2>3 DEF Open
<1>10. TablesReady'
  BY <1>1, <1>2 DEF Rest, TablesReady
<1> QED  BY <1>6, <1>7, <1>8, <1>9, <1>10 DEF Rest
\* A new message: p takes the next number, and everything it has read before is
\* stored if its connection is open.
LEMMA MessageRest ==
  ASSUME TypeOK, Rest, NEW p \in Procs, pc[p] = "read", NEW r \in Report, Message(p, r),
         UNCHANGED <<conn, id, starts, tables, csi_status, csi_data>>
  PROVE  Rest'
<1> DEFINE n == Len(msgs) + 1
<1>1. /\ Len(msgs') = n /\ Len(msgs) \in Nat /\ n \in Nat /\ n \in 1 .. n
      /\ msgs'[n].by = Run(p)
      /\ \A m \in 1 .. Len(msgs) : msgs'[m] = msgs[m]
  <2>1. /\ Len(msgs') = n /\ Len(msgs) \in Nat
        /\ msgs'[n] = [by |-> Run(p), report |-> r.report, csi_len |-> r.csi_len]
        /\ \A m \in 1 .. Len(msgs) : msgs'[m] = msgs[m]
    BY MessageType
  <2>2. n \in Nat /\ n \in 1 .. n
    BY <2>1
  <2> QED  BY <2>1, <2>2
<1>2. \A m \in 1 .. n : m \in 1 .. Len(msgs) \/ m = n
  BY <1>1
<1> HIDE DEF n
<1>3. \A q \in Procs : pc'[q] = IF q = p THEN "insert" ELSE pc[q]
  BY DEF TypeOK, Message, Goto
<1>4. \A q \in Procs : msg'[q] = IF q = p THEN n ELSE msg[q]
  BY DEF TypeOK, Message, n
<1>5. \A m : HasStatus(m)' = HasStatus(m) /\ HasData(m)' = HasData(m)
  BY DEF HasStatus, HasData
<1>6. \A q : Run(q)' = Run(q) /\ Run(q)[1] = q /\ Run(q)[2] = starts[q]
  BY DEF Run
<1>7. \A m : HasStatus(m) => m \in 1 .. Len(msgs)
  BY DEF Rest, Rows, HasStatus
<1>8. ~ HasStatus(n) /\ ~ HasData(n)
  BY <1>1, <1>7 DEF Rest, Rows, HasData, n
<1>9. \A k : \A q \in Procs, i \in 1 .. Len(csi_status), m \in 1 .. Len(msgs) :
         Hangs(q, i, k, m) => HangsNext(q, i, k, m)
  <2> SUFFICES ASSUME NEW q \in Procs, NEW i \in 1 .. Len(csi_status), NEW k,
                      NEW m \in 1 .. Len(msgs), Hangs(q, i, k, m)
               PROVE  HangsNext(q, i, k, m)
    OBVIOUS
  <2>1. k \in 1 .. Len(csi_status)
    BY DEF Hangs, TypeOK
  <2>2. csi_status[k].msg \in 1 .. Len(msgs)
    BY <2>1 DEF Rest, Rows
  <2>3. msgs'[csi_status[k].msg] = msgs[csi_status[k].msg]
    BY <1>1, <2>2
  <2> QED  BY <2>3 DEF Hangs, HangsNext
<1>10. Messages'
  <2>1. Messages
    BY DEF Rest
  <2>2. ASSUME NEW m \in 1 .. n PROVE msgs'[m].by[2] <= starts[msgs'[m].by[1]]
    <3>1. CASE m = n
      <4>1. starts[p] \in Nat
        BY Bounds DEF TypeOK
      <4> QED  BY <1>1, <1>6, <3>1, <4>1
    <3>2. CASE m \in 1 .. Len(msgs)
      BY <1>1, <2>1, <3>2 DEF Messages
    <3> QED  BY <1>2, <3>1, <3>2
  <2>3. ASSUME NEW q \in Procs, pc'[q] \in Saving
        PROVE  /\ msg'[q] \in 1 .. n /\ msgs'[msg'[q]].by = Run(q)
               /\ \A m \in 1 .. n : msgs'[m].by = Run(q) => m <= msg'[q]
    <3>1. CASE q = p
      BY <1>1, <1>4, <1>6, <3>1
    <3>2. CASE q # p
      <4>1. pc[q] \in Saving /\ msg'[q] = msg[q]
        BY <1>3, <1>4, <2>3, <3>2
      <4>2. /\ msg[q] \in 1 .. Len(msgs) /\ msgs[msg[q]].by = Run(q)
            /\ \A m \in 1 .. Len(msgs) : msgs[m].by = Run(q) => m <= msg[q]
        BY <2>1, <4>1 DEF Messages
      <4>3. msgs'[n].by # Run(q)
        BY <1>1, <1>6, <3>2
      <4> QED  BY <1>1, <1>2, <4>1, <4>2, <4>3 DEF n
    <3> QED  BY <3>1, <3>2
  <2>4. ASSUME NEW q \in Procs, pc'[q] \in {"init1", "init2"}, NEW m \in 1 .. n
        PROVE  msgs'[m].by # Run(q)
    <3>1. q # p /\ pc[q] \in {"init1", "init2"}
      BY <1>3, <2>4
    <3>2. CASE m = n
      BY <1>1, <1>6, <3>1, <3>2
    <3>3. CASE m \in 1 .. Len(msgs)
      BY <1>1, <2>1, <3>1, <3>3 DEF Messages
    <3> QED  BY <1>2, <3>2, <3>3
  <2> QED  BY <1>1, <1>6, <2>2, <2>3, <2>4 DEF Messages
<1>11. Rows'
  BY <1>1, <1>5 DEF Rest, Rows, n
<1>12. Progress'
  <2> SUFFICES ASSUME NEW q \in Procs
               PROVE  /\ pc'[q] = "insert" => ~ HasStatus(msg'[q])
                      /\ pc'[q] \in Saving => ~ HasData(msg'[q])
                      /\ pc'[q] = "select" => \E i \in 1 .. Len(csi_status) :
                           \A k \in i .. Len(csi_status) : HangsNext(q, i, k, msg'[q])
                      /\ pc'[q] = "matrix" => \E i \in 1 .. Len(csi_status) :
                           HangsNext(q, i, id[q], msg'[q])
    BY <1>5 DEF Progress, HasStatus, HasData, Hangs, HangsNext
  <2>1. CASE q = p
    BY <1>3, <1>4, <1>8, <2>1
  <2>2. CASE q # p
    <3>1. pc'[q] = pc[q] /\ msg'[q] = msg[q]
      BY <1>3, <1>4, <2>2
    <3>2. pc[q] \in Saving => msg[q] \in 1 .. Len(msgs)
      BY DEF Rest, Messages
    <3>3. pc[q] = "select" => \E i \in 1 .. Len(csi_status) :
            \A k \in i .. Len(csi_status) : HangsNext(q, i, k, msg[q])
      BY <1>9, <3>2 DEF Rest, Progress, Saving
    <3>4. pc[q] = "matrix" => \E i \in 1 .. Len(csi_status) : HangsNext(q, i, id[q], msg[q])
      BY <1>9, <3>2 DEF Rest, Progress, Saving
    <3> QED  BY <3>1, <3>3, <3>4 DEF Rest, Progress
  <2> QED  BY <2>1, <2>2
<1>13. Open'
  <2>1. Open
    BY DEF Rest
  <2>2. ASSUME NEW q \in Procs
        PROVE  /\ pc'[q] \in {"init2", "select", "matrix"} => conn[q]
               /\ pc'[q] = "off" => ~ conn[q]
    BY <1>3, <2>1 DEF Open
  <2>3. ASSUME NEW q \in Procs, conn[q], NEW m \in 1 .. n, msgs'[m].by = Run(q)
        PROVE  (pc'[q] \in Saving /\ m = msg'[q]) \/ (HasStatus(m) /\ HasData(m))
    <3>1. CASE q = p
      <4>1. CASE m = n
        BY <1>3, <1>4, <3>1, <4>1 DEF Saving
      <4>2. CASE m \in 1 .. Len(msgs)
        BY <1>1, <2>1, <2>3, <3>1, <4>2 DEF Open, Saving
      <4> QED  BY <1>2, <4>1, <4>2
    <3>2. CASE q # p
      <4>1. m \in 1 .. Len(msgs)
        BY <1>1, <1>2, <1>6, <2>3, <3>2
      <4>2. pc'[q] = pc[q] /\ msg'[q] = msg[q]
        BY <1>3, <1>4, <3>2
      <4> QED  BY <1>1, <2>1, <2>3, <4>1, <4>2 DEF Open
    <3> QED  BY <3>1, <3>2
  <2> QED  BY <1>1, <1>5, <1>6, <2>2, <2>3 DEF Open
<1>14. Attribution'
  <2>1. ASSUME NEW d \in csi_data
        PROVE  \E i \in 1 .. Len(csi_status) :
                 HangsNext(msgs'[d.msg].by[1], i, d.status_id, d.msg)
    <3>1. d.msg \in 1 .. Len(msgs)
      BY <1>7 DEF Rest, Rows
    <3>2. msgs[d.msg] \in Note /\ msgs'[d.msg] = msgs[d.msg]
      <4>1. msgs \in Seq(Note)
        BY DEF TypeOK, Note
      <4> QED  BY <1>1, <3>1, <4>1
    <3>3. PICK i \in 1 .. Len(csi_status) : Hangs(msgs[d.msg].by[1], i, d.status_id, d.msg)
      BY DEF Rest, Attribution
    <3>4. msgs[d.msg].by[1] \in Procs
      BY <3>2 DEF Note
    <3>5. HangsNext(msgs[d.msg].by[1], i, d.status_id, d.msg)
      BY <1>9, <3>1, <3>3, <3>4
    <3> QED  BY <3>2, <3>5
  <2> QED  BY <2>1 DEF Attribution, Hangs, HangsNext
<1>15. StoredOnce'
  BY DEF Rest, StoredOnce
<1>16. StorePrefix'
  <2> SUFFICES ASSUME NEW a \in 1 .. n, NEW b \in 1 .. n, a < b,
                      msgs'[a].by = msgs'[b].by, HasStatus(b)
               PROVE  HasStatus(a) /\ HasData(a)
    BY <1>1, <1>5 DEF StorePrefix
  <2>1. b \in 1 .. Len(msgs)
    BY <1>7
  <2>2. a \in 1 .. Len(msgs)
    BY <1>1, <2>1
  <2> QED  BY <1>1, <2>1, <2>2 DEF Rest, StorePrefix
<1>17. TablesReady'
  BY <1>3 DEF Rest, TablesReady
<1> QED  BY <1>10, <1>11, <1>12, <1>13, <1>14, <1>15, <1>16, <1>17 DEF Rest
\* Messages being saved by two receivers differ.
LEMMA OwnMessages ==
  ASSUME TypeOK, Rest, NEW p \in Procs, NEW q \in Procs, p # q,
         pc[p] \in Saving, pc[q] \in Saving
  PROVE  msg[p] # msg[q]
<1>1. msgs[msg[p]].by = Run(p) /\ msgs[msg[q]].by = Run(q)
  BY DEF Rest, Messages
<1>2. Run(p)[1] = p /\ Run(q)[1] = q
  BY DEF Run
<1> QED  BY <1>1, <1>2

\* The INSERT INTO csi_status is committed, whether or not its result arrives.
LEMMA StatusRest ==
  ASSUME TypeOK, Rest, NEW p \in Procs, pc[p] = "insert", conn[p],
         csi_status' = Append(csi_status, [msg |-> msg[p], csi_len |-> csi_len[p]]),
         NEW l, pc' = [pc EXCEPT ![p] = l],
         \/ l = "select" /\ conn' = conn
         \/ l = "read" /\ conn' = [conn EXCEPT ![p] = FALSE],
         UNCHANGED <<csi_data, msgs, msg, id, starts, tables>>
  PROVE  Rest'
<1> DEFINE n == Len(csi_status) + 1
<1>1. /\ Len(csi_status') = n /\ Len(csi_status) \in Nat /\ n \in Nat /\ n \in 1 .. n
      /\ csi_status'[n].msg = msg[p]
      /\ \A i \in 1 .. Len(csi_status) : csi_status'[i] = csi_status[i]
  <2>1. /\ Len(csi_status') = n /\ Len(csi_status) \in Nat
        /\ csi_status'[n] = [msg |-> msg[p], csi_len |-> csi_len[p]]
        /\ \A i \in 1 .. Len(csi_status) : csi_status'[i] = csi_status[i]
    BY RowType
  <2>2. n \in Nat /\ n \in 1 .. n
    BY <2>1
  <2> QED  BY <2>1, <2>2
<1>2. \A i \in 1 .. n : i \in 1 .. Len(csi_status) \/ i = n
  BY <1>1
<1>3. \A i \in 1 .. Len(csi_status) : i \in 1 .. n
  BY <1>1
<1> HIDE DEF n
<1>4. \A q \in Procs : pc'[q] = IF q = p THEN l ELSE pc[q]
  BY DEF TypeOK
<1>5. \A q \in Procs : q # p => conn'[q] = conn[q]
  BY Zenon DEF TypeOK
<1>6. l = "read" => ~ conn'[p]
  BY Zenon DEF TypeOK
<1>7. /\ msg[p] \in 1 .. Len(msgs) /\ msgs[msg[p]].by = Run(p) /\ Run(p)[1] = p
      /\ ~ HasStatus(msg[p]) /\ ~ HasData(msg[p])
      /\ \A q : Run(q)' = Run(q)
  BY DEF Rest, Messages, Progress, Saving, Run
<1>8. \A m : HasData(m)' = HasData(m)
  BY DEF HasData
<1>9. \A m : HasStatus(m)' <=> HasStatus(m) \/ m = msg[p]
  <2>1. ASSUME NEW m, HasStatus(m)' PROVE HasStatus(m) \/ m = msg[p]
    <3>1. PICK i \in 1 .. n : csi_status'[i].msg = m
      BY <1>1, <2>1 DEF HasStatus
    <3> QED  BY <1>1, <1>2, <3>1 DEF HasStatus
  <2>2. ASSUME NEW m, HasStatus(m) \/ m = msg[p] PROVE HasStatus(m)'
    BY <1>1, <1>3, <2>2 DEF HasStatus
  <2> QED  BY <2>1, <2>2
<1>10. \A k : \A q, m : \A i \in 1 .. Len(csi_status) :
         Hangs(q, i, k, m) => HangsNext(q, i, k, m)
  <2> SUFFICES ASSUME NEW k, NEW q, NEW m, NEW i \in 1 .. Len(csi_status), Hangs(q, i, k, m)
               PROVE  HangsNext(q, i, k, m)
    OBVIOUS
  <2>1. k \in 1 .. Len(csi_status) /\ k \in i .. n
    BY <1>1 DEF Hangs, n
  <2>2. csi_status'[k] = csi_status[k] /\ csi_status'[i] = csi_status[i]
    BY <1>1, <2>1
  <2> QED  BY <1>1, <2>1, <2>2 DEF Hangs, HangsNext
<1>11. Messages'
  BY <1>4, <1>7 DEF Rest, Messages, Saving
<1>12. Rows'
  <2>1. \A i \in 1 .. n : csi_status'[i].msg \in 1 .. Len(msgs)
    BY <1>1, <1>2, <1>7 DEF Rest, Rows
  <2> QED  BY <1>1, <1>9, <2>1 DEF Rest, Rows
<1>13. Progress'
  <2> SUFFICES ASSUME NEW q \in Procs
               PROVE  /\ pc'[q] = "insert" => ~ HasStatusNext(msg'[q])
                      /\ pc'[q] \in Saving => ~ HasData(msg[q])
                      /\ pc'[q] = "select" => \E i \in 1 .. Len(csi_status') :
                           \A k \in i .. Len(csi_status') : HangsNext(q, i, k, msg'[q])
                      /\ pc'[q] = "matrix" => \E i \in 1 .. Len(csi_status') :
                           HangsNext(q, i, id'[q], msg'[q])
    BY DEF Progress, HasStatus, HasStatusNext, HasData, Hangs, HangsNext
  <2>0. HasStatusNext(msg[q]) => HasStatus(msg[q]) \/ msg[q] = msg[p]
    BY <1>1, <1>2 DEF HasStatus, HasStatusNext
  <2>1. CASE q = p
    <3>1. HangsNext(p, n, n, msg[p])
      BY <1>1 DEF HangsNext
    <3>2. \A k \in n .. n : k = n
      BY <1>1
    <3> QED  BY <1>1, <1>4, <1>7, <2>1, <3>1, <3>2
  <2>2. CASE q # p
    <3>1. pc'[q] = pc[q]
      BY <1>4, <2>2
    <3>2. pc[q] \in Saving => msg[q] # msg[p]
      BY <2>2, OwnMessages DEF Saving
    <3>3. ASSUME pc[q] = "select"
          PROVE  \E i \in 1 .. n : \A k \in i .. n : HangsNext(q, i, k, msg[q])
      <4>1. PICK i \in 1 .. Len(csi_status) :
              \A k \in i .. Len(csi_status) : Hangs(q, i, k, msg[q])
        BY <3>3 DEF Rest, Progress
      <4>2. i \in 1 .. n /\ i \in i .. Len(csi_status) /\ n \in i .. n
        BY <1>1, <1>3 DEF n
      <4>3. csi_status'[i].msg = msg[q]
        BY <1>1, <4>1, <4>2 DEF Hangs
      <4>4. HangsNext(q, i, n, msg[q])
        BY <1>1, <1>7, <2>2, <4>2, <4>3 DEF HangsNext
      <4>5. \A k \in i .. n : k = n \/ k \in i .. Len(csi_status)
        BY <1>1, <4>2 DEF n
      <4> QED  BY <1>10, <4>1, <4>2, <4>4, <4>5
    <3>4. ASSUME pc[q] = "matrix"
          PROVE  \E i \in 1 .. n : HangsNext(q, i, id[q], msg[q])
      <4>1. PICK i \in 1 .. Len(csi_status) : Hangs(q, i, id[q], msg[q])
        BY <3>4 DEF Rest, Progress
      <4> QED  BY <1>3, <1>10, <4>1
    <3> QED  BY <1>1, <2>0, <3>1, <3>2, <3>3, <3>4 DEF Rest, Progress, Saving
  <2> QED  BY <2>1, <2>2
<1>14. Open'
  <2>1. Open
    BY DEF Rest
  <2>2. ASSUME NEW q \in Procs
        PROVE  /\ pc'[q] \in {"init2", "select", "matrix"} => conn'[q]
               /\ pc'[q] = "off" => ~ conn'[q]
    BY <1>4, <1>5, <2>1 DEF Open
  <2>3. ASSUME NEW q \in Procs, conn'[q], NEW m \in 1 .. Len(msgs), msgs[m].by = Run(q)
        PROVE  (pc'[q] \in Saving /\ m = msg[q]) \/ (HasStatus(m) /\ HasData(m))
    <3>1. CASE q = p
      <4>1. l = "select"
        BY <1>6, <2>3, <3>1
      <4> QED  BY <1>4, <2>1, <2>3, <3>1, <4>1 DEF Open, Saving
    <3>2. CASE q # p
      BY <1>4, <1>5, <2>1, <2>3, <3>2 DEF Open
    <3> QED  BY <3>1, <3>2
  <2> QED  BY <1>7, <1>8, <1>9, <2>2, <2>3 DEF Open
<1>15. Attribution'
  <2>1. ASSUME NEW d \in csi_data
        PROVE  \E i \in 1 .. n : HangsNext(msgs[d.msg].by[1], i, d.status_id, d.msg)
    <3>1. PICK i \in 1 .. Len(csi_status) : Hangs(msgs[d.msg].by[1], i, d.status_id, d.msg)
      BY DEF Rest, Attribution
    <3> QED  BY <1>3, <1>10, <3>1
  <2> QED  BY <1>1, <2>1 DEF Attribution, Hangs, HangsNext
<1>16. StoredOnce'
  <2>1. \A i \in 1 .. Len(csi_status) : csi_status[i].msg # msg[p]
    BY <1>7 DEF HasStatus
  <2>2. ASSUME NEW i \in 1 .. n, NEW j \in 1 .. n, csi_status'[i].msg = csi_status'[j].msg
        PROVE  i = j
    <3>1. CASE i = n \/ j = n
      BY <1>1, <1>2, <2>1, <2>2, <3>1
    <3>2. CASE i \in 1 .. Len(csi_status) /\ j \in 1 .. Len(csi_status)
      BY <1>1, <2>2, <3>2 DEF Rest, StoredOnce
    <3> QED  BY <1>2, <3>1, <3>2
  <2> QED  BY <1>1, <2>2 DEF Rest, StoredOnce
<1>17. StorePrefix'
  <2> SUFFICES ASSUME NEW a \in 1 .. Len(msgs), NEW b \in 1 .. Len(msgs), a < b,
                      msgs[a].by = msgs[b].by, HasStatus(b) \/ b = msg[p]
               PROVE  HasStatus(a) /\ HasData(a)
    BY <1>8, <1>9 DEF StorePrefix
  <2>1. CASE HasStatus(b)
    BY <2>1 DEF Rest, StorePrefix
  <2>2. CASE b = msg[p]
    <3>1. msgs[a].by = Run(p) /\ a # msg[p]
      BY <1>7, <2>2
    <3> QED  BY <3>1 DEF Rest, Open
  <2> QED  BY <2>1, <2>2
<1>18. TablesReady'
  <2>1. tables
    BY DEF Rest, TablesReady
  <2> QED  BY <2>1 DEF TablesReady
<1> QED  BY <1>11, <1>12, <1>13, <1>14, <1>15, <1>16, <1>17, <1>18 DEF Rest
\* The SELECT finds p's own row, or a later one of another receiver.
LEMMA SelectRest ==
  ASSUME TypeOK, Rest, NEW p \in Procs, pc[p] = "select",
         id' = [id EXCEPT ![p] = Len(csi_status)], pc' = [pc EXCEPT ![p] = "matrix"],
         UNCHANGED <<conn, csi_status, csi_data, msgs, msg, starts, tables>>
  PROVE  Rest'
<1>1. \A q \in Procs : pc'[q] = IF q = p THEN "matrix" ELSE pc[q]
  BY DEF TypeOK
<1>2. \A q \in Procs : id'[q] = IF q = p THEN Len(csi_status) ELSE id[q]
  BY DEF TypeOK
<1>3. \A m : HasStatus(m)' = HasStatus(m) /\ HasData(m)' = HasData(m)
  BY DEF HasStatus, HasData
<1>4. \A q : Run(q)' = Run(q)
  BY DEF Run
<1>5. Messages' /\ Rows' /\ Attribution' /\ StoredOnce' /\ StorePrefix'
  <2>1. Messages'
    BY <1>1, <1>4 DEF Rest, Messages, Saving
  <2>2. \A q, i, k, m : Hangs(q, i, k, m)' = Hangs(q, i, k, m)
    BY DEF Hangs
  <2> QED  BY <1>3, <2>1, <2>2 DEF Rest, Rows, Attribution, StoredOnce, StorePrefix
<1>6. Progress'
  <2> SUFFICES ASSUME NEW q \in Procs
               PROVE  /\ pc'[q] = "insert" => ~ HasStatus(msg[q])
                      /\ pc'[q] \in Saving => ~ HasData(msg[q])
                      /\ pc'[q] = "select" => \E i \in 1 .. Len(csi_status) :
                           \A k \in i .. Len(csi_status) : Hangs(q, i, k, msg[q])
                      /\ pc'[q] = "matrix" => \E i \in 1 .. Len(csi_status) :
                           Hangs(q, i, id'[q], msg[q])
    BY DEF Progress, HasStatus, HasData, Hangs
  <2>1. CASE q = p
    <3>1. PICK i \in 1 .. Len(csi_status) :
            \A k \in i .. Len(csi_status) : Hangs(p, i, k, msg[p])
      BY DEF Rest, Progress
    <3>2. Len(csi_status) \in i .. Len(csi_status)
      BY DEF TypeOK
    <3>3. ~ HasData(msg[p])
      BY DEF Rest, Progress, Saving
    <3> QED  BY <1>1, <1>2, <2>1, <3>1, <3>2, <3>3
  <2>2. CASE q # p
    BY <1>1, <1>2, <2>2 DEF Rest, Progress
  <2> QED  BY <2>1, <2>2
<1>7. Open'
  BY <1>1, <1>3, <1>4 DEF Rest, Open, Saving
<1>8. TablesReady'
  BY <1>1 DEF Rest, TablesReady
<1> QED  BY <1>5, <1>6, <1>7, <1>8 DEF Rest

\* The INSERT INTO csi_data is committed, whether or not its result arrives.
LEMMA MatrixRest ==
  ASSUME TypeOK, Rest, NEW p \in Procs, pc[p] = "matrix",
         csi_data' = csi_data \cup {[status_id |-> id[p], msg |-> msg[p]]},
         pc' = [pc EXCEPT ![p] = "read"],
         conn' = conn \/ conn' = [conn EXCEPT ![p] = FALSE],
         UNCHANGED <<csi_status, msgs, msg, id, starts, tables>>
  PROVE  Rest'
<1> DEFINE e == [status_id |-> id[p], msg |-> msg[p]]
<1>1. \A q \in Procs : pc'[q] = IF q = p THEN "read" ELSE pc[q]
  BY DEF TypeOK
<1>2. \A q \in Procs : conn'[q] => conn[q]
  BY Zenon DEF TypeOK
<1>3. \A q \in Procs : q # p => conn'[q] = conn[q]
  BY Zenon DEF TypeOK
<1>4. csi_data' = csi_data \cup {e} /\ e.msg = msg[p] /\ e.status_id = id[p]
  OBVIOUS
<1> HIDE DEF e
<1>5. \A m : /\ HasStatus(m)' = HasStatus(m)
             /\ HasData(m)' <=> HasData(m) \/ m = msg[p]
  BY <1>4 DEF HasStatus, HasData
<1>6. \A q : Run(q)' = Run(q)
  BY DEF Run
<1>7. /\ msg[p] \in 1 .. Len(msgs) /\ msgs[msg[p]].by = Run(p) /\ Run(p)[1] = p
      /\ ~ HasData(msg[p]) /\ conn[p]
  BY DEF Rest, Messages, Progress, Open, Saving, Run
<1>8. PICK i \in 1 .. Len(csi_status) : Hangs(p, i, id[p], msg[p])
  BY DEF Rest, Progress
<1>9. HasStatus(msg[p])
  BY <1>8 DEF Hangs, HasStatus
<1>10. Messages'
  BY <1>1, <1>6 DEF Rest, Messages, Saving
<1>11. Rows'
  BY <1>4, <1>5, <1>9 DEF Rest, Rows
<1>12. Progress'
  <2> SUFFICES ASSUME NEW q \in Procs
               PROVE  /\ pc'[q] = "insert" => ~ HasStatus(msg[q])
                      /\ pc'[q] \in Saving => \A d \in csi_data' : d.msg # msg[q]
                      /\ pc'[q] = "select" => \E j \in 1 .. Len(csi_status) :
                           \A k \in j .. Len(csi_status) : Hangs(q, j, k, msg[q])
                      /\ pc'[q] = "matrix" => \E j \in 1 .. Len(csi_status) :
                           Hangs(q, j, id[q], msg[q])
    BY DEF Progress, HasStatus, HasData, Hangs
  <2>1. CASE q = p
    BY <1>1, <2>1 DEF Saving
  <2>2. CASE q # p
    <3>1. pc[q] \in Saving => msg[q] # msg[p]
      BY <2>2, OwnMessages DEF Saving
    <3>2. pc'[q] \in Saving => \A d \in csi_data' : d.msg # msg[q]
      BY <1>1, <1>4, <2>2, <3>1 DEF Rest, Progress, HasData
    <3> QED  BY <1>1, <2>2, <3>2 DEF Rest, Progress
  <2> QED  BY <2>1, <2>2
<1>13. Open'
  <2>1. Open
    BY DEF Rest
  <2>2. ASSUME NEW q \in Procs
        PROVE  /\ pc'[q] \in {"init2", "select", "matrix"} => conn'[q]
               /\ pc'[q] = "off" => ~ conn'[q]
    BY <1>1, <1>3, <2>1 DEF Open
  <2>3. ASSUME NEW q \in Procs, conn'[q], NEW m \in 1 .. Len(msgs), msgs[m].by = Run(q)
        PROVE  \/ pc'[q] \in Saving /\ m = msg[q]
               \/ HasStatus(m) /\ (HasData(m) \/ m = msg[p])
    <3>1. conn[q]
      BY <1>2, <2>3
    <3>2. CASE q = p
      BY <1>9, <2>1, <2>3, <3>1, <3>2 DEF Open
    <3>3. CASE q # p
      BY <1>1, <2>1, <2>3, <3>1, <3>3 DEF Open
    <3> QED  BY <3>2, <3>3
  <2> QED  BY <1>5, <1>6, <2>2, <2>3 DEF Open
<1>14. Attribution'
  <2>1. ASSUME NEW d \in csi_data'
        PROVE  \E j \in 1 .. Len(csi_status) : Hangs(msgs[d.msg].by[1], j, d.status_id, d.msg)
    <3>1. CASE d = e
      BY <1>4, <1>7, <1>8, <3>1
    <3>2. CASE d \in csi_data
      BY <3>2 DEF Rest, Attribution
    <3> QED  BY <1>4, <2>1, <3>1, <3>2
  <2> QED  BY <2>1 DEF Attribution, Hangs
<1>15. StoredOnce'
  BY <1>4, <1>7 DEF Rest, StoredOnce, HasData
<1>16. StorePrefix'
  BY <1>5 DEF Rest, StorePrefix
<1>17. TablesReady'
  <2>1. tables
    BY <1>7 DEF Rest, TablesReady
  <2> QED  BY <2>1 DEF TablesReady
<1> QED  BY <1>10, <1>11, <1>12, <1>13, <1>14, <1>15, <1>16, <1>17 DEF Rest

\* A restart: the new run has read nothing yet.
LEMMA StartRest ==
  ASSUME TypeOK, Rest, NEW p \in Procs, Start(p)
  PROVE  Rest'
<1>1. /\ UNCHANGED <<csi_status, csi_data, msgs, tables>> /\ pc[p] = "off"
      /\ pc' = [pc EXCEPT ![p] = "init1"] /\ starts' = [starts EXCEPT ![p] = starts[p] + 1]
      /\ msg' = [msg EXCEPT ![p] = 0] /\ id' = [id EXCEPT ![p] = 0]
  BY DEF Start, Goto, db
<1>2. \A q \in Procs : pc'[q] = IF q = p THEN "init1" ELSE pc[q]
  BY <1>1 DEF TypeOK
<1>3. \A q \in Procs : q # p => conn'[q] = conn[q] 
  BY Zenon DEF Start, TypeOK
<1>4. \A q \in Procs : q # p => msg'[q] = msg[q] /\ id'[q] = id[q] /\ Run(q)' = Run(q)
  BY <1>1 DEF TypeOK, Run
<1>5. starts'[p] = starts[p] + 1 /\ starts[p] \in Nat
  BY <1>1, Bounds DEF TypeOK
<1>6. \A m : HasStatus(m)' = HasStatus(m) /\ HasData(m)' = HasData(m)
  BY <1>1 DEF HasStatus, HasData
<1>7. ASSUME NEW m \in 1 .. Len(msgs)
      PROVE  /\ msgs[m].by[2] <= starts'[msgs[m].by[1]]
             /\ msgs[m].by # Run(p)'
  <2> DEFINE q == msgs[m].by[1]  k == msgs[m].by[2]
  <2>1. msgs[m] \in Note
    <3>1. msgs \in Seq(Note)
      BY DEF TypeOK, Note
    <3> QED  BY <3>1
  <2>2. q \in Procs /\ k \in Nat
    BY <2>1 DEF Note
  <2>3. k <= starts[q]
    BY DEF Rest, Messages
  <2>4. Run(p)'[1] = p /\ Run(p)'[2] = starts[p] + 1
    BY <1>5 DEF Run
  <2> HIDE DEF q, k
  <2>5. starts[q] \in Nat /\ starts'[q] \in {starts[q], starts[q] + 1}
    BY <1>1, <2>2, Bounds DEF TypeOK
  <2>6. k <= starts'[q]
    BY <2>2, <2>3, <2>5
  <2>7. q = p => k # starts[p] + 1
    BY <1>5, <2>2, <2>3
  <2> QED  BY <2>4, <2>6, <2>7 DEF q, k
<1>8. \A q, i, k, m : Hangs(q, i, k, m)' = Hangs(q, i, k, m)
  BY <1>1 DEF Hangs
<1>9. Messages'
  <2>1. ASSUME NEW q \in Procs
        PROVE  /\ pc'[q] \in Saving =>
                    /\ msg'[q] \in 1 .. Len(msgs) /\ msgs[msg'[q]].by = Run(q)'
                    /\ \A m \in 1 .. Len(msgs) : msgs[m].by = Run(q)' => m <= msg'[q]
               /\ pc'[q] \in {"init1", "init2"} =>
                    \A m \in 1 .. Len(msgs) : msgs[m].by # Run(q)'
    <3>1. CASE q = p
      BY <1>2, <1>7, <3>1 DEF Saving
    <3>2. CASE q # p
      BY <1>2, <1>4, <3>2 DEF Rest, Messages
    <3> QED  BY <3>1, <3>2
  <2> QED  BY <1>1, <1>7, <2>1 DEF Messages
<1>10. Rows' /\ Attribution' /\ StoredOnce' /\ StorePrefix'
  BY <1>1, <1>6, <1>8 DEF Rest, Rows, Attribution, StoredOnce, StorePrefix
<1>11. Progress'
  <2> SUFFICES ASSUME NEW q \in Procs
               PROVE  /\ pc'[q] = "insert" => ~ HasStatus(msg'[q])
                      /\ pc'[q] \in Saving => ~ HasData(msg'[q])
                      /\ pc'[q] = "select" => \E i \in 1 .. Len(csi_status) :
                           \A k \in i .. Len(csi_status) : Hangs(q, i, k, msg'[q])
                      /\ pc'[q] = "matrix" => \E i \in 1 .. Len(csi_status) :
                           Hangs(q, i, id'[q], msg'[q])
    BY <1>1 DEF Progress, HasStatus, HasData, Hangs
  <2>1. CASE q = p
    BY <1>2, <2>1 DEF Saving
  <2>2. CASE q # p
    BY <1>2, <1>4, <2>2 DEF Rest, Progress
  <2> QED  BY <2>1, <2>2
<1>12. Open'
  <2>1. Open
    BY DEF Rest
  <2>2. ASSUME NEW q \in Procs
        PROVE  /\ pc'[q] \in {"init2", "select", "matrix"} => conn'[q]
               /\ pc'[q] = "off" => ~ conn'[q]
    BY <1>2, <1>3, <2>1 DEF Open
  <2>3. ASSUME NEW q \in Procs, conn'[q], NEW m \in 1 .. Len(msgs), msgs[m].by = Run(q)'
        PROVE  (pc'[q] \in Saving /\ m = msg'[q]) \/ (HasStatus(m) /\ HasData(m))
    <3>1. q # p
      BY <1>7, <2>3
    <3>2. conn[q] /\ msgs[m].by = Run(q)
      BY <1>3, <1>4, <2>3, <3>1
    <3> QED  BY <1>2, <1>4, <2>1, <2>3, <3>1, <3>2 DEF Open
  <2> QED  BY <1>1, <1>6, <2>2, <2>3 DEF Open
<1>13. TablesReady'
  BY <1>1, <1>2, <1>3 DEF Rest, TablesReady
<1> QED  BY <1>9, <1>10, <1>11, <1>12, <1>13 DEF Rest
\* A statement of csi_init_table that succeeds.
LEMMA SetupRest ==
  ASSUME TypeOK, Rest, NEW p \in Procs, pc[p] \in {"init1", "init2"}, conn[p],
         NEW l \in {"init2", "read"}, pc' = [pc EXCEPT ![p] = l],
         tables => tables', l = "read" => tables',
         UNCHANGED <<conn, csi_status, csi_data, msgs, msg, id, starts>>
  PROVE  Rest'
<1>1. \A q \in Procs : pc'[q] = IF q = p THEN l ELSE pc[q]
  BY DEF TypeOK
<1>2. \A m : HasStatus(m)' = HasStatus(m) /\ HasData(m)' = HasData(m)
  BY DEF HasStatus, HasData
<1>3. \A q : Run(q)' = Run(q)
  BY DEF Run
<1>4. \A q, i, k, m : Hangs(q, i, k, m)' = Hangs(q, i, k, m)
  BY DEF Hangs
<1>5. Messages'
  BY <1>1, <1>3 DEF Rest, Messages, Saving
<1>6. Rows' /\ Attribution' /\ StoredOnce' /\ StorePrefix'
  BY <1>2, <1>4 DEF Rest, Rows, Attribution, StoredOnce, StorePrefix
<1>7. Progress'
  BY <1>1, <1>2, <1>4 DEF Rest, Progress, Saving
<1>8. Open'
  <2>1. Open /\ Messages
    BY DEF Rest
  <2>2. ASSUME NEW q \in Procs
        PROVE  /\ pc'[q] \in {"init2", "select", "matrix"} => conn[q]
               /\ pc'[q] = "off" => ~ conn[q]
    BY <1>1, <2>1 DEF Open
  <2>3. ASSUME NEW q \in Procs, conn[q], NEW m \in 1 .. Len(msgs), msgs[m].by = Run(q)
        PROVE  (pc'[q] \in Saving /\ m = msg[q]) \/ (HasStatus(m) /\ HasData(m))
    <3>1. q # p
      BY <2>1, <2>3 DEF Messages
    <3> QED  BY <1>1, <2>1, <2>3, <3>1 DEF Open
  <2> QED  BY <1>2, <1>3, <2>2, <2>3 DEF Open
<1>9. TablesReady'
  BY <1>1 DEF Rest, TablesReady
<1> QED  BY <1>5, <1>6, <1>7, <1>8, <1>9 DEF Rest

\* A receiver without a connection loses nothing by closing it.
LEMMA ClosedTwice ==
  ASSUME TypeOK, NEW p \in Procs, ~ conn[p]
  PROVE  conn = [conn EXCEPT ![p] = FALSE]
<1>1. conn \in [Procs -> BOOLEAN] /\ conn[p] = FALSE
  BY Zenon DEF TypeOK
<1> QED  BY <1>1

\* Every step preserves the invariant.
LEMMA NextRest == TypeOK /\ Rest /\ [Next]_vars => Rest'
<1> SUFFICES ASSUME TypeOK, Rest, [Next]_vars PROVE Rest'
  OBVIOUS
<1> USE DEF proc, db, Goto, Ok, Failed, pg_close
<1>1. CASE UNCHANGED vars
  <2>1. /\ UNCHANGED <<pc, conn, msg, id, starts, tables, csi_status, csi_data, msgs>>
    BY <1>1 DEF vars
  <2>2. \A m : HasStatus(m)' = HasStatus(m) /\ HasData(m)' = HasData(m)
    BY <2>1 DEF HasStatus, HasData
  <2>3. \A q : Run(q)' = Run(q)
    BY <2>1 DEF Run
  <2>4. \A q, i, k, m : Hangs(q, i, k, m)' = Hangs(q, i, k, m)
    BY <2>1 DEF Hangs
  <2>5. Messages' /\ Open'
    BY <2>1, <2>2, <2>3 DEF Rest, Messages, Open
  <2>6. Rows' /\ Progress' /\ Attribution' /\ StoredOnce' /\ StorePrefix' /\ TablesReady'
    BY <2>1, <2>2, <2>4 DEF Rest, Rows, Progress, Attribution, StoredOnce, StorePrefix, TablesReady
  <2> QED  BY <2>5, <2>6 DEF Rest
<1>2. ASSUME NEW p \in Procs, Start(p) PROVE Rest'
  BY <1>2, StartRest
<1>3. ASSUME NEW p \in Procs, InitSequences(p) PROVE Rest'
  <2>1. CASE conn[p]
    BY <1>3, <2>1, SetupRest DEF InitSequences
  <2>2. CASE ~ conn[p]
    BY <1>3, <2>2, Abandon, ClosedTwice DEF InitSequences
  <2> QED  BY <2>1, <2>2
<1>4. ASSUME NEW p \in Procs, InitTables(p) PROVE Rest'
  <2>1. conn[p] /\ pc[p] = "init2"
    BY <1>4 DEF InitTables, Rest, Open
  <2>2. CASE tables' = TRUE /\ Ok(p, "read")
    BY <1>4, <2>1, <2>2, SetupRest DEF InitTables
  <2>3. CASE Failed(p) \/ (pg_close(p) /\ Goto(p, "read"))
    <3>1. tables => tables'
      BY <1>4 DEF InitTables
    <3> QED  BY <1>4, <2>3, <3>1, Abandon DEF InitTables
  <2> QED  BY <1>4, <2>2, <2>3 DEF InitTables
<1>5. ASSUME NEW p \in Procs, ReadReport(p) PROVE Rest'
  <2>1. PICK s \in Shapes :
          Message(p, [report |-> Len(msgs) + 1, csi_len |-> s.csi_len, rows |-> s.rows])
    BY <1>5 DEF ReadReport
  <2>2. Len(msgs) + 1 \in Nat /\ s \in [csi_len : Nat, rows : Nat]
    BY StoreAssumption DEF TypeOK
  <2>3. [report |-> Len(msgs) + 1, csi_len |-> s.csi_len, rows |-> s.rows] \in Report
    BY <2>2 DEF Report
  <2> QED  BY <1>5, <2>1, <2>3, MessageRest DEF ReadReport
<1>6. ASSUME NEW p \in Procs, ReadError(p) PROVE Rest'
  <2>1. buf_addr[p] \in Report
    BY DEF TypeOK, Report
  <2> QED  BY <1>6, <2>1, MessageRest DEF ReadError
<1>7. ASSUME NEW p \in Procs, SkipSave(p) PROVE Rest'
  BY <1>7, Abandon, ClosedTwice DEF SkipSave
<1>8. ASSUME NEW p \in Procs, InsertStatus(p) PROVE Rest'
  <2>1. CASE csi_status' = Append(csi_status, [msg |-> msg[p], csi_len |-> csi_len[p]])
    <3>1. CASE Ok(p, "select")
      BY <1>8, <2>1, <3>1, StatusRest DEF InsertStatus
    <3>2. CASE Failed(p)
      BY <1>8, <2>1, <3>2, StatusRest DEF InsertStatus
    <3> QED  BY <1>8, <3>1, <3>2 DEF InsertStatus
  <2>2. CASE csi_status' = csi_status /\ Failed(p)
    BY <1>8, <2>2, Abandon DEF InsertStatus
  <2> QED  BY <1>8, <2>1, <2>2 DEF InsertStatus
<1>9. ASSUME NEW p \in Procs, SelectId(p) PROVE Rest'
  <2>1. CASE id' = [id EXCEPT ![p] = Len(csi_status)] /\ Ok(p, "matrix")
    BY <1>9, <2>1, SelectRest DEF SelectId
  <2>2. CASE id' = id /\ Failed(p)
    BY <1>9, <2>2, Abandon DEF SelectId
  <2> QED  BY <1>9, <2>1, <2>2 DEF SelectId, LatestId
<1>10. ASSUME NEW p \in Procs, InsertMatrix(p) PROVE Rest'
  <2>1. CASE csi_data' = csi_data \cup {[status_id |-> id[p], msg |-> msg[p]]}
             /\ (Ok(p, "read") \/ Failed(p))
    BY <1>10, <2>1, MatrixRest DEF InsertMatrix
  <2>2. CASE csi_data' = csi_data /\ pg_close(p) /\ Goto(p, "read")
    BY <1>10, <2>2, Abandon DEF InsertMatrix
  <2> QED  BY <1>10, <2>1, <2>2 DEF InsertMatrix
<1>11. ASSUME NEW p \in Procs, Kill(p) PROVE Rest'
  BY <1>11, Abandon DEF Kill
<1> QED  BY <1>1, <1>2, <1>3, <1>4, <1>5, <1>6, <1>7, <1>8, <1>9, <1>10, <1>11 DEF Next

\* The inductive invariant of the receivers and their database holds in every
\* reachable state.
THEOREM InvHolds == Spec => []Inv
<1>1. Init => TypeOK /\ Rest
  BY InitType, InitRest
<1>2. TypeOK /\ Rest /\ [Next]_vars => TypeOK' /\ Rest'
  BY NextType, NextRest
<1>3. TypeOK /\ Rest <=> Inv
  BY DEF Rest, Inv
<1> QED  BY <1>1, <1>2, <1>3, PTL DEF Spec
-----------------------------------------------------------------------------
\* Type correctness: the id that save_csi_status returns is always the id of a
\* row, or still zero.
THEOREM TypeCorrect == Spec => []TypeOK
<1>1. Inv => TypeOK
  BY DEF Inv
<1> QED  BY <1>1, InvHolds, PTL

\* For any number of receivers, a matrix is stored under the row of its own
\* report or under a later row of another receiver.
THEOREM AttributionCorrect == Spec => []Attribution
<1>1. Inv => Attribution
  BY DEF Inv
<1> QED  BY <1>1, InvHolds, PTL

\* No report is stored twice, whatever statements fail after their commit.
THEOREM StoredOnceCorrect == Spec => []StoredOnce
<1>1. Inv => StoredOnce
  BY DEF Inv
<1> QED  BY <1>1, InvHolds, PTL

\* Every run stores a prefix of what it reads.
THEOREM StorePrefixCorrect == Spec => []StorePrefix
<1>1. Inv => StorePrefix
  BY DEF Inv
<1> QED  BY <1>1, InvHolds, PTL

\* A receiver that inserts has its tables, although csi_init_table ignores its
\* first result.
THEOREM TablesReadyCorrect == Spec => []TablesReady
<1>1. Inv => TablesReady
  BY DEF Inv
<1> QED  BY <1>1, InvHolds, PTL
-----------------------------------------------------------------------------
(***************************************************************************)
(* Each receiver implements Capture.                                       *)
(***************************************************************************)
\* A step that changes neither what q has read nor what of it is stored, and
\* leaves its connection alone or closes it.
LEMMA SameView ==
  ASSUME TypeOK, NEW q \in Procs, msgs' = msgs, Run(q)' = Run(q),
         \A m \in Read(q) : (HasStatus(m) /\ HasData(m))' <=> (HasStatus(m) /\ HasData(m)),
         conn'[q] = conn[q] \/ conn'[q] = FALSE
  PROVE  Cap(q)!Step
<1>1. Read(q)' = Read(q)
  BY DEF Read
<1>2. Kept(q)' = Kept(q)
  BY <1>1 DEF Kept
<1>3. CASE conn'[q] = conn[q]
  BY <1>1, <1>2, <1>3 DEF Cap!Step, Cap!cvars
<1>4. CASE conn'[q] = FALSE
  BY <1>1, <1>2, <1>4 DEF Cap!Step, Cap!Next, Cap!Stop
<1> QED  BY <1>3, <1>4
\* Steps that touch neither messages nor rows.
LEMMA QuietCapture ==
  ASSUME TypeOK, UNCHANGED <<csi_status, csi_data, msgs, starts>>,
         conn' = conn \/ \E p \in Procs : conn' = [conn EXCEPT ![p] = FALSE]
  PROVE  \A q \in Procs : Cap(q)!Step
<1> SUFFICES ASSUME NEW q \in Procs PROVE Cap(q)!Step
  OBVIOUS
<1>1. conn'[q] = conn[q] \/ conn'[q] = FALSE
  BY Zenon DEF TypeOK
<1>2. \A m : (HasStatus(m) /\ HasData(m))' <=> (HasStatus(m) /\ HasData(m))
  BY DEF HasStatus, HasData
<1>3. Run(q)' = Run(q)
  BY DEF Run
<1> QED  BY <1>1, <1>2, <1>3, SameView

\* What the others have read is none of p's messages.
LEMMA OthersRead ==
  ASSUME NEW p \in Procs, NEW q \in Procs, p # q, NEW m \in Read(q)
  PROVE  msgs[m].by # Run(p)
BY DEF Read, Run

\* A restart begins a new run.
LEMMA StartCapture ==
  ASSUME TypeOK, Rest, NEW p \in Procs, Start(p)
  PROVE  \A q \in Procs : Cap(q)!Step
<1> SUFFICES ASSUME NEW q \in Procs PROVE Cap(q)!Step
  OBVIOUS
<1>1. UNCHANGED <<csi_status, csi_data, msgs>> /\ pc[p] = "off" /\ pc'[p] = "init1"
  BY DEF Start, Goto, db, TypeOK
<1>2. CASE q # p
  <2>1. conn'[q] = conn[q]
    BY <1>2, Zenon DEF Start, TypeOK
  <2>2. Run(q)' = Run(q)
    BY <1>2 DEF Start, TypeOK, Run
  <2>3. \A m : (HasStatus(m) /\ HasData(m))' <=> (HasStatus(m) /\ HasData(m))
    BY <1>1 DEF HasStatus, HasData
  <2> QED  BY <1>1, <2>1, <2>2, <2>3, SameView
<1>3. CASE q = p
  <2>1. conn' \in [Procs -> BOOLEAN]
    BY Zenon DEF Start, TypeOK
  <2>2. Rest'
    BY StartRest
  <2>3. \A m \in 1 .. Len(msgs') : msgs'[m].by # Run(p)'
    BY <1>1, <2>2 DEF Rest, Messages
  <2>4. Read(p)' = {} /\ Kept(p)' = {}
    BY <2>3 DEF Read, Kept
  <2>5. ~ conn[p]
    BY <1>1 DEF Rest, Open
  <2>6. Cap(p)!Start
    BY <2>1, <2>4, <2>5 DEF Cap!Start
  <2> QED  BY <1>3, <2>6 DEF Cap!Step, Cap!Next
<1> QED  BY <1>2, <1>3

\* A message is read when everything before it is stored or the connection gone.
LEMMA MessageCapture ==
  ASSUME TypeOK, Rest, NEW p \in Procs, pc[p] = "read", NEW r \in Report, Message(p, r),
         UNCHANGED <<conn, starts, csi_status, csi_data>>
  PROVE  \A q \in Procs : Cap(q)!Step
<1> SUFFICES ASSUME NEW q \in Procs PROVE Cap(q)!Step
  OBVIOUS
<1> DEFINE n == Len(msgs) + 1
<1>1. /\ Len(msgs') = n /\ Len(msgs) \in Nat
      /\ msgs'[n] = [by |-> Run(p), report |-> r.report, csi_len |-> r.csi_len]
      /\ \A m \in 1 .. Len(msgs) : msgs'[m] = msgs[m]
  BY MessageType
<1>2. \A m : m \in 1 .. n <=> m \in 1 .. Len(msgs) \/ m = n
  BY <1>1
<1>3. \A m \in 1 .. Len(msgs) : m < n
  BY <1>1
<1>4. msgs'[n].by = Run(p)
  BY <1>1
<1> HIDE DEF n
<1>5. \A m : (HasStatus(m) /\ HasData(m))' <=> (HasStatus(m) /\ HasData(m))
  BY DEF HasStatus, HasData
<1>6. Run(p)[1] = p /\ Run(q)[1] = q /\ Run(q)' = Run(q)
  BY DEF Run
<1>7. CASE q # p
  <2>1. Run(p) # Run(q)
    BY <1>6, <1>7
  <2>2. Read(q)' = Read(q)
    BY <1>1, <1>2, <1>4, <1>6, <2>1 DEF Read
  <2>3. Kept(q)' = Kept(q)
    BY <1>5, <2>2 DEF Kept
  <2> QED  BY <2>2, <2>3 DEF Cap!Step, Cap!cvars
<1>8. CASE q = p
  <2>1. Read(q)' = Read(q) \cup {n}
    BY <1>1, <1>2, <1>4, <1>6, <1>8 DEF Read
  <2>2. ~ HasStatus(n)
    BY <1>1, <1>3 DEF Rest, Rows, HasStatus
  <2>3. Kept(q)' = Kept(q)
    BY <1>5, <2>1, <2>2 DEF Kept
  <2>4. conn[q] => Kept(q) = Read(q)
    BY <1>8 DEF Rest, Open, Saving, Kept, Read
  <2>5. \A m \in Read(q) : m < n
    BY <1>3 DEF Read
  <2>6. Cap(q)!Message
    BY <2>1, <2>3, <2>4, <2>5 DEF Cap!Message
  <2> QED  BY <2>6 DEF Cap!Step, Cap!Next
<1> QED  BY <1>7, <1>8

\* A status row alone keeps nothing yet.
LEMMA StatusCapture ==
  ASSUME TypeOK, Rest, NEW p \in Procs, pc[p] = "insert",
         csi_status' = Append(csi_status, [msg |-> msg[p], csi_len |-> csi_len[p]]),
         conn' = conn \/ conn' = [conn EXCEPT ![p] = FALSE],
         UNCHANGED <<csi_data, msgs, starts>>
  PROVE  \A q \in Procs : Cap(q)!Step
<1> SUFFICES ASSUME NEW q \in Procs PROVE Cap(q)!Step
  OBVIOUS
<1> DEFINE n == Len(csi_status) + 1
<1>1. /\ Len(csi_status') = n /\ Len(csi_status) \in Nat
      /\ csi_status'[n] = [msg |-> msg[p], csi_len |-> csi_len[p]]
      /\ \A i \in 1 .. Len(csi_status) : csi_status'[i] = csi_status[i]
  BY RowType
<1>2. \A i : i \in 1 .. n <=> i \in 1 .. Len(csi_status) \/ i = n
  BY <1>1
<1>3. csi_status'[n].msg = msg[p]
  BY <1>1
<1> HIDE DEF n
<1>4. \A m : m # msg[p] => HasStatus(m)' = HasStatus(m)
  BY <1>1, <1>2, <1>3 DEF HasStatus
<1>5. \A m : HasData(m)' = HasData(m)
  BY DEF HasData
<1>6. ~ HasData(msg[p])
  BY DEF Rest, Progress, Saving
<1>7. \A m : (HasStatus(m) /\ HasData(m))' <=> (HasStatus(m) /\ HasData(m))
  BY <1>4, <1>5, <1>6
<1>8. conn'[q] = conn[q] \/ conn'[q] = FALSE
  BY Zenon DEF TypeOK
<1>9. Run(q)' = Run(q)
  BY DEF Run
<1> QED  BY <1>7, <1>8, <1>9, SameView

\* The matrix completes the one message outstanding.
LEMMA MatrixCapture ==
  ASSUME TypeOK, Rest, NEW p \in Procs, pc[p] = "matrix",
         csi_data' = csi_data \cup {[status_id |-> id[p], msg |-> msg[p]]},
         conn' = conn \/ conn' = [conn EXCEPT ![p] = FALSE],
         UNCHANGED <<csi_status, msgs, starts>>
  PROVE  \A q \in Procs : Cap(q)!Step
<1> SUFFICES ASSUME NEW q \in Procs PROVE Cap(q)!Step
  OBVIOUS
<1> DEFINE x == msg[p]
<1>1. \A m : /\ HasStatus(m)' = HasStatus(m)
             /\ HasData(m)' <=> (HasData(m) \/ m = x)
  <2> DEFINE e == [status_id |-> id[p], msg |-> msg[p]]
  <2>1. csi_data' = csi_data \cup {e} /\ e.msg = x
    OBVIOUS
  <2> HIDE DEF e
  <2> QED  BY <2>1 DEF HasStatus, HasData
<1>2. /\ x \in Read(p) /\ HasStatus(x) /\ ~ HasData(x) /\ conn[p]
  <2>1. PICK i \in 1 .. Len(csi_status) : Hangs(p, i, id[p], msg[p])
    BY DEF Rest, Progress
  <2>2. HasStatus(x)
    BY <2>1 DEF Hangs, HasStatus
  <2> QED  BY <2>2 DEF Rest, Messages, Progress, Open, Saving, Read
<1> HIDE DEF x
<1>3. Read(q)' = Read(q)
  BY DEF Read, Run
<1>4. CASE q # p
  <2>1. x \notin Read(q)
    BY <1>2, <1>4, OthersRead DEF Read
  <2>2. \A m \in Read(q) : (HasStatus(m) /\ HasData(m))' <=> (HasStatus(m) /\ HasData(m))
    BY <1>1, <2>1
  <2>3. conn'[q] = conn[q] \/ conn'[q] = FALSE
    BY Zenon DEF TypeOK
  <2>4. Run(q)' = Run(q)
    BY DEF Run
  <2> QED  BY <2>2, <2>3, <2>4, SameView
<1>5. CASE q = p
  <2>1. Kept(q)' = Kept(q) \cup {x}
    BY <1>1, <1>2, <1>3, <1>5 DEF Kept
  <2>2. Kept(q)' = Read(q)
    <3>1. \A m \in Read(q) : m = x \/ (HasStatus(m) /\ HasData(m))
      BY <1>2, <1>5 DEF Rest, Open, Read, x
    <3> QED  BY <1>1, <1>2, <1>3, <1>5, <3>1 DEF Kept
  <2>3. conn' \in [Procs -> BOOLEAN]
    BY Zenon DEF TypeOK
  <2>4. x \in Read(q) \ Kept(q)
    BY <1>2, <1>5 DEF Kept
  <2>5. Cap(q)!Keep
    BY <1>2, <1>3, <1>5, <2>1, <2>2, <2>3, <2>4 DEF Cap!Keep
  <2> QED  BY <2>5 DEF Cap!Step, Cap!Next
<1> QED  BY <1>4, <1>5

\* Every step is, for every receiver, a step of its capture or none.
LEMMA StepCapture ==
  TypeOK /\ Rest /\ [Next]_vars => \A q \in Procs : Cap(q)!Step
<1> SUFFICES ASSUME TypeOK, Rest, [Next]_vars PROVE \A q \in Procs : Cap(q)!Step
  OBVIOUS
<1> DEFINE Goal == \A q \in Procs : Cap(q)!Step
<1> HIDE DEF Goal
<1> USE DEF proc, db, Ok, Failed, pg_close
<1>1. CASE UNCHANGED vars
  BY <1>1, QuietCapture DEF vars
<1>2. ASSUME NEW p \in Procs, Start(p) PROVE Goal
  BY <1>2, StartCapture DEF Goal
<1>3. ASSUME NEW p \in Procs,
             InitSequences(p) \/ InitTables(p) \/ SkipSave(p) \/ SelectId(p) \/ Kill(p)
      PROVE  Goal
  <2>1. /\ UNCHANGED <<csi_status, csi_data, msgs, starts>>
        /\ conn' = conn \/ conn' = [conn EXCEPT ![p] = FALSE]
    BY <1>3 DEF InitSequences, InitTables, SkipSave, SelectId, Kill
  <2> QED  BY <2>1, QuietCapture DEF Goal
<1>4. ASSUME NEW p \in Procs, ReadReport(p) PROVE Goal
  <2>1. PICK s \in Shapes :
          Message(p, [report |-> Len(msgs) + 1, csi_len |-> s.csi_len, rows |-> s.rows])
    BY <1>4 DEF ReadReport
  <2>2. Len(msgs) + 1 \in Nat /\ s \in [csi_len : Nat, rows : Nat]
    BY StoreAssumption DEF TypeOK
  <2>3. [report |-> Len(msgs) + 1, csi_len |-> s.csi_len, rows |-> s.rows] \in Report
    BY <2>2 DEF Report
  <2> QED  BY <1>4, <2>1, <2>3, MessageCapture DEF ReadReport, Goal
<1>5. ASSUME NEW p \in Procs, ReadError(p) PROVE Goal
  <2>1. buf_addr[p] \in Report
    BY DEF TypeOK, Report
  <2> QED  BY <1>5, <2>1, MessageCapture DEF ReadError, Goal
<1>6. ASSUME NEW p \in Procs, InsertStatus(p) PROVE Goal
  <2>1. conn' = conn \/ conn' = [conn EXCEPT ![p] = FALSE]
    BY <1>6 DEF InsertStatus
  <2>2. CASE csi_status' = csi_status
    BY <1>6, <2>1, <2>2, QuietCapture DEF InsertStatus, Goal
  <2>3. CASE csi_status' # csi_status
    BY <1>6, <2>1, <2>3, StatusCapture DEF InsertStatus, Goal
  <2> QED  BY <2>2, <2>3
<1>7. ASSUME NEW p \in Procs, InsertMatrix(p) PROVE Goal
  <2>1. conn' = conn \/ conn' = [conn EXCEPT ![p] = FALSE]
    BY <1>7 DEF InsertMatrix
  <2>2. CASE csi_data' = csi_data
    BY <1>7, <2>1, <2>2, QuietCapture DEF InsertMatrix, Goal
  <2>3. CASE csi_data' # csi_data
    BY <1>7, <2>1, <2>3, MatrixCapture DEF InsertMatrix, Goal
  <2> QED  BY <2>2, <2>3
<1> QED  BY <1>1, <1>2, <1>3, <1>4, <1>5, <1>6, <1>7 DEF Next, Goal

\* Every receiver implements the abstract capture, for any number of receivers
\* on one database, any failures and any restarts.
THEOREM StoreImplementsCapture == Spec => Captured
<1>1. Init => \A p \in Procs : Cap(p)!Init
  <2> SUFFICES ASSUME Init, NEW p \in Procs PROVE Cap(p)!Init
    OBVIOUS
  <2>1. Len(msgs) = 0 /\ conn[p] = FALSE
    BY DEF Init
  <2>2. Read(p) = {} /\ Kept(p) = {}
    BY <2>1 DEF Read, Kept
  <2> QED  BY <2>1, <2>2 DEF Cap!Init
<1>2. Inv /\ [Next]_vars => [\A p \in Procs : Cap(p)!Step]_vars
  BY StepCapture DEF Inv, Rest
<1> QED  BY <1>1, <1>2, InvHolds, PTL DEF Spec, Captured
=============================================================================
