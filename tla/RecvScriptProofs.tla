-------------------------- MODULE RecvScriptProofs --------------------------
(***************************************************************************)
(* TLAPS proofs about RecvScript, for any number of rounds and reports.    *)
(***************************************************************************)
EXTENDS RecvScript, TLAPS

LEMMA InitInv == Init => Inv
BY RoundsAssumption, ReportsAssumption
   DEF Init, Inv, Lives, TypeOK, OwnRounds, Life, Round, Alive, Running

LEMMA ForkInv == Inv /\ Fork => Inv'
BY RoundsAssumption DEF Inv, Lives, Fork, TypeOK, OwnRounds, Life, Round, Alive, Running

LEMMA PgrepInv == Inv /\ Pgrep => Inv'
BY RoundsAssumption DEF Inv, Lives, Pgrep, TypeOK, OwnRounds, Life, Round, Alive, Running

LEMMA SleepInv == Inv /\ Sleep => Inv'
BY RoundsAssumption DEF Inv, Lives, Sleep, TypeOK, OwnRounds, Life, Round, Alive, Running

LEMMA KillInv == Inv /\ Kill => Inv'
BY RoundsAssumption DEF Inv, Lives, Kill, TypeOK, OwnRounds, Life, Round, Alive, Running

LEMMA RestInv == Inv /\ Rest => Inv'
<1> SUFFICES ASSUME Inv, Rest PROVE Inv'
  OBVIOUS
<1>1. /\ TypeOK /\ i \in Round /\ i \in Nat /\ Rounds \in Nat /\ i <= Rounds
      /\ proc \in [Round -> Life]
      /\ \A j \in Round : Alive(j) => j = i /\ Running(j)
  BY RoundsAssumption DEF Inv, Lives, Rest, TypeOK, Round, Alive
<1>2. TypeOK'
  BY <1>1 DEF Rest, TypeOK, Round
<1>3. OwnRounds'
  BY DEF Inv, Rest, OwnRounds
<1>4. Lives'
  <2>1. CASE i = Rounds
    BY <1>1, <2>1 DEF Rest, Lives, Round, Alive, Running
  <2>2. CASE i # Rounds
    BY <1>1, <2>2 DEF Rest, Lives, Round, Alive, Running
  <2> QED  BY <2>1, <2>2
<1> QED  BY <1>2, <1>3, <1>4 DEF Inv

LEMMA ExecInv == \A j \in Round : Inv /\ Exec(j) => Inv'
<1> SUFFICES ASSUME NEW r \in Round, Inv, Exec(r) PROVE Inv'
  OBVIOUS
<1>1. proc \in [Round -> Life] /\ proc[r] = "forked" /\ UNCHANGED <<i, spc, pid, log, reports>>
  BY DEF Inv, TypeOK, Exec
<1>2. /\ proc' \in [Round -> Life] /\ proc'[r] = "started"
      /\ \A j \in Round : j # r => proc'[j] = proc[j]
  BY <1>1 DEF Exec, Life
<1>3. TypeOK' /\ OwnRounds'
  BY <1>1, <1>2 DEF Inv, TypeOK, OwnRounds, Round
<1>4. \A j \in Round : (Alive(j)' => Alive(j)) /\ (Running(j) => Running(j)')
  BY <1>1, <1>2 DEF Alive, Running
<1>5. Lives'
  <2>1. (spc # "done" => i \in Round)'
    BY <1>1 DEF Inv, Lives
  <2>2. ASSUME NEW j \in Round, Alive(j)'
        PROVE  CASE spc = "fork"              -> j = i - 1 /\ Running(j)'
                 [] spc = "pgrep"             -> j = i \/ (j = i - 1 /\ Running(j)')
                 [] spc \in {"sleep", "kill"} -> j = i \/ (j = i - 1 /\ Running(j)' /\ j \in pid)
                 [] spc \in {"rest", "done"}  -> j = i
    <3>1. Alive(j) /\ (Running(j) => Running(j)')
      BY <1>4, <2>2
    <3>2. spc \in {"fork", "pgrep", "sleep", "kill", "rest", "done"}
      BY DEF Inv, TypeOK
    <3> QED  BY <3>1, <3>2 DEF Inv, Lives
  <2> QED  BY <1>1, <2>1, <2>2 DEF Lives
<1> QED  BY <1>3, <1>5 DEF Inv

LEMMA OpenInv == \A j \in Round : Inv /\ Open(j) => Inv'
<1> SUFFICES ASSUME NEW r \in Round, Inv, Open(r) PROVE Inv'
  OBVIOUS
<1>1. /\ proc \in [Round -> Life] /\ log \in [Round -> Seq(Round)] /\ proc[r] = "started"
      /\ UNCHANGED <<i, spc, pid, reports>>
  BY DEF Inv, TypeOK, Open
<1>2. /\ proc' \in [Round -> Life] /\ proc'[r] \in {"listening", "dead"}
      /\ \A j \in Round : j # r => proc'[j] = proc[j]
  BY <1>1 DEF Open, Life
<1>3. /\ log' \in [Round -> Seq(Round)]
      /\ \A j \in Round : log'[j] = log[j] \/ log'[j] = <<>>
  <2>1. <<>> \in Seq(Round)
    OBVIOUS
  <2> QED  BY <1>1, <2>1 DEF Open
<1>4. TypeOK'
  BY <1>1, <1>2, <1>3 DEF Inv, TypeOK, Round
<1>5. OwnRounds'
  <2> SUFFICES ASSUME NEW j \in Round, NEW n \in 1 .. Len(log'[j])
               PROVE  log'[j][n] \in {j, j + 1}
    BY DEF OwnRounds
  <2>1. CASE log'[j] = log[j]
    BY <2>1 DEF Inv, OwnRounds
  <2>2. CASE log'[j] = <<>>
    BY <2>2
  <2> QED  BY <1>3, <2>1, <2>2
<1>6. Lives'
  BY <1>1, <1>2 DEF Inv, Lives, Alive, Running
<1> QED  BY <1>4, <1>5, <1>6 DEF Inv

LEMMA ReportInv == \A j \in Round : Inv /\ Report(j) => Inv'
<1> SUFFICES ASSUME NEW r \in Round, Inv, Report(r) PROVE Inv'
  OBVIOUS
<1>1. /\ log \in [Round -> Seq(Round)] /\ log[r] \in Seq(Round)
      /\ log' = [log EXCEPT ![r] = Append(log[r], i)]
      /\ UNCHANGED <<i, spc, pid, proc>>
  BY DEF Inv, TypeOK, Report
<1>2. i \in Round /\ i \in {r, r + 1}
  <2>1. Alive(r) /\ r \in Int /\ i \in Int
    BY RoundsAssumption DEF Report, Alive, Running, Inv, TypeOK, Round
  <2>2. (r = i \/ r = i - 1) /\ (spc = "done" => r = i)
    BY <2>1 DEF Inv, Lives, TypeOK
  <2>3. spc # "done" => i \in Round
    BY DEF Inv, Lives
  <2> QED  BY <2>1, <2>2, <2>3
<1>3. /\ Append(log[r], i) \in Seq(Round) /\ Len(Append(log[r], i)) = Len(log[r]) + 1
      /\ \A n \in 1 .. Len(log[r]) : Append(log[r], i)[n] = log[r][n]
      /\ Append(log[r], i)[Len(log[r]) + 1] = i
      /\ Len(log[r]) \in Nat
  BY <1>1, <1>2
<1>4. log' \in [Round -> Seq(Round)]
  BY <1>1, <1>3
<1>5. TypeOK'
  <2>1. reports' \in 0 .. MaxReports
    BY ReportsAssumption DEF Report, Inv, TypeOK
  <2> QED  BY <1>1, <1>4, <2>1 DEF Inv, TypeOK
<1>6. OwnRounds'
  <2> SUFFICES ASSUME NEW j \in Round, NEW n \in 1 .. Len(log'[j])
               PROVE  log'[j][n] \in {j, j + 1}
    BY DEF OwnRounds
  <2>1. CASE j # r
    <3>1. log'[j] = log[j]  BY <1>1, <2>1
    <3> QED  BY <3>1 DEF Inv, OwnRounds
  <2>2. CASE j = r
    <3>1. log'[r] = Append(log[r], i)  BY <1>1
    <3>2. n \in 1 .. Len(log[r]) \/ n = Len(log[r]) + 1  BY <1>3, <2>2, <3>1
    <3>3. CASE n \in 1 .. Len(log[r])
      <4>1. log[r][n] \in {r, r + 1}  BY <3>3 DEF Inv, OwnRounds
      <4> QED  BY <1>3, <2>2, <3>1, <3>3, <4>1
    <3>4. CASE n = Len(log[r]) + 1
      BY <1>2, <1>3, <2>2, <3>1, <3>4
    <3> QED  BY <3>2, <3>3, <3>4
  <2> QED  BY <2>1, <2>2
<1>7. Lives'
  BY <1>1 DEF Inv, Lives, Alive, Running
<1> QED  BY <1>5, <1>6, <1>7 DEF Inv

LEMMA StutterInv == Inv /\ UNCHANGED svars => Inv'
BY DEF Inv, Lives, svars, TypeOK, OwnRounds, Round, Alive, Running
-----------------------------------------------------------------------------
\* The inductive invariant of recv.sh.
THEOREM InvHolds == Spec => []Inv
<1>1. Inv /\ [Next]_svars => Inv'
  BY ForkInv, PgrepInv, SleepInv, KillInv, RestInv, ExecInv, OpenInv, ReportInv, StutterInv
     DEF Next, Script, Child
<1> QED  BY <1>1, InitInv, PTL DEF Spec

\* The state of recv.sh is well-typed and no receiver precedes its round.
THEOREM TypeCorrect == Spec => []TypeOK
<1>1. Inv => TypeOK
  BY DEF Inv
<1> QED  BY <1>1, InvHolds, PTL

\* However late the receivers start, for any number of rounds, a receiver that
\* pgrep misses is killed in the next round.
THEOREM StragglersCorrect == Spec => []Stragglers
<1>1. Inv => Stragglers
  BY DEF Inv, Lives, Stragglers, TypeOK
<1> QED  BY <1>1, InvHolds, PTL

\* No log file of the series has a report of a later round than the next.
THEOREM OwnRoundsCorrect == Spec => []OwnRounds
<1>1. Inv => OwnRounds
  BY DEF Inv
<1> QED  BY <1>1, InvHolds, PTL
=============================================================================
