----------------------------- MODULE RecvScript -----------------------------
(***************************************************************************)
(* recv.sh: a series of captures.  Each round forks a file receiver, asks  *)
(* pgrep for the process ids of everything called recv_csi, sleeps, kills  *)
(* what pgrep had found and rests three seconds.  Nothing waits for the    *)
(* receiver to have started, so pgrep may miss the receiver of its round   *)
(* and may find the one of the round before.                               *)
(*                                                                         *)
(* A receiver is here only its life and the reports it gets; what it does  *)
(* with them is CsiLog's.                                                  *)
(***************************************************************************)
EXTENDS Integers, Sequences

CONSTANTS
  Rounds,      \* $1
  MaxReports   \* bound: reports the driver delivers

ASSUME RoundsAssumption  == Rounds \in Nat
ASSUME ReportsAssumption == MaxReports \in Nat

VARIABLES
  i,         \* the round
  spc,       \* the command the script is at
  pid,       \* $pid: the receivers that pgrep has found
  proc,      \* life of the receiver of each round
  log,       \* per receiver, the round of each report it has received
  reports    \* reports delivered

svars == <<i, spc, pid, proc, log, reports>>

Round == 1 .. Rounds
Life  == {"none", "forked", "started", "listening", "dead"}

Running(j) == proc[j] \in {"started", "listening"}   \* its name is recv_csi
Alive(j)   == proc[j] = "forked" \/ Running(j)
-----------------------------------------------------------------------------
Init ==
  /\ i = 1 /\ spc = (IF Rounds = 0 THEN "done" ELSE "fork")
  /\ pid = {} /\ proc = [j \in Round |-> "none"]
  /\ log = [j \in Round |-> <<>>] /\ reports = 0

\* ./recv_csi $3_$i &
Fork ==
  /\ spc = "fork" /\ spc' = "pgrep"
  /\ proc' = [proc EXCEPT ![i] = "forked"]
  /\ UNCHANGED <<i, pid, log, reports>>

\* Mutant of Pgrep: pgrep -n, the newest process alone.
PgrepNewest ==
  /\ spc = "pgrep" /\ spc' = "sleep"
  /\ pid' = {j \in Round : Running(j) /\ \A l \in Round : Running(l) => l <= j}
  /\ UNCHANGED <<i, proc, log, reports>>

\* pid=$(pgrep recv_csi): the child of this round is still called recv.sh until
\* it has executed the program.
Pgrep ==
  /\ spc = "pgrep" /\ spc' = "sleep"
  /\ pid' = {j \in Round : Running(j)}
  /\ UNCHANGED <<i, proc, log, reports>>

\* sleep $2
Sleep ==
  /\ spc = "sleep" /\ spc' = "kill"
  /\ UNCHANGED <<i, pid, proc, log, reports>>

\* Mutant of Kill: the signal is SIGINT, ignored by a program in the background.
KillInt ==
  /\ spc = "kill" /\ spc' = "rest"
  /\ UNCHANGED <<i, pid, proc, log, reports>>

\* kill -9 $pid; without an argument, or for a process that is gone, it only
\* complains.
Kill ==
  /\ spc = "kill" /\ spc' = "rest"
  /\ proc' = [j \in Round |-> IF j \in pid /\ Running(j) THEN "dead" ELSE proc[j]]
  /\ UNCHANGED <<i, pid, log, reports>>

\* Mutant of Rest: one round too many.
RestOverrun ==
  /\ spc = "rest" /\ \A j \in Round : proc[j] # "forked"
  /\ spc' = IF i > Rounds THEN "done" ELSE "fork"
  /\ i' = IF i > Rounds THEN i ELSE i + 1
  /\ UNCHANGED <<pid, proc, log, reports>>

\* sleep 3 and the next round.  Three seconds are taken to be enough for a
\* child to execute its program; sleep $2, which may be 0, is not.
Rest ==
  /\ spc = "rest" /\ \A j \in Round : proc[j] # "forked"
  /\ spc' = IF i = Rounds THEN "done" ELSE "fork"
  /\ i' = IF i = Rounds THEN i ELSE i + 1
  /\ UNCHANGED <<pid, proc, log, reports>>
-----------------------------------------------------------------------------
\* The child executes recv_csi.
Exec(j) ==
  /\ proc[j] = "forked"
  /\ proc' = [proc EXCEPT ![j] = "started"]
  /\ UNCHANGED <<i, spc, pid, log, reports>>

\* main opens the output file, which empties it, and the device; failing, it
\* returns.
Open(j) ==
  /\ proc[j] = "started"
  /\ \/ proc' = [proc EXCEPT ![j] = "listening"] /\ log' = [log EXCEPT ![j] = <<>>]
     \/ proc' = [proc EXCEPT ![j] = "dead"] /\ UNCHANGED log
  /\ UNCHANGED <<i, spc, pid, reports>>

\* The driver hands a report to one of the receivers that read the device.
Report(j) ==
  /\ proc[j] = "listening" /\ reports < MaxReports
  /\ log' = [log EXCEPT ![j] = Append(@, i)]
  /\ reports' = reports + 1
  /\ UNCHANGED <<i, spc, pid, proc>>

Script == Fork \/ Pgrep \/ Sleep \/ Kill \/ Rest
Child(j) == Exec(j) \/ Open(j)

Next == Script \/ \E j \in Round : Child(j) \/ Report(j)

\* Sleeps end and a child gets to run.
Spec == Init /\ [][Next]_svars /\ WF_svars(Script) /\ \A j \in Round : WF_svars(Child(j))
-----------------------------------------------------------------------------
(***************************************************************************)
(* Properties.                                                             *)
(***************************************************************************)
\* Types; no receiver exists before its round.
TypeOK ==
  /\ i \in Nat /\ (i <= Rounds \/ Rounds = 0) /\ pid \subseteq Round /\ proc \in [Round -> Life]
  /\ log \in [Round -> Seq(Round)] /\ reports \in 0 .. MaxReports
  /\ spc \in {"fork", "pgrep", "sleep", "kill", "rest", "done"}
  /\ \A j \in Round : j > i => proc[j] = "none"

\* A receiver that pgrep has missed outlives its round by one round at most:
\* of all the receivers that recv.sh has started, only those of this round and
\* of the one before can be alive and compete for the driver's reports.
Stragglers == \A j \in Round : Alive(j) => j \in {i - 1, i}

\* Hence a log file has reports of its own round and of the next one only.
OwnRounds == \A j \in Round : \A n \in 1 .. Len(log[j]) : log[j][n] \in {j, j + 1}

\* The script ends, and every receiver but that of the last round is dead then.
AllEnd == <>[](spc = "done" /\ \A j \in Round : j < Rounds => proc[j] = "dead")

\* What makes Stragglers and OwnRounds inductive: when a round begins, the
\* receiver of the round before has its name, so pgrep finds it, and after the
\* kill only the receiver of the round itself is left.
Lives ==
  /\ spc # "done" => i \in Round
  /\ \A j \in Round :
       Alive(j) =>
         CASE spc = "fork"              -> j = i - 1 /\ Running(j)
           [] spc = "pgrep"             -> j = i \/ (j = i - 1 /\ Running(j))
           [] spc \in {"sleep", "kill"} -> j = i \/ (j = i - 1 /\ Running(j) /\ j \in pid)
           [] spc \in {"rest", "done"}  -> j = i

Inv == TypeOK /\ OwnRounds /\ Lives
=============================================================================
