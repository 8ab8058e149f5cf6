------------------------------ MODULE Capture ------------------------------
(***************************************************************************)
(* What a receiver promises of the messages it reads, whether it keeps     *)
(* them in a file or in a database: as long as its channel is open every   *)
(* message is kept before the next one is read; when the channel closes,   *)
(* the message at hand may be lost, and nothing more is kept until the     *)
(* receiver is started again.  A run therefore keeps a prefix of what it   *)
(* reads.                                                                  *)
(***************************************************************************)
EXTENDS Integers

VARIABLES
  on,    \* the channel to the file or the database is open
  read,  \* numbers of the messages read in this run
  kept   \* those of them that are stored

cvars == <<on, read, kept>>

Init == on = FALSE /\ read = {} /\ kept = {}

\* A new run, with or without a channel.
Start ==
  /\ ~ on
  /\ on' \in BOOLEAN /\ read' = {} /\ kept' = {}

\* A message is read.  With an open channel none before it is outstanding.
Message ==
  /\ on => kept = read
  /\ \E x \in read' : (\A y \in read : y < x) /\ read' = read \cup {x}
  /\ UNCHANGED <<on, kept>>

\* The message at hand is stored; the channel may be lost with the answer.
Keep ==
  /\ on
  /\ \E x \in read \ kept : kept' = kept \cup {x} /\ kept' = read
  /\ on' \in BOOLEAN
  /\ UNCHANGED read

\* The channel is lost, or the process.
Stop == on' = FALSE /\ UNCHANGED <<read, kept>>

Next == Start \/ Message \/ Keep \/ Stop

Step == [Next]_cvars
Spec == Init /\ [][Next]_cvars
=============================================================================
