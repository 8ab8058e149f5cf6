----------------------------- MODULE LogReader -----------------------------
(***************************************************************************)
(* read_log_file.m on the file recv_csi is writing or has left behind.     *)
(*                                                                         *)
(* The reader takes the length of the file once, when it opens it.  Bytes  *)
(* before that length never change, so one turn of its loop is one step,   *)
(* whatever the receiver does meanwhile.                                   *)
(***************************************************************************)
EXTENDS CsiLog

CONSTANTS
  Jumps,    \* csi_len + payload_len read where no entry starts
  FieldLens \* field_len read where no entry starts

ASSUME JumpsAssumption == Jumps \subseteq Nat /\ FieldLens \subseteq u_int16_t

VARIABLES
  rpc,    \* "closed", "loop", "trim", "done" or "error"
  len,    \* length of the file when it was opened
  cur,    \* bytes consumed
  count,  \* records counted
  ret     \* the cell array: numbers of the reports its records hold

rvars == <<rpc, len, cur, count, ret>>
vars == <<wvars, rvars>>

Garbled == -1   \* a record that is not one report's data
Empty == -2     \* a cell that was never assigned

\* A record whose end is closer than this to the end of the file is dropped.
TailLen == 420

\* (cur + field_len) > len, cur being past the two bytes of the header
TooShort(c, field_len) == c + 2 + field_len > len

\* Mutant of ieee_le: the commented-out big-endian read.
ieee_be(b) == b[2] + 256 * b[1]

\* fread(f, 1, 'uint16', 0, 'ieee-le')
ieee_le(b) == b[1] + 256 * b[2]
-----------------------------------------------------------------------------
\* The header and the fields are read at the start of entry i.
Here(i) == log[i].at = cur
InSync  == \E i \in 1 .. Len(log) : Here(i)

\* What one turn of the loop makes of the entry: the fields give the length of
\* the CSI and of the payload, which are read as they stand; nothing compares
\* them with field_len.  An entry cut short by a wrong buf_len is filled with
\* the bytes of what follows.
RecordOf(e) == IF e.size < e.len THEN Garbled ELSE e.id

\* Mutant of AdvanceOf: the two bytes of payload_len are not counted.
AdvanceOfShort(e) ==
  IF e.size < StatusLen THEN {StatusLen + j : j \in Jumps} ELSE {e.len - 2}

AdvanceOf(e) ==
  IF e.size < StatusLen THEN {StatusLen + j : j \in Jumps} ELSE {e.len}

InitR == rpc = "closed" /\ len = 0 /\ cur = 0 /\ count = 0 /\ ret = <<>>

\* fopen, fseek to the end, ftell.
OpenFile ==
  /\ rpc = "closed" /\ pc # "start" /\ log_flag
  /\ len' = disk /\ cur' = 0 /\ count' = 0 /\ ret' = <<>>
  /\ rpc' = "loop"

\* Mutants of Take: cur is left to fread, the end of the file is not tested.
TakeStuck(n, rec) ==
  /\ cur' = cur
  /\ IF cur + 2 + n + TailLen > len
     THEN rpc' = "trim" /\ UNCHANGED <<count, ret>>
     ELSE UNCHANGED <<count, ret, rpc>>
TakeToEnd(n, rec) ==
  /\ cur' = cur + 2 + n
  /\ count' = count + 1 /\ ret' = Append(ret, rec) /\ UNCHANGED rpc

\* The rest of a turn once the header is accepted: n bytes of fields, CSI and
\* payload are read, and the record is counted unless the file ends too soon.
Take(n, rec) ==
  /\ cur' = cur + 2 + n
  /\ IF cur + 2 + n + TailLen > len
     THEN rpc' = "trim" /\ UNCHANGED <<count, ret>>
     ELSE count' = count + 1 /\ ret' = Append(ret, rec) /\ UNCHANGED rpc

More == cur < len - 4

\* One turn of the loop at the start of an entry.
ReadEntry ==
  /\ rpc = "loop" /\ More
  /\ \E i \in 1 .. Len(log) :
        /\ Here(i)
        /\ ~ TooShort(cur, ieee_le(log[i].hdr))
        /\ \E n \in AdvanceOf(log[i]) : Take(n, RecordOf(log[i]))
  /\ UNCHANGED len

\* One turn of the loop where no entry starts, after a record whose own length
\* was not the length of its entry.
ReadGarbage ==
  /\ rpc = "loop" /\ More /\ ~ InSync
  /\ \E f \in FieldLens : ~ TooShort(cur, f)
  /\ \E j \in Jumps : Take(StatusLen + j, Garbled)
  /\ UNCHANGED len

\* The entry at cur reaches beyond the end of the file.
BreakShort ==
  /\ rpc = "loop" /\ More
  /\ \/ \E i \in 1 .. Len(log) : Here(i) /\ TooShort(cur, ieee_le(log[i].hdr))
     \/ ~ InSync /\ \E f \in FieldLens : TooShort(cur, f)
  /\ cur' = cur + 2
  /\ rpc' = "trim"
  /\ UNCHANGED <<len, count, ret>>

\* while cur < (len - 4)
LoopEnd ==
  /\ rpc = "loop" /\ ~ More
  /\ rpc' = "trim"
  /\ UNCHANGED <<len, cur, count, ret>>

\* ret(1:(count-1)), or ret(1), which is an index error when the cell array
\* was allocated for an empty file.
Trim ==
  /\ rpc = "trim"
  /\ IF len = 0
     THEN rpc' = "error" /\ UNCHANGED ret
     ELSE /\ rpc' = "done"
          /\ ret' = IF count > 1 THEN SubSeq(ret, 1, count - 1)
                    ELSE IF count = 1 THEN ret ELSE <<Empty>>
  /\ UNCHANGED <<len, cur, count>>

ReaderStep == OpenFile \/ ReadEntry \/ ReadGarbage \/ BreakShort \/ LoopEnd \/ Trim

Init == InitW /\ InitR
Next == \/ NextW /\ UNCHANGED rvars
        \/ ReaderStep /\ UNCHANGED wvars

Spec == Init /\ [][Next]_vars

\* A MATLAB session that has been started runs on, whatever the receiver does.
FairSpec == Spec /\ WF_vars(ReaderStep /\ UNCHANGED wvars)
-----------------------------------------------------------------------------
(***************************************************************************)
(* Properties.                                                             *)
(***************************************************************************)
\* Type invariant of the reader.
TypeOKR ==
  /\ rpc \in {"closed", "loop", "trim", "done", "error"}
  /\ len \in Nat /\ cur \in Nat /\ count \in Nat
  /\ ret \in Seq(Nat \cup {Garbled, Empty})

TypeOK == TypeOKW /\ TypeOKR

\* One of the first n entries does not carry the length of its report, as
\* after a failed read().
Damaged(n) == \E j \in 1 .. Len(log) : j <= n /\ log[j].size # log[j].len

\* A wrong entry damages only what follows it: the i-th record the reader has
\* built is the i-th entry of the log, complete and unmixed, unless an entry
\* up to it is wrong.  It holds while the receiver is still appending and
\* after it was killed in the middle of an entry.
FaithfulRecords ==
  \A i \in DOMAIN ret :
    ret[i] = Empty \/ Damaged(i) \/ (i <= Len(log) /\ ret[i] = log[i].id)

\* The reader counts no record that was not complete in the file it opened:
\* the last one counted ends TailLen bytes before the length it saw.
WithinFile ==
  count = 0 \/ Damaged(count) \/ (count <= Len(log) /\ End(count) + TailLen <= len)

\* End to end, with no failed read: a report that was logged early enough,
\* with one stdio block, one further entry and the 420 dropped bytes behind it,
\* is among the records the reader returns, at its own place, although the
\* receiver was killed and the reader discards its last records.
MaxEntry == BUFSIZE
EarlyReturned ==
  rpc \in {"done", "error"} /\ errors = 0 /\ pc = "dead" /\ len = disk =>
    \A i \in 1 .. Len(log) :
      total - End(i) >= Block + MaxEntry + TailLen =>
        rpc = "done" /\ i \in DOMAIN ret /\ ret[i] = i

\* The loop of read_log_file ends on every file, damaged or not.
ReaderEnds == (rpc = "loop") ~> (rpc \in {"done", "error"})
-----------------------------------------------------------------------------
(***************************************************************************)
(* The inductive invariant.                                                *)
(***************************************************************************)
\* The reader stands at the start of an entry, unless it has met a wrong one.
Sync == rpc = "loop" => Damaged(count) \/ (count <= Len(log) /\ cur = End(count))

\* When the loop has ended, the next entry was too close to the end of the
\* file.
Stopped ==
  rpc \in {"trim", "done", "error"} =>
    \/ Damaged(count + 1)
    \/ count <= Len(log) /\ len < End(count) + MaxEntry + TailLen

\* The cell array and the counter.
Cells ==
  /\ rpc \in {"closed", "loop", "trim"} => Len(ret) = count
  /\ rpc = "done" /\ count > 1 => Len(ret) = count - 1
  /\ rpc = "error" => len = 0
  /\ rpc # "done" \/ count > 0 => \A i \in DOMAIN ret : ret[i] # Empty
  /\ rpc = "closed" => count = 0

Inv ==
  /\ InvW /\ TypeOKR /\ FaithfulRecords /\ WithinFile
  /\ Sync /\ Stopped /\ Cells
  /\ len <= disk
=============================================================================
