------------------------------- MODULE CsiLog -------------------------------
(***************************************************************************)
(* recv_csi <output_file>: the receiver that logs every CSI report of the  *)
(* kernel to a file.                                                       *)
(*                                                                         *)
(* A report is its number in the order the kernel delivers it and its      *)
(* length buf_len = 25 + csi_len + payload_len; the kernel hands over two  *)
(* bytes more, buf_len itself.  A log entry is the two bytes of buf_len    *)
(* followed by buf_len bytes of buf_addr.  The process writes through      *)
(* stdio, so the file on disk is a prefix of what has been logged.         *)
(***************************************************************************)
EXTENDS Integers, Sequences

CONSTANTS
  Lens,         \* values of buf_len of the kernel's reports
  GarbageLens,  \* values found in front of buf_addr when read() has failed
  Block,        \* size of the stdio buffer (st_blksize of the log file)
  MaxReports,   \* bound: reports delivered
  MaxErrors     \* bound: read() calls that fail

BUFSIZE == 4096
StatusLen == 25              \* csi_st_len and the two bytes of payload_len
u_int16_t == {n \in Nat : n < 65536}

ASSUME LensAssumption    == Lens \subseteq {n \in Nat : StatusLen <= n /\ n + 2 <= BUFSIZE}
ASSUME GarbageAssumption == GarbageLens \subseteq u_int16_t
ASSUME BlockAssumption   == Block \in Nat \ {0}
ASSUME BoundAssumption   == MaxReports \in Nat /\ MaxErrors \in Nat

VARIABLES
  pc,             \* "start", "read", "status", "hdr", "body" or "dead"
  log_flag,       \* an output file was given
  cnt,            \* result of the last read()
  buf_addr,       \* the report in the buffer
  buf_len,        \* csi_status->buf_len
  total_msg_cnt,  \* messages counted
  log,            \* entries written to the stream
  total, disk,    \* bytes written to the stream, bytes of them on disk
  delivered,      \* buf_len of every report the kernel has delivered
  errors          \* failed read() calls

file == <<log, total, disk>>
wvars == <<pc, log_flag, cnt, buf_addr, buf_len, total_msg_cnt, file, delivered, errors>>

\* Before the first report buf_addr is zero: a report without CSI and payload.
ZeroReport == [id |-> 0, len |-> StatusLen]
-----------------------------------------------------------------------------
(***************************************************************************)
(* Conversions.                                                            *)
(***************************************************************************)
\* The bytes of a u_int16_t as fwrite finds them on the little-endian host.
LE16(x) == <<x % 256, (x \div 256) % 256>>

\* Mutant of Value16: the low byte is taken from a signed char.
Value16Signed(b) == (IF b[1] < 128 THEN b[1] ELSE b[1] - 256) + 256 * b[2]

\* ((b[cnt-1] << 8) & 0xff00) | (b[cnt-2] & 0x00ff)
Value16(b) == b[1] + 256 * b[2]

\* record_status: buf_len is read from the last two bytes of the message,
\* where the kernel has put the report's length.  After a failed read() cnt is
\* -1 and the two bytes lie in front of buf_addr.
BufLenOf(c) == IF c < 0 THEN GarbageLens ELSE {Value16(LE16(buf_addr.len))}

\* stdio: what fits the buffer stays there, otherwise the buffer and every
\* further whole block go to the disk.
Flushed(n) ==
  IF (total + n) - disk <= Block THEN disk
  ELSE (total + n) - ((total + n) % Block)

fwrite(n) == total' = total + n /\ disk' = Flushed(n)
-----------------------------------------------------------------------------
(***************************************************************************)
(* The process.                                                            *)
(***************************************************************************)
InitW ==
  /\ pc = "start" /\ log_flag = TRUE
  /\ cnt = 0 /\ buf_addr = ZeroReport /\ buf_len = 0 /\ total_msg_cnt = 0
  /\ log = <<>> /\ total = 0 /\ disk = 0
  /\ delivered = <<>> /\ errors = 0

\* recv_csi with or without an output file, the device open.
Start ==
  /\ pc = "start"
  /\ log_flag' \in BOOLEAN
  /\ pc' = "read"
  /\ UNCHANGED <<cnt, buf_addr, buf_len, total_msg_cnt, file, delivered, errors>>

\* Too many arguments, an output file that cannot be opened (fclose(NULL)
\* ends the process there), or no device.
FailStart ==
  /\ pc = "start"
  /\ pc' = "dead"
  /\ UNCHANGED <<log_flag, cnt, buf_addr, buf_len, total_msg_cnt, file, delivered, errors>>

\* read() returns a report and its trailing length.
ReadReport ==
  /\ pc = "read" /\ Len(delivered) < MaxReports
  /\ \E l \in Lens :
        /\ delivered' = Append(delivered, l)
        /\ buf_addr' = [id |-> Len(delivered) + 1, len |-> l]
        /\ cnt' = l + 2
  /\ pc' = "status"
  /\ UNCHANGED <<log_flag, buf_len, total_msg_cnt, file, errors>>

\* Mutant of ReadTimeout: the test of cnt is missing.
ReadTimeoutCounted ==
  /\ pc = "read"
  /\ cnt' = 0
  /\ pc' = "status"
  /\ UNCHANGED <<log_flag, buf_addr, buf_len, total_msg_cnt, file, delivered, errors>>

\* Nothing within the driver's time-out: the loop polls quit, which no handler
\* ever sets, and reads again.
ReadTimeout ==
  /\ pc = "read"
  /\ cnt' = 0
  /\ UNCHANGED <<pc, log_flag, buf_addr, buf_len, total_msg_cnt, file, delivered, errors>>

\* read() fails and leaves the buffer alone; "if (cnt)" takes -1 for a message.
ReadError ==
  /\ pc = "read" /\ errors < MaxErrors
  /\ cnt' = -1 /\ errors' = errors + 1
  /\ pc' = "status"
  /\ UNCHANGED <<log_flag, buf_addr, buf_len, total_msg_cnt, file, delivered>>

\* Mutant of RecordStatus: a length the buffer cannot have is not logged.
RecordStatusChecked ==
  /\ pc = "status"
  /\ total_msg_cnt' = total_msg_cnt + 1
  /\ buf_len' \in BufLenOf(cnt)
  /\ pc' = IF log_flag /\ buf_len' <= BUFSIZE THEN "hdr" ELSE "read"
  /\ UNCHANGED <<log_flag, cnt, buf_addr, file, delivered, errors>>

\* Count the message, decode its status (and, in CsiUnpack, its CSI); data_buf,
\* which record_csi_payload fills too, is read by nothing.
RecordStatus ==
  /\ pc = "status"
  /\ total_msg_cnt' = total_msg_cnt + 1
  /\ buf_len' \in BufLenOf(cnt)
  /\ pc' = IF log_flag THEN "hdr" ELSE "read"
  /\ UNCHANGED <<log_flag, cnt, buf_addr, file, delivered, errors>>

\* Mutant of WriteHdr: the header is written as an int.
WriteHdrInt ==
  /\ pc = "hdr"
  /\ fwrite(4)
  /\ pc' = "body"
  /\ UNCHANGED <<log_flag, cnt, buf_addr, buf_len, total_msg_cnt, log, delivered, errors>>

\* fwrite(&buf_len,1,2,fp)
WriteHdr ==
  /\ pc = "hdr"
  /\ fwrite(2)
  /\ pc' = "body"
  /\ UNCHANGED <<log_flag, cnt, buf_addr, buf_len, total_msg_cnt, log, delivered, errors>>

\* fwrite(buf_addr,1,buf_len,fp): the entry is complete in the stream.
WriteBody ==
  /\ pc = "body"
  /\ fwrite(buf_len)
  /\ log' = Append(log, [at |-> total - 2, hdr |-> LE16(buf_len), size |-> buf_len,
                         id |-> buf_addr.id, len |-> buf_addr.len])
  /\ pc' = "read"
  /\ UNCHANGED <<log_flag, cnt, buf_addr, buf_len, total_msg_cnt, delivered, errors>>

\* Ctrl+C, or the kill -9 of recv.sh: sig_handler is not installed, so either
\* ends the process at once and the stdio buffer is gone.
Kill ==
  /\ pc \notin {"start", "dead"}
  /\ pc' = "dead"
  /\ UNCHANGED <<log_flag, cnt, buf_addr, buf_len, total_msg_cnt, file, delivered, errors>>

NextW ==
  \/ Start \/ FailStart
  \/ ReadReport \/ ReadTimeout \/ ReadError
  \/ RecordStatus \/ WriteHdr \/ WriteBody
  \/ Kill

SpecW == InitW /\ [][NextW]_wvars
-----------------------------------------------------------------------------
(***************************************************************************)
(* Properties.                                                             *)
(***************************************************************************)
\* Offset just behind entry i; behind entry 0 the stream begins.
End(i) == IF i = 0 THEN 0 ELSE log[i].at + 2 + log[i].size

Entry == [at : Nat, hdr : Seq(0 .. 255), size : u_int16_t, id : Nat,
          len : {StatusLen} \cup Lens]

\* Type invariant of the receiver.
TypeOKW ==
  /\ pc \in {"start", "read", "status", "hdr", "body", "dead"}
  /\ log_flag \in BOOLEAN
  /\ cnt \in {-1, 0} \cup {l + 2 : l \in Lens}
  /\ buf_addr \in [id : Nat, len : {StatusLen} \cup Lens]
  /\ buf_len \in u_int16_t
  /\ total_msg_cnt \in Nat
  /\ log \in Seq(Entry)
  /\ total \in Nat /\ disk \in Nat
  /\ delivered \in Seq(Lens)
  /\ errors \in 0 .. MaxErrors

\* The entries lie back to back in the stream: each starts where the one
\* before it ends, its header is the number of bytes that follow, and the
\* stream ends with the last entry or with the header of the next one.
Layout ==
  /\ \A i \in 1 .. Len(log) :
        log[i].at = End(i - 1) /\ log[i].hdr = LE16(log[i].size)
  /\ total - End(Len(log)) \in IF pc = "body" THEN {2}
                               ELSE IF pc = "dead" THEN {0, 2} ELSE {0}

\* While no read() fails, the log is exactly the reports the kernel has
\* delivered, each once, in order and with its own length, but for the one
\* that is still being handled.
LogExact ==
  log_flag /\ errors = 0 =>
    /\ \A i \in 1 .. Len(log) :
         log[i].id = i /\ log[i].len = delivered[i] /\ log[i].size = delivered[i]
    /\ Len(delivered) - Len(log) \in 0 .. 1
    /\ pc = "read" => Len(delivered) = Len(log)

\* What the messages of recv_csi promise: leaving it with Ctrl+C leaves a
\* complete log.
QuitKeepsLog == pc = "dead" => disk = total

Cap == INSTANCE Capture WITH
  on   <- log_flag /\ pc \notin {"start", "dead"},
  read <- 1 .. total_msg_cnt,
  kept <- 1 .. Len(log)

\* recv_csi implements the abstract capture: every message it counts is in the
\* stream before it reads the next one, failed read() calls included, and only
\* the end of the process stops it.
Captured == Cap!Spec
-----------------------------------------------------------------------------
(***************************************************************************)
(* The inductive invariant.                                                *)
(***************************************************************************)
\* Later entries lie behind earlier ones, and all within the stream.
Ordered ==
  /\ \A i, j \in 1 .. Len(log) : i < j => End(i) <= log[j].at
  /\ \A i \in 1 .. Len(log) : End(i) <= total

\* At most one stdio block has not reached the disk.
LossBound == disk <= total /\ total - disk <= Block

\* Where the report in the buffer stands between kernel and log.
InFlight ==
  log_flag /\ errors = 0 =>
    CASE pc \in {"start", "read"} -> Len(delivered) = Len(log)
      [] pc = "dead" -> Len(delivered) - Len(log) \in 0 .. 1
      [] OTHER -> /\ Len(delivered) = Len(log) + 1
                  /\ buf_addr.id = Len(delivered)
                  /\ buf_addr.len = delivered[Len(delivered)]
                  /\ pc = "status" => cnt > 0
                  /\ pc \in {"hdr", "body"} => buf_len = buf_addr.len

\* Every message counted is in the log, but for the one being written.
Counted ==
  log_flag => total_msg_cnt \in IF pc \in {"hdr", "body"} THEN {Len(log) + 1}
                               ELSE IF pc = "dead" THEN {Len(log), Len(log) + 1}
                               ELSE {Len(log)}

InvW ==
  /\ TypeOKW /\ Layout /\ Ordered /\ LossBound /\ LogExact /\ InFlight /\ Counted
  /\ pc = "start" => log_flag /\ errors = 0 /\ delivered = <<>> /\ log = <<>>
  /\ pc \in {"hdr", "body"} \/ log # <<>> => log_flag
=============================================================================
