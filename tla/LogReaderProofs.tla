-------------------------- MODULE LogReaderProofs --------------------------
(***************************************************************************)
(* TLAPS proofs about the log: what recv_csi writes (CsiLog) and what      *)
(* read_log_file.m returns from it (LogReader), for every set of report    *)
(* lengths, every stdio block size, any number of reports and failed       *)
(* reads, and any interleaving of the two.                                 *)
(***************************************************************************)
EXTENDS LogReader, TLAPS
-----------------------------------------------------------------------------
(***************************************************************************)
(* The writer.                                                             *)
(***************************************************************************)
\* Two bytes, low byte first, carry a 16-bit number.
LEMMA BytesOf16 ==
  ASSUME NEW x \in u_int16_t
  PROVE  LE16(x) \in Seq(0 .. 255) /\ Value16(LE16(x)) = x
<1> DEFINE q == x \div 256  m == x % 256
<1>1. q \in Nat /\ m \in Nat /\ q < 256 /\ m < 256 /\ x = 256 * q + m
  BY DEF u_int16_t
<1>2. LE16(x) = <<m, q % 256>>
  BY DEF LE16
<1> HIDE DEF q, m
<1>3. q % 256 = q
  BY <1>1
<1>4. LE16(x) = <<m, q>>
  BY <1>2, <1>3
<1>5. Value16(LE16(x)) = m + 256 * q
  BY <1>4 DEF Value16
<1>6. m \in 0 .. 255 /\ q \in 0 .. 255
  BY <1>1
<1>7. <<m, q>> \in Seq(0 .. 255)
  BY <1>6
<1>8. m + 256 * q = x
  BY <1>1
<1> QED  BY <1>4, <1>5, <1>7, <1>8

\* One fwrite: the disk only gains bytes, and at most a block stays behind.
LEMMA OneWrite ==
  ASSUME NEW n \in Nat, total \in Nat, disk \in Nat, LossBound, fwrite(n)
  PROVE  /\ total' = total + n /\ total' \in Nat /\ disk' \in Nat
         /\ disk <= disk' /\ LossBound'
<1> DEFINE t == total + n  r == t % Block
<1>1. t \in Nat /\ Block \in Nat \ {0}
  BY BlockAssumption
<1>2. r \in 0 .. Block - 1 /\ r <= t
  <2> HIDE DEF t
  <2> QED  BY <1>1
<1>3. total' = t /\ disk' = IF t - disk <= Block THEN disk ELSE t - r
  BY DEF fwrite, Flushed
<1> HIDE DEF r
<1> QED  BY <1>1, <1>2, <1>3 DEF LossBound

\* The lengths of reports are 16-bit numbers of at least StatusLen.
LEMMA LensRange ==
  /\ \A l \in Lens : l \in Nat /\ l \in u_int16_t /\ l >= StatusLen /\ l + 2 <= BUFSIZE
  /\ StatusLen \in Nat /\ StatusLen \in u_int16_t
BY LensAssumption DEF u_int16_t, StatusLen, BUFSIZE

\* The offset behind an entry is a natural number.
LEMMA EndNat ==
  ASSUME TypeOKW, NEW i \in 0 .. Len(log)
  PROVE  End(i) \in Nat
<1>1. CASE i = 0
  BY <1>1 DEF End
<1>2. CASE i # 0
  <2>1. log \in Seq(Entry) /\ i \in 1 .. Len(log)
    BY <1>2 DEF TypeOKW
  <2> DEFINE a == log[i].at  n == log[i].size
  <2>2. log[i] \in Entry
    BY <2>1
  <2>3. a \in Nat /\ n \in Nat
    BY <2>2 DEF Entry, u_int16_t
  <2>4. End(i) = a + 2 + n
    BY <1>2 DEF End
  <2> HIDE DEF a, n
  <2> QED  BY <2>3, <2>4
<1> QED  BY <1>1, <1>2

\* The receiver's initial state satisfies the invariant.
LEMMA InitInvW == InitW => InvW
<1> SUFFICES ASSUME InitW PROVE InvW
  OBVIOUS
<1>1. TypeOKW
  BY BoundAssumption DEF InitW, TypeOKW, ZeroReport, u_int16_t, StatusLen, Entry
<1>2. Layout /\ Ordered
  BY DEF InitW, Layout, Ordered, End
<1>3. LossBound
  BY BlockAssumption DEF InitW, LossBound
<1>4. LogExact /\ InFlight /\ Counted
  BY DEF InitW, LogExact, InFlight, Counted
<1> QED  BY <1>1, <1>2, <1>3, <1>4 DEF InvW, InitW

\* Steps that leave the stream alone leave its layout alone.
LEMMA FileStays ==
  ASSUME InvW, UNCHANGED file, pc' # "body",
         pc' # "dead" => pc \notin {"body", "dead"}
  PROVE  Layout' /\ Ordered' /\ LossBound'
<1>1. log' = log /\ total' = total /\ disk' = disk
  BY DEF file
<1>2. \A i : End(i)' = End(i)
  BY <1>1 DEF End
<1>3. Layout'
  <2>1. \A i \in 1 .. Len(log') : log'[i].at = End(i - 1)' /\ log'[i].hdr = LE16(log'[i].size)
    BY <1>1, <1>2 DEF InvW, Layout
  <2>2. total - End(Len(log)) \in IF pc = "body" THEN {2}
                                  ELSE IF pc = "dead" THEN {0, 2} ELSE {0}
    BY DEF InvW, Layout
  <2>3. (total - End(Len(log)))' = total - End(Len(log))
    BY <1>1, <1>2
  <2>4. (total - End(Len(log)))' \in IF pc' = "body" THEN {2}
                                     ELSE IF pc' = "dead" THEN {0, 2} ELSE {0}
    BY <2>2, <2>3
  <2> QED  BY <2>1, <2>4 DEF Layout
<1>4. Ordered'
  BY <1>1, <1>2 DEF InvW, Ordered
<1>5. LossBound'
  BY <1>1 DEF InvW, LossBound
<1> QED  BY <1>3, <1>4, <1>5

\* Start-up with the device open preserves the invariant.
LEMMA StartInvW == InvW /\ Start => InvW'
<1> SUFFICES ASSUME InvW, Start PROVE InvW'
  OBVIOUS
<1>1. Layout' /\ Ordered' /\ LossBound'
  BY FileStays DEF Start
<1>2. TypeOKW'
  BY DEF InvW, TypeOKW, Start, file
<1>3. LogExact' /\ InFlight' /\ Counted'
  BY DEF InvW, LogExact, InFlight, Counted, Start, file
<1>4. pc' = "read" /\ log' = <<>>
  BY DEF InvW, Start, file
<1> QED  BY <1>1, <1>2, <1>3, <1>4 DEF InvW

\* A failed start-up and a kill preserve the invariant: they only move pc.
LEMMA StopInvW == InvW /\ (FailStart \/ Kill) => InvW'
<1> SUFFICES ASSUME InvW, FailStart \/ Kill PROVE InvW'
  OBVIOUS
<1>1. /\ pc' = "dead"
      /\ UNCHANGED <<log_flag, cnt, buf_addr, buf_len, total_msg_cnt, file, delivered, errors>>
  BY DEF FailStart, Kill
<1>2. Layout' /\ Ordered' /\ LossBound'
  BY <1>1, FileStays
<1>3. TypeOKW'
  BY <1>1 DEF InvW, TypeOKW, file
<1>4. LogExact' /\ InFlight' /\ Counted'
  BY <1>1 DEF InvW, LogExact, InFlight, Counted, file, TypeOKW
<1>5. log' # <<>> => log_flag'
  BY <1>1 DEF InvW, file
<1> QED  BY <1>1, <1>2, <1>3, <1>4, <1>5 DEF InvW

\* A delivered report becomes the one report in flight.
LEMMA ReadReportInvW == InvW /\ ReadReport => InvW'
<1> SUFFICES ASSUME InvW, ReadReport PROVE InvW'
  OBVIOUS
<1>1. PICK l \in Lens :
        /\ delivered' = Append(delivered, l)
        /\ buf_addr' = [id |-> Len(delivered) + 1, len |-> l]
        /\ cnt' = l + 2
  BY DEF ReadReport
<1>2. /\ pc = "read" /\ pc' = "status"
      /\ UNCHANGED <<log_flag, buf_len, total_msg_cnt, log, total, disk, errors>>
  BY DEF ReadReport, file
<1>3. Layout' /\ Ordered' /\ LossBound'
  BY <1>2, FileStays DEF file
<1>4. delivered \in Seq(Lens) /\ Len(delivered) \in Nat
  BY DEF InvW, TypeOKW
<1>5. /\ Len(delivered') = Len(delivered) + 1
      /\ delivered'[Len(delivered')] = l
      /\ \A i \in 1 .. Len(delivered) : delivered'[i] = delivered[i]
      /\ delivered' \in Seq(Lens)
  BY <1>1, <1>4
<1>6. TypeOKW'
  BY <1>1, <1>2, <1>4, <1>5 DEF InvW, TypeOKW
<1>7. LogExact' /\ InFlight'
  <2> SUFFICES ASSUME log_flag, errors = 0
               PROVE  LogExact' /\ InFlight'
    BY <1>2 DEF LogExact, InFlight
  <2>1. Len(delivered) = Len(log)
    BY <1>2 DEF InvW, InFlight
  <2>2. cnt' > 0
    <3>1. l \in Nat
      BY LensRange
    <3> QED  BY <1>1, <3>1
  <2>3. InFlight'
    BY <1>1, <1>2, <1>4, <1>5, <2>1, <2>2 DEF InFlight
  <2>4. LogExact'
    BY <1>2, <1>4, <1>5, <2>1 DEF InvW, LogExact
  <2> QED  BY <2>3, <2>4
<1>8. Counted'
  BY <1>2 DEF InvW, Counted
<1> QED  BY <1>2, <1>3, <1>6, <1>7, <1>8 DEF InvW

\* A time-out changes only cnt; a failed read() ends the errors = 0 claims.
LEMMA ReadNothingInvW == InvW /\ (ReadTimeout \/ ReadError) => InvW'
<1> SUFFICES ASSUME InvW, ReadTimeout \/ ReadError PROVE InvW'
  OBVIOUS
<1>1. /\ pc = "read" /\ pc' \in {"read", "status"} /\ cnt' \in {-1, 0}
      /\ UNCHANGED <<log_flag, buf_addr, buf_len, total_msg_cnt, log, total, disk, delivered>>
      /\ errors' \in 0 .. MaxErrors
      /\ errors' = 0 => pc' = "read" /\ errors = 0
  BY BoundAssumption DEF ReadTimeout, ReadError, InvW, TypeOKW, file
<1>2. Layout' /\ Ordered' /\ LossBound'
  BY <1>1, FileStays DEF file
<1>3. TypeOKW'
  BY <1>1 DEF InvW, TypeOKW
<1>4. LogExact' /\ InFlight' /\ Counted'
  BY <1>1 DEF InvW, LogExact, InFlight, Counted
<1> QED  BY <1>1, <1>2, <1>3, <1>4 DEF InvW

\* record_status finds the report's own length, or garbage after a failed read.
LEMMA RecordStatusInvW == InvW /\ RecordStatus => InvW'
<1> SUFFICES ASSUME InvW, RecordStatus PROVE InvW'
  OBVIOUS
<1>1. /\ pc = "status" /\ pc' = IF log_flag THEN "hdr" ELSE "read"
      /\ UNCHANGED <<log_flag, cnt, buf_addr, log, total, disk, delivered, errors>>
      /\ total_msg_cnt' = total_msg_cnt + 1 /\ buf_len' \in BufLenOf(cnt)
  BY DEF RecordStatus, file
<1>2. Layout' /\ Ordered' /\ LossBound'
  BY <1>1, FileStays DEF file
<1>3. buf_addr.len \in u_int16_t
  BY LensRange DEF InvW, TypeOKW
<1>4. cnt < 0 \/ buf_len' = buf_addr.len
  BY <1>1, <1>3, BytesOf16 DEF BufLenOf
<1>5. buf_len' \in u_int16_t
  BY <1>1, <1>3, <1>4, GarbageAssumption DEF BufLenOf
<1>6. TypeOKW'
  BY <1>1, <1>5 DEF InvW, TypeOKW
<1>7. LogExact' /\ InFlight'
  <2> SUFFICES ASSUME log_flag, errors = 0
               PROVE  LogExact' /\ InFlight'
    BY <1>1 DEF LogExact, InFlight
  <2>1. cnt > 0
    BY <1>1 DEF InvW, InFlight
  <2>2. ASSUME NEW l \in Lens PROVE l + 2 \in Int
    <3>1. l \in Nat
      BY LensRange
    <3> QED  BY <3>1
  <2>3. cnt \in Int
    BY <2>2 DEF InvW, TypeOKW
  <2>4. buf_len' = buf_addr.len
    BY <1>4, <2>1, <2>3
  <2> QED  BY <1>1, <2>4 DEF InvW, LogExact, InFlight
<1>8. Counted'
  BY <1>1 DEF InvW, Counted
<1> QED  BY <1>1, <1>2, <1>6, <1>7, <1>8 DEF InvW

\* The header's fwrite: two bytes behind the last entry.
LEMMA WriteHdrInvW == InvW /\ WriteHdr => InvW'
<1> SUFFICES ASSUME InvW, WriteHdr PROVE InvW'
  OBVIOUS
<1>1. /\ pc = "hdr" /\ pc' = "body" /\ fwrite(2)
      /\ UNCHANGED <<log_flag, cnt, buf_addr, buf_len, total_msg_cnt, log, delivered, errors>>
  BY DEF WriteHdr
<1>2. /\ total' = total + 2 /\ total' \in Nat /\ disk' \in Nat /\ LossBound'
      /\ total \in Nat
  BY <1>1, OneWrite DEF InvW, TypeOKW
<1>3. TypeOKW'
  BY <1>1, <1>2 DEF InvW, TypeOKW
<1>4. \A i : End(i)' = End(i)
  BY <1>1 DEF End
<1>5. Layout'
  <2>1. \A i \in 1 .. Len(log') : log'[i].at = End(i - 1)' /\ log'[i].hdr = LE16(log'[i].size)
    BY <1>1, <1>4 DEF InvW, Layout
  <2>2. total - End(Len(log)) = 0
    BY <1>1 DEF InvW, Layout
  <2>3. End(Len(log)) \in Nat
    BY EndNat, Len(log) \in 0 .. Len(log) DEF InvW
  <2>4. (total - End(Len(log)))' = 2
    BY <1>1, <1>2, <1>4, <2>2, <2>3
  <2> QED  BY <1>1, <2>1, <2>4 DEF Layout
<1>6. Ordered'
  <2>1. \A i \in 1 .. Len(log) : End(i) \in Nat
    BY EndNat DEF InvW
  <2> QED  BY <1>1, <1>2, <1>4, <2>1 DEF InvW, Ordered
<1>7. LogExact' /\ InFlight' /\ Counted'
  BY <1>1 DEF InvW, LogExact, InFlight, Counted
<1> QED  BY <1>1, <1>2, <1>3, <1>5, <1>6, <1>7 DEF InvW

\* The body's fwrite completes an entry: Layout, Ordered and LogExact extend by one.
LEMMA WriteBodyInvW == InvW /\ WriteBody => InvW'
<1> SUFFICES ASSUME InvW, WriteBody PROVE InvW'
  OBVIOUS
<1> DEFINE e == [at |-> total - 2, hdr |-> LE16(buf_len), size |-> buf_len,
                 id |-> buf_addr.id, len |-> buf_addr.len]
           n == Len(log)
<1>1. /\ pc = "body" /\ pc' = "read" /\ fwrite(buf_len) /\ log' = Append(log, e)
      /\ UNCHANGED <<log_flag, cnt, buf_addr, buf_len, total_msg_cnt, delivered, errors>>
  BY DEF WriteBody
<1>2. /\ TypeOKW /\ Layout /\ Ordered /\ LossBound /\ LogExact /\ InFlight /\ log_flag
  BY <1>1 DEF InvW
<1>3. log \in Seq(Entry) /\ n \in Nat /\ total \in Nat /\ buf_len \in u_int16_t /\ buf_len \in Nat
  BY <1>2 DEF TypeOKW, u_int16_t
<1>4. /\ total' = total + buf_len /\ total' \in Nat /\ disk' \in Nat /\ LossBound'
  BY <1>1, <1>2, <1>3, OneWrite DEF TypeOKW
<1>5. End(n) \in Nat /\ total - 2 = End(n) /\ total - 2 \in Nat
  <2>1. End(n) \in Nat
    BY <1>2, <1>3, EndNat, n \in 0 .. n
  <2>2. total - End(n) = 2
    BY <1>1, <1>2 DEF Layout
  <2> HIDE DEF n
  <2> QED  BY <1>3, <2>1, <2>2
<1>6. e \in Entry
  <2>1. buf_addr.id \in Nat /\ buf_addr.len \in {StatusLen} \cup Lens
    BY <1>2 DEF TypeOKW
  <2> QED  BY <1>3, <1>5, <2>1, BytesOf16 DEF Entry
<1>7. /\ Len(log') = n + 1 /\ log' \in Seq(Entry)
      /\ log'[n + 1] = e
      /\ \A i \in 1 .. n : log'[i] = log[i]
  <2> HIDE DEF e
  <2> QED  BY <1>1, <1>3, <1>6
<1>8. \A i \in 0 .. n : End(i)' = End(i)
  BY <1>7 DEF End
<1>9. ASSUME NEW i, i = n + 1 PROVE End(i)' = total'
  <2>1. log'[i].at = total - 2 /\ log'[i].size = buf_len
    BY <1>7, <1>9
  <2>2. End(i)' = (total - 2) + 2 + buf_len
    BY <1>3, <1>9, <2>1 DEF End
  <2> QED  BY <1>3, <1>4, <2>2
<1> HIDE DEF n
<1>10. TypeOKW'
  BY <1>1, <1>2, <1>4, <1>7 DEF TypeOKW
<1>11. Layout'
  <2>1. ASSUME NEW i \in 1 .. n + 1
        PROVE  log'[i].at = End(i - 1)' /\ log'[i].hdr = LE16(log'[i].size)
    <3>1. CASE i = n + 1
      <4>1. i - 1 = n /\ n \in 0 .. n
        BY <1>3, <3>1
      <4> QED  BY <1>5, <1>7, <1>8, <3>1, <4>1
    <3>2. CASE i \in 1 .. n
      <4>1. i - 1 \in 0 .. n
        BY <1>3, <3>2
      <4>2. log[i].at = End(i - 1) /\ log[i].hdr = LE16(log[i].size)
        BY <1>2, <3>2 DEF Layout, n
      <4> QED  BY <1>7, <1>8, <3>2, <4>1, <4>2
    <3> QED  BY <1>3, <2>1, <3>1, <3>2
  <2>2. (total - End(Len(log)))' = 0
    <3>1. End(Len(log))' = total'
      BY <1>7, <1>9 DEF End
    <3> QED  BY <1>4, <3>1
  <2> QED  BY <1>1, <1>7, <2>1, <2>2 DEF Layout
<1>12. Ordered'
  <2>1. \A i \in 1 .. n : End(i) \in Nat /\ End(i) <= total - 2
    <3>1. ASSUME NEW i \in 1 .. n PROVE End(i) \in Nat /\ End(i) <= total - 2
      <4>1. i \in 0 .. n
        BY <1>3
      <4>2. End(i) \in Nat
        BY <1>2, <4>1, EndNat DEF n
      <4>3. CASE i = n
        BY <1>3, <1>5, <4>2, <4>3
      <4>4. CASE i # n
        <5>1. i < n /\ n \in 1 .. n
          BY <1>3, <4>4
        <5>2. End(i) <= log[n].at
          BY <1>2, <5>1 DEF Ordered, n
        <5>3. log[n].at \in Nat /\ log[n].size \in Nat
          <6>1. log[n] \in Entry
            BY <1>3, <5>1 DEF n
          <6> QED  BY <6>1 DEF Entry, u_int16_t
        <5>4. End(n) = log[n].at + 2 + log[n].size
          BY <5>1 DEF End
        <5> QED  BY <1>5, <4>2, <5>2, <5>3, <5>4
      <4> QED  BY <4>3, <4>4
    <3> QED  BY <3>1
  <2>2. ASSUME NEW i \in 1 .. n + 1, NEW j \in 1 .. n + 1, i < j
        PROVE  End(i)' <= log'[j].at
    <3>1. i \in 1 .. n /\ i \in 0 .. n
      BY <1>3, <2>2
    <3>2. CASE j = n + 1
      BY <1>7, <1>8, <2>1, <3>1, <3>2
    <3>3. CASE j \in 1 .. n
      <4>1. End(i) <= log[j].at
        BY <1>2, <2>2, <3>1, <3>3 DEF Ordered, n
      <4> QED  BY <1>7, <1>8, <3>1, <3>3, <4>1
    <3> QED  BY <1>3, <3>2, <3>3
  <2>3. ASSUME NEW i \in 1 .. n + 1
        PROVE  End(i)' <= total'
    <3>1. CASE i = n + 1
      BY <1>4, <1>9, <3>1
    <3>2. CASE i \in 1 .. n
      <4>1. End(i)' = End(i)
        BY <1>3, <1>8, <3>2
      <4>2. End(i) \in Nat /\ End(i) <= total - 2
        BY <2>1, <3>2
      <4> QED  BY <1>3, <1>4, <4>1, <4>2
    <3> QED  BY <1>3, <3>1, <3>2
  <2> QED  BY <1>7, <2>2, <2>3 DEF Ordered
<1>13. LogExact' /\ InFlight'
  <2> SUFFICES ASSUME errors = 0
               PROVE  LogExact' /\ InFlight'
    BY <1>1 DEF LogExact, InFlight
  <2>1. /\ Len(delivered) = n + 1 /\ buf_addr.id = n + 1
        /\ buf_addr.len = delivered[n + 1] /\ buf_len = buf_addr.len
    BY <1>1, <1>2 DEF InFlight, n
  <2>2. \A i \in 1 .. n :
          log[i].id = i /\ log[i].len = delivered[i] /\ log[i].size = delivered[i]
    BY <1>2 DEF LogExact, n
  <2>3. ASSUME NEW i \in 1 .. n + 1
        PROVE  log'[i].id = i /\ log'[i].len = delivered[i] /\ log'[i].size = delivered[i]
    <3>1. CASE i = n + 1
      BY <1>7, <2>1, <3>1
    <3>2. CASE i \in 1 .. n
      BY <1>7, <2>2, <3>2
    <3> QED  BY <1>3, <3>1, <3>2
  <2>4. Len(delivered') = n + 1 /\ Len(log') = n + 1 /\ delivered' = delivered
    BY <1>1, <1>7, <2>1
  <2>5. InFlight'
    BY <1>1, <2>4 DEF InFlight
  <2>6. LogExact'
    BY <1>1, <1>3, <2>3, <2>4 DEF LogExact
  <2> QED  BY <2>5, <2>6
<1>14. Counted'
  BY <1>1, <1>7 DEF InvW, Counted, n
<1> QED  BY <1>1, <1>4, <1>10, <1>11, <1>12, <1>13, <1>14 DEF InvW

\* The receiver's invariant is inductive.
LEMMA NextInvW == InvW /\ [NextW]_wvars => InvW'
<1> SUFFICES ASSUME InvW, [NextW]_wvars PROVE InvW'
  OBVIOUS
<1>1. CASE Start                      BY <1>1, StartInvW
<1>2. CASE FailStart \/ Kill          BY <1>2, StopInvW
<1>3. CASE ReadReport                 BY <1>3, ReadReportInvW
<1>4. CASE ReadTimeout \/ ReadError   BY <1>4, ReadNothingInvW
<1>5. CASE RecordStatus               BY <1>5, RecordStatusInvW
<1>6. CASE WriteHdr                   BY <1>6, WriteHdrInvW
<1>7. CASE WriteBody                  BY <1>7, WriteBodyInvW
<1>8. CASE UNCHANGED wvars
  <2>1. /\ UNCHANGED <<pc, log_flag, cnt, buf_addr, buf_len, total_msg_cnt>>
        /\ UNCHANGED <<log, total, disk, delivered, errors>>
    BY <1>8 DEF wvars, file
  <2>2. \A i : End(i)' = End(i)
    BY <2>1 DEF End
  <2>3. TypeOKW' /\ LossBound' /\ LogExact' /\ InFlight' /\ Counted'
    BY <2>1 DEF InvW, TypeOKW, LossBound, LogExact, InFlight, Counted
  <2>4. Layout'
    <3>1. (total - End(Len(log)))' = total - End(Len(log))
      BY <2>1 DEF End
    <3> QED  BY <2>1, <2>2, <3>1 DEF InvW, Layout
  <2>5. Ordered'
    BY <2>1, <2>2 DEF InvW, Ordered
  <2> QED  BY <2>1, <2>3, <2>4, <2>5 DEF InvW
<1> QED  BY <1>1, <1>2, <1>3, <1>4, <1>5, <1>6, <1>7, <1>8 DEF NextW

\* The inductive invariant of recv_csi holds in every reachable state.
THEOREM InvWHolds == SpecW => []InvW
<1>1. InitW => InvW
  BY InitInvW
<1>2. InvW /\ [NextW]_wvars => InvW'
  BY NextInvW
<1> QED  BY <1>1, <1>2, PTL DEF SpecW
-----------------------------------------------------------------------------
\* Type correctness of the receiver: among others, buf_len stays a u_int16_t
\* and the message counter a number whatever the kernel returns.
THEOREM TypeCorrectW == SpecW => []TypeOKW
<1>1. InvW => TypeOKW
  BY DEF InvW
<1> QED  BY <1>1, InvWHolds, PTL

\* The entries of the log file lie back to back behind correct headers, for
\* every sequence of reports, time-outs and failed reads and a kill at any
\* point.
THEOREM LayoutCorrect == SpecW => []Layout
<1>1. InvW => Layout
  BY DEF InvW
<1> QED  BY <1>1, InvWHolds, PTL

\* While no read() fails, recv_csi logs every report of the kernel exactly
\* once, in order and in full.
THEOREM LogExactCorrect == SpecW => []LogExact
<1>1. InvW => LogExact
  BY DEF InvW
<1> QED  BY <1>1, InvWHolds, PTL
-----------------------------------------------------------------------------
\* Appending message n + 1 to the messages 1 .. n.
LEMMA OneMore ==
  ASSUME NEW n \in Nat
  PROVE  /\ 1 .. (n + 1) = (1 .. n) \cup {n + 1}
         /\ n + 1 \in 1 .. (n + 1) /\ n + 1 \notin 1 .. n
         /\ \A y \in 1 .. n : y < n + 1
OBVIOUS

\* recv_csi implements the abstract capture: every message is in the stream
\* before the next one is read.
THEOREM LogImplementsCapture == SpecW => Captured
<1>1. InitW => Cap!Init
  BY DEF InitW, Cap!Init
<1>2. InvW /\ [NextW]_wvars => [Cap!Next]_(Cap!cvars)
  <2> SUFFICES ASSUME InvW, [NextW]_wvars PROVE [Cap!Next]_(Cap!cvars)
    OBVIOUS
  <2> USE DEF Cap!cvars
  <2>1. TypeOKW /\ Counted
    BY DEF InvW
  <2>2. total_msg_cnt \in Nat /\ Len(log) \in Nat /\ log_flag \in BOOLEAN
    BY <2>1 DEF TypeOKW
  <2>3. CASE Start
    <3>1. log = <<>> /\ log_flag
      BY <2>3 DEF InvW, Start
    <3>2. total_msg_cnt = 0
      BY <2>1, <2>3, <3>1 DEF Counted, Start
    <3>3. log' = log /\ total_msg_cnt' = 0
      BY <2>3, <3>2 DEF Start, file
    <3>4. Cap!Start
      BY <2>3, <3>1, <3>3 DEF Cap!Start, Start
    <3> QED  BY <3>4 DEF Cap!Next
  <2>4. CASE FailStart \/ Kill
    <3>1. Cap!Stop
      BY <2>4 DEF FailStart, Kill, Cap!Stop, file
    <3> QED  BY <3>1 DEF Cap!Next
  <2>5. CASE RecordStatus
    <3> DEFINE n == total_msg_cnt
    <3>1. /\ total_msg_cnt' = n + 1 /\ log' = log /\ log_flag' = log_flag
          /\ pc = "status" /\ pc' \in {"hdr", "read"}
      BY <2>5 DEF RecordStatus, file
    <3>2. log_flag => n = Len(log)
      BY <2>1, <3>1 DEF Counted
    <3>3. \E x \in 1 .. total_msg_cnt' :
            (\A y \in 1 .. n : y < x) /\ 1 .. total_msg_cnt' = (1 .. n) \cup {x}
      <4>1. n \in Nat
        BY <2>2
      <4> HIDE DEF n
      <4> QED  BY <3>1, <4>1, OneMore
    <3>4. Cap!Message
      BY <3>1, <3>2, <3>3 DEF Cap!Message
    <3> QED  BY <3>4 DEF Cap!Next
  <2>6. CASE WriteBody
    <3> DEFINE n == Len(log)
    <3>1. /\ total_msg_cnt' = total_msg_cnt /\ Len(log') = n + 1 /\ log_flag' = log_flag
          /\ pc = "body" /\ pc' = "read"
      BY <2>1, <2>6 DEF WriteBody, TypeOKW
    <3>2. log_flag /\ total_msg_cnt = n + 1
      BY <2>1, <3>1 DEF Counted, InvW
    <3>3. /\ n + 1 \in (1 .. (n + 1)) \ (1 .. n)
          /\ 1 .. (n + 1) = (1 .. n) \cup {n + 1}
      <4> HIDE DEF n
      <4> QED  BY <2>2, OneMore DEF n
    <3>4. Cap!Keep
      BY <3>1, <3>2, <3>3 DEF Cap!Keep
    <3> QED  BY <3>4 DEF Cap!Next
  <2>7. CASE ReadReport \/ ReadTimeout \/ ReadError \/ WriteHdr \/ UNCHANGED wvars
    <3>1. /\ total_msg_cnt' = total_msg_cnt /\ log' = log /\ log_flag' = log_flag
          /\ pc' = pc \/ {pc, pc'} \cap {"start", "dead"} = {}
      BY <2>7 DEF ReadReport, ReadTimeout, ReadError, WriteHdr, wvars, file
    <3> QED  BY <3>1
  <2> QED  BY <2>3, <2>4, <2>5, <2>6, <2>7 DEF NextW
<1> QED  BY <1>1, <1>2, InvWHolds, PTL DEF SpecW, Captured, Cap!Spec
-----------------------------------------------------------------------------
(***************************************************************************)
(* The reader.                                                             *)
(***************************************************************************)
\* The stream and the disk only grow; what is written stays.
Grows ==
  /\ disk <= disk'
  /\ Len(log) <= Len(log')
  /\ \A i \in 1 .. Len(log) : log'[i] = log[i]

\* The receiver only appends: entries, the disk and the error count never shrink.
LEMMA WriterGrows == InvW /\ [NextW]_wvars => Grows
<1> SUFFICES ASSUME InvW, [NextW]_wvars PROVE Grows
  OBVIOUS
<1>1. TypeOKW /\ LossBound
  BY DEF InvW
<1>2. /\ log \in Seq(Entry) /\ Len(log) \in Nat /\ disk \in Nat /\ total \in Nat
      /\ buf_len \in Nat
  BY <1>1 DEF TypeOKW, u_int16_t
<1>3. CASE UNCHANGED file
  BY <1>2, <1>3 DEF Grows, file
<1>4. CASE WriteHdr
  <2>1. fwrite(2) /\ log' = log
    BY <1>4 DEF WriteHdr
  <2>2. disk <= disk'
    BY <1>1, <1>2, <2>1, OneWrite
  <2> QED  BY <1>2, <2>1, <2>2 DEF Grows
<1>5. CASE WriteBody
  <2>1. PICK e : fwrite(buf_len) /\ log' = Append(log, e)
    BY <1>5 DEF WriteBody
  <2>2. disk <= disk'
    BY <1>1, <1>2, <2>1, OneWrite
  <2>3. Len(log') = Len(log) + 1 /\ \A i \in 1 .. Len(log) : log'[i] = log[i]
    BY <1>2, <2>1
  <2> QED  BY <1>2, <2>2, <2>3 DEF Grows
<1>6. UNCHANGED file \/ WriteHdr \/ WriteBody
  BY DEF NextW, Start, FailStart, ReadReport, ReadTimeout, ReadError, RecordStatus, Kill,
         wvars
<1> QED  BY <1>3, <1>4, <1>5, <1>6

\* Growth moves no entry and repairs none.
LEMMA GrowsKeeps ==
  ASSUME InvW, Grows, InvW'
  PROVE  /\ Len(log) \in Nat /\ Len(log') \in Nat
         /\ \A i \in 0 .. Len(log) : End(i)' = End(i)
         /\ \A n : Damaged(n) => Damaged(n)'
<1>1. Len(log) \in Nat /\ Len(log') \in Nat
  BY DEF InvW, TypeOKW
<1>2. \A i \in 0 .. Len(log) : End(i)' = End(i)
  BY <1>1 DEF Grows, End
<1>3. ASSUME NEW n, Damaged(n) PROVE Damaged(n)'
  <2>1. PICK j \in 1 .. Len(log) : j <= n /\ log[j].size # log[j].len
    BY <1>3 DEF Damaged
  <2>2. j \in 1 .. Len(log') /\ log'[j] = log[j]
    BY <1>1, <2>1 DEF Grows
  <2> QED  BY <2>1, <2>2 DEF Damaged
<1> QED  BY <1>1, <1>2, <1>3

\* A step of the receiver preserves the reader's part of the invariant.
LEMMA WriterInv == Inv /\ NextW /\ UNCHANGED rvars => Inv'
<1> SUFFICES ASSUME Inv, NextW, UNCHANGED rvars PROVE Inv'
  OBVIOUS
<1>1. InvW /\ InvW' /\ Grows
  BY NextInvW, WriterGrows DEF Inv
<1>2. UNCHANGED <<rpc, len, cur, count, ret>>
  BY DEF rvars
<1>3. /\ Len(log) \in Nat /\ Len(log') \in Nat
      /\ \A i \in 0 .. Len(log) : End(i)' = End(i)
      /\ \A n : Damaged(n) => Damaged(n)'
  BY <1>1, GrowsKeeps
<1>4. /\ TypeOKR /\ FaithfulRecords /\ WithinFile /\ Sync /\ Stopped /\ Cells
      /\ len <= disk /\ count \in Nat /\ len \in Nat
  BY DEF Inv, TypeOKR
<1>5. TypeOKR' /\ Cells'
  BY <1>2, <1>4 DEF TypeOKR, Cells
<1>6. Len(log) <= Len(log') /\ \A i \in 1 .. Len(log) : log'[i] = log[i]
  BY <1>1 DEF Grows
<1>7. FaithfulRecords'
  <2>1. ret \in Seq(Nat \cup {Garbled, Empty})
    BY <1>4 DEF TypeOKR
  <2>2. ASSUME NEW i \in DOMAIN ret
        PROVE  ret[i] = Empty \/ Damaged(i)' \/ (i <= Len(log') /\ ret[i] = log'[i].id)
    <3>1. i \in Nat /\ i >= 1
      BY <2>1
    <3>2. CASE ret[i] = Empty \/ Damaged(i)
      BY <1>3, <3>2
    <3>3. CASE i <= Len(log) /\ ret[i] = log[i].id
      <4>1. i \in 1 .. Len(log)
        BY <1>3, <3>1, <3>3
      <4> QED  BY <1>3, <1>6, <3>1, <3>3, <4>1
    <3> QED  BY <1>4, <3>2, <3>3 DEF FaithfulRecords
  <2> QED  BY <1>2, <2>2 DEF FaithfulRecords
<1>8. ASSUME count <= Len(log)
      PROVE  End(count)' = End(count) /\ count <= Len(log')
  <2>1. count \in 0 .. Len(log)
    BY <1>3, <1>4, <1>8
  <2>2. \A i \in 0 .. Len(log) : i = count => End(count)' = End(i)
    BY <1>2, <1>3
  <2> QED  BY <1>2, <1>3, <1>4, <1>6, <1>8, <2>1, <2>2
<1>9. WithinFile'
  BY <1>2, <1>3, <1>4, <1>8 DEF WithinFile
<1>10. Sync'
  BY <1>2, <1>3, <1>4, <1>8 DEF Sync
<1>11. Stopped'
  BY <1>2, <1>3, <1>4, <1>8 DEF Stopped
<1>12. len' <= disk'
  BY <1>1, <1>2, <1>4 DEF Grows, InvW, TypeOKW
<1> QED  BY <1>1, <1>5, <1>7, <1>9, <1>10, <1>11, <1>12 DEF Inv
-----------------------------------------------------------------------------
(***************************************************************************)
(* The reader's steps.                                                     *)
(***************************************************************************)

\* A reader that stands behind entry n and at the start of an entry stands at
\* entry n + 1.
LEMMA NextEntry ==
  ASSUME InvW, NEW n \in 0 .. Len(log), NEW i \in 1 .. Len(log), log[i].at = End(n)
  PROVE  i = n + 1
<1>1. /\ TypeOKW /\ Layout /\ Ordered /\ Len(log) \in Nat
  BY DEF InvW, TypeOKW
<1>2. ASSUME NEW j \in 1 .. Len(log)
      PROVE  log[j].at \in Nat /\ log[j].at + 2 <= End(j) /\ End(j) \in Nat
  <2>1. log[j] \in Entry
    BY <1>1, <1>2 DEF TypeOKW
  <2> DEFINE a == log[j].at  s == log[j].size
  <2>2. a \in Nat /\ s \in Nat
    BY <2>1 DEF Entry, u_int16_t
  <2>3. End(j) = a + 2 + s
    BY <1>2 DEF End
  <2> HIDE DEF a, s
  <2>4. a \in Nat /\ a + 2 <= End(j) /\ End(j) \in Nat
    BY <2>2, <2>3
  <2> QED  BY <2>4 DEF a
<1>3. CASE i <= n
  <2>1. n \in 1 .. Len(log)
    BY <1>1, <1>3
  <2>2. log[i].at + 2 <= End(i) /\ log[i].at \in Nat /\ End(i) \in Nat
    BY <1>2
  <2>3. CASE i = n
    BY <2>2, <2>3
  <2>4. CASE i < n
    <3>1. End(i) <= log[n].at
      BY <1>1, <2>1, <2>4 DEF Ordered
    <3>2. log[n].at \in Nat /\ log[n].at + 2 <= End(n) /\ End(n) \in Nat
      BY <1>2, <2>1
    <3> QED  BY <2>2, <3>1, <3>2
  <2> QED  BY <1>3, <2>3, <2>4
<1>4. CASE i > n + 1
  <2>1. n + 1 \in 1 .. Len(log) /\ n + 1 < i /\ (n + 1) - 1 = n
    BY <1>1, <1>4
  <2>2. log[n + 1].at = End(n)
    BY <1>1, <2>1 DEF Layout
  <2>3. End(n + 1) <= log[i].at
    BY <1>1, <2>1 DEF Ordered
  <2>4. log[n + 1].at + 2 <= End(n + 1) /\ log[n + 1].at \in Nat /\ End(n + 1) \in Nat
    BY <1>2, <2>1
  <2>5. log[i].at \in Nat
    BY <1>2
  <2> QED  BY <2>2, <2>3, <2>4, <2>5
<1> QED  BY <1>1, <1>3, <1>4

\* A step of the reader leaves the receiver alone.
LEMMA ReaderLeaves ==
  ASSUME Inv, UNCHANGED wvars
  PROVE  /\ InvW' /\ log' = log /\ disk' = disk
         /\ \A i : End(i)' = End(i)
         /\ \A n : Damaged(n)' <=> Damaged(n)
<1>1. log' = log /\ disk' = disk
  BY DEF wvars, file
<1>2. InvW'
  BY NextInvW DEF Inv
<1> QED  BY <1>1, <1>2 DEF End, Damaged

\* The facts of the invariant the reader's steps use.
LEMMA InvFacts ==
  ASSUME Inv
  PROVE  /\ InvW /\ TypeOKW /\ TypeOKR /\ FaithfulRecords /\ WithinFile
         /\ Sync /\ Stopped /\ Cells
         /\ len <= disk /\ len \in Nat /\ cur \in Nat /\ count \in Nat
         /\ disk \in Nat /\ total \in Nat /\ disk <= total
         /\ ret \in Seq(Nat \cup {Garbled, Empty})
         /\ log \in Seq(Entry) /\ Len(log) \in Nat
BY DEF Inv, InvW, TypeOKR, TypeOKW, LossBound

\* An undamaged reader whose loop goes on stands at the next entry.
LEMMA AtEntry ==
  ASSUME Inv, rpc = "loop", More, ~ Damaged(count)
  PROVE  /\ count + 1 \in 1 .. Len(log) /\ Here(count + 1)
         /\ cur = End(count) /\ count \in 0 .. Len(log)
<1>1. count <= Len(log) /\ cur = End(count)
  BY InvFacts DEF Sync
<1>2. count \in 0 .. Len(log)
  BY <1>1, InvFacts
<1>3. CASE count = Len(log)
  <2>1. total - End(count) \in {0, 2}
    BY <1>3 DEF Inv, InvW, Layout
  <2>2. cur < len - 4 /\ len <= disk /\ disk <= total
    BY InvFacts DEF More
  <2> QED  BY <1>1, <2>1, <2>2, InvFacts
<1>4. CASE count < Len(log)
  <2>1. count + 1 \in 1 .. Len(log) /\ (count + 1) - 1 = count
    BY <1>2, <1>4, InvFacts
  <2>2. log[count + 1].at = End(count)
    BY <2>1 DEF Inv, InvW, Layout
  <2> QED  BY <1>1, <1>2, <2>1, <2>2 DEF Here
<1> QED  BY <1>2, <1>3, <1>4, InvFacts

\* An entry damaged up to n is damaged up to n + 1.
LEMMA DamagedNext ==
  ASSUME Inv, Damaged(count)
  PROVE  Damaged(count + 1)
<1>1. PICK j \in 1 .. Len(log) : j <= count /\ log[j].size # log[j].len
  BY DEF Damaged
<1>2. j <= count + 1
  BY <1>1, InvFacts
<1> QED  BY <1>1, <1>2 DEF Damaged

\* An undamaged entry carries the length of its report.
LEMMA CleanEntry ==
  ASSUME Inv, count + 1 \in 1 .. Len(log), ~ Damaged(count + 1)
  PROVE  LET e == log[count + 1] IN
         /\ e.size = e.len /\ e.size \in Nat /\ e.size >= StatusLen
         /\ e.size + 2 <= MaxEntry /\ e.id \in Nat
         /\ ieee_le(e.hdr) = e.size
         /\ End(count + 1) = e.at + 2 + e.size
<1> DEFINE e == log[count + 1]
<1>1. e \in Entry
  BY InvFacts
<1>2. e.size = e.len
  <2>1. count + 1 <= count + 1
    BY InvFacts
  <2> QED  BY <2>1 DEF Damaged
<1>3. e.hdr = LE16(e.size)
  BY DEF Inv, InvW, Layout
<1>4. e.size \in u_int16_t /\ e.id \in Nat /\ e.len \in {StatusLen} \cup Lens
  BY <1>1 DEF Entry
<1>5. ieee_le(e.hdr) = e.size
  BY <1>3, <1>4, BytesOf16 DEF ieee_le, Value16
<1>6. End(count + 1) = e.at + 2 + e.size
  BY InvFacts DEF End
<1>7. e.len \in Nat /\ e.len >= StatusLen /\ e.len + 2 <= MaxEntry
  <2>1. CASE e.len = StatusLen
    BY <2>1 DEF StatusLen, MaxEntry, BUFSIZE
  <2>2. CASE e.len \in Lens
    BY <2>2, LensRange DEF MaxEntry
  <2> QED  BY <1>4, <2>1, <2>2
<1> QED  BY <1>2, <1>4, <1>5, <1>6, <1>7

\* Accepting a record preserves the invariant when the record is the next
\* entry, or an entry up to it is wrong.
LEMMA TakeInv ==
  ASSUME Inv, UNCHANGED wvars, rpc = "loop", len' = len,
         NEW n \in Nat, NEW rec \in Nat \cup {Garbled}, Take(n, rec),
         \/ Damaged(count + 1)
         \/ /\ count + 1 \in 1 .. Len(log) /\ rec = log[count + 1].id
            /\ cur + 2 + n = End(count + 1) /\ End(count + 1) <= End(count) + MaxEntry
            /\ End(count) \in Nat
  PROVE  Inv'
<1> USE InvFacts
<1>1. /\ InvW' /\ log' = log /\ disk' = disk
      /\ \A i : End(i)' = End(i)
      /\ \A m : Damaged(m)' <=> Damaged(m)
  BY ReaderLeaves
<1> DEFINE c == cur + 2 + n  E == End(count)  F == End(count + 1)
<1>0. \/ Damaged(count + 1)
      \/ /\ count + 1 \in 1 .. Len(log) /\ c = F /\ F <= E + MaxEntry /\ E \in Nat
  OBVIOUS
<1>2. c \in Nat /\ cur' = c /\ TailLen \in Nat /\ MaxEntry \in Nat
  BY DEF Take, TailLen, MaxEntry, BUFSIZE
<1>3. CASE c + TailLen > len
  <2>1. rpc' = "trim" /\ count' = count /\ ret' = ret
    BY <1>3 DEF Take
  <2>2. TypeOKR' /\ Cells'
    BY <1>2, <2>1 DEF TypeOKR, Cells
  <2>3. FaithfulRecords'
    BY <1>1, <2>1 DEF FaithfulRecords
  <2>4. \A i : i = count => End(count)' = End(i)
    BY <1>1, <2>1
  <2>5. WithinFile'
    BY <1>1, <2>1, <2>4 DEF WithinFile
  <2>6. Damaged(count + 1) \/ (count <= Len(log) /\ len < End(count) + MaxEntry + TailLen)
    <3>1. count \in Nat /\ Len(log) \in Nat /\ len \in Nat
      OBVIOUS
    <3> HIDE DEF c, E, F
    <3>2. Damaged(count + 1) \/ (count <= Len(log) /\ len < E + MaxEntry + TailLen)
      <4>1. CASE Damaged(count + 1)  BY <4>1
      <4>2. CASE count + 1 \in 1 .. Len(log) /\ c = F /\ F <= E + MaxEntry /\ E \in Nat
        <5>1. count <= Len(log)  BY <3>1, <4>2
        <5>2. len < E + MaxEntry + TailLen  BY <1>2, <1>3, <3>1, <4>2
        <5> QED  BY <5>1, <5>2
      <4> QED  BY <1>0, <4>1, <4>2
    <3> QED  BY <3>2 DEF E
  <2>7. Stopped'
    BY <1>1, <2>1, <2>4, <2>6 DEF Stopped
  <2> QED  BY <1>1, <2>1, <2>2, <2>3, <2>5, <2>7 DEF Inv, Sync
<1>4. CASE ~ (c + TailLen > len)
  <2>1. rpc' = "loop" /\ count' = count + 1 /\ ret' = Append(ret, rec)
    BY <1>4 DEF Take
  <2>2. Len(ret) = count /\ \A i \in DOMAIN ret : ret[i] # Empty
    BY DEF Cells
  <2>3. /\ Len(ret') = count + 1 /\ ret'[count + 1] = rec
        /\ \A i \in 1 .. count : ret'[i] = ret[i]
        /\ ret' \in Seq(Nat \cup {Garbled, Empty})
        /\ DOMAIN ret' = 1 .. count + 1 /\ DOMAIN ret = 1 .. count
    BY <2>1, <2>2
  <2>4. rec # Empty
    BY DEF Garbled, Empty
  <2>5. TypeOKR'
    BY <1>2, <2>1, <2>3 DEF TypeOKR
  <2>6. Cells'
    <3>1. ASSUME NEW i \in 1 .. count + 1 PROVE ret'[i] # Empty
      <4>1. CASE i = count + 1  BY <2>3, <2>4, <4>1
      <4>2. CASE i \in 1 .. count  BY <2>2, <2>3, <4>2
      <4> QED  BY <4>1, <4>2
    <3> QED  BY <2>1, <2>3, <3>1 DEF Cells
  <2>7. FaithfulRecords'
    <3>1. ASSUME NEW i \in 1 .. count + 1
          PROVE  ret'[i] = Empty \/ Damaged(i)' \/ (i <= Len(log') /\ ret'[i] = log'[i].id)
      <4>1. CASE i = count + 1
        BY <1>1, <2>3, <4>1
      <4>2. CASE i \in 1 .. count
        <5>1. ret[i] = Empty \/ Damaged(i) \/ (i <= Len(log) /\ ret[i] = log[i].id)
          BY <2>3, <4>2 DEF FaithfulRecords
        <5> QED  BY <1>1, <2>3, <4>2, <5>1
      <4> QED  BY <4>1, <4>2
    <3> QED  BY <2>3, <3>1 DEF FaithfulRecords
  <2>8. \A i : i = count + 1 => End(count)' = End(i)
    BY <1>1, <2>1
  <2>9. WithinFile' /\ Sync'
    <3>1. CASE Damaged(count + 1)
      BY <1>1, <2>1, <3>1 DEF WithinFile, Sync
    <3>2. CASE count + 1 \in 1 .. Len(log) /\ c = F
      <4>1. End(count)' = c /\ count' <= Len(log') /\ cur' = c
        BY <1>1, <1>2, <2>1, <2>8, <3>2
      <4>2. c + TailLen <= len'
        <5>1. len \in Nat  OBVIOUS
        <5> HIDE DEF c
        <5> QED  BY <1>2, <1>4, <5>1
      <4> HIDE DEF c
      <4> QED  BY <4>1, <4>2 DEF WithinFile, Sync
    <3> QED  BY <1>0, <3>1, <3>2
  <2> QED  BY <1>1, <2>1, <2>5, <2>6, <2>7, <2>9 DEF Inv, Stopped
<1> QED  BY <1>3, <1>4

\* Opening the file: len is what is on disk, nothing is counted.
LEMMA OpenFileInv == Inv /\ OpenFile /\ UNCHANGED wvars => Inv'
<1> SUFFICES ASSUME Inv, OpenFile, UNCHANGED wvars PROVE Inv'
  OBVIOUS
<1>1. /\ InvW' /\ log' = log /\ disk' = disk
  BY ReaderLeaves
<1>2. len' = disk /\ cur' = 0 /\ count' = 0 /\ ret' = <<>> /\ rpc' = "loop"
  BY DEF OpenFile
<1>3. disk \in Nat /\ Len(log) \in Nat
  BY InvFacts
<1>4. TypeOKR' /\ Cells'
  BY <1>2, <1>3 DEF TypeOKR, Cells
<1>5. FaithfulRecords' /\ WithinFile' /\ Stopped'
  BY <1>2 DEF FaithfulRecords, WithinFile, Stopped
<1>6. Sync'
  BY <1>1, <1>2, <1>3 DEF Sync, End
<1> QED  BY <1>1, <1>2, <1>3, <1>4, <1>5, <1>6 DEF Inv

\* A turn of the loop at the start of an entry.
LEMMA ReadEntryInv == Inv /\ ReadEntry /\ UNCHANGED wvars => Inv'
<1> SUFFICES ASSUME Inv, ReadEntry, UNCHANGED wvars PROVE Inv'
  OBVIOUS
<1>1. rpc = "loop" /\ More /\ len' = len
  BY DEF ReadEntry
<1>a. PICK i \in 1 .. Len(log) :
        Here(i) /\ \E n \in AdvanceOf(log[i]) : Take(n, RecordOf(log[i]))
  BY DEF ReadEntry
<1>2. PICK n \in AdvanceOf(log[i]) : Here(i) /\ Take(n, RecordOf(log[i]))
  BY <1>a
<1>3. /\ log[i] \in Entry /\ log[i].id \in Nat /\ log[i].len \in Nat
  <2>1. log[i] \in Entry
    BY InvFacts
  <2> QED  BY <2>1, LensRange DEF Entry
<1>4. n \in Nat
  <2>1. StatusLen \in Nat
    BY LensRange
  <2>2. \A j \in Jumps : StatusLen + j \in Nat
    BY <2>1, JumpsAssumption
  <2> QED  BY <1>2, <1>3, <2>2 DEF AdvanceOf
<1>5. RecordOf(log[i]) \in Nat \cup {Garbled}
  BY <1>3 DEF RecordOf
<1>6. CASE Damaged(count + 1)
  BY <1>1, <1>2, <1>4, <1>5, <1>6, TakeInv
<1>7. CASE ~ Damaged(count + 1)
  <2>1. ~ Damaged(count)
    BY <1>7, DamagedNext
  <2>2. /\ count + 1 \in 1 .. Len(log)
        /\ cur = End(count) /\ count \in 0 .. Len(log)
    BY <1>1, <2>1, AtEntry
  <2>3. i = count + 1
    BY <1>2, <2>2, NextEntry, InvFacts DEF Here
  <2> DEFINE e == log[count + 1]
  <2>4. /\ e.size = e.len /\ e.size \in Nat /\ e.size >= StatusLen
        /\ e.size + 2 <= MaxEntry /\ e.id \in Nat
        /\ End(count + 1) = e.at + 2 + e.size
    BY <1>7, <2>2, CleanEntry
  <2>5. n = e.size /\ RecordOf(log[i]) = e.id /\ e.at = cur
    <3>1. ~ (e.size < StatusLen) /\ ~ (e.size < e.len)
      <4>1. StatusLen \in Nat  BY LensRange
      <4> QED  BY <2>4, <4>1
    <3> QED  BY <1>2, <2>3, <2>4, <3>1 DEF AdvanceOf, RecordOf, Here
  <2>6. End(count) \in Nat /\ cur \in Nat
    BY <2>2, InvFacts
  <2>7. cur + 2 + n = End(count + 1)
    BY <2>4, <2>5
  <2>8. End(count + 1) <= End(count) + MaxEntry
    <3> DEFINE E == End(count)  s == e.size  M == MaxEntry
    <3>1. End(count + 1) = E + 2 + s /\ E \in Nat /\ s \in Nat /\ s + 2 <= M /\ M \in Nat
      BY <2>2, <2>4, <2>5, <2>6 DEF MaxEntry, BUFSIZE
    <3> HIDE DEF E, s, M
    <3>2. E + 2 + s <= E + M
      BY <3>1
    <3> QED  BY <3>1, <3>2 DEF E, M
  <2> QED  BY <1>1, <1>2, <1>4, <1>5, <2>2, <2>5, <2>6, <2>7, <2>8, TakeInv
<1> QED  BY <1>6, <1>7

\* A turn where no entry starts: only possible once an entry is damaged.
LEMMA ReadGarbageInv == Inv /\ ReadGarbage /\ UNCHANGED wvars => Inv'
<1> SUFFICES ASSUME Inv, ReadGarbage, UNCHANGED wvars PROVE Inv'
  OBVIOUS
<1>1. rpc = "loop" /\ More /\ len' = len /\ ~ InSync
  BY DEF ReadGarbage
<1>2. PICK j \in Jumps : Take(StatusLen + j, Garbled)
  BY DEF ReadGarbage
<1>3. StatusLen + j \in Nat
  BY JumpsAssumption, LensRange
<1>4. Damaged(count)
  BY <1>1, AtEntry DEF InSync
<1>5. Damaged(count + 1)
  BY <1>4, DamagedNext
<1> QED  BY <1>1, <1>2, <1>3, <1>5, TakeInv

\* Leaving the loop without a further record.
LEMMA LeaveInv ==
  ASSUME Inv, UNCHANGED wvars, rpc = "loop", rpc' = "trim", cur' \in Nat,
         UNCHANGED <<len, count, ret>>,
         Damaged(count + 1) \/ (count <= Len(log) /\ len < End(count) + MaxEntry + TailLen)
  PROVE  Inv'
<1>1. /\ InvW' /\ log' = log /\ disk' = disk
      /\ \A i : End(i)' = End(i)
      /\ \A m : Damaged(m)' <=> Damaged(m)
  BY ReaderLeaves
<1>2. \A i : i = count => End(count)' = End(i)
  BY <1>1
<1>3. TypeOKR' /\ Cells'
  BY InvFacts DEF TypeOKR, Cells
<1>4. FaithfulRecords' /\ WithinFile'
  BY <1>1, <1>2, InvFacts DEF FaithfulRecords, WithinFile
<1>5. Stopped'
  BY <1>1, <1>2 DEF Stopped
<1> QED  BY <1>1, <1>3, <1>4, <1>5, InvFacts DEF Inv, Sync

\* The break on an entry that passes the end of the file.
LEMMA BreakShortInv == Inv /\ BreakShort /\ UNCHANGED wvars => Inv'
<1> SUFFICES ASSUME Inv, BreakShort, UNCHANGED wvars PROVE Inv'
  OBVIOUS
<1>1. /\ rpc = "loop" /\ More /\ rpc' = "trim" /\ cur' = cur + 2
      /\ UNCHANGED <<len, count, ret>>
  BY DEF BreakShort
<1>2. cur' \in Nat
  BY <1>1, InvFacts
<1>3. ASSUME ~ Damaged(count + 1)
      PROVE  count <= Len(log) /\ len < End(count) + MaxEntry + TailLen
  <2>1. ~ Damaged(count)
    BY <1>3, DamagedNext
  <2>2. /\ count + 1 \in 1 .. Len(log) /\ Here(count + 1)
        /\ cur = End(count) /\ count \in 0 .. Len(log)
    BY <1>1, <2>1, AtEntry
  <2>3. PICK i \in 1 .. Len(log) : Here(i) /\ TooShort(cur, ieee_le(log[i].hdr))
    BY <2>2 DEF BreakShort, InSync
  <2>4. i = count + 1
    BY <2>2, <2>3, NextEntry, InvFacts DEF Here
  <2> DEFINE s == log[count + 1].size
  <2>5. s \in Nat /\ s + 2 <= MaxEntry /\ ieee_le(log[i].hdr) = s
    BY <1>3, <2>2, <2>4, CleanEntry
  <2>6. cur + 2 + s > len
    BY <2>3, <2>5 DEF TooShort
  <2>7. cur \in Nat /\ len \in Nat /\ MaxEntry \in Nat /\ TailLen \in Nat
    BY InvFacts DEF MaxEntry, BUFSIZE, TailLen
  <2> HIDE DEF s
  <2>8. len < cur + MaxEntry + TailLen
    BY <2>5, <2>6, <2>7
  <2> QED  BY <2>2, <2>8, InvFacts
<1> QED  BY <1>1, <1>2, <1>3, LeaveInv

\* The loop condition fails: fewer than five bytes are left.
LEMMA LoopEndInv == Inv /\ LoopEnd /\ UNCHANGED wvars => Inv'
<1> SUFFICES ASSUME Inv, LoopEnd, UNCHANGED wvars PROVE Inv'
  OBVIOUS
<1>1. /\ rpc = "loop" /\ ~ More /\ rpc' = "trim" /\ UNCHANGED <<len, cur, count, ret>>
  BY DEF LoopEnd
<1>2. cur' \in Nat
  BY <1>1, InvFacts
<1>3. ASSUME ~ Damaged(count + 1)
      PROVE  count <= Len(log) /\ len < End(count) + MaxEntry + TailLen
  <2>1. ~ Damaged(count)
    BY <1>3, DamagedNext
  <2>2. count <= Len(log) /\ cur = End(count)
    BY <1>1, <2>1, InvFacts DEF Sync
  <2>3. ~ (cur < len - 4) /\ cur \in Nat /\ len \in Nat
    BY <1>1, InvFacts DEF More
  <2>4. len < cur + 4096 + 420
    BY <2>3
  <2> QED  BY <2>2, <2>4 DEF MaxEntry, BUFSIZE, TailLen
<1> QED  BY <1>1, <1>2, <1>3, LeaveInv

\* The final trim keeps the records' positions.
LEMMA TrimInv == Inv /\ Trim /\ UNCHANGED wvars => Inv'
<1> SUFFICES ASSUME Inv, Trim, UNCHANGED wvars PROVE Inv'
  OBVIOUS
<1>1. /\ InvW' /\ log' = log /\ disk' = disk
      /\ \A i : End(i)' = End(i)
      /\ \A m : Damaged(m)' <=> Damaged(m)
  BY ReaderLeaves
<1>2. rpc = "trim" /\ rpc' \in {"done", "error"} /\ UNCHANGED <<len, cur, count>>
  BY DEF Trim
<1>3. \A i : i = count => End(count)' = End(i)
  BY <1>1, <1>2
<1>4. WithinFile' /\ Stopped' /\ Sync' /\ len' <= disk'
  BY <1>1, <1>2, <1>3, InvFacts DEF WithinFile, Stopped, Sync
<1>5. /\ Len(ret) = count /\ count \in Nat /\ ret \in Seq(Nat \cup {Garbled, Empty})
      /\ \A i \in DOMAIN ret : ret[i] # Empty
  BY <1>2, InvFacts DEF Cells
<1>6. /\ ret' \in Seq(Nat \cup {Garbled, Empty})
      /\ \A i \in DOMAIN ret' : ret'[i] = Empty \/ (i \in DOMAIN ret /\ ret'[i] = ret[i])
      /\ rpc' = "done" /\ count > 1 => Len(ret') = count - 1
      /\ count > 0 \/ rpc' = "error" => \A i \in DOMAIN ret' : ret'[i] # Empty
      /\ rpc' = "error" => len = 0
  <2>1. CASE len = 0
    BY <1>5, <2>1 DEF Trim
  <2>2. CASE len # 0 /\ count > 1
    <3>1. rpc' = "done" /\ ret' = SubSeq(ret, 1, count - 1)
      BY <2>2 DEF Trim
    <3>2. /\ ret' \in Seq(Nat \cup {Garbled, Empty}) /\ Len(ret') = count - 1
          /\ DOMAIN ret' = 1 .. count - 1 /\ DOMAIN ret = 1 .. count
          /\ \A i \in 1 .. count - 1 : ret'[i] = ret[i]
      BY <1>5, <2>2, <3>1
    <3>3. \A i \in 1 .. count - 1 : i \in 1 .. count
      BY <1>5
    <3> QED  BY <1>5, <3>1, <3>2, <3>3
  <2>3. CASE len # 0 /\ count = 1
    <3>1. rpc' = "done" /\ ret' = ret
      BY <2>3 DEF Trim
    <3> QED  BY <1>5, <2>3, <3>1
  <2>4. CASE len # 0 /\ count = 0
    <3>1. rpc' = "done" /\ ret' = <<Empty>>
      BY <2>4 DEF Trim
    <3>2. ret' \in Seq(Nat \cup {Garbled, Empty}) /\ DOMAIN ret' = {1} /\ ret'[1] = Empty
      BY <3>1
    <3> QED  BY <2>4, <3>1, <3>2
  <2> QED  BY <1>5, <2>1, <2>2, <2>3, <2>4
<1>7. TypeOKR'
  BY <1>2, <1>6, InvFacts DEF TypeOKR
<1>8. Cells'
  BY <1>2, <1>6 DEF Cells
<1>9. FaithfulRecords'
  <2>1. \A i \in DOMAIN ret : ret[i] = Empty \/ Damaged(i) \/ (i <= Len(log) /\ ret[i] = log[i].id)
    BY InvFacts DEF FaithfulRecords
  <2> QED  BY <1>1, <1>6, <2>1 DEF FaithfulRecords
<1> QED  BY <1>1, <1>4, <1>7, <1>8, <1>9 DEF Inv
-----------------------------------------------------------------------------
\* The initial state satisfies the invariant.
LEMMA InitInv == Init => Inv
<1> SUFFICES ASSUME Init PROVE Inv
  OBVIOUS
<1>1. InvW
  BY InitInvW DEF Init
<1>2. rpc = "closed" /\ len = 0 /\ cur = 0 /\ count = 0 /\ ret = <<>> /\ disk = 0
  BY DEF Init, InitR, InitW
<1> QED  BY <1>1, <1>2 DEF Inv, TypeOKR, FaithfulRecords, WithinFile, Sync, Stopped, Cells

\* The invariant of receiver and reader is inductive.
LEMMA NextInv == Inv /\ [Next]_vars => Inv'
<1> SUFFICES ASSUME Inv, [Next]_vars PROVE Inv'
  OBVIOUS
<1>1. CASE NextW /\ UNCHANGED rvars
  BY <1>1, WriterInv
<1>2. CASE ReaderStep /\ UNCHANGED wvars
  BY <1>2, OpenFileInv, ReadEntryInv, ReadGarbageInv, BreakShortInv, LoopEndInv, TrimInv
     DEF ReaderStep
<1>3. CASE UNCHANGED vars
  <2>1. UNCHANGED wvars /\ UNCHANGED <<rpc, len, cur, count, ret>>
    BY <1>3 DEF vars, rvars
  <2>2. /\ InvW' /\ log' = log /\ disk' = disk
        /\ \A i : End(i)' = End(i)
        /\ \A m : Damaged(m)' <=> Damaged(m)
    BY <2>1, ReaderLeaves
  <2>3. \A i : i = count => End(count)' = End(i)
    BY <2>1, <2>2
  <2> QED  BY <2>1, <2>2, <2>3, InvFacts
              DEF Inv, TypeOKR, FaithfulRecords, WithinFile, Sync, Stopped, Cells
<1> QED  BY <1>1, <1>2, <1>3 DEF Next

\* The inductive invariant of receiver and reader holds in every reachable
\* state.
THEOREM InvHolds == Spec => []Inv
<1>1. Init => Inv
  BY InitInv
<1>2. Inv /\ [Next]_vars => Inv'
  BY NextInv
<1> QED  BY <1>1, <1>2, PTL DEF Spec
-----------------------------------------------------------------------------
\* Type correctness of receiver and reader together.
THEOREM TypeCorrect == Spec => []TypeOK
<1>1. Inv => TypeOK
  BY DEF Inv, InvW, TypeOK
<1> QED  BY <1>1, InvHolds, PTL

\* Every record read_log_file.m builds is the log entry of the same number,
\* unless an entry up to it was written after a failed read(): for any length
\* of the file, any kill, and a receiver that keeps appending.
THEOREM FaithfulCorrect == Spec => []FaithfulRecords
<1>1. Inv => FaithfulRecords
  BY DEF Inv
<1> QED  BY <1>1, InvHolds, PTL

\* read_log_file.m counts no record that was not complete in the file.
THEOREM WithinFileCorrect == Spec => []WithinFile
<1>1. Inv => WithinFile
  BY DEF Inv
<1> QED  BY <1>1, InvHolds, PTL

\* End to end: without failed reads, a report with a stdio block, an entry and
\* 420 bytes logged after it comes out of read_log_file.m at its own place,
\* although the receiver was killed.
THEOREM EarlyCorrect == Spec => []EarlyReturned
<1>1. Inv => EarlyReturned
  <2> SUFFICES ASSUME Inv, rpc \in {"done", "error"}, errors = 0, pc = "dead", len = disk,
                      NEW i \in 1 .. Len(log),
                      total - End(i) >= Block + MaxEntry + TailLen
               PROVE  rpc = "done" /\ i \in DOMAIN ret /\ ret[i] = i
    BY DEF EarlyReturned
  <2>1. /\ TypeOKW /\ Layout /\ Ordered /\ LossBound /\ LogExact
        /\ Stopped /\ Cells /\ FaithfulRecords
    BY DEF Inv, InvW
  <2>2. /\ count \in Nat /\ len \in Nat /\ total \in Nat /\ Len(log) \in Nat
        /\ MaxEntry = 4096 /\ TailLen = 420 /\ Block \in Nat
        /\ ret \in Seq(Nat \cup {Garbled, Empty})
    BY InvFacts, BlockAssumption DEF MaxEntry, BUFSIZE, TailLen
  <2>3. End(i) \in Nat
    BY <2>1, EndNat, i \in 0 .. Len(log)
  <2>4. len >= End(i) + 4096 + 420
    <3> DEFINE E == End(i)
    <3>1. total - len <= Block
      BY <2>1 DEF LossBound
    <3>2. total - E >= Block + 4096 + 420 /\ E \in Nat
      BY <2>2, <2>3
    <3> HIDE DEF E
    <3>3. len >= E + 4096 + 420
      BY <2>2, <3>1, <3>2
    <3> QED  BY <3>3 DEF E
  <2>5. log_flag
    <3>1. log # <<>>
      BY <2>2
    <3> QED  BY <3>1 DEF Inv, InvW
  <2>6. \A j \in 1 .. Len(log) :
          log[j].id = j /\ log[j].size = log[j].len
    BY <2>1, <2>5 DEF LogExact
  <2>7. \A m : ~ Damaged(m)
    BY <2>6 DEF Damaged
  <2>8. count <= Len(log) /\ len < End(count) + 4096 + 420
    BY <2>1, <2>2, <2>7 DEF Stopped
  <2>9. End(count) \in Nat
    BY <2>1, <2>2, <2>8, EndNat, count \in 0 .. Len(log)
  <2>10. i < count
    <3>1. CASE i = count
      BY <2>3, <2>4, <2>8, <2>2, <3>1
    <3>2. CASE i > count
      <4>1. End(count) <= End(i)
        <5>1. CASE count = 0
          BY <2>3, <5>1 DEF End
        <5>2. CASE count # 0
          <6>1. count \in 1 .. Len(log) /\ count < i
            BY <2>2, <2>8, <3>2, <5>2
          <6>2. End(count) <= log[i].at
            BY <2>1, <6>1 DEF Ordered
          <6> DEFINE a == log[i].at  s == log[i].size
          <6>3. log[i] \in Entry
            BY <2>1 DEF TypeOKW
          <6>4. a \in Nat /\ s \in Nat
            BY <6>3 DEF Entry, u_int16_t
          <6>5. End(i) = a + 2 + s
            BY DEF End
          <6> HIDE DEF a, s
          <6>6. a <= End(i)
            BY <6>4, <6>5
          <6> QED  BY <2>3, <2>9, <6>2, <6>4, <6>6 DEF a
        <5> QED  BY <5>1, <5>2
      <4> QED  BY <2>2, <2>3, <2>4, <2>8, <2>9, <4>1
    <3> QED  BY <2>2, <3>1, <3>2
  <2>11. rpc = "done"
    BY <2>1, <2>2, <2>3, <2>4 DEF Cells
  <2>12. i \in DOMAIN ret /\ ret[i] # Empty
    <3>1. count > 1 /\ count > 0
      BY <2>2, <2>10
    <3>2. Len(ret) = count - 1
      BY <2>1, <2>11, <3>1 DEF Cells
    <3>3. i \in DOMAIN ret
      BY <2>2, <2>10, <3>2
    <3> QED  BY <2>1, <3>1, <3>3 DEF Cells
  <2> QED  BY <2>1, <2>6, <2>7, <2>11, <2>12 DEF FaithfulRecords
<1> QED  BY <1>1, InvHolds, PTL
=============================================================================
