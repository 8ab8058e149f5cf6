---------------------------- MODULE InsertQuery ----------------------------
(***************************************************************************)
(* save_csi_matrix: the INSERT INTO csi_data that the database receiver    *)
(* puts together from the decoded matrix, row by row, in a buffer whose    *)
(* size it computes beforehand.  Composed with the decoder of CsiUnpack:   *)
(* record_csi_payload decodes a report, save_csi_matrix turns the matrix   *)
(* into the statement, and the next report is decoded over it.             *)
(*                                                                         *)
(* The text is kept as what the server makes of it (the rows) and as its   *)
(* length.  Each sprintf prints the buffer onto itself; as the Makefile    *)
(* builds it, without optimisation, that appends in place.                 *)
(***************************************************************************)
EXTENDS CsiUnpack, FiniteSets, Sequences

CONSTANTS
  TsDigits,  \* numbers of digits of tstamp
  Ids        \* values of csi_status_id

ASSUME CsiNcAssumption == MaxNc <= 3   \* CSI_NC
ASSUME TsAssumption == TsDigits \subseteq 1 .. 20
ASSUME IdAssumption == Ids \subseteq {n \in Nat : 0 < n /\ n <= 2147483647}

VARIABLES
  qpc,                   \* "read", "decode", "row" or "exec"
  subcarrier, antenna,   \* loop indices
  ts, csi_status_id,     \* digits of tstamp, id of the status row
  max_len,               \* bytes allocated for the statement
  strlen,                \* length of the statement so far
  insert_query           \* its rows

built == <<qpc, subcarrier, antenna, ts, csi_status_id, max_len, strlen, insert_query>>
qvars == <<vars, built>>
-----------------------------------------------------------------------------
\* Characters that "%d" prints for n.
Digits(n) == 1 + Cardinality({d \in 1 .. 9 : n >= 10^d})
Printed(n) == IF n < 0 THEN 1 + Digits(- n) ELSE Digits(n)

\* Mutant of MaxLen: the transmit antennas are counted for the receive ones.
MaxLenNc == 27 + (num_tones * nc) * 122

MaxLen == 27 + (num_tones * nr) * 122

\* ",'%d','%d','%d'" of one transmit antenna, with 0 for the last number.
CellLen(z) == (3 + Printed(z.real)) + (3 + Printed(z.imag)) + 4
CellsLen == (IF nc > 0 THEN CellLen(csi_matrix[antenna][0][subcarrier]) ELSE 0)
          + (IF nc > 1 THEN CellLen(csi_matrix[antenna][1][subcarrier]) ELSE 0)
          + (IF nc > 2 THEN CellLen(csi_matrix[antenna][2][subcarrier]) ELSE 0)

\* " (DEFAULT,'%llu','%d','%d','%d'", the cells, and "),": 10 + 2 + 3 * 3 + 2.
RowLen == 23 + ts + Digits(csi_status_id) + Digits(antenna + 1) + Digits(subcarrier + 1) + CellsLen

\* Mutant of Row: the tone index of the matrix is dropped.
RowShifted ==
  [antenna |-> antenna + 1, subcarrier |-> subcarrier + 1,
   cells |-> [c \in 0 .. nc - 1 |-> csi_matrix[antenna][c][0]],
   ends |-> IF subcarrier + 1 = num_tones /\ antenna + 1 = nr THEN ";" ELSE ","]

Row ==
  [antenna |-> antenna + 1, subcarrier |-> subcarrier + 1,
   cells |-> [c \in 0 .. nc - 1 |-> csi_matrix[antenna][c][subcarrier]],
   ends |-> IF subcarrier + 1 = num_tones /\ antenna + 1 = nr THEN ";" ELSE ","]
-----------------------------------------------------------------------------
InitQ ==
  /\ Init /\ qpc = "read"
  /\ subcarrier = 0 /\ antenna = 0 /\ ts = 1 /\ csi_status_id = 1
  /\ max_len = 0 /\ strlen = 0 /\ insert_query = <<>>

\* record_csi_payload calls fill_csi_matrix.
Decode ==
  /\ qpc = "read" /\ Call
  /\ qpc' = "decode"
  /\ UNCHANGED <<subcarrier, antenna, ts, csi_status_id, max_len, strlen, insert_query>>

Unpack == qpc = "decode" /\ (TakeImag \/ TakeReal) /\ UNCHANGED built

\* The buffer is allocated and begins with "INSERT INTO csi_data VALUES".
Begin ==
  /\ qpc = "decode" /\ pc = "idle"
  /\ ts' \in TsDigits /\ csi_status_id' \in Ids
  /\ max_len' = MaxLen /\ strlen' = 27 /\ insert_query' = <<>>
  /\ subcarrier' = 0 /\ antenna' = 0
  /\ qpc' = IF 0 \in {num_tones, nr} THEN "exec" ELSE "row"
  /\ UNCHANGED vars

\* One turn of the inner loop.
AddRow ==
  /\ qpc = "row"
  /\ strlen' = strlen + RowLen
  /\ insert_query' = Append(insert_query, Row)
  /\ antenna' = IF antenna + 1 = nr THEN 0 ELSE antenna + 1
  /\ subcarrier' = IF antenna + 1 = nr THEN subcarrier + 1 ELSE subcarrier
  /\ qpc' = IF subcarrier' = num_tones THEN "exec" ELSE "row"
  /\ UNCHANGED <<vars, ts, csi_status_id, max_len>>

\* PQexec, whose outcome is CsiStore's, and back to the main loop.
Exec ==
  /\ qpc = "exec" /\ qpc' = "read"
  /\ UNCHANGED <<vars, subcarrier, antenna, ts, csi_status_id, max_len, strlen, insert_query>>

NextQ == Decode \/ Unpack \/ Begin \/ AddRow \/ Exec

SpecQ == InitQ /\ [][NextQ]_qvars
-----------------------------------------------------------------------------
(***************************************************************************)
(* Properties.                                                             *)
(***************************************************************************)
\* The statement that is executed has exactly one row for every tone and
\* receive antenna of this report, in loop order, each with the numbers the
\* hardware packed for that antenna and tone; the last row alone ends the
\* statement.
Statement ==
  qpc = "exec" =>
    /\ Len(insert_query) = num_tones * nr
    /\ \A t \in 0 .. num_tones - 1, a \in 0 .. nr - 1 :
         insert_query[t * nr + a + 1] =
           [antenna |-> a + 1, subcarrier |-> t + 1,
            cells |-> [c \in 0 .. nc - 1 |-> Element(a, c, t)],
            ends |-> IF t + 1 = num_tones /\ a + 1 = nr THEN ";" ELSE ","]

\* A statement with rows, and its terminating zero, stays within the buffer
\* after every sprintf, whatever the numbers, the time stamp and the id are.
\* (Without rows the 27 characters and their zero need 28 bytes of the 27.)
Fits == qpc \in {"row", "exec"} /\ 0 \notin {num_tones, nr} => strlen + 1 <= max_len
=============================================================================
