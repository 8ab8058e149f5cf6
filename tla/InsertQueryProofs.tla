------------------------- MODULE InsertQueryProofs -------------------------
(***************************************************************************)
(* TLAPS proofs about InsertQuery: for all dimensions, contents, time      *)
(* stamps and ids, the statement holds the report's matrix and the buffer  *)
(* of save_csi_matrix holds the statement.                                 *)
(***************************************************************************)
EXTENDS InsertQuery, CsiUnpackProofs, FiniteSetTheorems

(***************************************************************************)
(* Lengths of printed numbers.                                             *)
(***************************************************************************)

\* A number of four digits is at least 1000.
LEMMA PowerOfTen ==
  ASSUME NEW d \in 3 .. 9 PROVE 10^d >= 1000
<1>1. CASE d = 3  BY <1>1
<1>2. CASE d = 4  BY <1>2
<1>3. CASE d = 5  BY <1>3
<1>4. CASE d = 6  BY <1>4
<1>5. CASE d = 7  BY <1>5
<1>6. CASE d = 8  BY <1>6
<1>7. CASE d = 9  BY <1>7
<1> QED  BY <1>1, <1>2, <1>3, <1>4, <1>5, <1>6, <1>7

\* "%d" prints at most ten digits, at most three below 1000.
LEMMA DigitsBound ==
  ASSUME NEW n \in Int
  PROVE  Digits(n) \in 1 .. 10 /\ (n < 1000 => Digits(n) <= 3)
<1> DEFINE D == {d \in 1 .. 9 : n >= 10^d}
<1>0. \A m \in Nat \ {0} : IsFiniteSet(1 .. m) /\ Cardinality(1 .. m) = m
  BY FS_Interval
<1>1. IsFiniteSet(1 .. 9) /\ Cardinality(1 .. 9) = 9
  BY <1>0, 9 \in Nat \ {0}
<1>2. IsFiniteSet(D) /\ Cardinality(D) <= 9
  BY <1>1, FS_Subset
<1>3. Cardinality(D) \in Nat
  BY <1>2, FS_CardinalityType
<1>4. ASSUME n < 1000 PROVE Cardinality(D) <= 2
  <2>2. D \subseteq 1 .. 2
    <3> SUFFICES ASSUME NEW d \in 1 .. 9, n >= 10^d PROVE d \in 1 .. 2
      OBVIOUS
    <3>1. d \in 3 .. 9 => 10^d >= 1000
      BY PowerOfTen
    <3>2. 10^d \in Int
      OBVIOUS
    <3> QED  BY <1>4, <3>1, <3>2
  <2>3. IsFiniteSet(1 .. 2) /\ Cardinality(1 .. 2) = 2
    BY <1>0, 2 \in Nat \ {0}
  <2> QED  BY <2>2, <2>3, FS_Subset
<1>5. Digits(n) = 1 + Cardinality(D)
  BY DEF Digits
<1> HIDE DEF D
<1> QED  BY <1>2, <1>3, <1>4, <1>5

\* A decoded number takes at most four characters.
LEMMA PrintedBound ==
  ASSUME NEW n \in -512 .. 511
  PROVE  Printed(n) \in 1 .. 4
<1>1. CASE n < 0
  <2>1. - n \in Int /\ - n < 1000  OBVIOUS
  <2>2. Digits(- n) \in 1 .. 10 /\ Digits(- n) <= 3
    BY <2>1, DigitsBound
  <2> QED  BY <1>1, <2>2 DEF Printed
<1>2. CASE ~ (n < 0)
  <2>1. Digits(n) \in 1 .. 10 /\ Digits(n) <= 3
    BY DigitsBound
  <2> QED  BY <1>2, <2>1 DEF Printed
<1> QED  BY <1>1, <1>2
-----------------------------------------------------------------------------
(***************************************************************************)
(* The decoded numbers.                                                    *)
(***************************************************************************)

\* A field of the report is a 10-bit number.
LEMMA FieldRange ==
  ASSUME TypeOK, NEW j \in Nat, NEW P \in Nat, P = (num_tones * nc) * nr,
         j + 1 <= 2 * P
  PROVE  Signed10(Field(csi_addr, j)) \in -512 .. 511
<1> DEFINE q == (10 * j) \div 8  s == (10 * j) % 8
<1>1. (20 * P + 7) \div 8 + 2 <= BufLen /\ BufLen \in Nat
  BY BufHolds, DimAssumption DEF CsiLen
<1>2. q \in 0 .. BufLen - 1 /\ q + 1 \in 0 .. BufLen - 1 /\ s \in {0, 2, 4, 6}
  BY <1>1
<1>3. csi_addr[q] \in Nat /\ csi_addr[q + 1] \in Nat
  <2>1. csi_addr \in [0 .. BufLen - 1 -> 0 .. 255]
    BY DEF TypeOK, Byte
  <2>2. q \in 0 .. BufLen - 1 /\ q + 1 \in 0 .. BufLen - 1
    BY <1>2
  <2> HIDE DEF q, s
  <2>3. csi_addr[q] \in 0 .. 255 /\ csi_addr[q + 1] \in 0 .. 255
    BY <2>1, <2>2
  <2> QED  BY <2>3
<1> DEFINE x == csi_addr[q] + 256 * csi_addr[q + 1]
<1>4. x \in Nat
  BY <1>3
<1>5. 2^s \in {1, 4, 16, 64}
  <2>1. 2^0 = 1 /\ 2^2 = 4 /\ 2^4 = 16 /\ 2^6 = 64  OBVIOUS
  <2> HIDE DEF s
  <2> QED  BY <1>2, <2>1
<1>6. Field(csi_addr, j) = (x \div 2^s) % 1024
  BY DEF Field, Bits10
<1> HIDE DEF x, s, q
<1>7. (x \div 2^s) % 1024 \in 0 .. 1023
  <2>1. x \div 2^s \in Int
    <3>1. \A d \in {1, 4, 16, 64} : x \div d \in Int  BY <1>4
    <3> QED  BY <1>5, <3>1
  <2> QED  BY <2>1
<1> QED  BY <1>6, <1>7 DEF Signed10

\* The numbers of an element are between -512 and 511.
LEMMA ElementRange ==
  ASSUME TypeOK, NEW a \in 0 .. nr - 1, NEW c \in 0 .. nc - 1,
         NEW t \in 0 .. num_tones - 1
  PROVE  /\ Element(a, c, t).real \in -512 .. 511 /\ Element(a, c, t).imag \in -512 .. 511
         /\ Element(a, c, t) \in COMPLEX
<1>1. nr \in Nat /\ nc \in Nat /\ num_tones \in Nat
  BY DimAssumption DEF TypeOK
<1> DEFINE E == (t * nc + c) * nr  P == (num_tones * nc) * nr
<1>2. E \in Nat /\ P \in Nat /\ E + a + 1 <= P
  BY <1>1, CellBound
<1>3. FieldNo(a, c, t) = 2 * (E + a)
  BY DEF FieldNo
<1> HIDE DEF E
<1>4. /\ FieldNo(a, c, t) \in Nat /\ FieldNo(a, c, t) + 1 \in Nat
      /\ FieldNo(a, c, t) + 2 <= 2 * P
  <2> HIDE DEF P
  <2> QED  BY <1>2, <1>3
<1> HIDE DEF FieldNo
<1>5. FieldNo(a, c, t) + 1 <= 2 * P /\ (FieldNo(a, c, t) + 1) + 1 <= 2 * P
  <2> HIDE DEF P
  <2> QED  BY <1>2, <1>4
<1>6. /\ Signed10(Field(csi_addr, FieldNo(a, c, t))) \in -512 .. 511
      /\ Signed10(Field(csi_addr, FieldNo(a, c, t) + 1)) \in -512 .. 511
  BY <1>2, <1>4, <1>5, FieldRange
<1> QED  BY <1>6 DEF Element, COMPLEX
-----------------------------------------------------------------------------
(***************************************************************************)
(* The invariant.                                                          *)
(***************************************************************************)

\* The row of antenna a and tone t, as the hardware packed it.
RowAt(a, t) ==
  [antenna |-> a + 1, subcarrier |-> t + 1,
   cells |-> [c \in 0 .. nc - 1 |-> Element(a, c, t)],
   ends |-> IF t + 1 = num_tones /\ a + 1 = nr THEN ";" ELSE ","]

Rows ==
  [antenna : Nat, subcarrier : Nat, ends : {";", ","},
   cells : UNION {[0 .. n - 1 -> COMPLEX] : n \in 0 .. MaxNc}]

\* Types of what save_csi_matrix keeps.
TypeQ ==
  /\ qpc \in {"read", "decode", "row", "exec"}
  /\ subcarrier \in Nat /\ antenna \in Nat /\ max_len \in Nat /\ strlen \in Nat
  /\ ts \in 1 .. 20 /\ csi_status_id \in Nat
  /\ insert_query \in Seq(Rows)

\* Where the loops are, and how many rows that makes.
Place ==
  /\ qpc # "decode" => pc = "idle"
  /\ qpc = "row" =>
       /\ subcarrier < num_tones /\ antenna < nr
       /\ Len(insert_query) = subcarrier * nr + antenna
  /\ qpc = "exec" => Len(insert_query) = num_tones * nr

\* The rows so far are right, and so is the room they take.
Placed ==
  qpc \in {"row", "exec"} =>
    /\ \A t \in 0 .. num_tones - 1, a \in 0 .. nr - 1 :
         t * nr + a < Len(insert_query) => insert_query[t * nr + a + 1] = RowAt(a, t)
    /\ max_len = 27 + (num_tones * nr) * 122
    /\ strlen <= 27 + 113 * Len(insert_query)

InvQ == IInv /\ TypeQ /\ Place /\ Placed
-----------------------------------------------------------------------------
(***************************************************************************)
(* One row.                                                                *)
(***************************************************************************)

\* Two places of the loops are one only if antenna and tone are.
LEMMA SamePlace ==
  ASSUME NEW n \in Nat, NEW t \in Nat, NEW u \in Nat, NEW a \in 0 .. n - 1, NEW b \in 0 .. n - 1
  PROVE  /\ t * n \in Nat /\ u * n \in Nat
         /\ (t < u => t * n + a < u * n)
         /\ (t * n + a = u * n + b => t = u /\ a = b)
<1>1. t * n \in Nat /\ u * n \in Nat
  BY TimesMono
<1>2. (t + 1) * n = t * n + n /\ (u + 1) * n = u * n + n
  OBVIOUS
<1>3. t < u => t * n + n <= u * n
  BY <1>2, TimesMono, t + 1 \in Nat
<1>4. u < t => u * n + n <= t * n
  BY <1>2, TimesMono, u + 1 \in Nat
<1> DEFINE x == t * n  y == u * n
<1>5. /\ x \in Nat /\ y \in Nat /\ (t < u => x + n <= y) /\ (u < t => y + n <= x)
      /\ (t = u => x = y)
  BY <1>1, <1>3, <1>4
<1> HIDE DEF x, y
<1>6. (t < u => x + a < y) /\ (x + a = y + b => t = u /\ a = b)
  BY <1>5
<1> QED  BY <1>1, <1>6 DEF x, y

\* When fill_csi_matrix has returned, the matrix is the one of the report.
LEMMA MatrixIsReport ==
  ASSUME IInv, pc = "idle", NEW a \in 0 .. nr - 1, NEW c \in 0 .. nc - 1,
         NEW t \in 0 .. num_tones - 1
  PROVE  csi_matrix[a][c][t] = Element(a, c, t)
BY AllPassed DEF IInv, DecodedSoFar

\* The row that save_csi_matrix adds is the one of its antenna and tone.
LEMMA RowIsReport ==
  ASSUME IInv, pc = "idle", antenna \in 0 .. nr - 1, subcarrier \in 0 .. num_tones - 1
  PROVE  Row = RowAt(antenna, subcarrier) /\ Row \in Rows
<1>1. nc \in Nat /\ nc \in 0 .. MaxNc /\ nr \in Nat /\ num_tones \in Nat /\ TypeOK
  BY DimAssumption DEF IInv, TypeOK
<1>2. \A c \in 0 .. nc - 1 : csi_matrix[antenna][c][subcarrier] = Element(antenna, c, subcarrier)
  BY MatrixIsReport
<1>3. [c \in 0 .. nc - 1 |-> csi_matrix[antenna][c][subcarrier]]
        = [c \in 0 .. nc - 1 |-> Element(antenna, c, subcarrier)]
  BY <1>2
<1>4. Row = RowAt(antenna, subcarrier)
  BY <1>3 DEF Row, RowAt
<1>5. \A c \in 0 .. nc - 1 : Element(antenna, c, subcarrier) \in COMPLEX
  BY <1>1, ElementRange
<1>6. [c \in 0 .. nc - 1 |-> Element(antenna, c, subcarrier)] \in [0 .. nc - 1 -> COMPLEX]
  BY <1>5
<1>7. [c \in 0 .. nc - 1 |-> Element(antenna, c, subcarrier)]
        \in UNION {[0 .. n - 1 -> COMPLEX] : n \in 0 .. MaxNc}
  BY <1>1, <1>6
<1>8. antenna + 1 \in Nat /\ subcarrier + 1 \in Nat
  BY <1>1
<1> QED  BY <1>4, <1>7, <1>8 DEF RowAt, Rows

\* One transmit antenna takes at most 18 characters.
LEMMA CellBoundLen ==
  ASSUME IInv, pc = "idle", antenna \in 0 .. nr - 1, subcarrier \in 0 .. num_tones - 1,
         NEW c \in 0 .. nc - 1
  PROVE  CellLen(csi_matrix[antenna][c][subcarrier]) \in 0 .. 18
<1> DEFINE z == csi_matrix[antenna][c][subcarrier]
<1>1. z = Element(antenna, c, subcarrier)
  BY MatrixIsReport
<1>2. z.real \in -512 .. 511 /\ z.imag \in -512 .. 511
  <2>1. TypeOK
    BY DEF IInv
  <2>2. /\ Element(antenna, c, subcarrier).real \in -512 .. 511
        /\ Element(antenna, c, subcarrier).imag \in -512 .. 511
    BY <2>1, ElementRange
  <2> QED  BY <1>1, <2>2
<1>3. Printed(z.real) \in 1 .. 4 /\ Printed(z.imag) \in 1 .. 4
  BY <1>2, PrintedBound
<1> HIDE DEF z
<1>4. CellLen(z) \in 0 .. 18
  BY <1>3 DEF CellLen
<1> QED  BY <1>4 DEF z

\* A row takes at most 113 characters.
LEMMA RowBound ==
  ASSUME IInv, TypeQ, pc = "idle", antenna \in 0 .. nr - 1, subcarrier \in 0 .. num_tones - 1
  PROVE  RowLen \in 0 .. 113
<1>1. /\ nc \in Nat /\ nr \in Nat /\ num_tones \in Nat /\ nc <= 3
      /\ antenna + 1 \in 1 .. 255 /\ subcarrier + 1 \in 1 .. 255
  BY DimAssumption, CsiNcAssumption DEF IInv, TypeOK
<1>2. CellsLen \in 0 .. 54
  <2> DEFINE f == IF nc > 0 THEN CellLen(csi_matrix[antenna][0][subcarrier]) ELSE 0
             g == IF nc > 1 THEN CellLen(csi_matrix[antenna][1][subcarrier]) ELSE 0
             h == IF nc > 2 THEN CellLen(csi_matrix[antenna][2][subcarrier]) ELSE 0
  <2>1. f \in 0 .. 18
    <3>1. CASE nc > 0  BY <1>1, <3>1, CellBoundLen, 0 \in 0 .. nc - 1
    <3> QED  BY <3>1
  <2>2. g \in 0 .. 18
    <3>1. CASE nc > 1  BY <1>1, <3>1, CellBoundLen, 1 \in 0 .. nc - 1
    <3> QED  BY <3>1
  <2>3. h \in 0 .. 18
    <3>1. CASE nc > 2  BY <1>1, <3>1, CellBoundLen, 2 \in 0 .. nc - 1
    <3> QED  BY <3>1
  <2>4. CellsLen = f + g + h
    BY DEF CellsLen
  <2> HIDE DEF f, g, h
  <2> QED  BY <2>1, <2>2, <2>3, <2>4
<1>3. Digits(antenna + 1) \in 1 .. 3 /\ Digits(subcarrier + 1) \in 1 .. 3
  <2>1. /\ antenna + 1 \in Int /\ antenna + 1 < 1000
        /\ subcarrier + 1 \in Int /\ subcarrier + 1 < 1000
    BY <1>1
  <2>2. Digits(antenna + 1) \in 1 .. 10 /\ Digits(antenna + 1) <= 3
    BY <2>1, DigitsBound
  <2>3. Digits(subcarrier + 1) \in 1 .. 10 /\ Digits(subcarrier + 1) <= 3
    BY <2>1, DigitsBound
  <2> QED  BY <2>2, <2>3
<1>4. Digits(csi_status_id) \in 1 .. 10 /\ ts \in 1 .. 20
  BY DigitsBound DEF TypeQ
<1> DEFINE d == Digits(csi_status_id)  e == Digits(antenna + 1)  s == Digits(subcarrier + 1)
<1>5. RowLen = 23 + ts + d + e + s + CellsLen
  BY DEF RowLen
<1>6. d \in 1 .. 10 /\ e \in 1 .. 3 /\ s \in 1 .. 3
  BY <1>3, <1>4
<1> HIDE DEF d, e, s
<1> QED  BY <1>2, <1>4, <1>5, <1>6
-----------------------------------------------------------------------------
(***************************************************************************)
(* The steps.                                                              *)
(***************************************************************************)

\* The dimensions are numbers.
LEMMA Dims ==
  ASSUME IInv PROVE nr \in Nat /\ nc \in Nat /\ num_tones \in Nat
BY DimAssumption DEF IInv, TypeOK

LEMMA InitInvQ == InitQ => InvQ
<1> SUFFICES ASSUME InitQ PROVE InvQ
  OBVIOUS
<1>1. IInv /\ pc = "idle" /\ qpc = "read"
  BY InitIInv DEF InitQ, Init
<1>2. TypeQ
  BY DEF InitQ, TypeQ
<1> QED  BY <1>1, <1>2 DEF InvQ, Place, Placed

LEMMA DecodeInvQ == InvQ /\ Decode => InvQ'
<1> SUFFICES ASSUME InvQ, Decode PROVE InvQ'
  OBVIOUS
<1>1. IInv'
  BY CallIInv DEF InvQ, Decode
<1>2. TypeQ'
  BY DEF InvQ, TypeQ, Decode
<1>3. Place' /\ Placed'
  BY DEF Decode, Place, Placed
<1> QED  BY <1>1, <1>2, <1>3 DEF InvQ

LEMMA UnpackInvQ == InvQ /\ Unpack => InvQ'
<1> SUFFICES ASSUME InvQ, Unpack PROVE InvQ'
  OBVIOUS
<1>1. IInv'
  BY TakeImagIInv, TakeRealIInv DEF InvQ, Unpack
<1>2. TypeQ'
  BY DEF InvQ, TypeQ, Unpack, built
<1>3. Place' /\ Placed'
  BY DEF Unpack, Place, Placed, built
<1> QED  BY <1>1, <1>2, <1>3 DEF InvQ

\* What a step of save_csi_matrix leaves alone.
LEMMA SameReport ==
  ASSUME IInv, UNCHANGED vars
  PROVE  /\ IInv'
         /\ nr' = nr /\ nc' = nc /\ num_tones' = num_tones /\ pc' = pc
         /\ csi_addr' = csi_addr
<1>1. IInv'
  BY NextIInv
<1> QED  BY <1>1 DEF vars, args

LEMMA BeginInvQ == InvQ /\ Begin => InvQ'
<1> SUFFICES ASSUME InvQ, Begin PROVE InvQ'
  OBVIOUS
<1>1. /\ IInv' /\ nr' = nr /\ nc' = nc /\ num_tones' = num_tones /\ pc' = "idle"
  BY SameReport DEF InvQ, Begin
<1>2. nr \in Nat /\ nc \in Nat /\ num_tones \in Nat
  BY Dims DEF InvQ
<1>3. MaxLen \in Nat /\ MaxLen = 27 + (num_tones * nr) * 122 /\ num_tones * nr \in Nat
  <2>1. num_tones * nr \in Nat  BY <1>2, TimesMono
  <2> QED  BY <2>1 DEF MaxLen
<1>4. TypeQ'
  <2>1. ts' \in 1 .. 20 /\ csi_status_id' \in Nat
    BY TsAssumption, IdAssumption DEF Begin
  <2>2. insert_query' \in Seq(Rows)
    BY DEF Begin
  <2>3. qpc' \in {"row", "exec"} /\ max_len' \in Nat /\ strlen' \in Nat
    BY <1>3 DEF Begin
  <2> QED  BY <2>1, <2>2, <2>3 DEF TypeQ, Begin
<1>5. insert_query' = <<>> /\ Len(insert_query') = 0
  BY DEF Begin
<1>6. Place'
  <2>1. CASE 0 \in {num_tones, nr}
    <3>1. num_tones * nr = 0  BY <1>2, <2>1
    <3> QED  BY <1>1, <1>5, <2>1, <3>1 DEF Place, Begin
  <2>2. CASE ~ (0 \in {num_tones, nr})
    <3>1. 0 < num_tones /\ 0 < nr /\ 0 * nr + 0 = 0  BY <1>2, <2>2
    <3> QED  BY <1>1, <1>5, <2>2, <3>1 DEF Place, Begin
  <2> QED  BY <2>1, <2>2
<1>7. Placed'
  <2>1. ASSUME NEW t \in 0 .. num_tones - 1, NEW a \in 0 .. nr - 1
        PROVE  ~ (t * nr + a < 0)
    BY <1>2, TimesMono
  <2>2. max_len' = 27 + (num_tones * nr) * 122 /\ strlen' <= 27 + 113 * 0
    BY <1>3 DEF Begin
  <2> SUFFICES
        /\ \A t \in 0 .. num_tones' - 1, a \in 0 .. nr' - 1 :
             t * nr' + a < Len(insert_query') => insert_query'[t * nr' + a + 1] = RowAt(a, t)'
        /\ max_len' = 27 + (num_tones' * nr') * 122
        /\ strlen' <= 27 + 113 * Len(insert_query')
    BY DEF Placed
  <2> QED  BY <1>1, <1>5, <2>1, <2>2
<1> QED  BY <1>1, <1>4, <1>6, <1>7 DEF InvQ

LEMMA ExecInvQ == InvQ /\ Exec => InvQ'
<1> SUFFICES ASSUME InvQ, Exec PROVE InvQ'
  OBVIOUS
<1>1. IInv' /\ pc' = pc
  BY SameReport DEF InvQ, Exec
<1>2. TypeQ'
  BY DEF InvQ, TypeQ, Exec
<1>3. Place' /\ Placed'
  BY <1>1 DEF InvQ, Exec, Place, Placed
<1> QED  BY <1>1, <1>2, <1>3 DEF InvQ

\* A row is the same while the report is.
LEMMA SameRow ==
  ASSUME nr' = nr, nc' = nc, num_tones' = num_tones, csi_addr' = csi_addr
  PROVE  \A a, t : RowAt(a, t)' = RowAt(a, t)
BY DEF RowAt, Element, FieldNo

LEMMA AddRowInvQ == InvQ /\ AddRow => InvQ'
<1> SUFFICES ASSUME InvQ, AddRow PROVE InvQ'
  OBVIOUS
<1>1. /\ IInv' /\ nr' = nr /\ nc' = nc /\ num_tones' = num_tones /\ pc' = pc
      /\ csi_addr' = csi_addr
  BY SameReport DEF InvQ, AddRow
<1>2. nr \in Nat /\ nc \in Nat /\ num_tones \in Nat
  BY Dims DEF InvQ
<1>3. /\ qpc = "row" /\ pc = "idle" /\ IInv /\ TypeQ
      /\ subcarrier \in 0 .. num_tones - 1 /\ antenna \in 0 .. nr - 1
      /\ Len(insert_query) = subcarrier * nr + antenna
      /\ insert_query \in Seq(Rows)
  BY <1>2 DEF InvQ, AddRow, Place, TypeQ
<1>4. /\ Row = RowAt(antenna, subcarrier) /\ Row \in Rows /\ RowLen \in 0 .. 113
  BY <1>3, RowIsReport, RowBound
<1> DEFINE L == Len(insert_query)  row == RowAt(antenna, subcarrier)
<1>5. /\ insert_query' = Append(insert_query, row)
      /\ strlen' = strlen + RowLen
      /\ antenna' = IF antenna + 1 = nr THEN 0 ELSE antenna + 1
      /\ subcarrier' = IF antenna + 1 = nr THEN subcarrier + 1 ELSE subcarrier
      /\ qpc' = IF subcarrier' = num_tones THEN "exec" ELSE "row"
      /\ UNCHANGED <<ts, csi_status_id, max_len>>
  BY <1>4 DEF AddRow
<1>6. /\ insert_query' \in Seq(Rows) /\ Len(insert_query') = L + 1 /\ L \in Nat
      /\ \A i \in 1 .. L : insert_query'[i] = insert_query[i]
      /\ insert_query'[L + 1] = row
  BY <1>3, <1>4, <1>5
<1>7. antenna' \in 0 .. nr - 1 /\ subcarrier' \in 0 .. num_tones /\ strlen' \in Nat
  BY <1>2, <1>3, <1>4, <1>5 DEF TypeQ
<1>8. TypeQ'
  <2>1. qpc' \in {"row", "exec"}
    BY <1>5
  <2>2. antenna' \in Nat /\ subcarrier' \in Nat
    BY <1>2, <1>7
  <2>3. ts' \in 1 .. 20 /\ csi_status_id' \in Nat /\ max_len' \in Nat
    BY <1>3, <1>5 DEF TypeQ
  <2> QED  BY <1>6, <1>7, <2>1, <2>2, <2>3 DEF TypeQ
<1>9. L + 1 = subcarrier' * nr + antenna' /\ (subcarrier' = num_tones => antenna' = 0)
  <2>1. subcarrier * nr \in Nat /\ (subcarrier + 1) * nr = subcarrier * nr + nr
    BY <1>2, <1>3, TimesMono
  <2>2. CASE antenna + 1 = nr
    BY <1>2, <1>3, <1>5, <2>1, <2>2
  <2>3. CASE antenna + 1 # nr
    BY <1>2, <1>3, <1>5, <2>1, <2>3
  <2> QED  BY <2>2, <2>3
<1>10. Place'
  <2>1. CASE subcarrier' = num_tones
    <3>1. L + 1 = num_tones * nr /\ qpc' = "exec"
      <4>1. num_tones * nr \in Nat  BY <1>2, TimesMono
      <4> QED  BY <1>5, <1>9, <2>1, <4>1
    <3> QED  BY <1>1, <1>3, <1>6, <3>1 DEF Place
  <2>2. CASE subcarrier' # num_tones
    <3>1. qpc' = "row" /\ subcarrier' < num_tones /\ antenna' < nr
      BY <1>2, <1>5, <1>7, <2>2
    <3> QED  BY <1>1, <1>3, <1>6, <1>9, <3>1 DEF Place
  <2> QED  BY <2>1, <2>2
<1>11. Placed'
  <2> SUFFICES
        /\ \A t \in 0 .. num_tones' - 1, a \in 0 .. nr' - 1 :
             t * nr' + a < Len(insert_query') => insert_query'[t * nr' + a + 1] = RowAt(a, t)'
        /\ max_len' = 27 + (num_tones' * nr') * 122
        /\ strlen' <= 27 + 113 * Len(insert_query')
    BY DEF Placed
  <2>1. /\ \A t \in 0 .. num_tones - 1, a \in 0 .. nr - 1 :
             t * nr + a < L => insert_query[t * nr + a + 1] = RowAt(a, t)
        /\ max_len = 27 + (num_tones * nr) * 122
        /\ strlen <= 27 + 113 * L
    BY <1>3 DEF InvQ, Placed
  <2>2. strlen' <= 27 + 113 * (L + 1)
    <3>1. strlen \in Nat  BY <1>3 DEF TypeQ
    <3> HIDE DEF L
    <3> QED  BY <1>4, <1>5, <1>6, <2>1, <3>1
  <2>3. ASSUME NEW t \in 0 .. num_tones - 1, NEW a \in 0 .. nr - 1, t * nr + a < L + 1
        PROVE  insert_query'[t * nr + a + 1] = RowAt(a, t)
    <3>1. t \in Nat /\ subcarrier \in Nat
      BY <1>2, <1>3
    <3>2. /\ t * nr \in Nat /\ subcarrier * nr \in Nat
          /\ (t * nr + a = subcarrier * nr + antenna => t = subcarrier /\ a = antenna)
      BY <1>2, <1>3, <3>1, SamePlace
    <3> DEFINE i == t * nr + a
    <3>3. i \in Nat /\ (i < L \/ i = L)
      BY <1>2, <1>6, <2>3, <3>2
    <3>4. CASE i < L
      <4>1. insert_query[i + 1] = RowAt(a, t)  BY <2>1, <3>4
      <4>2. i + 1 \in 1 .. L  BY <1>6, <3>3, <3>4
      <4> HIDE DEF i
      <4>3. insert_query'[i + 1] = RowAt(a, t)  BY <1>6, <4>1, <4>2
      <4> QED  BY <4>3 DEF i
    <3>5. CASE i = L
      <4>1. t = subcarrier /\ a = antenna  BY <1>3, <3>2, <3>5
      <4> QED  BY <1>6, <3>5, <4>1
    <3> QED  BY <3>3, <3>4, <3>5
  <2>4. \A a, t : RowAt(a, t)' = RowAt(a, t)
    BY <1>1, SameRow
  <2>5. Len(insert_query') = L + 1
    BY <1>6
  <2> HIDE DEF L
  <2> QED  BY <1>1, <1>5, <2>1, <2>2, <2>3, <2>4, <2>5
<1> QED  BY <1>1, <1>8, <1>10, <1>11 DEF InvQ

LEMMA StutterInvQ == InvQ /\ UNCHANGED qvars => InvQ'
<1> SUFFICES ASSUME InvQ, UNCHANGED qvars PROVE InvQ'
  OBVIOUS
<1>1. UNCHANGED vars /\ UNCHANGED built
  BY DEF qvars
<1>2. /\ IInv' /\ nr' = nr /\ nc' = nc /\ num_tones' = num_tones /\ pc' = pc
      /\ csi_addr' = csi_addr
  BY <1>1, SameReport DEF InvQ
<1>3. TypeQ' /\ Place'
  BY <1>1, <1>2 DEF InvQ, TypeQ, Place, built
<1>4. Placed'
  <2>1. \A a, t : RowAt(a, t)' = RowAt(a, t)
    BY <1>2, SameRow
  <2> SUFFICES ASSUME qpc' \in {"row", "exec"}
        PROVE
        /\ \A t \in 0 .. num_tones' - 1, a \in 0 .. nr' - 1 :
             t * nr' + a < Len(insert_query') => insert_query'[t * nr' + a + 1] = RowAt(a, t)'
        /\ max_len' = 27 + (num_tones' * nr') * 122
        /\ strlen' <= 27 + 113 * Len(insert_query')
    BY DEF Placed
  <2> QED  BY <1>1, <1>2, <2>1 DEF InvQ, Placed, built
<1> QED  BY <1>2, <1>3, <1>4 DEF InvQ
-----------------------------------------------------------------------------
(***************************************************************************)
(* The theorems.                                                           *)
(***************************************************************************)

\* The loops of save_csi_matrix keep the invariant.
THEOREM InvQHolds == SpecQ => []InvQ
<1>1. InvQ /\ [NextQ]_qvars => InvQ'
  BY DecodeInvQ, UnpackInvQ, BeginInvQ, AddRowInvQ, ExecInvQ, StutterInvQ DEF NextQ
<1> QED  BY <1>1, InitInvQ, PTL DEF SpecQ

\* Whatever was decoded before, the statement that save_csi_matrix executes
\* holds each row of this report once, with the numbers the hardware packed.
THEOREM StatementCorrect == SpecQ => []Statement
<1>1. InvQ => Statement
  <2> SUFFICES ASSUME InvQ, qpc = "exec" PROVE
        /\ Len(insert_query) = num_tones * nr
        /\ \A t \in 0 .. num_tones - 1, a \in 0 .. nr - 1 :
             insert_query[t * nr + a + 1] = RowAt(a, t)
    BY DEF Statement, RowAt
  <2>1. nr \in Nat /\ num_tones \in Nat
    BY Dims DEF InvQ
  <2>2. Len(insert_query) = num_tones * nr
    BY DEF InvQ, Place
  <2>3. ASSUME NEW t \in 0 .. num_tones - 1, NEW a \in 0 .. nr - 1
        PROVE  insert_query[t * nr + a + 1] = RowAt(a, t)
    <3>1. t * nr + a < num_tones * nr
      BY <2>1, SamePlace, t < num_tones
    <3> QED  BY <2>2, <3>1 DEF InvQ, Placed
  <2> QED  BY <2>2, <2>3
<1> QED  BY <1>1, InvQHolds, PTL

\* The 122 bytes per row that save_csi_matrix allocates are enough for every
\* number, time stamp, id and dimension: sprintf never leaves the buffer.
THEOREM FitsCorrect == SpecQ => []Fits
<1>1. InvQ => Fits
  <2> SUFFICES ASSUME InvQ, qpc \in {"row", "exec"}, ~ (0 \in {num_tones, nr})
               PROVE  strlen + 1 <= max_len
    BY DEF Fits
  <2>1. nr \in Nat /\ num_tones \in Nat /\ 0 < nr /\ 0 < num_tones
    BY Dims DEF InvQ
  <2> DEFINE P == num_tones * nr  L == Len(insert_query)
  <2>2. P \in Nat /\ P >= 1
    <3>1. 0 * nr + 0 < num_tones * nr
      BY <2>1, SamePlace, 0 \in 0 .. nr - 1
    <3> QED  BY <2>1, <3>1, TimesMono
  <2>3. L \in Nat /\ L <= P
    <3>1. L \in Nat
      BY DEF InvQ, TypeQ
    <3>2. CASE qpc = "exec"
      BY <2>2, <3>2 DEF InvQ, Place
    <3>3. CASE qpc = "row"
      <4>1. /\ L = subcarrier * nr + antenna /\ subcarrier < num_tones /\ antenna \in 0 .. nr - 1
            /\ subcarrier \in Nat
        BY <2>1, <3>3 DEF InvQ, Place, TypeQ
      <4>2. subcarrier * nr + antenna < num_tones * nr
        BY <2>1, <4>1, SamePlace
      <4> QED  BY <2>2, <3>1, <4>1, <4>2
    <3> QED  BY <3>1, <3>2, <3>3
  <2>4. max_len = 27 + P * 122 /\ strlen <= 27 + 113 * L /\ strlen \in Nat
    BY DEF InvQ, Placed, TypeQ
  <2> HIDE DEF P, L
  <2> QED  BY <2>2, <2>3, <2>4
<1> QED  BY <1>1, InvQHolds, PTL

\* What is proved of the decoder holds in the database receiver: building the
\* statement takes no step that the decoder would notice.
THEOREM QueryDecodes == SpecQ => Spec
<1>1. InitQ => Init
  BY DEF InitQ
<1>2. [NextQ]_qvars => [Next]_vars
  BY DEF NextQ, Decode, Unpack, Begin, AddRow, Exec, Next, qvars
<1> QED  BY <1>1, <1>2, PTL DEF SpecQ, Spec
=============================================================================
