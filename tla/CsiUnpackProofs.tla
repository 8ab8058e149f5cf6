-------------------------- MODULE CsiUnpackProofs --------------------------
(***************************************************************************)
(* TLAPS proofs about CsiUnpack: the decoder is right for every buffer,    *)
(* every dimension and any number of calls.                                *)
(***************************************************************************)
EXTENDS CsiUnpack, TLAPS

(***************************************************************************)
(* The arithmetic of taking one 10-bit field from the shift register.      *)
(***************************************************************************)

\* The register holds at least 10 bits: the next field is its low 10 bits.
LEMMA TakeNoRefill ==
  ASSUME NEW N \in Nat, NEW b \in [0 .. N - 1 -> Byte],
         NEW i \in Nat, NEW T \in Nat, NEW bl \in 10 .. 16,
         bl % 2 = 0, i >= 2, i - 1 <= N - 1, 8 * i = 10 * T + bl
  PROVE  /\ (Word(b, i - 2) \div 2^(16 - bl)) % 2^10 = Field(b, T)
         /\ (Word(b, i - 2) \div 2^(16 - bl)) \div 2^10
              = Word(b, i - 2) \div 2^(16 - (bl - 10))
<1> DEFINE x == b[i - 2]  y == b[(i - 2) + 1]  w == Word(b, i - 2)
<1>1. x \in 0 .. 255 /\ y \in 0 .. 255 /\ w = x + 256 * y
  <2>1. i - 2 \in 0 .. N - 1 /\ (i - 2) + 1 \in 0 .. N - 1  OBVIOUS
  <2> QED  BY <2>1 DEF Word, Byte
<1>2. bl \in {10, 12, 14, 16}
  OBVIOUS
<1>3. 2^10 = 1024
  OBVIOUS
<1> HIDE DEF w
<1>4. CASE bl = 10
  <2>1. (10 * T) \div 8 = i - 2 /\ (10 * T) % 8 = 6  BY <1>4
  <2>2. 2^6 = 64 /\ 2^(16 - bl) = 64 /\ 2^(16 - (bl - 10)) = 65536
    BY <1>4
  <2>3. Field(b, T) = ((x + 256 * y) \div 64) % 1024
    BY <2>1, <2>2 DEF Field, Bits10
  <2>4. (w \div 64) % 1024 = Field(b, T)
    BY <1>1, <2>3
  <2>5. (w \div 64) \div 1024 = w \div 65536
    <3> HIDE DEF x, y
    <3> QED  BY <1>1
  <2> QED  BY <1>3, <2>2, <2>4, <2>5 DEF w
<1>5. CASE bl = 12
  <2>1. (10 * T) \div 8 = i - 2 /\ (10 * T) % 8 = 4  BY <1>5
  <2>2. 2^4 = 16 /\ 2^(16 - bl) = 16 /\ 2^(16 - (bl - 10)) = 16384
    BY <1>5
  <2>3. Field(b, T) = ((x + 256 * y) \div 16) % 1024
    BY <2>1, <2>2 DEF Field, Bits10
  <2>4. (w \div 16) % 1024 = Field(b, T)
    BY <1>1, <2>3
  <2>5. (w \div 16) \div 1024 = w \div 16384
    <3> HIDE DEF x, y
    <3> QED  BY <1>1
  <2> QED  BY <1>3, <2>2, <2>4, <2>5 DEF w
<1>6. CASE bl = 14
  <2>1. (10 * T) \div 8 = i - 2 /\ (10 * T) % 8 = 2  BY <1>6
  <2>2. 2^2 = 4 /\ 2^(16 - bl) = 4 /\ 2^(16 - (bl - 10)) = 4096
    BY <1>6
  <2>3. Field(b, T) = ((x + 256 * y) \div 4) % 1024
    BY <2>1, <2>2 DEF Field, Bits10
  <2>4. (w \div 4) % 1024 = Field(b, T)
    BY <1>1, <2>3
  <2>5. (w \div 4) \div 1024 = w \div 4096
    <3> HIDE DEF x, y
    <3> QED  BY <1>1
  <2> QED  BY <1>3, <2>2, <2>4, <2>5 DEF w
<1>7. CASE bl = 16
  <2>1. (10 * T) \div 8 = i - 2 /\ (10 * T) % 8 = 0  BY <1>7
  <2>2. 2^0 = 1 /\ 2^(16 - bl) = 1 /\ 2^(16 - (bl - 10)) = 1024
    BY <1>7
  <2>3. Field(b, T) = ((x + 256 * y) \div 1) % 1024
    BY <2>1, <2>2 DEF Field, Bits10
  <2>4. (w \div 1) % 1024 = Field(b, T)
    BY <1>1, <2>3
  <2>5. (w \div 1) \div 1024 = w \div 1024
    <3> HIDE DEF x, y
    <3> QED  BY <1>1
  <2> QED  BY <1>3, <2>2, <2>4, <2>5 DEF w
<1> QED  BY <1>2, <1>4, <1>5, <1>6, <1>7

\* The register holds fewer than 10 bits: with the next word placed above
\* them its low 10 bits are the next field, and the rest is the upper part of
\* the new word.
LEMMA TakeRefill ==
  ASSUME NEW N \in Nat, NEW b \in [0 .. N - 1 -> Byte],
         NEW i \in Nat, NEW T \in Nat, NEW bl \in 0 .. 9,
         bl % 2 = 0, i >= 2, i + 1 <= N - 1, 8 * i = 10 * T + bl
  PROVE  LET d == Word(b, i - 2) \div 2^(16 - bl) + Word(b, i) * 2^bl
         IN  /\ d % 2^10 = Field(b, T)
             /\ d \div 2^10 = Word(b, i) \div 2^(16 - (bl + 6))
<1> DEFINE x == b[i - 2]  y == b[i - 1]  u == b[i]  v == b[i + 1]
<1>1. /\ x \in 0 .. 255 /\ y \in 0 .. 255
      /\ Word(b, i - 2) = x + 256 * y
  <2>1. i - 2 \in 0 .. N - 1 /\ i - 1 \in 0 .. N - 1 /\ (i - 2) + 1 = i - 1  OBVIOUS
  <2> QED  BY <2>1 DEF Word, Byte
<1>2. /\ u \in 0 .. 255 /\ v \in 0 .. 255
      /\ Word(b, i) = u + 256 * v
  BY DEF Word, Byte
<1>3. bl \in {0, 2, 4, 6, 8}
  OBVIOUS
<1> DEFINE w == Word(b, i - 2)  z == Word(b, i)
           d == w \div 2^(16 - bl) + z * 2^bl
<1>g. 2^10 = 1024
  OBVIOUS
<1> SUFFICES d % 1024 = Field(b, T) /\ d \div 1024 = z \div 2^(16 - (bl + 6))
  BY <1>g
<1> HIDE DEF w, z
<1>4. CASE bl = 0
  <2>1. (10 * T) \div 8 = i /\ (10 * T) % 8 = 0  BY <1>4
  <2>2. /\ 2^0 = 1 /\ 2^(16 - bl) = 65536 /\ 2^bl = 1
        /\ 2^(16 - (bl + 6)) = 1024
    BY <1>4
  <2>3. Field(b, T) = ((u + 256 * v) \div 1) % 1024
    BY <2>1, <2>2 DEF Field, Bits10
  <2> HIDE DEF x, y, u, v
  <2>4. w \div 65536 = 0
    BY <1>1 DEF w
  <2>5. d = 0 + (u + 256 * v) * 1
    BY <1>2, <2>2, <2>4 DEF z
  <2>6. z \div 2^(16 - (bl + 6)) = (u + 256 * v) \div 1024
    BY <1>2, <2>2 DEF z
  <2> HIDE DEF d
  <2>7. d % 1024 = Field(b, T)
    BY <1>1, <1>2, <2>3, <2>5
  <2>8. d \div 1024 = (u + 256 * v) \div 1024
    BY <1>1, <1>2, <2>5
  <2> QED  BY <2>6, <2>7, <2>8
<1>5. CASE bl = 2
  <2>1. (10 * T) \div 8 = i - 1 /\ (10 * T) % 8 = 6  BY <1>5
  <2>2. /\ 2^6 = 64 /\ 2^(16 - bl) = 16384 /\ 2^bl = 4
        /\ 2^(16 - (bl + 6)) = 256
    BY <1>5
  <2>3. Field(b, T) = ((y + 256 * u) \div 64) % 1024
    <3>1. i - 1 + 1 = i  OBVIOUS
    <3>2. Field(b, T) = Bits10(b, i - 1, 6)  BY <2>1 DEF Field
    <3> QED  BY <2>2, <3>1, <3>2 DEF Bits10
  <2> HIDE DEF x, y, u, v
  <2>4. w \div 16384 = y \div 64
    BY <1>1 DEF w
  <2>5. d = y \div 64 + (u + 256 * v) * 4
    BY <1>2, <2>2, <2>4 DEF z
  <2>6. z \div 2^(16 - (bl + 6)) = (u + 256 * v) \div 256
    BY <1>2, <2>2 DEF z
  <2> HIDE DEF d
  <2>7. d % 1024 = Field(b, T)
    BY <1>1, <1>2, <2>3, <2>5
  <2>8. d \div 1024 = (u + 256 * v) \div 256
    BY <1>1, <1>2, <2>5
  <2> QED  BY <2>6, <2>7, <2>8
<1>6. CASE bl = 4
  <2>1. (10 * T) \div 8 = i - 1 /\ (10 * T) % 8 = 4  BY <1>6
  <2>2. /\ 2^4 = 16 /\ 2^(16 - bl) = 4096 /\ 2^bl = 16
        /\ 2^(16 - (bl + 6)) = 64
    BY <1>6
  <2>3. Field(b, T) = ((y + 256 * u) \div 16) % 1024
    <3>1. i - 1 + 1 = i  OBVIOUS
    <3>2. Field(b, T) = Bits10(b, i - 1, 4)  BY <2>1 DEF Field
    <3> QED  BY <2>2, <3>1, <3>2 DEF Bits10
  <2> HIDE DEF x, y, u, v
  <2>4. w \div 4096 = y \div 16
    BY <1>1 DEF w
  <2>5. d = y \div 16 + (u + 256 * v) * 16
    BY <1>2, <2>2, <2>4 DEF z
  <2>6. z \div 2^(16 - (bl + 6)) = (u + 256 * v) \div 64
    BY <1>2, <2>2 DEF z
  <2> HIDE DEF d
  <2>7. d % 1024 = Field(b, T)
    BY <1>1, <1>2, <2>3, <2>5
  <2>8. d \div 1024 = (u + 256 * v) \div 64
    BY <1>1, <1>2, <2>5
  <2> QED  BY <2>6, <2>7, <2>8
<1>7. CASE bl = 6
  <2>1. (10 * T) \div 8 = i - 1 /\ (10 * T) % 8 = 2  BY <1>7
  <2>2. /\ 2^2 = 4 /\ 2^(16 - bl) = 1024 /\ 2^bl = 64
        /\ 2^(16 - (bl + 6)) = 16
    BY <1>7
  <2>3. Field(b, T) = ((y + 256 * u) \div 4) % 1024
    <3>1. i - 1 + 1 = i  OBVIOUS
    <3>2. Field(b, T) = Bits10(b, i - 1, 2)  BY <2>1 DEF Field
    <3> QED  BY <2>2, <3>1, <3>2 DEF Bits10
  <2> HIDE DEF x, y, u, v
  <2>4. w \div 1024 = y \div 4
    BY <1>1 DEF w
  <2>5. d = y \div 4 + (u + 256 * v) * 64
    BY <1>2, <2>2, <2>4 DEF z
  <2>6. z \div 2^(16 - (bl + 6)) = (u + 256 * v) \div 16
    BY <1>2, <2>2 DEF z
  <2> HIDE DEF d
  <2>7. d % 1024 = Field(b, T)
    BY <1>1, <1>2, <2>3, <2>5
  <2>8. d \div 1024 = (u + 256 * v) \div 16
    BY <1>1, <1>2, <2>5
  <2> QED  BY <2>6, <2>7, <2>8
<1>8. CASE bl = 8
  <2>1. (10 * T) \div 8 = i - 1 /\ (10 * T) % 8 = 0  BY <1>8
  <2>2. /\ 2^0 = 1 /\ 2^(16 - bl) = 256 /\ 2^bl = 256
        /\ 2^(16 - (bl + 6)) = 4
    BY <1>8
  <2>3. Field(b, T) = ((y + 256 * u) \div 1) % 1024
    <3>1. i - 1 + 1 = i  OBVIOUS
    <3>2. Field(b, T) = Bits10(b, i - 1, 0)  BY <2>1 DEF Field
    <3> QED  BY <2>2, <3>1, <3>2 DEF Bits10
  <2> HIDE DEF x, y, u, v
  <2>4. w \div 256 = y
    BY <1>1 DEF w
  <2>5. d = y + (u + 256 * v) * 256
    BY <1>2, <2>2, <2>4 DEF z
  <2>6. z \div 2^(16 - (bl + 6)) = (u + 256 * v) \div 4
    BY <1>2, <2>2 DEF z
  <2> HIDE DEF d
  <2>7. d % 1024 = Field(b, T)
    BY <1>1, <1>2, <2>3, <2>5
  <2>8. d \div 1024 = (u + 256 * v) \div 4
    BY <1>1, <1>2, <2>5
  <2> QED  BY <2>6, <2>7, <2>8
<1> QED  BY <1>3, <1>4, <1>5, <1>6, <1>7, <1>8

(***************************************************************************)
(* The loops: how many fields precede an element.                          *)
(***************************************************************************)

\* Multiplication is monotone on the naturals.
LEMMA TimesMono ==
  ASSUME NEW a \in Nat, NEW b \in Nat, NEW n \in Nat, a <= b
  PROVE  a * n \in Nat /\ b * n \in Nat /\ a * n <= b * n
OBVIOUS

\* An element of the report is one of its t * c * r elements.
LEMMA CellBound ==
  ASSUME NEW r \in Nat, NEW c \in Nat, NEW t \in Nat,
         NEW i \in 0 .. r - 1, NEW j \in 0 .. c - 1, NEW l \in 0 .. t - 1
  PROVE  /\ l * c \in Nat /\ (l * c + j) * r \in Nat /\ (t * c) * r \in Nat
         /\ (l * c + j) * r + i + 1 <= (t * c) * r
<1>1. (l + 1) * c = l * c + c /\ l * c \in Nat
  OBVIOUS
<1>2. l * c + c <= t * c /\ t * c \in Nat
  BY <1>1, TimesMono, l + 1 \in Nat, l + 1 <= t
<1> DEFINE A == l * c + j  B == t * c
<1>3. A \in Nat /\ B \in Nat /\ A + 1 <= B
  BY <1>1, <1>2
<1> HIDE DEF A, B
<1>4. (A + 1) * r = A * r + r /\ A * r \in Nat
  BY <1>3
<1>5. A * r + r <= B * r /\ B * r \in Nat
  BY <1>3, <1>4, TimesMono, A + 1 \in Nat
<1>6. A * r + i + 1 <= B * r
  BY <1>4, <1>5
<1> QED  BY <1>1, <1>4, <1>5, <1>6 DEF A, B

\* While the decoder runs, the fields it has taken are fewer than the report
\* has.
LEMMA TakenBound ==
  ASSUME TypeOK, pc # "idle"
  PROVE  /\ Taken \in Nat /\ FieldNo(nr_idx, nc_idx, k) \in Nat
         /\ (num_tones * nc) * nr \in Nat
         /\ Taken + 1 <= 2 * ((num_tones * nc) * nr)
<1>1. /\ nr \in Nat /\ nc \in Nat /\ num_tones \in Nat
      /\ nr_idx \in 0 .. nr - 1 /\ nc_idx \in 0 .. nc - 1 /\ k \in 0 .. num_tones - 1
  BY DimAssumption DEF TypeOK
<1> DEFINE E == (k * nc + nc_idx) * nr  P == (num_tones * nc) * nr
<1>2. E \in Nat /\ P \in Nat /\ E + nr_idx + 1 <= P
  BY <1>1, CellBound
<1>3. Taken = 2 * (E + nr_idx) + (IF pc = "real" THEN 1 ELSE 0)
  BY DEF Taken, FieldNo
<1> HIDE DEF E, P
<1>4. Taken \in Nat /\ P \in Nat /\ Taken + 1 <= 2 * P
  BY <1>1, <1>2, <1>3
<1>5. FieldNo(nr_idx, nc_idx, k) = 2 * (E + nr_idx)
  BY DEF FieldNo, E
<1> QED  BY <1>1, <1>2, <1>4, <1>5 DEF P

\* The buffer holds the CSI of a report of these dimensions and two bytes
\* more.
LEMMA BufHolds ==
  ASSUME TypeOK
  PROVE  CsiLen(nr, nc, num_tones) + 2 <= BufLen
BY DimAssumption DEF TypeOK

(***************************************************************************)
(* One field taken, in the state of the decoder.                           *)
(***************************************************************************)

\* What the register is after a field has been taken.
Drained(r) ==
  /\ r.idx \in Nat /\ r.bits - 10 \in 0 .. 14
  /\ r.data \in Nat /\ r.data \div 2^10 \in Nat
  /\ 8 * r.idx = 10 * (Taken + 1) + (r.bits - 10)
  /\ (r.bits - 10) % 2 = 0 /\ r.idx % 2 = 0 /\ r.idx >= 2
  /\ r.data \div 2^10 = Word(csi_addr, r.idx - 2) \div 2^(16 - (r.bits - 10))

\* The low 10 bits of the refilled register are the next field of the stream,
\* and dropping them leaves the register in order.
LEMMA OneTake ==
  ASSUME TypeOK, RegisterInv, pc # "idle", calls > 0
  PROVE  Refill.data % 2^10 = Field(csi_addr, Taken) /\ Drained(Refill)
<1> DEFINE P == (num_tones * nc) * nr
<1>1. Taken \in Nat /\ P \in Nat /\ Taken + 1 <= 2 * P
  BY TakenBound
<1>2. (20 * P + 7) \div 8 + 2 <= BufLen
  BY BufHolds DEF CsiLen
<1>3. /\ BufLen \in Nat /\ csi_addr \in [0 .. BufLen - 1 -> Byte]
      /\ idx \in Nat /\ bits_left \in 0 .. 16
  BY DimAssumption DEF TypeOK
<1>4. /\ 8 * idx = 10 * Taken + bits_left
      /\ bits_left % 2 = 0 /\ idx % 2 = 0 /\ idx >= 2
      /\ bits_left <= 14 \/ Taken = 0
      /\ current_data = Word(csi_addr, idx - 2) \div 2^(16 - bits_left)
  BY DEF RegisterInv
<1> HIDE DEF P
<1>5. idx <= BufLen
  BY <1>1, <1>2, <1>3, <1>4
<1>6. CASE bits_left >= 10
  <2>1. Refill = [idx |-> idx, bits |-> bits_left, data |-> current_data]
    BY <1>3, <1>6 DEF Refill, TopUp
  <2>2. /\ current_data % 2^10 = Field(csi_addr, Taken)
        /\ current_data \div 2^10
             = Word(csi_addr, idx - 2) \div 2^(16 - (bits_left - 10))
    <3>1. bits_left \in 10 .. 16 /\ idx - 1 <= BufLen - 1
      BY <1>3, <1>5, <1>6
    <3>2. /\ (Word(csi_addr, idx - 2) \div 2^(16 - bits_left)) % 2^10
               = Field(csi_addr, Taken)
          /\ (Word(csi_addr, idx - 2) \div 2^(16 - bits_left)) \div 2^10
               = Word(csi_addr, idx - 2) \div 2^(16 - (bits_left - 10))
      BY <1>1, <1>3, <1>4, <3>1, TakeNoRefill, ZenonT(30)
    <3> QED  BY <1>4, <3>2, Zenon
  <2>3. current_data \in Nat /\ current_data \div 2^10 \in Nat
    <3>1. current_data \in Nat  BY DEF TypeOK
    <3> QED  BY <3>1
  <2>4. 8 * idx = 10 * (Taken + 1) + (bits_left - 10)
    BY <1>1, <1>3, <1>4
  <2>5. bits_left - 10 \in 0 .. 14 /\ (bits_left - 10) % 2 = 0
    BY <1>3, <1>4, <1>6
  <2> QED  BY <1>3, <1>4, <2>1, <2>2, <2>3, <2>4, <2>5 DEF Drained
<1>7. CASE bits_left <= 9
  <2>1. Refill = [idx |-> idx + 2, bits |-> bits_left + 16,
                  data |-> current_data + Word(csi_addr, idx) * 2^bits_left]
    BY <1>3, <1>7 DEF Refill, TopUp
  <2>2. idx + 1 <= BufLen - 1
    BY <1>1, <1>2, <1>3, <1>4, <1>7
  <2> DEFINE d == current_data + Word(csi_addr, idx) * 2^bits_left
  <2>3. /\ d % 2^10 = Field(csi_addr, Taken)
        /\ d \div 2^10 = Word(csi_addr, idx) \div 2^(16 - (bits_left + 6))
    <3>1. bits_left \in 0 .. 9
      BY <1>3, <1>7
    <3>2. LET e == Word(csi_addr, idx - 2) \div 2^(16 - bits_left)
                     + Word(csi_addr, idx) * 2^bits_left
          IN  /\ e % 2^10 = Field(csi_addr, Taken)
              /\ e \div 2^10 = Word(csi_addr, idx) \div 2^(16 - (bits_left + 6))
      BY <1>1, <1>3, <1>4, <2>2, <3>1, TakeRefill, ZenonT(30)
    <3> QED  BY <1>4, <3>2, Zenon
  <2>4. d \in Nat /\ Word(csi_addr, idx) \div 2^(16 - (bits_left + 6)) \in Nat
    <3> DEFINE p == csi_addr[idx]  q == csi_addr[idx + 1]  w == Word(csi_addr, idx)
    <3>1. p \in 0 .. 255 /\ q \in 0 .. 255 /\ w = p + 256 * q
      BY <1>3, <2>2 DEF Word, Byte
    <3> HIDE DEF p, q, w
    <3>2. w \in Nat
      BY <3>1
    <3>3. current_data \in Nat
      BY DEF TypeOK
    <3>4. bits_left \in {0, 2, 4, 6, 8}
      BY <1>3, <1>4, <1>7
    <3>5. 2^bits_left \in Nat /\ 2^(16 - (bits_left + 6)) \in Nat \ {0}
      <4>1. CASE bits_left = 0  BY <4>1
      <4>2. CASE bits_left = 2  BY <4>2
      <4>3. CASE bits_left = 4  BY <4>3
      <4>4. CASE bits_left = 6  BY <4>4
      <4>5. CASE bits_left = 8  BY <4>5
      <4> QED  BY <3>4, <4>1, <4>2, <4>3, <4>4, <4>5
    <3> DEFINE e == 2^bits_left  f == 2^(16 - (bits_left + 6))
    <3> HIDE DEF e, f
    <3>6. w \div f \in Nat /\ current_data + w * e \in Nat
      BY <3>2, <3>3, <3>5, TimesMono DEF e, f
    <3> QED  BY <3>6 DEF w, e, f
  <2>5. 8 * (idx + 2) = 10 * (Taken + 1) + (bits_left + 6)
    BY <1>1, <1>3, <1>4
  <2>6. bits_left + 6 \in 0 .. 14 /\ (bits_left + 6) % 2 = 0 /\ (idx + 2) % 2 = 0
    BY <1>3, <1>4, <1>7
  <2>7. (bits_left + 16) - 10 = bits_left + 6 /\ (idx + 2) - 2 = idx
    BY <1>3
  <2> HIDE DEF d
  <2>8. Refill.idx = idx + 2 /\ Refill.bits = bits_left + 16 /\ Refill.data = d
    BY <2>1 DEF d
  <2> QED  BY <1>3, <1>4, <2>3, <2>4, <2>5, <2>6, <2>7, <2>8 DEF Drained
<1> QED  BY <1>3, <1>6, <1>7

\* bit_convert is the signed reading of a 10-bit number.
LEMMA BitConvert ==
  ASSUME NEW x \in 0 .. 1023
  PROVE  bit_convert(x, 10) = Signed10(x) /\ bit_convert(x, 10) \in Int
<1>1. 2^(10 - 1) = 512 /\ 2^10 = 1024
  OBVIOUS
<1>2. bit_convert(x, 10) = IF (x \div 512) % 2 = 1 THEN x - 1024 ELSE x
  BY <1>1 DEF bit_convert
<1>3. (x \div 512) % 2 = 1 <=> x >= 512
  OBVIOUS
<1> QED  BY <1>2, <1>3 DEF Signed10

(***************************************************************************)
(* Writing one part of one element leaves every other element alone.       *)
(***************************************************************************)
Matrix == [Rx -> [Tx -> [Tone -> COMPLEX]]]
PutImag(M, a, b, t, v) == [M EXCEPT ![a][b][t].imag = v]
PutReal(M, a, b, t, v) == [M EXCEPT ![a][b][t].real = v]

\* Writing the imaginary part of one element leaves every other part alone.
LEMMA SetImag ==
  ASSUME NEW M \in Matrix, NEW a \in Rx, NEW b \in Tx, NEW t \in Tone, NEW v \in Int
  PROVE  /\ PutImag(M, a, b, t, v) \in Matrix
         /\ PutImag(M, a, b, t, v)[a][b][t] = [real |-> M[a][b][t].real, imag |-> v]
         /\ \A r \in Rx, c \in Tx, s \in Tone :
              r # a \/ c # b \/ s # t => PutImag(M, a, b, t, v)[r][c][s] = M[r][c][s]
BY DEF Matrix, COMPLEX, PutImag

\* Writing the real part of one element leaves every other part alone.
LEMMA SetReal ==
  ASSUME NEW M \in Matrix, NEW a \in Rx, NEW b \in Tx, NEW t \in Tone, NEW v \in Int
  PROVE  /\ PutReal(M, a, b, t, v) \in Matrix
         /\ PutReal(M, a, b, t, v)[a][b][t] = [real |-> v, imag |-> M[a][b][t].imag]
         /\ \A r \in Rx, c \in Tx, s \in Tone :
              r # a \/ c # b \/ s # t => PutReal(M, a, b, t, v)[r][c][s] = M[r][c][s]
BY DEF Matrix, COMPLEX, PutReal

\* The number the low 10 bits stand for.
LEMMA LowBits ==
  ASSUME TypeOK, RegisterInv, pc # "idle", calls > 0
  PROVE  /\ bit_convert(Refill.data % 2^10, 10) = Signed10(Field(csi_addr, Taken))
         /\ bit_convert(Refill.data % 2^10, 10) \in Int
<1> DEFINE x == Refill.data % 2^10
<1>1. x = Field(csi_addr, Taken)
  BY OneTake
<1>2. Field(csi_addr, Taken) \in 0 .. 1023
  <2>1. Refill.data \in Nat
    BY OneTake DEF Drained
  <2>2. 2^10 = 1024
    OBVIOUS
  <2> QED  BY <1>1, <2>1, <2>2
<1> HIDE DEF x
<1> QED  BY <1>1, <1>2, BitConvert DEF x
-----------------------------------------------------------------------------
(***************************************************************************)
(* The inductive invariant.                                                *)
(***************************************************************************)

\* The decoder's initial state satisfies the invariant.
LEMMA InitIInv == Init => IInv
<1> SUFFICES ASSUME Init PROVE IInv
  OBVIOUS
<1>1. TypeOK
  BY DimAssumption, CallsAssumption
     DEF Init, TypeOK, ZeroBuf, Byte, COMPLEX, Rx, Tx, Tone
<1>2. RegisterInv
  BY DEF Init, RegisterInv
<1>3. DecodedSoFar
  BY DEF Init, DecodedSoFar
<1> QED  BY <1>1, <1>2, <1>3 DEF IInv, Init

\* Entering fill_csi_matrix establishes the invariant for the new report.
LEMMA CallIInv == IInv /\ Call => IInv'
<1> SUFFICES ASSUME IInv, Call PROVE IInv'
  OBVIOUS
<1> USE DimAssumption
<1>1. PICK b \in Buffers, r \in 0 .. MaxNr, c \in 0 .. MaxNc, t \in 0 .. MaxTones :
        /\ csi_addr' = b /\ nr' = r /\ nc' = c /\ num_tones' = t
        /\ idx' = 2 /\ bits_left' = 16 /\ current_data' = Word(b, 0)
        /\ pc' = IF 0 \in {r, c, t} THEN "idle" ELSE "imag"
  BY DEF Call
<1>2. /\ k' = 0 /\ nc_idx' = 0 /\ nr_idx' = 0
      /\ calls' = calls + 1 /\ calls' \in 0 .. MaxCalls
      /\ csi_matrix' = csi_matrix
  BY CallsAssumption DEF Call, IInv, TypeOK
<1>3. b \in [0 .. BufLen - 1 -> Byte]
  BY BufAssumption
<1>4. BufLen >= 2
  <2>1. CsiLen(r, c, t) + 2 <= BufLen
    OBVIOUS
  <2>2. r \in Nat /\ c \in Nat /\ t \in Nat
    OBVIOUS
  <2>3. (t * c) * r \in Nat
    <3>1. t * c \in Nat  BY <2>2
    <3> QED  BY <2>2, <3>1, TimesMono
  <2> DEFINE P == (t * c) * r
  <2>4. (20 * P + 7) \div 8 + 2 <= BufLen
    BY <2>1 DEF CsiLen
  <2> HIDE DEF P
  <2> QED  BY <2>3, <2>4 DEF P
<1>5. Word(b, 0) \in Nat
  <2> DEFINE p == b[0]  q == b[1]
  <2>1. p \in 0 .. 255 /\ q \in 0 .. 255
    BY <1>3, <1>4 DEF Byte
  <2>2. Word(b, 0) = p + 256 * q
    BY DEF Word
  <2> HIDE DEF p, q
  <2> QED  BY <2>1, <2>2
<1>6. TypeOK'
  BY <1>1, <1>2, <1>3, <1>5 DEF IInv, TypeOK
<1>7. Taken' = 0
  <2>1. FieldNo(nr_idx, nc_idx, k)' = 2 * ((0 * c + 0) * r + 0)
    BY <1>1, <1>2 DEF FieldNo
  <2>2. r \in Nat /\ c \in Nat /\ pc' # "real"
    BY <1>1
  <2> QED  BY <2>1, <2>2 DEF Taken
<1>8. RegisterInv'
  <2>1. 2^(16 - 16) = 1
    OBVIOUS
  <2>2. Word(b, 2 - 2) \div 2^(16 - 16) = Word(b, 0)
    BY <1>5, <2>1
  <2> QED  BY <1>1, <1>2, <1>7, <2>2 DEF RegisterInv
<1>9. DecodedSoFar'
  BY <1>1, <1>2 DEF DecodedSoFar, Passed
<1>10. calls' > 0
  BY <1>2 DEF IInv, TypeOK
<1> QED  BY <1>1, <1>2, <1>6, <1>8, <1>9, <1>10 DEF IInv

\* Taking the imaginary part of an element preserves the invariant.
LEMMA TakeImagIInv == IInv /\ TakeImag => IInv'
<1> SUFFICES ASSUME IInv, TakeImag PROVE IInv'
  OBVIOUS
<1> USE DimAssumption
<1>1. /\ TypeOK /\ RegisterInv /\ DecodedSoFar /\ calls > 0
      /\ pc = "imag" /\ pc' = "real" /\ pc # "idle"
  BY DEF IInv, TakeImag
<1>2. UNCHANGED <<csi_addr, nr, nc, num_tones, k, nc_idx, nr_idx, calls>>
  BY DEF TakeImag, args, loop
<1>3. /\ idx' = Refill.idx /\ bits_left' = Refill.bits - 10
      /\ current_data' = Refill.data \div 2^10
  BY DEF TakeImag, Consume
<1>4. Drained(Refill)
  BY <1>1, OneTake
<1>5. Taken \in Nat /\ Taken' = Taken + 1
  <2> DEFINE F == FieldNo(nr_idx, nc_idx, k)
  <2>1. F \in Nat
    BY <1>1, TakenBound
  <2>2. F' = F
    BY <1>2 DEF FieldNo
  <2>3. Taken = F + 0 /\ Taken' = F' + 1
    BY <1>1 DEF Taken
  <2> HIDE DEF F
  <2> QED  BY <2>1, <2>2, <2>3
<1> DEFINE v == bit_convert(Refill.data % 2^10, 10)
<1>6. v = Signed10(Field(csi_addr, Taken)) /\ v \in Int
  BY <1>1, LowBits
<1>7. /\ nr_idx \in Rx /\ nc_idx \in Tx /\ k \in Tone
      /\ csi_matrix \in Matrix
  BY <1>1 DEF TypeOK, Rx, Tx, Tone, Matrix
<1>8. csi_matrix' = [csi_matrix EXCEPT ![nr_idx][nc_idx][k].imag = v]
  BY DEF TakeImag
<1> HIDE DEF v
<1>9. /\ csi_matrix' \in Matrix
      /\ csi_matrix'[nr_idx][nc_idx][k].imag = v
      /\ \A r \in Rx, c \in Tx, s \in Tone :
           r # nr_idx \/ c # nc_idx \/ s # k =>
             csi_matrix'[r][c][s] = csi_matrix[r][c][s]
  <2> DEFINE W == PutImag(csi_matrix, nr_idx, nc_idx, k, v)
  <2>1. /\ W \in Matrix
        /\ W[nr_idx][nc_idx][k] = [real |-> csi_matrix[nr_idx][nc_idx][k].real, imag |-> v]
        /\ \A r \in Rx, c \in Tx, s \in Tone :
             r # nr_idx \/ c # nc_idx \/ s # k => W[r][c][s] = csi_matrix[r][c][s]
    BY <1>6, <1>7, SetImag
  <2>2. csi_matrix' = W
    BY <1>8 DEF PutImag
  <2> HIDE DEF W
  <2> QED  BY <2>1, <2>2
<1>10. TypeOK'
  <2>1. idx' \in Nat /\ bits_left' \in 0 .. 16 /\ current_data' \in Nat
    BY <1>3, <1>4 DEF Drained
  <2>2. csi_matrix' \in [Rx -> [Tx -> [Tone -> COMPLEX]]]
    BY <1>9 DEF Matrix
  <2> QED  BY <1>1, <1>2, <2>1, <2>2 DEF TypeOK
<1>11. RegisterInv'
  BY <1>1, <1>2, <1>3, <1>4, <1>5 DEF RegisterInv, Drained
<1>12. DecodedSoFar'
  <2>1. ASSUME NEW r \in 0 .. nr - 1, NEW c \in 0 .. nc - 1, NEW t \in 0 .. num_tones - 1,
               Passed(r, c, t)
        PROVE  csi_matrix'[r][c][t] = Element(r, c, t)
    <3>1. r \in Rx /\ c \in Tx /\ t \in Tone
      BY <1>1 DEF TypeOK, Rx, Tx, Tone
    <3>2. r # nr_idx \/ c # nc_idx \/ t # k
      BY <1>1, <2>1 DEF Passed, TypeOK
    <3>3. csi_matrix[r][c][t] = Element(r, c, t)
      BY <1>1, <2>1 DEF DecodedSoFar
    <3> QED  BY <1>9, <3>1, <3>2, <3>3
  <2>2. \A r, c, t : Element(r, c, t)' = Element(r, c, t) /\ (Passed(r, c, t)' <=> Passed(r, c, t))
    BY <1>2 DEF Element, FieldNo, Passed
  <2>3. csi_matrix'[nr_idx'][nc_idx'][k'].imag = Signed10(Field(csi_addr', Taken' - 1))
    BY <1>2, <1>5, <1>6, <1>9
  <2> QED  BY <1>1, <1>2, <2>1, <2>2, <2>3 DEF DecodedSoFar
<1> QED  BY <1>1, <1>2, <1>10, <1>11, <1>12 DEF IInv

\* The loops reach the element whose number is one higher.
LEMMA NextCellNo ==
  ASSUME TypeOK, pc # "idle", NextCell, nr' = nr, nc' = nc
  PROVE  FieldNo(nr_idx, nc_idx, k)' = FieldNo(nr_idx, nc_idx, k) + 2
<1>1. /\ nr \in Nat /\ nc \in Nat /\ nr_idx \in Nat /\ nc_idx \in Nat /\ k \in Nat
  BY DimAssumption DEF TypeOK
<1> DEFINE A == k * nc + nc_idx
<1>2. A \in Nat /\ k * nc \in Nat
  BY <1>1, TimesMono
<1>3. FieldNo(nr_idx, nc_idx, k) = 2 * (A * nr + nr_idx)
  BY DEF FieldNo
<1>4. FieldNo(nr_idx, nc_idx, k)' = 2 * ((k' * nc + nc_idx') * nr + nr_idx')
  BY DEF FieldNo
<1>5. A * nr \in Nat /\ (A + 1) * nr = A * nr + nr
  <2> HIDE DEF A
  <2> QED  BY <1>1, <1>2
<1>6. CASE nr_idx + 1 # nr
  <2>1. nr_idx' = nr_idx + 1 /\ nc_idx' = nc_idx /\ k' = k
    BY <1>6 DEF NextCell, Carry
  <2>2. FieldNo(nr_idx, nc_idx, k)' = 2 * (A * nr + (nr_idx + 1))
    BY <1>4, <2>1
  <2> DEFINE E == A * nr
  <2> HIDE DEF A, E
  <2> QED  BY <1>1, <1>3, <1>5, <2>2 DEF E
<1>7. CASE nr_idx + 1 = nr /\ nc_idx + 1 # nc
  <2>1. nr_idx' = 0 /\ nc_idx' = nc_idx + 1 /\ k' = k
    BY <1>7 DEF NextCell, Carry
  <2>2. k * nc + (nc_idx + 1) = A + 1
    BY <1>1, <1>2
  <2>3. FieldNo(nr_idx, nc_idx, k)' = 2 * ((A + 1) * nr + 0)
    BY <1>4, <2>1, <2>2
  <2> HIDE DEF A
  <2> QED  BY <1>1, <1>3, <1>5, <1>7, <2>3
<1>8. CASE nr_idx + 1 = nr /\ nc_idx + 1 = nc
  <2>1. nr_idx' = 0 /\ nc_idx' = 0 /\ k' = k + 1
    BY <1>8 DEF NextCell, Carry
  <2>2. (k + 1) * nc = k * nc + nc
    BY <1>1
  <2>3. (k + 1) * nc + 0 = A + 1
    BY <1>1, <1>2, <1>8, <2>2
  <2>4. FieldNo(nr_idx, nc_idx, k)' = 2 * ((A + 1) * nr + 0)
    BY <1>4, <2>1, <2>3
  <2> HIDE DEF A
  <2> QED  BY <1>1, <1>3, <1>5, <1>8, <2>4
<1> QED  BY <1>6, <1>7, <1>8

\* The loops stay inside the report, and an element they have passed was
\* passed before or is the one just written.
LEMMA NextCellPassed ==
  ASSUME TypeOK, pc # "idle", NextCell, nr' = nr, nc' = nc
  PROVE  /\ nr_idx' \in 0 .. nr - 1 /\ nc_idx' \in 0 .. nc - 1 /\ k' \in 0 .. num_tones
         /\ k' = num_tones => nr_idx' = 0 /\ nc_idx' = 0
         /\ \A r \in 0 .. nr - 1, c \in 0 .. nc - 1, t \in 0 .. num_tones - 1 :
              Passed(r, c, t)' => Passed(r, c, t) \/ (r = nr_idx /\ c = nc_idx /\ t = k)
<1>1. /\ nr \in Nat /\ nc \in Nat /\ num_tones \in Nat
      /\ nr_idx \in 0 .. nr - 1 /\ nc_idx \in 0 .. nc - 1 /\ k \in 0 .. num_tones - 1
  BY DimAssumption DEF TypeOK
<1>2. CASE nr_idx + 1 # nr
  BY <1>1, <1>2 DEF NextCell, Carry, Passed
<1>3. CASE nr_idx + 1 = nr /\ nc_idx + 1 # nc
  BY <1>1, <1>3 DEF NextCell, Carry, Passed
<1>4. CASE nr_idx + 1 = nr /\ nc_idx + 1 = nc
  BY <1>1, <1>4 DEF NextCell, Carry, Passed
<1> QED  BY <1>2, <1>3, <1>4

\* Taking the real part, which completes an element, preserves the invariant.
LEMMA TakeRealIInv == IInv /\ TakeReal => IInv'
<1> SUFFICES ASSUME IInv, TakeReal PROVE IInv'
  OBVIOUS
<1> USE DimAssumption
<1>1. /\ TypeOK /\ RegisterInv /\ DecodedSoFar /\ calls > 0
      /\ pc = "real" /\ pc # "idle" /\ NextCell
      /\ pc' = IF k' < num_tones THEN "imag" ELSE "idle"
  BY DEF IInv, TakeReal, MoreTones
<1>2. UNCHANGED <<csi_addr, nr, nc, num_tones, calls>>
  BY DEF TakeReal, args
<1>3. /\ idx' = Refill.idx /\ bits_left' = Refill.bits - 10
      /\ current_data' = Refill.data \div 2^10
  BY DEF TakeReal, Consume
<1>4. Drained(Refill)
  BY <1>1, OneTake
<1>5. /\ Taken \in Nat /\ Taken' = Taken + 1
      /\ Taken = FieldNo(nr_idx, nc_idx, k) + 1
  <2> DEFINE F == FieldNo(nr_idx, nc_idx, k)
  <2>1. F \in Nat
    BY <1>1, TakenBound
  <2>2. F' = F + 2
    BY <1>1, <1>2, NextCellNo
  <2>3. Taken = F + 1 /\ Taken' = F' + 0
    BY <1>1 DEF Taken
  <2> HIDE DEF F
  <2>4. Taken \in Nat /\ Taken' = Taken + 1 /\ Taken = F + 1
    BY <2>1, <2>2, <2>3
  <2> QED  BY <2>4 DEF F
<1>6. /\ nr_idx' \in 0 .. nr - 1 /\ nc_idx' \in 0 .. nc - 1 /\ k' \in 0 .. num_tones
      /\ k' = num_tones => nr_idx' = 0 /\ nc_idx' = 0
      /\ \A r \in 0 .. nr - 1, c \in 0 .. nc - 1, t \in 0 .. num_tones - 1 :
           Passed(r, c, t)' => Passed(r, c, t) \/ (r = nr_idx /\ c = nc_idx /\ t = k)
  BY <1>1, <1>2, NextCellPassed
<1> DEFINE v == bit_convert(Refill.data % 2^10, 10)
<1>7. v = Signed10(Field(csi_addr, Taken)) /\ v \in Int
  BY <1>1, LowBits
<1>8. /\ nr_idx \in Rx /\ nc_idx \in Tx /\ k \in Tone
      /\ csi_matrix \in Matrix
  BY <1>1 DEF TypeOK, Rx, Tx, Tone, Matrix
<1>9. csi_matrix' = [csi_matrix EXCEPT ![nr_idx][nc_idx][k].real = v]
  BY DEF TakeReal
<1> HIDE DEF v
<1>10. /\ csi_matrix' \in Matrix
       /\ csi_matrix'[nr_idx][nc_idx][k]
            = [real |-> v, imag |-> csi_matrix[nr_idx][nc_idx][k].imag]
       /\ \A r \in Rx, c \in Tx, s \in Tone :
            r # nr_idx \/ c # nc_idx \/ s # k =>
              csi_matrix'[r][c][s] = csi_matrix[r][c][s]
  <2> DEFINE W == PutReal(csi_matrix, nr_idx, nc_idx, k, v)
  <2>1. /\ W \in Matrix
        /\ W[nr_idx][nc_idx][k] = [real |-> v, imag |-> csi_matrix[nr_idx][nc_idx][k].imag]
        /\ \A r \in Rx, c \in Tx, s \in Tone :
             r # nr_idx \/ c # nc_idx \/ s # k => W[r][c][s] = csi_matrix[r][c][s]
    BY <1>7, <1>8, SetReal
  <2>2. csi_matrix' = W
    BY <1>9 DEF PutReal
  <2> HIDE DEF W
  <2> QED  BY <2>1, <2>2
<1>11. TypeOK'
  <2>1. idx' \in Nat /\ bits_left' \in 0 .. 16 /\ current_data' \in Nat
    BY <1>3, <1>4 DEF Drained
  <2>2. csi_matrix' \in [Rx -> [Tx -> [Tone -> COMPLEX]]]
    BY <1>10 DEF Matrix
  <2> QED  BY <1>1, <1>2, <1>6, <2>1, <2>2 DEF TypeOK
<1>12. RegisterInv'
  BY <1>1, <1>2, <1>3, <1>4, <1>5 DEF RegisterInv, Drained
<1>13. \A r, c, t : Element(r, c, t)' = Element(r, c, t)
  BY <1>2 DEF Element, FieldNo
<1>14. csi_matrix'[nr_idx][nc_idx][k] = Element(nr_idx, nc_idx, k)
  <2>1. csi_matrix[nr_idx][nc_idx][k].imag = Signed10(Field(csi_addr, Taken - 1))
    BY <1>1 DEF DecodedSoFar
  <2>2. Taken - 1 = FieldNo(nr_idx, nc_idx, k)
    <3>1. FieldNo(nr_idx, nc_idx, k) \in Nat
      BY <1>1, TakenBound
    <3> QED  BY <1>5, <3>1
  <2> QED  BY <1>5, <1>7, <1>10, <2>1, <2>2 DEF Element
<1>15. DecodedSoFar'
  <2>1. ASSUME NEW r \in 0 .. nr - 1, NEW c \in 0 .. nc - 1, NEW t \in 0 .. num_tones - 1,
               Passed(r, c, t)'
        PROVE  csi_matrix'[r][c][t] = Element(r, c, t)
    <3>1. r \in Rx /\ c \in Tx /\ t \in Tone
      BY <1>1 DEF TypeOK, Rx, Tx, Tone
    <3>2. CASE r = nr_idx /\ c = nc_idx /\ t = k
      BY <1>14, <3>2
    <3>3. CASE r # nr_idx \/ c # nc_idx \/ t # k
      <4>1. Passed(r, c, t)
        BY <1>6, <2>1, <3>3
      <4>2. csi_matrix[r][c][t] = Element(r, c, t)
        BY <1>1, <4>1 DEF DecodedSoFar
      <4> QED  BY <1>10, <3>1, <3>3, <4>2
    <3> QED  BY <3>2, <3>3
  <2>2. pc' # "real"
    BY <1>1
  <2> QED  BY <1>2, <1>13, <2>1, <2>2 DEF DecodedSoFar
<1>16. pc' = "idle" => k' = num_tones' /\ nc_idx' = 0 /\ nr_idx' = 0
  BY <1>1, <1>2, <1>6 DEF TypeOK
<1> QED  BY <1>1, <1>2, <1>11, <1>12, <1>15, <1>16 DEF IInv

\* The invariant is inductive.
LEMMA NextIInv == IInv /\ [Next]_vars => IInv'
<1> SUFFICES ASSUME IInv, [Next]_vars PROVE IInv'
  OBVIOUS
<1>1. CASE Call       BY <1>1, CallIInv
<1>2. CASE TakeImag   BY <1>2, TakeImagIInv
<1>3. CASE TakeReal   BY <1>3, TakeRealIInv
<1>4. CASE UNCHANGED vars
  <2>1. /\ UNCHANGED <<csi_addr, nr, nc, num_tones, k, nc_idx, nr_idx>>
        /\ UNCHANGED <<idx, bits_left, current_data, csi_matrix, pc, calls>>
    BY <1>4 DEF vars, args, loop, reg
  <2>2. TypeOK'
    BY <2>1 DEF IInv, TypeOK
  <2>3. Taken' = Taken
    BY <2>1 DEF Taken, FieldNo
  <2>4. RegisterInv'
    BY <2>1, <2>3 DEF IInv, RegisterInv
  <2>5. \A r, c, t : Element(r, c, t)' = Element(r, c, t) /\ (Passed(r, c, t)' <=> Passed(r, c, t))
    BY <2>1 DEF Element, FieldNo, Passed
  <2>6. DecodedSoFar'
    BY <2>1, <2>3, <2>5 DEF IInv, DecodedSoFar
  <2> QED  BY <2>1, <2>2, <2>4, <2>6 DEF IInv
<1> QED  BY <1>1, <1>2, <1>3, <1>4 DEF Next

\* The inductive invariant holds in every reachable state.
THEOREM IInvHolds == Spec => []IInv
<1>1. Init => IInv
  BY InitIInv
<1>2. IInv /\ [Next]_vars => IInv'
  BY NextIInv
<1> QED  BY <1>1, <1>2, PTL DEF Spec
-----------------------------------------------------------------------------
(***************************************************************************)
(* The properties.                                                         *)
(***************************************************************************)

\* fill_csi_matrix keeps its variables in their C types and never writes
\* outside csi_matrix, for every extent of the matrix and every buffer.
THEOREM TypeCorrect == Spec => []TypeOK
<1>1. IInv => TypeOK
  BY DEF IInv
<1> QED  BY <1>1, IInvHolds, PTL

\* The shift register holds exactly the fetched and unused bits, always.
THEOREM RegisterCorrect == Spec => []RegisterInv
<1>1. IInv => RegisterInv
  BY DEF IInv
<1> QED  BY <1>1, IInvHolds, PTL

\* The loops have passed every element when fill_csi_matrix returns.
LEMMA AllPassed ==
  ASSUME IInv, pc = "idle",
         NEW r \in 0 .. nr - 1, NEW c \in 0 .. nc - 1, NEW t \in 0 .. num_tones - 1
  PROVE  Passed(r, c, t)
<1>1. nr \in Nat /\ nc \in Nat /\ num_tones \in Nat
  BY DimAssumption DEF IInv, TypeOK
<1>2. ~ (0 \in {nr, nc, num_tones})
  BY <1>1
<1>3. k = num_tones
  BY <1>2 DEF IInv
<1> QED  BY <1>1, <1>3 DEF Passed

\* What fill_csi_matrix has computed when it returns is the matrix that the
\* hardware packed into the report, whatever the matrix held before: for every
\* report, every dimension and any number of earlier reports.
THEOREM DecodedCorrect == Spec => []Decoded
<1>1. IInv => Decoded
  <2> SUFFICES ASSUME IInv, pc = "idle",
                      NEW r \in 0 .. nr - 1, NEW c \in 0 .. nc - 1,
                      NEW t \in 0 .. num_tones - 1
               PROVE  csi_matrix[r][c][t] = Element(r, c, t)
    BY DEF Decoded
  <2>1. Passed(r, c, t)
    BY AllPassed
  <2> QED  BY <2>1 DEF IInv, DecodedSoFar
<1> QED  BY <1>1, IInvHolds, PTL

\* fill_csi_matrix reads no byte beyond the report: at most one past the CSI,
\* two when the report has no element.
THEOREM ReadsInReportCorrect == Spec => []ReadsInReport
<1>1. IInv => ReadsInReport
  <2> SUFFICES ASSUME IInv, calls > 0
               PROVE  idx <= CsiLen(nr, nc, num_tones)
                             + (IF 0 \in {nr, nc, num_tones} THEN 2 ELSE 1)
    BY DEF ReadsInReport
  <2> DEFINE P == (num_tones * nc) * nr
  <2>1. nr \in Nat /\ nc \in Nat /\ num_tones \in Nat
    BY DimAssumption DEF IInv, TypeOK
  <2>2. CsiLen(nr, nc, num_tones) = (20 * P + 7) \div 8
    BY DEF CsiLen
  <2>3. /\ 8 * idx = 10 * Taken + bits_left /\ idx \in Nat /\ bits_left \in 0 .. 16
        /\ bits_left <= 14 \/ Taken = 0
    BY DEF IInv, RegisterInv, TypeOK
  <2>4. P \in Nat
    <3>1. num_tones * nc \in Nat  BY <2>1, TimesMono
    <3> QED  BY <2>1, <3>1, TimesMono
  <2>5. CASE pc = "idle" /\ 0 \in {nr, nc, num_tones}
    <3>1. k \in Nat /\ nc_idx = 0 /\ nr_idx = 0 /\ k <= num_tones
      BY <2>1, <2>5 DEF IInv, TypeOK
    <3>2. Taken = 2 * ((k * nc + 0) * nr + 0) + 0
      BY <2>5, <3>1 DEF Taken, FieldNo
    <3>3. (k * nc + 0) * nr = 0
      <4>1. CASE nr = 0
        <5>1. k * nc + 0 \in Nat  BY <2>1, <3>1, TimesMono
        <5> DEFINE A == k * nc + 0
        <5> HIDE DEF A
        <5>2. A * 0 = 0  BY <5>1 DEF A
        <5> QED  BY <4>1, <5>2 DEF A
      <4>2. CASE nc = 0  BY <2>1, <3>1, <4>2
      <4>3. CASE num_tones = 0  BY <2>1, <3>1, <4>3
      <4> QED  BY <2>5, <4>1, <4>2, <4>3
    <3>4. Taken = 0  BY <3>2, <3>3
    <3> HIDE DEF P
    <3> QED  BY <2>2, <2>3, <2>4, <2>5, <3>4
  <2>6. CASE pc = "idle" /\ ~ (0 \in {nr, nc, num_tones})
    <3>1. k = num_tones /\ nc_idx = 0 /\ nr_idx = 0
      BY <2>6 DEF IInv
    <3>2. Taken = 2 * ((num_tones * nc + 0) * nr + 0) + 0
      BY <2>6, <3>1 DEF Taken, FieldNo
    <3>3. num_tones * nc \in Nat /\ num_tones * nc + 0 = num_tones * nc
      BY <2>1, TimesMono
    <3>4. Taken = 2 * P
      BY <2>4, <3>2, <3>3
    <3>5. P >= 1
      <4>1. num_tones * nc >= 1 /\ num_tones * nc \in Nat
        BY <2>1, <2>6
      <4> DEFINE B == num_tones * nc
      <4> HIDE DEF B
      <4>2. B * nr >= 1  BY <2>1, <2>6, <4>1 DEF B
      <4> QED  BY <4>2 DEF B
    <3> HIDE DEF P
    <3> QED  BY <2>2, <2>3, <2>4, <2>6, <3>4, <3>5
  <2>7. CASE pc # "idle"
    <3>1. Taken \in Nat /\ Taken + 1 <= 2 * P
      BY <2>7, TakenBound DEF IInv
    <3>2. ~ (0 \in {nr, nc, num_tones})
      BY <2>1, <2>7 DEF IInv, TypeOK
    <3> HIDE DEF P
    <3> QED  BY <2>2, <2>3, <2>4, <3>1, <3>2
  <2> QED  BY <2>5, <2>6, <2>7
<1> QED  BY <1>1, IInvHolds, PTL
=============================================================================
