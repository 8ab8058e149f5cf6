----------------------------- MODULE CsiUnpack -----------------------------
(***************************************************************************)
(* fill_csi_matrix: the decoder both receivers run on every report.  The   *)
(* hardware packs the channel matrix H as a stream of 10-bit two's         *)
(* complement numbers, least significant bit first, imaginary part before  *)
(* real part, receive antenna fastest, tone slowest.  The decoder shifts   *)
(* the stream through a register (current_data, bits_left) that is topped  *)
(* up 16 bits at a time.                                                   *)
(*                                                                         *)
(* csi_matrix is a global of the program and is never cleared, so the      *)
(* module runs call after call over the same matrix.                       *)
(***************************************************************************)
EXTENDS Integers

CONSTANTS
  MaxNr, MaxNc, MaxTones,  \* extents of csi_matrix: 3, 3 and 114 in the code
  BufLen,                  \* bytes of buf_addr from csi_addr on
  Buffers,                 \* contents of those bytes that the reports carry
  MaxCalls                 \* bound: number of reports decoded

Byte == 0 .. 255

\* csi_len of a report with these dimensions: 20 bits per matrix element.
CsiLen(r, c, t) == (20 * (t * c * r) + 7) \div 8

ASSUME DimAssumption ==
  /\ MaxNr \in 1 .. 255 /\ MaxNc \in 1 .. 255 /\ MaxTones \in 1 .. 255
  /\ BufLen \in Nat
  /\ \A r \in 0 .. MaxNr, c \in 0 .. MaxNc, t \in 0 .. MaxTones :
        CsiLen(r, c, t) + 2 <= BufLen
ASSUME BufAssumption == Buffers \subseteq [0 .. BufLen - 1 -> Byte]
ASSUME CallsAssumption == MaxCalls \in Nat

VARIABLES
  csi_addr, nr, nc, num_tones,   \* arguments of the call
  k, nc_idx, nr_idx,             \* loop indices
  idx, bits_left, current_data,  \* read position and shift register
  csi_matrix,                    \* the output matrix
  pc,                            \* "idle", "imag" or "real"
  calls                          \* calls made so far

args == <<csi_addr, nr, nc, num_tones>>
loop == <<k, nc_idx, nr_idx>>
reg  == <<idx, bits_left, current_data>>
vars == <<args, loop, reg, csi_matrix, pc, calls>>

Rx == 0 .. MaxNr - 1
Tx == 0 .. MaxNc - 1
Tone == 0 .. MaxTones - 1
COMPLEX == [real : Int, imag : Int]
-----------------------------------------------------------------------------
(***************************************************************************)
(* The decoder's helpers.                                                  *)
(***************************************************************************)
\* Two's complement value of a maxbit-bit number.
bit_convert(data, maxbit) ==
  IF (data \div 2^(maxbit - 1)) % 2 = 1 THEN data - 2^maxbit ELSE data

\* h_data: two bytes of the stream, low byte first.
Word(b, i) == b[i] + 256 * b[i + 1]

\* The register topped up when it holds fewer than "need" bits, the new word
\* placed "shift" bits up.
TopUp(need, shift) ==
  IF bits_left - need < 0
  THEN [idx  |-> idx + 2, bits |-> bits_left + 16,
        data |-> current_data + Word(csi_addr, idx) * 2^shift]
  ELSE [idx |-> idx, bits |-> bits_left, data |-> current_data]

\* Mutants of Refill: an eager look-ahead, a forgotten shift.
RefillEager     == TopUp(11, bits_left)
RefillUnshifted == TopUp(10, 0)

\* "bits number less than 10, get next 16 bits".  bits_left is a u_int8_t
\* and current_data a u_int32_t; RegisterInv shows that neither sum reaches
\* its width, so the wrap-around is left out.
Refill == TopUp(10, bits_left)

\* Shift the 10 bits just used out of the register r.
Consume(r) ==
  /\ idx' = r.idx
  /\ bits_left' = r.bits - 10
  /\ current_data' = r.data \div 2^10

\* The three nested for loops step on; rx and tx tell whether the receive
\* loop, and with it the transmit loop, is at its end.
Carry(rx, tx) ==
  /\ nr_idx' = IF rx THEN 0 ELSE nr_idx + 1
  /\ nc_idx' = IF tx THEN 0 ELSE IF rx THEN nc_idx + 1 ELSE nc_idx
  /\ k' = IF tx THEN k + 1 ELSE k

\* Mutant of NextCell: the receive loop runs to nr inclusive.
NextCellOffByOne == Carry(nr_idx = nr, nr_idx = nr /\ nc_idx + 1 = nc)

NextCell == Carry(nr_idx + 1 = nr, nr_idx + 1 = nr /\ nc_idx + 1 = nc)

\* Mutant of MoreTones: the tone loop stops one short.
MoreTonesShort(t) == t + 1 < num_tones

\* Condition of the outer loop.
MoreTones(t) == t < num_tones
-----------------------------------------------------------------------------
(***************************************************************************)
(* The state machine.                                                      *)
(***************************************************************************)
ZeroBuf == [i \in 0 .. BufLen - 1 |-> 0]

Init ==
  /\ csi_addr = ZeroBuf /\ nr = 0 /\ nc = 0 /\ num_tones = 0
  /\ k = 0 /\ nc_idx = 0 /\ nr_idx = 0
  /\ idx = 0 /\ bits_left = 0 /\ current_data = 0
  /\ csi_matrix = [r \in Rx |-> [c \in Tx |-> [t \in Tone |-> [real |-> 0, imag |-> 0]]]]
  /\ pc = "idle" /\ calls = 0

\* Entry of fill_csi_matrix: the first 16 bits are fetched before the loops,
\* even when there is no element to decode.
Call ==
  /\ pc = "idle" /\ calls < MaxCalls
  /\ \E b \in Buffers, r \in 0 .. MaxNr, c \in 0 .. MaxNc, t \in 0 .. MaxTones :
        /\ csi_addr' = b /\ nr' = r /\ nc' = c /\ num_tones' = t
        /\ idx' = 2 /\ bits_left' = 16 /\ current_data' = Word(b, 0)
        /\ pc' = IF 0 \in {r, c, t} THEN "idle" ELSE "imag"
  /\ k' = 0 /\ nc_idx' = 0 /\ nr_idx' = 0
  /\ calls' = calls + 1
  /\ UNCHANGED csi_matrix

TakeImag ==
  /\ pc = "imag"
  /\ Consume(Refill)
  /\ csi_matrix' = [csi_matrix EXCEPT
       ![nr_idx][nc_idx][k].imag = bit_convert(Refill.data % 2^10, 10)]
  /\ pc' = "real"
  /\ UNCHANGED <<args, loop, calls>>

TakeReal ==
  /\ pc = "real"
  /\ Consume(Refill)
  /\ csi_matrix' = [csi_matrix EXCEPT
       ![nr_idx][nc_idx][k].real = bit_convert(Refill.data % 2^10, 10)]
  /\ NextCell
  /\ pc' = IF MoreTones(k') THEN "imag" ELSE "idle"
  /\ UNCHANGED <<args, calls>>

Next == Call \/ TakeImag \/ TakeReal

Spec == Init /\ [][Next]_vars
-----------------------------------------------------------------------------
(***************************************************************************)
(* What the decoder has to compute, stated on the stream itself.  A 10-bit *)
(* field starts at an even bit, so it lies within two bytes.               *)
(***************************************************************************)
Bits10(b, q, s) == ((b[q] + 256 * b[q + 1]) \div 2^s) % 1024

Field(b, j) == Bits10(b, (10 * j) \div 8, (10 * j) % 8)

Signed10(x) == IF x < 512 THEN x ELSE x - 1024

\* Number of the field that holds the imaginary part of element <<r, c, t>>.
FieldNo(r, c, t) == 2 * ((t * nc + c) * nr + r)

Element(r, c, t) ==
  [imag |-> Signed10(Field(csi_addr, FieldNo(r, c, t))),
   real |-> Signed10(Field(csi_addr, FieldNo(r, c, t) + 1))]

\* Fields taken from the stream since the call was entered.
Taken == FieldNo(nr_idx, nc_idx, k) + (IF pc = "real" THEN 1 ELSE 0)
-----------------------------------------------------------------------------
(***************************************************************************)
(* Properties.                                                             *)
(***************************************************************************)

\* Type invariant: the loop variables fit their u_int8_t, the element being
\* written lies inside csi_matrix.
TypeOK ==
  /\ csi_addr \in [0 .. BufLen - 1 -> Byte]
  /\ nr \in 0 .. MaxNr /\ nc \in 0 .. MaxNc /\ num_tones \in 0 .. MaxTones
  /\ k \in 0 .. num_tones /\ nc_idx \in 0 .. MaxNc /\ nr_idx \in 0 .. MaxNr
  /\ idx \in Nat /\ bits_left \in 0 .. 16 /\ current_data \in Nat
  /\ csi_matrix \in [Rx -> [Tx -> [Tone -> COMPLEX]]]
  /\ pc \in {"idle", "imag", "real"}
  /\ pc # "idle" => k < num_tones /\ nc_idx < nc /\ nr_idx < nr
  /\ calls \in 0 .. MaxCalls

\* Between two fields the register holds exactly the bits that were fetched
\* and not yet used, right-aligned, and they are the upper bits of the last
\* 16-bit word: nothing is lost, nothing is used twice, and the register of
\* fill_csi_matrix can never overflow its 32 bits.
RegisterInv ==
  calls > 0 =>
    /\ 8 * idx = 10 * Taken + bits_left
    /\ bits_left % 2 = 0 /\ idx % 2 = 0 /\ idx >= 2
    /\ bits_left <= 14 \/ Taken = 0
    /\ current_data = Word(csi_addr, idx - 2) \div 2^(16 - bits_left)

\* The look-ahead of fill_csi_matrix passes the end of the CSI by at most one
\* byte (two when there is no element at all), which the report always has:
\* the two bytes of buf_len follow the CSI even when the payload is empty.
ReadsInReport ==
  calls > 0 =>
    idx <= CsiLen(nr, nc, num_tones) + (IF 0 \in {nr, nc, num_tones} THEN 2 ELSE 1)

\* The loops have passed element <<r, c, t>>.
Passed(r, c, t) ==
  \/ t < k
  \/ t = k /\ c < nc_idx
  \/ t = k /\ c = nc_idx /\ r < nr_idx

\* Every element the loops have passed, and the imaginary part written last,
\* is what the hardware packed for it.
DecodedSoFar ==
  /\ \A r \in 0 .. nr - 1, c \in 0 .. nc - 1, t \in 0 .. num_tones - 1 :
       Passed(r, c, t) => csi_matrix[r][c][t] = Element(r, c, t)
  /\ pc = "real" => csi_matrix[nr_idx][nc_idx][k].imag
                      = Signed10(Field(csi_addr, Taken - 1))

\* When fill_csi_matrix returns, every element of the report's nr x nc x
\* num_tones matrix is the number the hardware packed for that antenna pair
\* and tone: no value of an earlier report remains, whatever its dimensions.
Decoded ==
  pc = "idle" =>
    \A r \in 0 .. nr - 1, c \in 0 .. nc - 1, t \in 0 .. num_tones - 1 :
      csi_matrix[r][c][t] = Element(r, c, t)

\* The inductive invariant.
IInv ==
  /\ TypeOK
  /\ RegisterInv
  /\ DecodedSoFar
  /\ pc = "idle" => /\ 0 \in {nr, nc, num_tones} \/ k = num_tones
                    /\ nc_idx = 0 /\ nr_idx = 0
  /\ pc # "idle" => calls > 0
=============================================================================
