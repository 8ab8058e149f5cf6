--------------------------- MODULE MCInsertQuery ---------------------------
(***************************************************************************)
(* Buffers for TLC: mixed contents in which neighbouring fields differ in  *)
(* every bit position, a lone sign bit in the first field of either part,  *)
(* and the longest numbers, -512 in every field.                           *)
(***************************************************************************)
EXTENDS InsertQuery

Positions == 0 .. BufLen - 1
OneBit(p)  == [i \in Positions |-> IF i = p \div 8 THEN 2^(p % 8) ELSE 0]
Mixed(a)   == [i \in Positions |-> (a * (i + 1) + (i * i)) % 256]
Lowest     == [i \in Positions |-> <<0, 2, 8, 32, 128>>[(i % 5) + 1]]

Few == {Mixed(a) : a \in {37, 201}} \cup {OneBit(p) : p \in {9, 19}} \cup {Lowest}
=============================================================================
