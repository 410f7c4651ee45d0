------------------------------- MODULE ByteIO -------------------------------
(***************************************************************************)
(* ByteReader and ByteWriter: numbers as bytes, in both orders, of types   *)
(* of S bytes read or written as B <= S bytes.  A byte has Base values,    *)
(* 256 in the code.                                                        *)
(*                                                                         *)
(* Types of eight bytes are left out: the program has none, and 1 << n in  *)
(* SignExtend is an int's shift, undefined for the widths they would add.  *)
(***************************************************************************)
EXTENDS Integers, SequencesExt

CONSTANTS
  Base,
  MaxSize    \* the largest type, in bytes

ASSUME ByteAssumption ==
  /\ Base \in Nat /\ Base >= 2 /\ Base % 2 = 0
  /\ MaxSize \in Nat \ {0}

VARIABLES
  item,    \* the number written last and its type, <<>> before
  buffer   \* its bytes

byteVars == <<item, buffer>>

Unsigned(S) == 0..(Base^S - 1)
Signed(S) == (-(Base^S \div 2))..(Base^S \div 2 - 1)

-----------------------------------------------------------------------------
(* Unsigned types.                                                         *)

ReadBigEndian(data, B) ==
  MapThenSumSet(LAMBDA i : data[i + 1] * Base^(B - 1 - i), 0..(B - 1))

ReadLittleEndian(data, B) ==
  MapThenSumSet(LAMBDA i : data[i + 1] * Base^i, 0..(B - 1))

(* An assignment to a byte keeps the lower bits. *)
WriteBigEndian(val, B) == [i \in 1..B |-> (val \div Base^(B - i)) % Base]

WriteLittleEndian(val, B) == [i \in 1..B |-> (val \div Base^(i - 1)) % Base]

(* The specialised readers and writers for 2 and 4 bytes, in big-endian order. *)
Read2(data) == data[1] * Base + data[2]
Read4(data) == data[1] * Base^3 + data[2] * Base^2 + data[3] * Base + data[4]
Write2(val) == <<(val \div Base) % Base, val % Base>>
Write4(val) == <<(val \div Base^3) % Base, (val \div Base^2) % Base, (val \div Base) % Base, val % Base>>

-----------------------------------------------------------------------------
(* Signed types.                                                           *)

(* Ones above the B bytes when the highest of their bits is set. *)
SignExtendNot(val, B, S) == val
SignExtend(val, B, S) ==
  IF val \div Base^(B - 1) >= Base \div 2 THEN Base^S - Base^B + val ELSE val

(* The highest bit is masked out, and put back as the least value. *)
ReinterpretAsSigned(val, S) ==
  LET highest == Base^S \div 2
  IN  IF val >= highest THEN (val - highest) - highest ELSE val

ReinterpretAsUnsigned(val, S) == val % Base^S

ToSignedType(val, B, S) ==
  ReinterpretAsSigned(IF B < S THEN SignExtend(val, B, S) ELSE val, S)

-----------------------------------------------------------------------------
(* Types.                                                                  *)

Types == {t \in [S : 1..MaxSize, B : 1..MaxSize, signed : BOOLEAN, big : BOOLEAN] : t.B <= t.S}

(* The values B bytes can hold. *)
ValuesOf(t) == IF t.signed THEN Signed(t.B) ELSE Unsigned(t.B)

Ordered(t, bytes) == IF t.big THEN bytes ELSE Reverse(bytes)

(* Numbers of two and of four bytes have writers and readers of their own. *)
Write(t, val) ==
  LET u == IF t.signed THEN ReinterpretAsUnsigned(val, t.S) ELSE val
  IN  CASE t.B = 2 -> Ordered(t, Write2(u))
        [] t.B = 4 -> Ordered(t, Write4(u))
        [] OTHER -> IF t.big THEN WriteBigEndian(u, t.B) ELSE WriteLittleEndian(u, t.B)

Read(t, data) ==
  LET u == CASE t.B = 2 -> Read2(Ordered(t, data))
             [] t.B = 4 -> Read4(Ordered(t, data))
             [] OTHER -> IF t.big THEN ReadBigEndian(data, t.B) ELSE ReadLittleEndian(data, t.B)
  IN  IF t.signed THEN ToSignedType(u, t.B, t.S) ELSE u

ByteInit == item = <<>> /\ buffer = <<>>

Store(t, val) == item' = [type |-> t, val |-> val] /\ buffer' = Write(t, val)

ByteNext == \E t \in Types : \E val \in ValuesOf(t) : Store(t, val)

-----------------------------------------------------------------------------
(* Properties.                                                             *)

(* Every number of every type reads back as it was written, in either order,
   also when it is negative and the bytes are fewer than the type's; what is
   written are bytes, the highest at the end that the order says. *)
ReadsBack ==
  item # <<>> =>
    LET t == item.type
    IN  /\ Read(t, buffer) = item.val
        /\ \A k \in 1..t.B : buffer[k] \in 0..(Base - 1)
        /\ buffer[IF t.big THEN 1 ELSE t.B] = (item.val % Base^t.B) \div Base^(t.B - 1)
=============================================================================
