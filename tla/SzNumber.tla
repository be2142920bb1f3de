------------------------------ MODULE SzNumber ------------------------------
(***************************************************************************)
(* The variable-length integers of a 7z header: how AaeSevenZ.cpp writes   *)
(* them (putNum, for every count and size of buildHeader) and how the LZMA *)
(* SDK that opens the archive again reads them (ReadNumber).               *)
(*                                                                         *)
(* A number is a first byte, whose leading ones count the bytes that       *)
(* follow and whose other bits are the top of the number, and those bytes. *)
(* The header is built whole and read when the archive is opened.          *)
(***************************************************************************)
EXTENDS Integers, Sequences, FiniteSets

CONSTANTS
  Value,      \* the numbers that are written
  Most,       \* bound: the bytes that may follow a first byte (8 in the code)
  MaxNumbers  \* bound: the numbers of a header

\* The last conjunct is a fact of arithmetic that no prover at hand has.
ASSUME NumbersOK ==
  /\ Value \subseteq Nat
  /\ Most \in 1..8
  /\ MaxNumbers \in Nat
  /\ \A n \in 0..Most : 256^n \in Nat /\ 256^n >= (IF n = 0 THEN 1 ELSE 256)

Byte == 0..255

VARIABLES
  written,    \* the numbers given to putNum
  header,     \* the bytes of the header
  sealed,     \* is the header complete?
  read,       \* the numbers ReadNumber has returned
  at,         \* its position
  broken      \* ran out of bytes: SZ_ERROR_ARCHIVE

vars == <<written, header, sealed, read, at, broken>>

TypeOK ==
  /\ written \in Seq(Value)
  /\ header \in Seq(Byte)
  /\ sealed \in BOOLEAN
  /\ read \in Seq(Nat)
  /\ at \in 1..Len(header) + 1
  /\ broken \in BOOLEAN

Init ==
  /\ written = <<>> /\ header = <<>>
  /\ sealed = FALSE
  /\ read = <<>> /\ at = 1
  /\ broken = FALSE

-----------------------------------------------------------------------------
(* The writer.                                                             *)

\* Slip: one bit too few left to the first byte.
FollowingLess(v) == Cardinality({i \in 0..Most - 1 : (v \div 256) \div 256^i # 0})

\* The rounds of the loop: v >> 7, then >> 8 until nothing is left.
Following(v) == Cardinality({i \in 0..Most - 1 : (v \div 128) \div 256^i # 0})

\* Slip: the top of the number not masked.
FirstUnmasked(v, n) == (256 - 2^(8 - n)) + v \div 256^n

\* Slip: the mask of the top one bit too wide, over the zero.
FirstWide(v, n) == IF n >= 8 THEN 255 ELSE (256 - 2^(8 - n)) + ((v \div 256^n) % 2^(8 - n))

\* n leading ones, a zero, and what fits of the number above its n low bytes.
First(v, n) == IF n >= 8 THEN 255 ELSE (256 - 2^(8 - n)) + ((v \div 256^n) % 2^(7 - n))

\* The low bytes follow, the highest first.
PutNum(v) == <<First(v, Following(v))>>
             \o [i \in 1..Following(v) |-> (v \div 256^(Following(v) - i)) % 256]

Put(v) ==
  /\ ~sealed
  /\ Len(written) < MaxNumbers
  /\ written' = Append(written, v)
  /\ header' = header \o PutNum(v)
  /\ UNCHANGED <<sealed, read, at, broken>>

Seal ==
  /\ ~sealed
  /\ sealed' = TRUE
  /\ UNCHANGED <<written, header, read, at, broken>>

-----------------------------------------------------------------------------
(* The reader.                                                             *)

\* The leading ones of a byte.
Ones(byte) == Cardinality({m \in 1..8 : byte >= 256 - 2^(8 - m)})

\* The bytes that follow are the low ones, the lowest first; what is left of
\* the first byte goes above them.
Number(h, p) ==
  LET k      == Ones(h[p])
      Low(i) == IF i <= k THEN h[p + i] * 256^(i - 1) ELSE 0
  IN  Low(1) + Low(2) + Low(3) + Low(4) + Low(5) + Low(6) + Low(7) + Low(8)
      + (IF k >= 8 THEN 0 ELSE (h[p] % 2^(7 - k)) * 256^k)

Get ==
  /\ sealed /\ ~broken
  /\ at <= Len(header)
  /\ IF at + Ones(header[at]) <= Len(header)
     THEN /\ read' = Append(read, Number(header, at))
          /\ at' = at + Ones(header[at]) + 1
          /\ UNCHANGED broken
     ELSE broken' = TRUE /\ UNCHANGED <<read, at>>
  /\ UNCHANGED <<written, header, sealed>>

Next == Seal \/ Get \/ \E v \in Value : Put(v)

Spec == Init /\ [][Next]_vars

-----------------------------------------------------------------------------
(* Properties.                                                             *)

\* Whatever the numbers are, the reader takes the bytes of each of them and
\* no other: it finds as many numbers as were written, and the header ends
\* where they end (the fields after a number are read from their place).
ReaderInStep ==
  /\ ~broken
  /\ Len(read) <= Len(written)
  /\ sealed /\ at > Len(header) => Len(read) = Len(written)

\* A number of up to 14 bits is read as it was written (putNum).
SmallNumbersReadBack ==
  \A i \in 1..Len(read) : written[i] < 2^14 => read[i] = written[i]

\* "byte patterns verified against real 7za output" (above putNum): what is
\* read is what was written.
NumbersReadBack == \A i \in 1..Len(read) : read[i] = written[i]

-----------------------------------------------------------------------------
(* The inductive invariant behind ReaderInStep and SmallNumbersReadBack:   *)
(* where each number starts in the header.                                 *)

Framed(start) ==
  /\ start[1] = 1 /\ start[Len(written) + 1] = Len(header) + 1
  /\ \A i \in 1..Len(written) :
       /\ start[i + 1] = start[i] + Following(written[i]) + 1
       /\ start[i] >= 1 /\ start[i + 1] <= Len(header) + 1
       /\ \A j \in 1..Following(written[i]) + 1 :
            header[start[i] + j - 1] = PutNum(written[i])[j]

NInv ==
  /\ TypeOK
  /\ ~broken
  /\ ~sealed => read = <<>> /\ at = 1
  /\ Len(read) <= Len(written)
  /\ \E start \in [1..Len(written) + 1 -> Nat] : Framed(start) /\ at = start[Len(read) + 1]
  /\ SmallNumbersReadBack
=============================================================================
