------------------------------ MODULE Conversions ------------------------------
(***************************************************************************)
(* How replies are turned into what a client reads: the packed dates and   *)
(* the property ids of src/src/helper.rs.  Its rate features are those of  *)
(* module RateFeatures.                                                    *)
(*                                                                         *)
(* A date is <<year, month, day>>; how its digits are written is left out. *)
(* A byte of a property id is a number; a text is a sequence of bytes.     *)
(***************************************************************************)
EXTENDS Integers, Sequences, SequencesExt

-----------------------------------------------------------------------------
(* Dates                                                                    *)

LeapYear(y) == y % 4 = 0 /\ (y % 100 # 0 \/ y % 400 = 0)

\* NaiveDate::from_ymd_opt of chrono.
ValidDate(y, m, d) ==
  /\ m \in 1 .. 12
  /\ d \in 1 .. (CASE m \in {4, 6, 9, 11} -> 30
                   [] m = 2               -> (IF LeapYear(y) THEN 29 ELSE 28)
                   [] OTHER               -> 31)

\* The backend packs the years since its current year, the month and the day.
Pack(when, current_year) ==
  (when[1] - current_year) * 512 + (when[2] - 1) * 32 + when[3] - 1

\* Variant: a month that counts from zero.
MonthFromZero(packed) == (packed \div 32) % 16

\* Three bits, four bits and five bits of a u16; month and day count from one.
YearOffset(packed) == (packed \div 512) % 8
Month(packed) == ((packed \div 32) % 16) + 1
Day(packed) == (packed % 32) + 1

NoDate == <<>>

\* What is written for a packed date, or NoDate for an error.
write_packed_date(packed, current_year) ==
  LET y == current_year + YearOffset(packed)
      m == Month(packed)
      d == Day(packed)
  IN  IF ValidDate(y, m, d) THEN <<y, m, d>> ELSE NoDate

-----------------------------------------------------------------------------
(* Property ids                                                             *)

Marker == 240               \* 0xF0 in the seventh byte: a short text
Versions == {1, 2, 3, 4, 5, 7}

\* The characters of ids: "property IDs are printable ASCII" (write_quoted_property_id).
\* Bytes that are no UTF-8 are repaired by the first of the two converters alone.
Printable == 32 .. 126

Zeros(n) == [i \in 1 .. n |-> 0]

\* Bytes up to the first zero.
BeforeZero(s) ==
  LET zero == SelectInSeq(s, LAMBDA b : b = 0)
  IN  IF zero = 0 THEN s ELSE SubSeq(s, 1, zero - 1)

\* A text of at most fifteen bytes, as the backend lays it out in sixteen.
ShortId(text) ==
  LET padded == text \o Zeros(15 - Len(text))
  IN  SubSeq(padded, 1, 6) \o <<Marker>> \o SubSeq(padded, 7, 15)

\* Variant: the right part is read from the marker on.
bytes_to_property_id_marker(data) ==
  IF Len(data) >= 7 /\ data[7] = Marker
  THEN BeforeZero(SubSeq(data, 1, 6)) \o BeforeZero(SubSeq(data, 7, Len(data)))
  ELSE <<>>

(* A short text on both sides of its marker, a UUID of sixteen bytes (its   *)
(* bytes stand for its digits), or nothing.                                 *)
bytes_to_property_id(data) ==
  IF Len(data) < 7 THEN <<>>
  ELSE IF data[7] = Marker
       THEN BeforeZero(SubSeq(data, 1, 6)) \o BeforeZero(SubSeq(data, 8, Len(data)))
  ELSE IF data[7] \div 16 \in Versions
       THEN SubSeq(data \o Zeros(16), 1, 16)
  ELSE <<>>

\* The same, a byte at a time into the response; the right part only from
\* eight bytes on.
write_quoted_property_id(data) ==
  IF Len(data) < 7 THEN <<>>
  ELSE IF data[7] = Marker
       THEN BeforeZero(SubSeq(data, 1, 6)) \o
            (IF Len(data) >= 8 THEN BeforeZero(SubSeq(data, 8, Len(data))) ELSE <<>>)
  ELSE IF data[7] \div 16 \in Versions
       THEN [i \in 1 .. 16 |-> IF i <= Len(data) THEN data[i] ELSE 0]
  ELSE <<>>
=============================================================================
