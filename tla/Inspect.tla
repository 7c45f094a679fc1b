------------------------------ MODULE Inspect -------------------------------
(***************************************************************************)
(* crates/heeler-server/src/inspect.rs: the reading of hexadecimal text    *)
(* and the calendar.  The rendering of the fields is left out.             *)
(***************************************************************************)
EXTENDS Integers, Sequences, FiniteSets, FiniteSetsExt

\* A text is a sequence of characters: digits, other ASCII characters, a space, one
\* character of two bytes, and a space of three.
HexDigit == [c \in {"0", "9", "f"} |-> CASE c = "0" -> 0 [] c = "9" -> 9 [] c = "f" -> 15]
Whitespace == {" ", "wide space"}
Characters == DOMAIN HexDigit \cup Whitespace \cup {"x", "wide"}

\* trim_start, which is what matters of trim: all white space goes in the end.
TrimStart(text) ==
  LET n == Max({k \in 0 .. Len(text) : \A i \in 1 .. k : text[i] \in Whitespace})
  IN  SubSeq(text, n + 1, Len(text))

\* trim_start_matches takes off every prefix, not only the first.
WithoutPrefix(text) ==
  LET n == Max({k \in 0 .. Len(text) \div 2 :
                  \A i \in 1 .. k : text[(2 * i) - 1] = "0" /\ text[2 * i] = "x"})
  IN  SubSeq(text, (2 * n) + 1, Len(text))

Cleaned(text) == SelectSeq(WithoutPrefix(TrimStart(text)), LAMBDA c : c \notin Whitespace)

\* String::len counts bytes.
ByteLen(cleaned) == Len(cleaned) + Cardinality({i \in DOMAIN cleaned : cleaned[i] = "wide"})

OddLength == [error |-> "OddLength"]
InvalidHex(position) == [error |-> "InvalidHex", at |-> position]
Panic == [error |-> "index out of bounds"]

\* The characters are taken in pairs; a last pair may be short.
DecodedPairs(digits) ==
  LET bad == {p \in 1 .. 2 * ((Len(digits) + 1) \div 2) :
                p > Len(digits) \/ digits[p] \notin DOMAIN HexDigit}
  IN  IF bad = {} THEN
        [bytes |-> [i \in 1 .. Len(digits) \div 2 |->
                      (16 * HexDigit[digits[(2 * i) - 1]]) + HexDigit[digits[2 * i]]]]
      ELSE IF Min(bad) > Len(digits) THEN Panic
      ELSE InvalidHex(Min(bad) - 1)

\* Mutated form: the number of digits is not looked at.
DecodeAnyLength(text) == DecodedPairs(Cleaned(text))

\* decode_hex
DecodeHex(text) ==
  IF ByteLen(Cleaned(text)) % 2 # 0 THEN OddLength ELSE DecodedPairs(Cleaned(text))

-----------------------------------------------------------------------------
\* The year of a day of an era, which is 400 years from 1 March of the year 0 on.
\* Mutated form: four years have a day more.
YearOfJulian(doe) == ((doe - (doe \div 1461)) + (doe \div 36524)) \div 365
YearOf(doe) == (((doe - (doe \div 1460)) + (doe \div 36524)) - (doe \div 146096)) \div 365

\* The first day of a year of an era, the month of a day of a year, and its date.
Start(yoe) == ((365 * yoe) + (yoe \div 4)) - (yoe \div 100)
MonthOf(doy) == ((5 * doy) + 2) \div 153
DateOf(era, yoe, doy) ==
  LET mp == MonthOf(doy)
      day == (doy - (((153 * mp) + 2) \div 5)) + 1
      month == IF mp < 10 THEN mp + 3 ELSE mp - 9
      year == yoe + (era * 400)
  IN  <<IF month <= 2 THEN year + 1 ELSE year, month, day>>

\* civil_from_days; both divisions of the code that may be negative are Euclidean.
CivilFromDays(days) ==
  LET z == days + 719468
      era == z \div 146097
      doe == z % 146097
      yoe == YearOf(doe)
  IN  DateOf(era, yoe, doe - Start(yoe))

-----------------------------------------------------------------------------
(* The Gregorian calendar, by its rules *)

IsLeapYear(year) == (year % 4 = 0 /\ year % 100 # 0) \/ year % 400 = 0
MonthLength(year, month) ==
  CASE month = 2 -> IF IsLeapYear(year) THEN 29 ELSE 28
    [] month \in {4, 6, 9, 11} -> 30
    [] OTHER -> 31

\* Days from 1 January 1970 to 1 January of the year, by counting leap years.
LeapYears(from, to) == Cardinality({y \in from .. to : IsLeapYear(y)})
FirstDay(year) ==
  (365 * (year - 1970)) + (LeapYears(1970, year - 1) - LeapYears(year, 1969))

\* The dates of the year are those of the calendar, one day after the other: what
\* civil_from_days says of each day is followed by what it says of the next, and the
\* first is 1 January.
Follows(date, next) ==
  LET year == date[1]  month == date[2]  day == date[3]
  IN  next = IF day < MonthLength(year, month) THEN <<year, month, day + 1>>
             ELSE IF month < 12 THEN <<year, month + 1, 1>>
             ELSE <<year + 1, 1, 1>>

YearIsGregorian(year) ==
  /\ CivilFromDays(FirstDay(year)) = <<year, 1, 1>>
  /\ \A z \in FirstDay(year) .. FirstDay(year + 1) - 1 :
       Follows(CivilFromDays(z), CivilFromDays(z + 1))

\* What the text says, read without pairing: the digits after the prefix and nothing
\* else, an even number of them.
IsHex(text) ==
  /\ \A i \in DOMAIN Cleaned(text) : Cleaned(text)[i] \in DOMAIN HexDigit
  /\ Len(Cleaned(text)) % 2 = 0
=============================================================================
