---------------------------- MODULE PatternLayout ----------------------------
(***************************************************************************)
(* Lines of text: the pattern layout (src/log4stdc/layout.c) and the dates *)
(* in it (src/log4stdc/fmtjtime.c).  A pattern is a sequence of items that *)
(* stand for the letters of a conversion; a name of a month, a logger or a *)
(* thread is some characters that are all alike.                           *)
(***************************************************************************)
EXTENDS Printf

-----------------------------------------------------------------------------
(* Dates: an item is [c, n], n letters c *)

\* Faulty variant: the leading zeros are those of one digit more.
PutNumber_Wide(width, val, room) ==
  IF val < 10 /\ width + 1 < room THEN Times(width, "0") \o <<Digit[val + 1]>>
  ELSE Times(width - 2, "0") \o Numeral(val, 10)

\* put_unsigned.  The general case looks for the first divisor whose quotient
\* is 10 at most, so a number that begins with 10 may begin with ':'.
PutNumber(width, val, room) ==
  IF val < 10 /\ width + 1 < room THEN Times(width - 1, "0") \o <<Digit[val + 1]>>
  ELSE IF val < 60 /\ width + 2 < room THEN Times(width - 2, "0") \o Numeral(val, 10)
  ELSE LET least == Larger(width, 1) - 1
           e == CHOOSE e \in least..9 :
                  /\ e = least \/ val \div (10 ^ (e - 1)) > 10
                  /\ 10 ^ e >= val \/ val \div (10 ^ e) <= 10
           q == val \div (10 ^ e)
           all == <<IF q = 10 THEN ":" ELSE Digit[q + 1]>> \o AtLeast(e, IF e = 0 THEN << >> ELSE Numeral(val % (10 ^ e), 10))
       IN SubSeq(all, 1, Larger(1, IF Len(all) < room THEN Len(all) ELSE room))

\* put_millis: as many decimals of the second as there are letters.
PutMillis(width, usec, room) ==
  LET digits == AtLeast(6, Numeral(usec, 10)) \o Times(width - 6, "0") IN
  SubSeq(digits, 1, IF width < room THEN Larger(width, 1) ELSE room)

\* put_rfc822zone, with a colon when there are six letters.
PutZone(width, offs, room) ==
  LET m == IF offs < 0 THEN -offs ELSE offs
      hr == PutNumber(2, m \div 60, room - 1)
      mn == PutNumber(2, m % 60, room - 3) IN
  IF room < 5 THEN Times(5, "?")
  ELSE <<IF offs < 0 THEN "-" ELSE "+">> \o hr \o (IF width = 6 /\ room >= 6 THEN <<":">> ELSE << >>) \o mn

Word(name, n) == Times(n, name)
WordOf(name, letters, v) == Word(<<name, v>>, IF letters > 3 THEN 8 ELSE 3)

\* Hours of a day of 24 or of 12, counted from 0 or from 1.
HourIn(c, hour) ==
  CASE c = "H" -> hour
    [] c = "k" -> IF hour = 0 THEN 24 ELSE hour
    [] c = "K" -> IF hour >= 12 THEN hour - 12 ELSE hour
    [] c = "h" -> IF hour = 0 THEN 12 ELSE IF hour > 12 THEN hour - 12 ELSE hour

WeekOfYear(tm) == (tm.yday + 7 - (IF tm.wday # 0 THEN tm.wday - 1 ELSE 6)) \div 7

\* The cases of l4sc_format_jtime.
DateField(f, tm, room) ==
  LET number(v) == PutNumber(f.n, v, room) IN
  CASE f.c = "D" -> number(tm.yday + 1)
    [] f.c = "G" -> <<"A", "D">>
    [] f.c = "y" -> number(IF f.n > 2 THEN 1900 + tm.year ELSE tm.year % 100)
    [] f.c = "M" /\ f.n > 2 -> WordOf("month", f.n, tm.mon)
    [] f.c = "M" -> number(tm.mon + 1)
    [] f.c = "w" -> number(WeekOfYear(tm))
    [] f.c = "d" -> number(tm.mday)
    [] f.c = "E" -> WordOf("day", f.n, tm.wday)
    [] f.c = "a" -> <<IF tm.hour >= 12 THEN "P" ELSE "A", "M">>
    [] f.c \in {"H", "k", "K", "h"} -> number(HourIn(f.c, tm.hour))
    [] f.c = "m" -> number(tm.min)
    [] f.c = "s" -> number(tm.sec)
    [] f.c = "S" -> PutMillis(f.n, tm.usec, room)
    [] f.c = "Z" -> PutZone(f.n, tm.offs, room)
    [] f.c \in {"W", "F", "A", "I"} -> << >>
    [] OTHER -> Times(IF f.n < room THEN f.n ELSE room - 1, f.c)

Fields(s) == [i \in DOMAIN s |-> [c |-> s[i][1], n |-> s[i][2]]]
Clock == <<<<"H", 2>>, <<":", 1>>, <<"m", 2>>, <<":", 1>>, <<"s", 2>>, <<",", 1>>, <<"S", 3>>>>
DayOf(sep) == <<<<"y", 4>>, <<"-", 1>>, <<"M", 2>>, <<"-", 1>>, <<"d", 2>>, <<sep, 1>>>>

\* The names of formats; such a name starts the date afresh.
Named(name) ==
  CASE name = "ABSOLUTE" -> Fields(Clock)
    [] name = "ISO8601" -> Fields(DayOf("T") \o Clock)
    [] name = "DEFAULT" -> Fields(DayOf(" ") \o Clock)
    [] name = "DATE" -> Fields(<<<<"d", 2>>, <<" ", 1>>, <<"M", 3>>, <<" ", 1>>, <<"y", 4>>, <<" ", 1>>>> \o Clock)

\* A field that reaches the end of the buffer is dropped, and so is the rest.
Place(line, text, size) ==
  IF line.full THEN line
  ELSE IF Len(line.text) + Len(text) < size THEN [line EXCEPT !.text = @ \o text]
  ELSE [line EXCEPT !.full = TRUE]

\* l4sc_format_jtime
FormatJtime(fields, tm, size) ==
  FoldLeft(LAMBDA line, f : Place(line, DateField(f, tm, size - Len(line.text)), size),
           [text |-> << >>, full |-> FALSE], fields).text

-----------------------------------------------------------------------------
(* Lines: an item is [c, flags, width, prec], and for 'd' the fields of its date *)

TmpSize == 40     \* sizeof(tmp) in format_logtime
ShortRoom == 9    \* below it a date goes through tmp

AsString(item, text) ==
  Standard([flags |-> item.flags, width |-> item.width, prec |-> item.prec, conv |-> "s"], text)

\* format_logtime: with a width or in little room by way of a string.
FormatLogtime(item, tm, room) ==
  IF item.flags # {} \/ item.width > 0 \/ item.prec >= 0 \/ room < ShortRoom
    THEN AsString(item, FormatJtime(item.fields, tm, TmpSize))
    ELSE FormatJtime(item.fields, tm, room)

LevelName(level) ==
  CASE level >= 50000 -> "FATAL" [] level >= 40000 -> "ERROR" [] level >= 30000 -> "WARN"
    [] level >= 20000 -> "INFO" [] level >= 10000 -> "DEBUG" [] OTHER -> "TRACE"

\* What a conversion gives for the message m, when line has been written.
Piece(item, m, line, room) ==
  CASE item.c = "c" -> AsString(item, m.logger)
    [] item.c = "d" -> FormatLogtime(item, m.tm, room)
    [] item.c = "F" -> AsString(item, m.file)
    [] item.c = "l" -> m.func \o <<"(">> \o m.file \o <<":">> \o Numeral(m.line, 10) \o <<")">>
    [] item.c = "L" -> Numeral(m.line, 10)
    [] item.c = "m" -> m.msg
    [] item.c = "n" -> IF line # << >> /\ Last(line) = "NL" THEN << >> ELSE <<"NL">>
    [] item.c = "p" -> AsString(item, Word(LevelName(m.level), 4))
    [] item.c = "r" -> Numeral(1000 * m.tm.sec + m.tm.usec \div 1000, 10)
    [] item.c = "t" -> AsString(item, m.thread)
    [] OTHER -> <<item.c>>

\* A piece is kept only if it leaves room for a NUL; a literal may take the
\* last place, and nothing follows it.
Put(line, item, m, size) ==
  LET piece == Piece(item, m, line, size - Len(line)) IN
  IF Len(line) >= size THEN line
  ELSE IF item.c = "literal" THEN Append(line, item.char)
  ELSE IF Len(piece) < size - Len(line) THEN line \o piece ELSE line

\* format_by_pattern
FormatByPattern(pattern, m, size) ==
  FoldLeft(LAMBDA line, item : Put(line, item, m, size), << >>, pattern)

Slack == 200      \* what estimate_size adds to the length of the message
EstimateSize(m) == Len(m.msg) + Slack

\* set_layout_option keeps what fits into the pattern.
SetPattern(pattern, size) == SubSeq(pattern, 1, IF Len(pattern) < size THEN Len(pattern) ELSE size - 1)

-----------------------------------------------------------------------------
(* What SimpleDateFormat says of the same letters *)

\* "The number of pattern letters is the minimum number of digits, and shorter
\* numbers are zero-padded to this amount"; two letters cut a year.
JavaNumber(n, v) == AtLeast(n, Numeral(v, 10))
JavaValue(c, n, tm) ==
  CASE c = "D" -> tm.yday + 1
    [] c = "y" -> IF n = 2 THEN (1900 + tm.year) % 100 ELSE 1900 + tm.year
    [] c = "M" -> tm.mon + 1
    [] c = "d" -> tm.mday
    [] c = "H" -> tm.hour
    [] c = "k" -> IF tm.hour = 0 THEN 24 ELSE tm.hour
    [] c = "K" -> tm.hour % 12
    [] c = "h" -> IF tm.hour % 12 = 0 THEN 12 ELSE tm.hour % 12
    [] c = "m" -> tm.min
    [] c = "s" -> tm.sec
=============================================================================
