-------------------------------- MODULE Text --------------------------------
(***************************************************************************)
(* The algorithms on text, one call after the other: a call takes one of   *)
(* its inputs and leaves it with its result, so that each of them can be   *)
(* compared with what the text is for.                                     *)
(***************************************************************************)
EXTENDS PatternLayout, StreamLayouts, XmlScan, Options, LogMessage, CxxInterface

VARIABLES call, in, out
vars == <<call, in, out>>

Init == call = "none" /\ in = << >> /\ out = << >>

Called(name, input, result) == call' = name /\ in' = input /\ out' = result

Repeat(c, n) == [i \in 1..n |-> c]
Texts(S, n) == UNION {[1..k -> S] : k \in 0..n}

-----------------------------------------------------------------------------
(* Inputs *)

Flags == SUBSET {"-", "+", " ", "0"}
Spec(convs, mods) == [flags : Flags, width : {-1, 3, 6}, prec : {-1, 0, 1, 4}, mod : mods, conv : convs]
Sizes == {0, 1, 5, 30}

\* Numbers of the type of the argument, the ends of its range among them.
SignedArgs(c) == {-(2^(BitsOf(c) - 1) - 1), -8, 0, 7, 10, 2^(BitsOf(c) - 1) - 1}
UnsignedArgs(c) == {0, 9, 64, 2^BitsOf(c) - 1}
StringArgs == {<<"a", "b", "c", "d">>, Repeat("z", 8)}

\* A conversion as a format spells it, its numbers in digits or by stars.
Spelled(c, star) ==
  LET number(v) == IF star THEN <<"*">> ELSE Numeral(v, 10) IN
  SetToSeq(c.flags) \o (IF c.width < 0 THEN << >> ELSE number(c.width))
    \o (IF c.prec < 0 THEN << >> ELSE <<".">> \o (IF c.prec = 0 THEN << >> ELSE number(c.prec)))
    \o (CASE c.mod = "" -> << >> [] c.mod = "ll" -> <<"l", "l">> [] OTHER -> <<c.mod>>) \o <<c.conv>>
Arguments(c, star, arg) ==
  (IF star THEN SelectSeq(<<c.width>> \o (IF c.prec = 0 THEN << >> ELSE <<c.prec>>), LAMBDA v : v >= 0)
   ELSE << >>) \o <<arg>>

Vsnprintf1 ==
  \E c \in Spec({"d"}, {"", "l"}) \union Spec({"u", "o", "x"}, {"", "ll"}) \union Spec({"s"}, {"", "l"}),
     size \in Sizes, star \in BOOLEAN :
  \E arg \in (IF c.conv = "d" THEN SignedArgs(c) ELSE IF c.conv = "s" THEN StringArgs ELSE UnsignedArgs(c)) :
    /\ star => c.width = 6
    /\ Called("vsnprintf", [c |-> c, arg |-> arg, size |-> size],
              Vsnprintf(<<"[">>, Spelled(c, star), Arguments(c, star, arg), size))

Lengths == (0..3) \union {399, 400, 401, 500, 4999, 5000, 63000}
CallLogPrintf ==
  \E len \in Lengths, first \in {0, 200, 400, 5000}, microsoft \in BOOLEAN :
    Called("logprintf", [len |-> len], LogPrintf(len, first, microsoft))
CallInternal ==
  \E len \in {0, 1, 191, 192, 193, 194, 1000}, microsoft \in BOOLEAN :
    Called("internal", [len |-> len], InternalLine(len, microsoft))
CallConsole ==
  \E n \in 1..3, rcs \in [1..3 -> {-1, 1, 2, 3}] :
    /\ \A k \in 1..3 : rcs[k] <= n
    /\ Called("console", [text |-> SubSeq(<<"x", "y", "z">>, 1, n), rcs |-> rcs],
              Console(SubSeq(<<"x", "y", "z">>, 1, n), rcs))

\* Days and times at which a field gets longer, carries or begins again.
Moment(yday, mon, mday, wday) ==
  [year : {99, 124}, yday : {yday}, mon : {mon}, mday : {mday}, wday : {wday}, hour : {0, 11, 12, 13},
   min : {9}, sec : {59}, usec : {0, 7000, 999999}, offs : {-210, 60}]
Moments == Moment(0, 0, 1, 1) \union Moment(8, 0, 9, 0) \union Moment(98, 3, 9, 2)
             \union Moment(99, 3, 10, 3) \union Moment(365, 11, 31, 0)
NumberLetters == {"D", "y", "M", "d", "H", "k", "K", "h", "m", "s"}
CallDate ==
  \E c \in NumberLetters, n \in 1..4, tm \in Moments :
    /\ c = "M" => n <= 2
    /\ Called("date", [c |-> c, n |-> n, tm |-> tm],
              FormatJtime(<<[c |-> c, n |-> n]>>, tm, 40))
CallNamedDate ==
  \E name \in {"ABSOLUTE", "ISO8601", "DEFAULT", "DATE"}, size \in {1, 8, 9, 13, 24, 40},
     hour \in {0, 23}, usec \in {7000, 999999} :
    LET tm == [year |-> 124, yday |-> 98, mon |-> 3, mday |-> 9, wday |-> 2, hour |-> hour, min |-> 9,
               sec |-> 59, usec |-> usec, offs |-> 60] IN
    Called("named", [tm |-> tm, name |-> name, size |-> size], FormatJtime(Named(name), tm, size))

Plain(c) == [c |-> c, flags |-> {}, width |-> -1, prec |-> -1, fields |-> << >>, char |-> ""]
Literal(char) == [Plain("literal") EXCEPT !.char = char]
Date(w) == [Plain("d") EXCEPT !.fields = Named("ISO8601"), !.width = w]
Items == {Plain(c) : c \in {"m", "n", "p", "t", "L", "l", "F"}} \union
         {Literal(":"), Date(-1), Date(30), [Plain("c") EXCEPT !.prec = 2],
          [Plain("p") EXCEPT !.width = 6, !.flags = {"-"}]}
Messages ==
  [logger : {<<"a", ".", "b", "c">>}, file : {<<"f">>}, func : {<<"g">>}, line : {12}, level : {10000, 40001},
   thread : {<<"t">>}, msg : {<<"x">>, <<"x", "NL">>},
   tm : {[year |-> 124, yday |-> 98, mon |-> 3, mday |-> 9, wday |-> 2, hour |-> 1, min |-> 9, sec |-> 59,
          usec |-> 7000, offs |-> 60]}]
CallPattern ==
  \E pattern \in Texts(Items, 3), m \in Messages, room \in {12, 40} :
    LET size == room + Len(m.msg) IN
    Called("pattern", [pattern |-> pattern, m |-> m, size |-> size], FormatByPattern(pattern, m, size))

JsonTexts == Texts({"a", "\"", "\\", "newline", "control"}, 3)
               \union {Repeat("control", n) : n \in {28, 29, 40}}
CallJson ==
  \E msg \in JsonTexts, names \in {0, 9} :
    Called("json", msg, JsonRecord(msg, 3, names, EstimateRecord(msg, 3 + names)))
CallFrame ==
  \E len \in 0..(LEN8B + 2), spare \in 1..(Longest + 1) : \E msglen \in 0..len :
    LET size == PayloadAt(msglen) + len + spare IN
    Called("frame", [len |-> len, size |-> size, spare |-> spare], Frame(msglen, len, size))

Chars == {\h41, \h26, \h7F, \h80, \hE9, \h7FF, \h800, \h801, \h20AC, \hD7FF, \hFFFD,
          \h10000, \h10030, \h10110, \h1F600, \h10FFFF}
Bytes == {\h41, \h3C, \h80, \h9F, \hA0, \hC3, \hE2, \hED, \hF0, \hFC}
CallXml ==
  \E msg \in Texts(Bytes, 3) \union {Each(t, PutUtf8) : t \in Texts(Chars, 2)} :
    Called("xml", msg, XmlRecord(msg, 3, 9, EstimateRecord(msg, 12)))
CallJava ==
  \E t \in Texts(Chars, 3) : Called("java", t, JavaString(Each(t, PutUtf8)))
CallTranscode ==
  \E msg \in Texts(Bytes, 3) \union {FromWide(t) : t \in Texts(Chars, 2)} :
    Called("transcode", msg, DecodeUTF8(msg))
CallUnits ==
  \E c \in Chars : Called("units", c, [utf16 |-> EncodeUTF16(c), be |-> EncodeUTF16BE(c), le |-> EncodeUTF16LE(c)])

Attrs == [name : {<<"a">>, <<"b", "a">>}, value : Texts({"a", "&", "\"", " ", "="}, 2)]
Elements == [type : {"start", "empty"}, name : {<<"b">>}, attrs : Texts(Attrs, 1)]
              \union [type : {"start"}, name : {<<"b">>},
                      attrs : {<<a, b>> : a \in Attrs, b \in [name : {<<"a">>}, value : Texts({"<", "="}, 1)]}]
EndTag == [type |-> "end", name |-> <<"b">>, attrs |-> << >>]
CallTags ==
  \E e \in Elements, blanks \in {<<" ">>, <<" ", " ">>}, pad \in {<< >>, <<" ">>} :
    Called("tags", <<e, EndTag>>, Tags(<<" ">> \o WrittenTag(e, blanks, pad) \o WrittenTag(EndTag, blanks, pad)))

Levels == {0, 5000, 10000, 19999, 20000, 30000, INHERIT_LEVEL, 40000, 50000, 60000}
Initial == [FATAL |-> "f", ERROR |-> "e", WARN |-> "w", INFO |-> "i", DEBUG |-> "d", TRACE |-> "t"]
CallLevel ==
  \E level \in Levels, default \in {30000, 60000} :
    Called("level", level, ToLevel(<<Initial[LevelName(level)], "n", "f">>, default))
CallSize ==
  \E n \in 0..300, unit \in {"none", "k", "m", "g"} : Called("size", [n |-> n, unit |-> unit], MaxFileSize(n, unit))
PathChars == {"a", ".", "/", "\\", ":"}
CallPath ==
  \E dir \in Texts({"/", "d", "\\"}, 3), path \in Texts(PathChars, 3) \ {<< >>} :
    Called("path", [dir |-> dir, path |-> path], FileOption(BaseDirectory(SetBaseDirectory(<< >>, dir), <<"/", "c">>), path))
CallTime ==
  \E secs \in {0, 86399, 86400, 1234567890, 2147483647}, usec \in {0, 999999} :
    Called("time", [secs |-> secs, usec |-> usec], TimeOf(secs, usec))
CallBase == \E path \in Texts({"a", "/", "\\"}, 4) \ {<< >>} : Called("base", path, Basename(path))

BufferPiece == [kind : {"text", "number"}, text : {<<"a">>, <<"b", "c">>, << >>}]
CallBuffer ==
  \E statements \in UNION {[1..n -> Texts(BufferPiece, 2) \ {<< >>}] : n \in 1..2} :
    Called("buffer", statements, [char |-> CharMessage(statements), wide |-> WideMessage(statements)])
CallLocation ==
  \E result \in {<<"i">>, <<"u", " ", "i">>}, class \in {<< >>, <<"C">>}, method \in {<<"m">>, <<"m", "n">>} :
    LET signature == result \o <<" ">> \o (IF class = << >> THEN << >> ELSE class \o Scope)
                       \o method \o <<"(", "i", " ", "x", ")">> IN
    Called("location", [result |-> result, class |-> class, method |-> method],
           [class |-> GetClassName(signature), method |-> GetMethodName(signature)])

-----------------------------------------------------------------------------
Return == call # "none" /\ Called("none", << >>, << >>)

Next ==
  \/ call = "none" /\ \/ Vsnprintf1 \/ CallLogPrintf \/ CallInternal \/ CallConsole
                      \/ CallDate \/ CallNamedDate \/ CallPattern
                      \/ CallJson \/ CallFrame \/ CallXml \/ CallJava \/ CallTranscode \/ CallUnits
                      \/ CallTags \/ CallLevel \/ CallSize \/ CallPath \/ CallTime \/ CallBase
                      \/ CallBuffer \/ CallLocation
  \/ Return

TextSpec == Init /\ [][Next]_vars

-----------------------------------------------------------------------------
(* Properties *)

\* Where l4sc_vsnprintf claims a conversion it writes what the C standard says,
\* cut to its buffer, and returns the length of the whole: any two of flags,
\* width, precision and size may meet at a limit of the type.
PrintfAsC ==
  (call = "vsnprintf" /\ Supported(in.c, in.arg)) =>
    LET text == <<"[">> \o Standard(in.c, in.arg) IN
    /\ out.rc = Len(text)
    /\ in.size > 0 => out.buf = Append(SubSeq(text, 1, Min({Len(text), in.size - 1})), "NUL")

\* A message is logged once and whole, whatever the first estimate of its
\* length was and whichever vsnprintf the system has, up to the length where
\* the attempts end, and so is a line of the library about itself, cut to its
\* buffer.  The console gets a record, and nothing else, from a write that
\* takes all of it, and nothing from one that fails; left out: a short write,
\* after which append_to_output writes the beginning again (appender.c:183).
\* A message that a C++ program writes with << has all its parts in their
\* order.  Left out: of several statements, one of text alone after a number,
\* which is lost (messagebuffer.cpp:79), and all but the last of wide text
\* (:245); and wide text behind a number that begins the statement, of which
\* the narrow stream prints the address (:273).
\* The class and the method of a location are named as the compiler spells
\* them; left out: the method of a function without a class whose result has
\* several words, where getMethodName takes the first blank
\* (locationinfo.cpp:120).
Written(pieces) == FlattenSeq([i \in DOMAIN pieces |-> pieces[i].text])

\* Where the digits are not those of SimpleDateFormat: put_unsigned writes ':'
\* for 10 when a number of three digits begins with it and has fewer letters
\* (fmtjtime.c:98), and a single y gives two digits of the year, where Java
\* cuts it only for two letters (fmtjtime.c:231).
BeginsWithTen(n, v) == Len(Numeral(v, 10)) > n /\ v \in 100..109
DigitsDiffer(c, n, tm) == BeginsWithTen(n, JavaValue(c, n, tm)) \/ (c = "y" /\ n = 1)

\* What SimpleDateFormat makes of a named format.
JavaDate(fields, tm) ==
  FlattenSeq([i \in DOMAIN fields |->
    LET f == fields[i] IN
    CASE f.c \in NumberLetters /\ (f.c = "M" => f.n <= 2) -> JavaNumber(f.n, JavaValue(f.c, f.n, tm))
      [] f.c = "S" -> JavaNumber(3, tm.usec \div 1000)
      [] f.c = "M" -> WordOf("month", 3, tm.mon)
      [] OTHER -> <<f.c>>])

\* The text of an item, as log4j documents it.
ItemText(item, m) ==
  CASE item.c \in {"c", "p"} -> AsString(item, IF item.c = "c" THEN m.logger ELSE Word(LevelName(m.level), 4))
    [] item.c = "d" -> LET date == JavaDate(item.fields, m.tm) IN Times(item.width - Len(date), " ") \o date
    [] item.c = "t" -> m.thread
    [] item.c = "F" -> m.file
    [] item.c = "literal" -> <<item.char>>
    [] item.c \in {"l", "L", "m", "n"} -> Piece(item, m, << >>, 1)

\* A date has the digits that SimpleDateFormat gives its letters, except where
\* DigitsDiffer, with S compared for the three letters of the named formats
\* (put_millis gives as many decimals of the second as there are letters, Java
\* a number of milliseconds); it loses fields from its end when room runs
\* short; a line has the texts of its pattern, one behind the other, or fewer
\* of them, never more than its room, and an item that fits is not lost to one
\* that does not.
LineAsPattern ==
  /\ (call = "date" /\ ~DigitsDiffer(in.c, in.n, in.tm)) =>
       out = JavaNumber(in.n, JavaValue(in.c, in.n, in.tm))
  /\ call = "named" =>
       LET date == JavaDate(Named(in.name), in.tm) IN
       Len(out) < in.size /\ IsPrefix(out, date) /\ (Len(date) + 3 < in.size => out = date)
  /\ (call = "pattern" /\ \A i, j \in DOMAIN in.pattern : in.pattern[i].c = "n" => i = Len(in.pattern)) =>
       LET text(k) == FlattenSeq([i \in 1..k |-> ItemText(in.pattern[i], in.m)])
           n == Len(in.pattern)
           line == IF n > 1 /\ in.pattern[n].c = "n" /\ Last(text(n - 1)) = "NL" THEN text(n - 1) ELSE text(n) IN
       /\ Len(out) <= in.size
       /\ Len(line) + ShortRoom < in.size => out = line

\* The escapes make a record longer by less than the estimate allows for.
Room(msg) == 140 + Len(msg) \div 4
Growth(msg) == Len(FlattenSeq([i \in DOMAIN msg |-> JsonChar(msg[i])])) - Len(msg)

\* A JSON record is whole and its message reads back, as long as the escapes
\* fit into the estimate, and it stays in its buffer if they do not.  A frame
\* of a websocket gives its reader the record, whichever header was expected
\* while it was formatted in place and however it had to be moved; and nothing
\* behind its buffer is changed, if the record leaves it Longest bytes.  Left
\* out: a record that fills the room it is given (jsonstrm.c:340), which is
\* moved beyond the end by a header longer than expected (:361), or masked
\* there in the last of its groups of four (:411).
RecordReadable ==
  /\ call = "json" =>
       /\ Len(out) < EstimateRecord(in, 12)
       /\ Growth(in) < Room(in) => /\ IsPrefix(Fixed("head", 174) \o Fixed("message", 15), out)
                                  /\ ReadJson(out, 190) = in
                                  /\ IsSuffix(<<"source", "}", "NL">>, out)
  /\ (call = "frame" /\ in.size < MinFrame) => out.len = 0
  /\ (call = "frame" /\ in.size >= MinFrame) =>
       LET read == ReadFrame(out.mem, out.len) IN
       /\ read.len = in.len /\ read.whole /\ \A i \in 0..(in.len - 1) : read.payload[i] = Byte(i)
       /\ in.spare >= Longest => \A a \in in.size..(in.size + Longest) : out.mem[a] = Beyond(a)

\* The text of an XML message without its tags, and with its entities read.
Content(record) == SelectSeq(record, LAMBDA c : c >= 0)
ReadEntities(s) ==
  LET named(i) == {c \in {Amp, Lt, Gt} : IsPrefix(XmlName[c], SubSeq(s, i, Len(s)))}
      from[i \in 1..(Len(s) + 1)] ==
        IF i > Len(s) THEN << >>
        ELSE IF named(i) = {} THEN <<s[i]>> \o from[i + 1]
        ELSE LET c == CHOOSE c \in named(i) : TRUE IN <<c>> \o from[i + Len(XmlName[c])]
  IN from[1]

\* A surrogate in three bytes, which is no UTF-8 and is passed on; GetUtf8 does
\* not look at the third one.
HasSurrogate(s) == \E i \in 1..(Len(s) - 2) : s[i] = \hED /\ s[i + 1] \in \hA0..\hBF
\* Bits 4 and 5 of c stand where bits 8 and 9 of a low surrogate belong
\* (transcoder.cpp:139 and 164).
HasRightUnits(c) == c <= \hFFFF \/ Low(High(c, 8), 2) = Low(High(c, 4), 2)

\* Characters survive a change of encoding: a message in UTF-8 reads back from
\* XML, has the units and the length in a Java stream that Java expects, passes
\* the transcoder, except that this takes U+0800 for no character
\* (transcoder.cpp:214), and makes the surrogates of UTF-16, the bytes of those
\* only for characters with HasRightUnits; and bytes that are no UTF-8 become a
\* text that is in XML and in the transcoder, unless they have a surrogate.
\* Left out: what a Java stream makes of bytes that are no UTF-8, whose length
\* may be too big (l4jstrm.c:459).
CodingReadable ==
  /\ call = "xml" =>
       LET text == ReadEntities(Content(out)) IN
       /\ HasSurrogate(in) \/ IsUtf8(text)
       /\ IsUtf8(in) => text = in
  /\ call = "java" => out.len = Len(out.text) /\ ReadJava(out.text) = Units(in)
  /\ call = "transcode" => /\ HasSurrogate(in) \/ IsUtf8(out)
                           /\ IsUtf8(in) /\ \h800 \notin ToSet(ReadUtf8(in)) => out = in
  /\ call = "units" => /\ DecodeUTF16(out.utf16) = in
                       /\ out.utf16 = Units(<<in>>)
                       /\ HasRightUnits(in) => out.be = Each(out.utf16, LAMBDA u : <<High(u, 8), Low(u, 8)>>)
                       /\ Swapped(out.le) = out.be

\* An element reads back as it was written, with any blanks between its
\* attributes, and with blanks, quotes and entities in their values.
AttributesAsWritten == call = "tags" => out = in

\* The name of a level, printed and configured, is the highest level that does
\* not exceed it; a size with a unit is that many units; a path is taken once:
\* it names the same file when it is configured again from any directory.
OptionsAsMeant ==
  /\ call = "level" => out = Max({l \in {LevelOf[x] : x \in {"f", "e", "w", "i", "d", "t"}} : l <= in \/ l = 5000})
  /\ (call = "size" /\ in.unit # "none" /\ in.n * 2^(UnitShift[in.unit] * KiloBits) < Modulus) =>
       out = in.n * 2^(UnitShift[in.unit] * KiloBits)
  /\ call = "path" => LET base == IF in.dir = << >> \/ Len(in.dir) >= DirSize THEN <<"/", "c">> ELSE in.dir IN
                      /\ IF IsAbsolute(in.path) THEN out = in.path
                         ELSE IsPrefix(base, out) /\ IsSuffix(in.path, out) /\ Len(out) = Len(base) + Len(in.path) + 1
                      /\ IsAbsolute(base) => FileOption(base, out) = out
  /\ call = "time" => out.sec < DayLength /\ EpochSecond(out) = in.secs /\ Millis(out) = in.usec \div 1000
  /\ call = "base" => /\ IsSuffix(out, in)
                      /\ \A i \in 1..(Len(out) - 1) : out[i] \notin {"/", "\\"} \/ Last(in) \in {"/", "\\"}
=============================================================================
