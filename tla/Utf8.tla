-------------------------------- MODULE Utf8 --------------------------------
(***************************************************************************)
(* Encodings of characters: the macros of src/bareftc/utf8.h, the texts    *)
(* that the layouts for XML and for Java streams make of a message, and    *)
(* the transcoder of the C++ interface (src/log4cxx/transcoder.cpp).  A    *)
(* byte, a UTF-16 unit and a character are numbers; a position in a text   *)
(* is the index of the next byte.                                          *)
(***************************************************************************)
EXTENDS Integers, Sequences

\* The bits of c from bit n upwards, and the lowest n bits of c.
High(c, n) == c \div 2^n
Low(c, n) == c % 2^n
IsTail(b) == b \in \h80..\hBF
Surrogates == \hD800..\hDFFF
TailBytes(c, n) == [i \in 1..n |-> \h80 + Low(High(c, 6 * (n - i)), 6)]

-----------------------------------------------------------------------------
(* utf8.h *)

\* Faulty variant: one byte takes one character too many.
PutUtf8_Late(c) ==
  IF c <= \h80 THEN <<c>>
  ELSE IF c <= \h7FF THEN <<\hC0 + High(c, 6)>> \o TailBytes(c, 1)
  ELSE IF c <= \hFFFF THEN <<\hE0 + High(c, 12)>> \o TailBytes(c, 2)
  ELSE <<\hF0 + High(c, 18)>> \o TailBytes(c, 3)

\* BFC_PUT_UTF8
PutUtf8(c) ==
  IF c <= \h7F THEN <<c>>
  ELSE IF c <= \h7FF THEN <<\hC0 + High(c, 6)>> \o TailBytes(c, 1)
  ELSE IF c <= \hFFFF THEN <<\hE0 + High(c, 12)>> \o TailBytes(c, 2)
  ELSE IF c <= \h1FFFFF THEN <<\hF0 + High(c, 18)>> \o TailBytes(c, 3)
  ELSE IF c <= \h3FFFFFF THEN <<\hF8 + High(c, 24)>> \o TailBytes(c, 4)
  ELSE <<\hFC + Low(High(c, 30), 1)>> \o TailBytes(c, 5)

\* How many bytes follow the first one.
Following(b) ==
  CASE b < \hC0 -> 0 [] b < \hE0 -> 1 [] b < \hF0 -> 2 [] b < \hF8 -> 3 [] b < \hFC -> 4
    [] OTHER -> 5

\* The value of a first byte and n more, whatever those are.
ValueOf(s, i, n) ==
  LET value[k \in 0..n] ==
        IF k = 0 THEN Low(s[i], 6 - n) ELSE value[k - 1] * 64 + Low(s[i + k], 6)
  IN value[n]

\* BFC_GET_UTF8.  Surrogates of three bytes each make one character; a first
\* byte whose followers are missing stands for itself, or for a longer one
\* whose followers are all there, which cannot be.
GetUtf8(s, i) ==
  LET n == Following(s[i])
      c == ValueOf(s, i, n) IN
  IF n = 0 \/ i + n > Len(s) THEN [c |-> s[i], next |-> i + 1]
  ELSE IF n = 2 /\ c \in \hD800..\hDBFF /\ i + 5 <= Len(s) /\ s[i + 3] = \hED
    THEN [c |-> (Low(c, 10) + 64) * 1024 + Low(s[i + 4], 4) * 64 + Low(s[i + 5], 6), next |-> i + 6]
  ELSE [c |-> c, next |-> i + n + 1]

\* BFC_PUT_UTF16 of a character beyond 16 bits, the only ones it is used for.
PutUtf16(c) == <<\hD800 + Low(High(c - \h10000, 10), 10), \hDC00 + Low(c, 10)>>

-----------------------------------------------------------------------------
(* A message in a layout *)

cp1252_80_9F ==
  << \h20AC, \h0081, \h201A, \h0192, \h201E, \h2026, \h2020, \h2021,
     \h02C6, \h2030, \h0160, \h2039, \h0152, \h008D, \h017D, \h008F,
     \h0090, \h2018, \h2019, \h201C, \h201D, \h2022, \h2013, \h2014,
     \h02DC, \h2122, \h0161, \h203A, \h0153, \h009D, \h017E, \h0178 >>

\* What stands at i: UTF-8 if the next byte looks like it, or a character of
\* Windows.
CharAt(s, i) ==
  IF s[i] >= \hC0 /\ i < Len(s) /\ IsTail(s[i + 1]) THEN GetUtf8(s, i)
  ELSE [c |-> IF s[i] \in \h80..\h9F THEN cp1252_80_9F[Low(s[i], 5) + 1] ELSE s[i], next |-> i + 1]

\* The characters of a message, as both layouts see them; one of ascii is not
\* decoded, and stands for itself.
Characters(s) ==
  LET from[i \in 1..(Len(s) + 1)] ==
        IF i > Len(s) THEN << >>
        ELSE <<[c |-> CharAt(s, i).c, ascii |-> s[i] < \h80]>> \o from[CharAt(s, i).next]
  IN from[1]

Concat(parts) ==
  LET upto[n \in 0..Len(parts)] == IF n = 0 THEN << >> ELSE upto[n - 1] \o parts[n]
  IN upto[Len(parts)]
Each(s, Op(_)) == Concat([i \in DOMAIN s |-> Op(s[i])])

\* write_string_object: 16 bits for each character, as Java has them.
JavaChar(c) == IF c < \h10000 THEN PutUtf8(c) ELSE Each(PutUtf16(c), PutUtf8)

\* The length that is written first is corrected only upwards.
JavaString(s) ==
  LET text == Each(Characters(s), LAMBDA x : JavaChar(x.c)) IN
  [len |-> IF Len(text) > Len(s) THEN Len(text) ELSE Len(s), text |-> text]

Amp == 38
Lt == 60
Gt == 62
XmlName == [c \in {Amp, Lt, Gt} |->
            CASE c = Amp -> <<38, 97, 109, 112, 59>> [] c = Lt -> <<38, 108, 116, 59>>
              [] c = Gt -> <<38, 103, 116, 59>>]
XmlChar(x) == IF x.ascii /\ x.c \in {Amp, Lt, Gt} THEN XmlName[x.c] ELSE PutUtf8(x.c)

-----------------------------------------------------------------------------
(* transcoder.cpp *)

LOSSCHAR == 63
NoChar == \hFFFF

\* Transcoder::encodeUTF8 of a character.
EncodeUTF8(c) == IF c <= \h10FFFF THEN PutUtf8(c) ELSE PutUtf8(NoChar)

\* Transcoder::encodeUTF16BE; LE has the bytes of each unit swapped.
EncodeUTF16BE(c) ==
  LET w == High(c, 16) - 1 IN
  IF c <= \hFFFF THEN <<High(c, 8), Low(c, 8)>>
  ELSE IF c <= \h10FFFF
    THEN <<\hD8 + High(w, 2), Low(w, 2) * 64 + Low(High(c, 10), 6),
           \hDC + Low(High(c, 4), 2), Low(c, 8)>>
  ELSE <<\hFF, \hFF>>
Swapped(b) == [i \in DOMAIN b |-> b[IF i % 2 = 1 THEN i + 1 ELSE i - 1]]
EncodeUTF16LE(c) == Swapped(EncodeUTF16BE(c))

\* Transcoder::decode: the character at i, or NoChar and no step.  Of the
\* characters with three bytes the first one, \h800, is refused too.
Decode(s, i) ==
  LET n == IF s[i] < \hC0 THEN 0 ELSE IF s[i] < \hE0 THEN 1 ELSE IF s[i] < \hF0 THEN 2 ELSE 3
      c == IF n = 3 THEN Low(s[i], 3) * 2^18 + Low(s[i + 1], 6) * 2^12 + Low(s[i + 2], 6) * 64
                           + Low(s[i + 3], 6)
           ELSE ValueOf(s, i, n) IN
  IF s[i] <= \h7F THEN [c |-> s[i], next |-> i + 1]
  ELSE IF /\ n > 0 /\ i + n <= Len(s)
          /\ \A k \in 1..n : IsTail(s[i + k])
          /\ CASE n = 1 -> c >= \h80 [] n = 2 -> c > \h800 [] n = 3 -> c > \hFFFF
    THEN [c |-> c, next |-> i + n + 1]
  ELSE [c |-> NoChar, next |-> i]

\* Transcoder::decodeUTF8, which takes one byte that is no character for '?'.
DecodeUTF8(s) ==
  LET from[i \in 1..(Len(s) + 1)] ==
        IF i > Len(s) THEN << >>
        ELSE IF Decode(s, i).c = NoChar THEN <<LOSSCHAR>> \o from[i + 1]
        ELSE <<Decode(s, i).c>> \o from[Decode(s, i).next]
  IN Each(from[1], EncodeUTF8)

\* encodeUTF16 and decodeUTF16 of one character.
EncodeUTF16(c) ==
  IF c < \h10000 THEN <<c>>
  ELSE <<\hD800 + Low(High(c, 16) - 1, 4) * 64 + High(Low(c, 16), 10), \hDC00 + Low(c, 10)>>
DecodeUTF16(s) ==
  IF s[1] \notin \hD800..\hDFFF THEN s[1]
  ELSE IF s[1] < \hDC00 /\ Len(s) > 1 /\ s[2] \in \hDC00..\hDFFF
    THEN (s[1] - \hD800) * 1024 + (s[2] - \hDC00) + \h10000
  ELSE NoChar

\* Logger::forcedLog and setBaseDirectoryName of a wide string.
FromWide(w) == Each(w, PutUtf8)

-----------------------------------------------------------------------------
(* What a reader makes of it *)

IsUtf8Char(s, i, n) ==
  /\ i + n <= Len(s)
  /\ \A k \in 1..n : IsTail(s[i + k])
  /\ ValueOf(s, i, n) \in (CASE n = 0 -> 0..\h7F [] n = 1 -> \h80..\h7FF
                             [] n = 2 -> \h800..\hFFFF [] n = 3 -> \h10000..\h10FFFF)

\* The characters of a text in which each takes at most more bytes after its
\* first and none is among refused; it ends with -1 where it is no such text.
ReadChars(s, more, refused) ==
  LET from[i \in 1..(Len(s) + 1)] ==
        LET n == Following(s[i])
            c == IF n = 0 THEN s[i] ELSE ValueOf(s, i, n) IN
        IF i > Len(s) THEN << >>
        ELSE IF IsTail(s[i]) \/ n > more \/ ~IsUtf8Char(s, i, n) \/ c \in refused THEN <<-1>>
        ELSE <<c>> \o from[i + n + 1]
  IN from[1]

\* RFC 3629: four bytes at most, no surrogates.
ReadUtf8(s) == ReadChars(s, 3, Surrogates)
IsUtf8(s) == -1 \notin {ReadUtf8(s)[i] : i \in DOMAIN ReadUtf8(s)}
\* The modified UTF-8 of Java: the units of UTF-16 in three bytes at most.
ReadJava(s) == ReadChars(s, 2, {})

\* The 16-bit units of a text.
Units(chars) == Each(chars, LAMBDA c : IF c < \h10000 THEN <<c>> ELSE PutUtf16(c))
=============================================================================
