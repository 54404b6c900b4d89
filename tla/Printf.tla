------------------------------- MODULE Printf -------------------------------
(***************************************************************************)
(* l4sc_vsnprintf (src/log4stdc/vsnprntf.c), used where the system has no  *)
(* vsnprintf, and the loop that gives a message its buffer (logprf.c,      *)
(* l4sc_vlg.c).  Text is a sequence of characters; a conversion is a       *)
(* record of what stands between '%' and the letter, a char or a number    *)
(* has few bits.                                                           *)
(***************************************************************************)
EXTENDS Integers, Sequences, SequencesExt

CONSTANTS
  IntBits,      \* 8 * sizeof(unsigned)
  LongBits,     \* 8 * sizeof(unsigned long), and of size_t
  MaxEstimate   \* 64000, where l4sc_logprintf no longer looks for a buffer

ASSUME BitsAssumption == IntBits \in Nat \ {0} /\ LongBits \in Nat /\ LongBits >= IntBits

NoWidth == -1             \* CONV_DEFAULT_WIDTH
Digit == <<"0", "1", "2", "3", "4", "5", "6", "7", "8", "9", "a", "b", "c", "d", "e", "f">>

Larger(a, b) == IF a > b THEN a ELSE b
Times(n, c) == [i \in 1..Larger(n, 0) |-> c]       \* nothing if n is negative

-----------------------------------------------------------------------------
(* Numbers *)

\* Faulty variant: the power wraps round.
Power_Wraps(base, e, bits) == (base ^ e) % (2 ^ bits)

\* UNSIGNED_EXP: a power of the base, 0 when it does not fit into the type.
Power(base, e, bits) == IF base ^ e < 2 ^ bits THEN base ^ e ELSE 0

\* The loops that count the digits in PUT_UNSIGNED and PUT_HEX; the least base
\* is 8.
CountDigits(v, base, bits, prec) ==
  IF v = 0 /\ prec = 0 THEN 0
  ELSE Larger(prec, 1 + Cardinality({k \in 1..(bits \div 3) : /\ Power(base, k, bits) # 0
                                                               /\ Power(base, k, bits) <= v}))

\* The digits, highest first; in front of a power that overflows stands 0.
DigitAt(v, base, bits, e) ==
  IF Power(base, e, bits) = 0 THEN "0"
  ELSE Digit[((v \div Power(base, e, bits)) % base) + 1]
Digits(v, base, bits, prec) ==
  LET n == CountDigits(v, base, bits, prec) IN
  [i \in 1..n |-> DigitAt(v, base, bits, n - i)]

\* PUT_LEFT_FILL and PUT_RIGHT_FILL around a lead of signs and prefixes, and a
\* body.
Filled(lead, body, width, flags) ==
  LET rest == width - Len(lead) - Len(body)
      left == IF "-" \in flags THEN 0 ELSE rest
      right == IF "-" \in flags THEN rest ELSE 0 IN
  IF "0" \in flags
    THEN lead \o Times(left, "0") \o body \o Times(right, " ")
    ELSE Times(left, " ") \o lead \o body \o Times(right, " ")

Sign(flags) == IF "+" \in flags THEN <<"+">> ELSE IF " " \in flags THEN <<" ">> ELSE << >>

\* put_unsigned, put_ulong, put_ullong, put_size: prefix before sign.
PutUnsigned(c, prefix, v, bits) ==
  Filled(prefix \o Sign(c.flags), Digits(v, 10, bits, c.prec), c.width, c.flags)

\* put_hex, put_octal and their long forms: sign before prefix.
PutHex(c, prefix, v, base, bits) ==
  Filled(Sign(c.flags) \o prefix, Digits(v, base, bits, c.prec), c.width, c.flags)

\* The type of the argument: l, ll, z and t are long, h and hh, and none, int.
BitsOf(c) == IF c.mod \in {"l", "ll", "z", "t"} THEN LongBits ELSE IntBits

\* A negative number loses its '+', but keeps the space that stands for one.
PutSigned(c, v) ==
  IF v >= 0 THEN PutUnsigned(c, << >>, v, BitsOf(c))
  ELSE PutUnsigned([c EXCEPT !.flags = @ \ {"+"}], <<"-">>, -v, BitsOf(c))

-----------------------------------------------------------------------------
(* Strings *)

\* put_string: a precision is taken for the length, whether the string is that
\* long or not; what stands behind a shorter one is "?".
PutString(c, s) ==
  LET n == IF c.prec >= 0 THEN c.prec ELSE Len(s) IN
  Filled(<< >>, [i \in 1..n |-> IF i <= Len(s) THEN s[i] ELSE "?"], c.width, c.flags \ {"0"})

\* put_wstring stops at the end of the string.
PutWide(c, s) ==
  LET n == IF c.prec > 0 /\ c.prec < Len(s) THEN c.prec ELSE Len(s) IN
  Filled(<< >>, SubSeq(s, 1, n), c.width, c.flags \ {"0"})

-----------------------------------------------------------------------------
(* l4sc_vsnprintf *)

FlagChars == {"-", "+", " ", "0", "#"}
Numerals == {"0", "1", "2", "3", "4", "5", "6", "7", "8", "9"}
Modifiers == {"h", "l", "j", "z", "t", "L"}

\* How many characters of s from i on are in S.
RunOf(s, i, S) ==
  CHOOSE n \in 0..(Len(s) + 1 - i) : /\ \A k \in 0..(n - 1) : s[i + k] \in S
                                     /\ i + n <= Len(s) => s[i + n] \notin S

\* A width or a precision at i: digits, or the next argument for a star.
NumberAt(s, i, args) ==
  LET n == RunOf(s, i, Numerals)
      value[k \in 0..n] ==
        IF k = 0 THEN 0 ELSE 10 * value[k - 1] + (CHOOSE d \in 0..9 : Digit[d + 1] = s[i + k - 1]) IN
  IF s[i] = "*" THEN [v |-> args[1], next |-> i + 1, args |-> Tail(args)]
  ELSE [v |-> IF n = 0 THEN NoWidth ELSE value[n], next |-> i + n, args |-> args]

\* The conversion that s spells behind '%', and its argument; of several
\* modifiers the last counts.  A point without a number is a precision of 0.
ParseSpec(s, args) ==
  LET f == RunOf(s, 1, FlagChars)
      width == NumberAt(s, f + 1, args)
      point == s[width.next] = "."
      prec == IF point THEN NumberAt(s, width.next + 1, width.args)
              ELSE [width EXCEPT !.v = NoWidth]
      n == RunOf(s, prec.next, Modifiers)
      mod == CASE n = 0 -> "" [] n = 1 -> s[prec.next]
               [] OTHER -> IF s[prec.next + n - 1] = "l" THEN "ll" ELSE "hh" IN
  [flags |-> {s[i] : i \in 1..f} \ {"#"}, width |-> width.v,
   prec |-> IF point /\ prec.next = width.next + 1 THEN 0 ELSE prec.v,
   mod |-> mod, conv |-> s[prec.next + n], arg |-> prec.args[1]]

\* The conversions of l4sc_vsnprintf; a size in hexadecimal goes to put_size,
\* an unknown letter, 'i' among them, is copied.
Converted(c, arg) ==
  CASE c.conv = "d" -> PutSigned(c, arg)
    [] c.conv = "u" -> PutUnsigned(c, << >>, arg, BitsOf(c))
    [] c.conv = "o" -> PutHex(c, << >>, arg, 8, BitsOf(c))
    [] c.conv = "x" /\ c.mod \in {"z", "t"} -> PutUnsigned(c, << >>, arg, LongBits)
    [] c.conv = "x" -> PutHex(c, << >>, arg, 16, BitsOf(c))
    [] c.conv = "p" -> PutHex(c, <<"0", "x">>, arg, 16, LongBits)
    [] c.conv = "s" /\ c.mod = "l" -> PutWide(c, arg)
    [] c.conv = "s" -> PutString(c, arg)
    [] c.conv = "c" -> <<arg>>
    [] OTHER -> <<"%", c.conv>>

\* The buffer, its terminating NUL included, and what is returned: the length
\* the text would have.
Vsnprintf(before, spec, args, bufsize) ==
  LET c == ParseSpec(spec, args)
      text == before \o Converted(c, c.arg) IN
  [rc |-> Len(text),
   buf |-> IF bufsize = 0 THEN << >>
           ELSE Append(SubSeq(text, 1, IF Len(text) < bufsize THEN Len(text) ELSE bufsize - 1), "NUL")]

-----------------------------------------------------------------------------
(* The buffer of a message *)

\* l4sc_vlog: what is logged, or the answer of vsnprintf when it does not fit.
\* The vsnprintf of Microsoft answers -1 instead of the length.
Vlog(len, maxbytes, partial, microsoft) ==
  LET rc == IF len > maxbytes /\ microsoft THEN -1 ELSE len IN
  IF rc < 0 \/ rc > maxbytes
    THEN IF partial THEN [rc |-> maxbytes, logged |-> maxbytes] ELSE [rc |-> rc, logged |-> 0]
    ELSE [rc |-> rc, logged |-> rc]

\* Faulty variant: the buffer grows by too little for the message.
NextEstimate_Less(estimate, rc) ==
  IF rc > estimate THEN rc - 1 ELSE 5 * estimate + 200

NextEstimate(estimate, rc) == IF rc > estimate THEN rc + 80 ELSE 5 * estimate + 200

\* l4sc_logprintf: one attempt after the other.  An attempt whose answer is the
\* length is followed by the final one.
Attempts == 8
LogPrintf(len, first, microsoft) ==
  LET estimate[k \in 0..Attempts] ==
        IF k = 0 THEN first
        ELSE NextEstimate(estimate[k - 1], Vlog(len, estimate[k - 1], FALSE, microsoft).rc)
      rc(k) == Vlog(len, estimate[k], FALSE, microsoft).rc
      fits(k) == rc(k) >= 0 /\ rc(k) <= estimate[k]
      last == CHOOSE k \in 0..Attempts :
                /\ fits(k) \/ rc(k) >= 0 \/ estimate[k + 1] >= MaxEstimate
                /\ \A j \in 0..(k - 1) : ~fits(j) /\ rc(j) < 0 /\ estimate[j + 1] < MaxEstimate
  IN IF fits(last) THEN Vlog(len, estimate[last], FALSE, microsoft)
     ELSE Vlog(len, estimate[last + 1], TRUE, microsoft)

-----------------------------------------------------------------------------
(* The same, as the C standard says it *)

\* The decimal, octal or hexadecimal numeral of v.
Numeral(v, base) ==
  LET numeral[n \in Nat] ==
        IF n < base THEN <<Digit[n + 1]>> ELSE Append(numeral[n \div base], Digit[(n % base) + 1])
  IN numeral[v]

\* "The minimum number of digits to appear"; no digits for 0 with precision 0.
AtLeast(n, digits) == Times(n - Len(digits), "0") \o digits
StdDigits(v, base, prec) ==
  IF v = 0 /\ prec = 0 THEN << >> ELSE AtLeast(prec, Numeral(v, base))

StdBody(c, arg) ==
  CASE c.conv = "d" -> StdDigits(IF arg < 0 THEN -arg ELSE arg, 10, c.prec)
    [] c.conv = "u" -> StdDigits(arg, 10, c.prec)
    [] c.conv = "o" -> StdDigits(arg, 8, c.prec)
    [] c.conv = "x" -> StdDigits(arg, 16, c.prec)
    [] c.conv = "s" -> IF c.prec < 0 THEN arg
                       ELSE SubSeq(arg, 1, IF c.prec < Len(arg) THEN c.prec ELSE Len(arg))
    [] c.conv = "c" -> <<arg>>

StdSign(c, arg) ==
  IF c.conv # "d" THEN << >> ELSE IF arg < 0 THEN <<"-">> ELSE Sign(c.flags)

\* A field at least as wide as the width: zeros stand behind the sign and only
\* in numbers without a precision, blanks at the side that '-' chooses.
Standard(c, arg) ==
  LET sign == StdSign(c, arg)
      body == StdBody(c, arg)
      pad == c.width - Len(sign) - Len(body) IN
  IF "-" \in c.flags THEN sign \o body \o Times(pad, " ")
  ELSE IF "0" \in c.flags THEN sign \o Times(pad, "0") \o body
  ELSE Times(pad, " ") \o sign \o body

\* Where l4sc_vsnprintf does not follow the standard: a space flag with a
\* negative number or with a number that has no sign, '0' with a precision or
\* with text, a precision beyond the end of a string, the width of a character,
\* a size in hexadecimal, 'i' and 'p'.
Supported(c, arg) ==
  /\ c.conv \in {"d", "u", "o", "x", "s"}
  /\ c.conv # "d" => c.flags \intersect {"+", " "} = {}
  /\ c.conv = "d" /\ arg < 0 => " " \notin c.flags
  /\ "0" \in c.flags => c.conv # "s" /\ c.prec < 0
  /\ c.conv = "s" => IF c.mod = "l" THEN c.prec # 0 ELSE c.prec <= Len(arg)
  /\ c.conv = "x" => c.mod \notin {"z", "t"}
=============================================================================
