---------------------------- MODULE StreamLayouts ----------------------------
(***************************************************************************)
(* Records for programs: a message as JSON, alone or in a frame of a       *)
(* websocket (src/log4stdc/jsonstrm.c), and as XML (xmlstrm.c).  A         *)
(* character of a record is a symbol; the fixed text of a record counts by *)
(* its length alone.  The sizes at which a frame changes its header are    *)
(* parameters, so that frames may be small.                                *)
(***************************************************************************)
EXTENDS Utf8, SequencesExt

CONSTANTS
  LEN2B,        \* WEBSOCKET_F1_LEN2B, 126: longer payloads have two bytes of length
  LEN8B,        \* 65536: longer ones have eight
  GuessLen,     \* 60000: the length of a message for which eight are expected
  MinFrame      \* 40: a smaller buffer gets no frame

-----------------------------------------------------------------------------
(* Records *)

\* A piece is kept only if it leaves room for its NUL.
Keep(text, piece, size) == IF Len(text) + Len(piece) < size THEN text \o piece ELSE text

\* A character of the message needs room for eight.
KeepChar(text, piece, size) == IF Len(text) + 8 < size THEN text \o piece ELSE text
WithMessage(text, chars, Form(_), size) ==
  FoldLeft(LAMBDA t, c : KeepChar(t, Form(c), size), text, chars)

\* Fixed text of n characters.
Fixed(c, n) == [i \in 1..n |-> c]

\* The escapes of format_json_message: quotes, backslashes and control
\* characters, those without a letter by their number.
JsonChar(c) ==
  CASE c = "\"" -> <<"\\", "\"">>
    [] c = "\\" -> <<"\\", "\\">>
    [] c = "newline" -> <<"\\", "n">>
    [] c = "control" -> <<"\\", "u", "0", "0", "1", "b">>
    [] OTHER -> <<c>>

\* format_json_message; logger and source are the lengths of names, and other
\* lengths those of the fixed text with numbers of the usual length.
JsonRecord(msg, logger, source, size) ==
  LET start == Keep(Keep(<< >>, Fixed("head", 171 + logger), size), Fixed("message", 15), size)
      body == WithMessage(start, msg, JsonChar, size)
      closed == Keep(Keep(body, <<"\"", ",", "NL">>, size), Fixed("batch", 86), size) IN
  Keep(Keep(closed, Fixed("source", 73 + source), size), <<"}", "NL">>, size)

\* format_xml_message, for a message of bytes; the tags are negative numbers.
XmlRecord(msg, logger, source, size) ==
  LET head == Keep(Keep(<< >>, Fixed(-1, 214 + logger), size), Fixed(-2, 63), size)
      body == WithMessage(Keep(head, Fixed(-3, 11), size), Characters(msg), XmlChar, size)
      closed == Keep(Keep(body, Fixed(-4, 11), size), Fixed(-5, 51 + source), size) IN
  Keep(closed, Fixed(-6, 10), size)

\* estimate_json_size, estimate_xml_size
EstimateRecord(msg, names) == Len(msg) + Len(msg) \div 4 + names + 500

-----------------------------------------------------------------------------
(* Frames: memory is a function from addresses to bytes, a byte is the set  *)
(* of what it is the exclusive or of                                        *)


Mask(k) == {<<"mask", k>>}
Byte(i) == {<<"byte", i>>}
Number(n) == {<<"number", n>>}

\* mask[0..3], when it stands in memory at m.
MaskAt(mem, m) == [k \in 0..3 |-> mem[m + k]]
WithMask(mem, m) == [a \in DOMAIN mem |-> IF a \in m..(m + 3) THEN Mask(a - m) ELSE mem[a]]

\* One after the other, so that what was written is read again if they overlap.
CopyInOrder(mem, dest, payload, mask, order) ==
  FoldLeft(LAMBDA m, i : [m EXCEPT ![dest + i] = SymDiff(m[payload + i], mask[i % 4])], mem, order)

\* mask_in_place goes on to the next multiple of four where it can.
MaskInPlace(mem, payload, m, len) ==
  LET n == IF payload % 4 = 0 /\ m % 4 = 0 THEN 4 * ((len + 3) \div 4) ELSE len IN
  CopyInOrder(mem, payload, payload, MaskAt(mem, m), [i \in 1..n |-> i - 1])

\* copy_and_mask and copy_reverse_and_mask
CopyAndMask(mem, dest, payload, m, len) ==
  CopyInOrder(mem, dest, payload, MaskAt(mem, m), [i \in 1..len |-> i - 1])
CopyReverseAndMask(mem, dest, payload, mask, len) ==
  CopyInOrder(mem, dest, payload, mask, [i \in 1..len |-> len - i])

\* Faulty variant: the payload is always moved from its first byte on.
Masked_Forward(mem, payload, maskp, len) ==
  LET dest == maskp + 4 IN CopyAndMask(WithMask(mem, maskp), dest, payload, maskp, len)

\* The payload in its place: the mask is kept aside while it would overwrite
\* what is still to be moved.
Masked(mem, payload, maskp, len) ==
  LET dest == maskp + 4 IN
  IF payload = dest THEN MaskInPlace(WithMask(mem, maskp), payload, maskp, len)
  ELSE IF payload > dest THEN CopyAndMask(WithMask(mem, maskp), dest, payload, maskp, len)
  ELSE WithMask(CopyReverseAndMask(mem, dest, payload, [k \in 0..3 |-> Mask(k)], len), maskp)

\* The bytes of the length, most significant first; a byte holds LEN2B values.
LengthBytes(len, n) == [i \in 1..n |-> Number((len \div 256^(n - i)) % 256)]
Header(maskp, len) ==
  <<{<<"fin", "text">>}>> \o
  CASE maskp = 2 -> <<{<<"masked", len>>}>>
    [] maskp = 4 -> <<{<<"masked2b">>}>> \o LengthBytes(len, 2)
    [] maskp = 10 -> <<{<<"masked8b">>}>> \o [i \in 1..5 |-> Number(0)] \o LengthBytes(len, 3)

\* Where a message of msglen bytes is formatted, behind the header expected for
\* it; the header of its record may turn out smaller or longer.
PayloadAt(msglen) == 4 + IF msglen < GuessLen THEN 4 ELSE 10
Longest == 6      \* by so much the longest header exceeds the smaller guess

\* What stands behind the buffer.
Beyond(a) == {<<"beyond", a>>}

\* format_json_ws_message for a message of msglen bytes in a buffer of bufsize,
\* which begins at a multiple of four; its record has len bytes, less than the
\* buffer has behind the place it is formatted at.  The answer is the memory
\* and the length of the frame.
Frame(msglen, len, bufsize) ==
  LET payload == PayloadAt(msglen)
      maskp == IF len < LEN2B THEN 2 ELSE IF len < LEN8B THEN 4 ELSE 10
      mem == [a \in 0..(bufsize + Longest) |->
                IF a \in payload..(payload + len - 1) THEN Byte(a - payload)
                ELSE IF a >= bufsize THEN Beyond(a) ELSE {}]
      moved == Masked(mem, payload, maskp, len)
      header == Header(maskp, len) IN
  IF bufsize < MinFrame THEN [mem |-> << >>, len |-> 0]
  ELSE [mem |-> [a \in DOMAIN mem |-> IF a < Len(header) THEN header[a + 1] ELSE moved[a]],
        len |-> maskp + 4 + len]

-----------------------------------------------------------------------------
(* The readers *)

\* A string of JSON from position i0 up to the quote that ends it; << "cut" >>
\* behind what is there if none does, or a control character comes first.
ReadJson(text, i0) ==
  LET from[i \in i0..(Len(text) + 2)] ==
        IF i > Len(text) \/ text[i] \in {"newline", "control"} THEN <<"cut">>
        ELSE IF text[i] = "\"" THEN << >>
        ELSE IF text[i] # "\\" THEN <<text[i]>> \o from[i + 1]
        ELSE CASE text[i + 1] = "\"" -> <<"\"">> \o from[i + 2]
               [] text[i + 1] = "\\" -> <<"\\">> \o from[i + 2]
               [] text[i + 1] = "n" -> <<"newline">> \o from[i + 2]
               [] text[i + 1] = "u" -> <<"control">> \o from[i + 6]
  IN from[i0]

\* RFC 6455, 5.2 and 5.3: the length in the shortest of its three forms that
\* holds it, the key, and the payload.
ReadFrame(mem, size) ==
  LET seven == {n \in 0..(LEN2B - 1) : mem[1] = {<<"masked", n>>}}
      word(n) == LET value[k \in 0..n] ==
                       IF k = 0 THEN 0
                       ELSE value[k - 1] * 256 + (CHOOSE v \in 0..255 : mem[1 + k] = Number(v))
                 IN value[n]
      at == IF seven # {} THEN 2 ELSE IF mem[1] = {<<"masked2b">>} THEN 4 ELSE 10
      len == IF seven # {} THEN CHOOSE n \in seven : TRUE ELSE word(at - 2) IN
  [len |-> len, whole |-> size = at + 4 + len,
   payload |-> [i \in 0..(len - 1) |-> SymDiff(mem[at + 4 + i], mem[at + (i % 4)])]]
=============================================================================
