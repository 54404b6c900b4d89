------------------------------- MODULE XmlScan -------------------------------
(***************************************************************************)
(* The scanner of the XML configurator (src/log4stdc/xmlcfg.c): tags,      *)
(* their attributes, and the entities in those.  A text is a sequence of   *)
(* characters, one of which, " ", stands for all blanks.                   *)
(***************************************************************************)
EXTENDS Integers, Sequences, SequencesExt

CONSTANTS
  MaxAttrs,      \* MAX_ATTRS, 10
  MaxAttrLen,    \* MAX_ATTR_LEN, 40 * sizeof(void*), the NUL included
  Letters        \* characters a name may begin with

\* html_entities, those that XML has, and one character by its number.
Entity == [name \in {<<"l", "t">>, <<"g", "t">>, <<"a", "m", "p">>, <<"q", "u", "o", "t">>, <<"#", "6", "0">>} |->
             CASE name \in {<<"l", "t">>, <<"#", "6", "0">>} -> "<" [] name = <<"g", "t">> -> ">"
               [] name = <<"a", "m", "p">> -> "&" [] name = <<"q", "u", "o", "t">> -> "\""]

\* The first position from i on with one of the characters, or one behind s.
Reach(s, i, chars) ==
  LET found == {k \in i..Len(s) : s[k] \in chars} IN
  IF found = {} THEN Len(s) + 1 ELSE Min(found)
Past(s, i, chars) ==
  LET found == {k \in i..Len(s) : s[k] \notin chars} IN
  IF found = {} THEN Len(s) + 1 ELSE Min(found)

-----------------------------------------------------------------------------
\* decode_html_entities: what stands between '&' and the next ';'.  One that is
\* not known is copied, or repeats the one before if there was one.
RECURSIVE Decoded(_, _)
Decoded(s, unicode) ==
  LET amp == Reach(s, 1, {"&"})
      sem == Reach(s, amp, {";"})
      name == SubSeq(s, amp + 1, sem - 1)
      c == IF name \in DOMAIN Entity THEN <<Entity[name]>> ELSE unicode IN
  IF sem > Len(s) THEN s
  ELSE SubSeq(s, 1, amp - 1) \o (IF c = << >> THEN SubSeq(s, amp, sem) ELSE c)
         \o Decoded(SubSeq(s, sem + 1, Len(s)), c)

\* xml_find_next_tag, from position i on; the tag ends at the first '>', in
\* quotes or not.
NoTag == [type |-> "none", name |-> << >>, rest |-> << >>, next |-> 0]
FindTag(s, i) ==
  LET open == Reach(s, i, {"<"})
      mark == IF open < Len(s) THEN s[open + 1] ELSE "none"
      name == open + IF mark \in {"/", "?"} THEN 2 ELSE 1
      after == Reach(s, name, {" ", ">", "/"})
      close == Reach(s, after, {">"}) IN
  IF close > Len(s) THEN NoTag
  ELSE [type |-> CASE s[close - 1] = "/" -> "empty" [] mark = "/" -> "end"
                   [] mark = "?" -> "header" [] OTHER -> "start",
        name |-> SubSeq(s, name, after - 1),
        rest |-> SubSeq(s, after, close),
        next |-> close + 1]

Cut(s) == SubSeq(s, 1, IF Len(s) < MaxAttrLen THEN Len(s) ELSE MaxAttrLen - 1)

\* What stands in front of '=', without the blanks at its end.
Trimmed(s) == SubSeq(s, 1, Max({0} \union {k \in DOMAIN s : s[k] # " "}))

\* Faulty variant: after an attribute the scan goes on inside its value.
Attributes_InValue(s) ==
  LET from[pos \in 1..(Len(s) + 2), n \in 0..MaxAttrs] ==
        LET start == Past(s, Reach(s, pos, {" "}), {" "})
            assign == Reach(s, start + 1, {"="})
            quote == Reach(s, assign + 1, {"\""})
            endquote == Reach(s, quote + 1, {"\""}) IN
        IF start > Len(s) \/ n = 0 THEN << >>
        ELSE IF s[start] \notin Letters THEN from[start + 1, n]
        ELSE IF endquote > Len(s) THEN << >>
        ELSE <<[name |-> Cut(Trimmed(SubSeq(s, start, assign - 1))),
                value |-> Decoded(Cut(SubSeq(s, quote + 1, endquote - 1)), << >>)]>>
               \o from[quote + 1, n - 1]
  IN from[1, MaxAttrs]

\* xml_tag_get_attrs on what follows the name of a tag.  An attribute begins
\* with a letter behind a blank; one that has no value takes that of the next.
Attributes(s) ==
  LET from[pos \in 1..(Len(s) + 2), n \in 0..MaxAttrs] ==
        LET start == Past(s, Reach(s, pos, {" "}), {" "})
            assign == Reach(s, start + 1, {"="})
            quote == Reach(s, assign + 1, {"\""})
            endquote == Reach(s, quote + 1, {"\""}) IN
        IF start > Len(s) \/ n = 0 THEN << >>
        ELSE IF s[start] \notin Letters THEN from[start + 1, n]
        ELSE IF endquote > Len(s) THEN << >>
        ELSE <<[name |-> Cut(Trimmed(SubSeq(s, start, assign - 1))),
                value |-> Decoded(Cut(SubSeq(s, quote + 1, endquote - 1)), << >>)]>>
               \o from[endquote + 1, n - 1]
  IN from[1, MaxAttrs]

\* All tags of a text, with the attributes of those that begin an element.
Tags(s) ==
  LET from[i \in 1..(Len(s) + 1)] ==
        LET tag == FindTag(s, i) IN
        IF i > Len(s) \/ tag = NoTag THEN << >>
        ELSE <<[type |-> tag.type, name |-> tag.name,
                attrs |-> IF tag.type \in {"start", "empty"} THEN Attributes(tag.rest) ELSE << >>]>>
               \o from[tag.next]
  IN from[1]

-----------------------------------------------------------------------------
(* How XML writes a tag: each special character of a value as an entity *)

Escaped(c) ==
  CASE c = "<" -> <<"&", "#", "6", "0", ";">> [] c = ">" -> <<"&", "g", "t", ";">>
    [] c = "&" -> <<"&", "a", "m", "p", ";">> [] c = "\"" -> <<"&", "q", "u", "o", "t", ";">>
    [] OTHER -> <<c>>
Quoted(value) == <<"\"">> \o FlattenSeq([i \in DOMAIN value |-> Escaped(value[i])]) \o <<"\"">>

\* blanks stand before each attribute, and pad around its '='.
WrittenTag(tag, blanks, pad) ==
  LET attr(a) == blanks \o a.name \o pad \o <<"=">> \o pad \o Quoted(a.value)
      attrs == FlattenSeq([i \in DOMAIN tag.attrs |-> attr(tag.attrs[i])]) IN
  CASE tag.type = "end" -> <<"<", "/">> \o tag.name \o <<">">>
    [] tag.type = "start" -> <<"<">> \o tag.name \o attrs \o <<">">>
    [] tag.type = "empty" -> <<"<">> \o tag.name \o attrs \o <<"/", ">">>
=============================================================================
