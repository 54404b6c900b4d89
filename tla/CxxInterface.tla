---------------------------- MODULE CxxInterface ----------------------------
(***************************************************************************)
(* What the C++ interface adds to the C functions it calls: the message    *)
(* buffer (src/log4cxx/messagebuffer.cpp), into which a program writes     *)
(* with <<, and the names in a location (locationinfo.cpp).                *)
(***************************************************************************)
EXTENDS Naturals, Sequences, SequencesExt, FiniteSets

-----------------------------------------------------------------------------
(* CharMessageBuffer and MessageBuffer.  What is written is a text or what   *)
(* a stream makes of a number, [kind, text]; one statement writes several.   *)
(* The first number of a statement makes it go on with the stream itself.    *)

NewBuffer == [buf |-> << >>, streamed |-> FALSE, stream |-> << >>, on |-> "buffer"]

\* operator std::ostream&
Streaming(b) ==
  IF b.streamed THEN b ELSE [b EXCEPT !.streamed = TRUE, !.stream = b.buf]


PutPiece(b, piece) ==
  IF piece.kind = "text" /\ b.on = "buffer" /\ ~b.streamed THEN [b EXCEPT !.buf = @ \o piece.text]
  ELSE [Streaming(b) EXCEPT !.stream = @ \o piece.text,
                            !.on = IF piece.kind = "number" THEN "stream" ELSE @]

PutStatement(b, pieces) == FoldLeft(PutPiece, [b EXCEPT !.on = "buffer"], pieces)

\* str: its argument is the last statement's result, and only says by its type
\* whether the stream was used.
Str(b) == IF b.on = "stream" THEN b.stream ELSE b.buf

\* What str gives when its argument is the last of the statements.
CharMessage(statements) == Str(FoldLeft(PutStatement, NewBuffer, statements))

\* The same for a program whose texts are wide.  A statement that begins with a
\* number goes to the narrow buffer, whose stream makes an address of a wide
\* text; each of the others makes another WideMessageBuffer.
Address == <<"0x">>
AsNarrow(pieces) ==
  [i \in DOMAIN pieces |-> IF pieces[i].kind = "text" THEN [pieces[i] EXCEPT !.text = Address] ELSE pieces[i]]
WideMessage(statements) ==
  LET InNarrow(pieces) == pieces[1].kind = "number"
      narrow == SelectSeq(statements, InNarrow)
      last == Last(statements) IN
  IF InNarrow(last) THEN CharMessage([k \in DOMAIN narrow |-> AsNarrow(narrow[k])])
  ELSE Str(PutStatement(NewBuffer, last))

-----------------------------------------------------------------------------
(* LocationInfo *)

\* Where part begins in s, as find and find_last_of say; 0 when it does not.
Places(s, part) == {i \in 1..(Len(s) + 1 - Len(part)) : SubSeq(s, i, i + Len(part) - 1) = part}
Find(s, part) ==
  LET at == Places(s, part) IN IF at = {} THEN 0 ELSE CHOOSE i \in at : \A j \in at : i <= j
FindLast(s, part) ==
  LET at == Places(s, part) IN IF at = {} THEN 0 ELSE CHOOSE i \in at : \A j \in at : j <= i

Before(s, i) == IF i = 0 THEN s ELSE SubSeq(s, 1, i - 1)
From(s, i) == SubSeq(s, i, Len(s))

Scope == <<":", ":">>

GetMethodName(s) ==
  LET colon == Find(s, Scope)
      space == Find(s, <<" ">>)
      name == IF colon # 0 THEN From(s, colon + 2) ELSE From(s, space + 1) IN
  Before(name, Find(name, <<"(">>))

GetClassName(s) ==
  LET colon == Find(s, Scope)
      class == Before(s, colon) IN
  IF colon = 0 THEN << >> ELSE From(class, FindLast(class, <<" ">>) + 1)
=============================================================================
