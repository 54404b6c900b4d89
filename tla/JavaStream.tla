------------------------------ MODULE JavaStream ------------------------------
(***************************************************************************)
(* The object streams of the log4j and log4j2 socket layouts               *)
(* (src/log4stdc/l4jstrm.c) and a reader for them.  The layout writes each *)
(* record of a message as objects and strings.  Writer and reader number   *)
(* what they meet, each on its own: the first object of a class carries    *)
(* the description of the class, later ones the number ("handle") the      *)
(* description got.  TC_RESET starts the numbers again on both sides.      *)
(*                                                                         *)
(* Bytes are left out, except for what they add up to: whether a record    *)
(* fits into the buffer that was estimated for it.                         *)
(***************************************************************************)
EXTENDS Naturals, Sequences

CONSTANT ResetAfter   \* handles after which a stream is reset, 500

ASSUME ResetAfterAssumption == ResetAfter \in Nat

Layouts == {"log4j", "log4j2"}

\* What a record is made of: a string, or an object of a class whose
\* description takes some handles: its own and one for each string and each
\* further description in it.
String == [class |-> "String", handles |-> 0]
IsString(e) == e.class = "String"
Object(class, handles) == [class |-> class, handles |-> handles]

LoggingEvent == Object("LoggingEvent", 8)
LocationInfo == Object("LocationInfo", 2)
Log4jElements ==
  << LoggingEvent, String,        \* name of the logger
     LocationInfo, String,
     String, String >>            \* message, thread

LogEvent == Object("LogEvent", 9)
ContextMap == Object("EmptyMap", 1)
ContextStack == Object("EmptyThreadContextStack", 1)
LevelObject == Object("Level", 2)
StandardLevel == Object("StandardLevel", 2)
MessageObject == Object("SimpleMessage", 1)
SourceObject == Object("StackTraceElement", 1)
Log4j2Elements ==
  << LogEvent, ContextMap, ContextStack,
     LevelObject, String, StandardLevel, String,
     String, String,              \* class and name of the logger
     MessageObject, String,
     SourceObject, String, String, String,
     String >>                    \* thread

Elements(layout) == IF layout = "log4j" THEN Log4jElements ELSE Log4j2Elements

\* The class whose reference tells whether the stream has been begun.
KeyClass(layout) == IF layout = "log4j" THEN "LoggingEvent" ELSE "SimpleMessage"

\* These descriptions refer to the string with handle 4, the type of a field
\* in the description of LogEvent.
StringTyped == {"Level", "SimpleMessage", "StackTraceElement"}
StringHandle == 4

-----------------------------------------------------------------------------
(* The writer *)

\* layout->u.jstrm after reset_l4j_stream, and after the init function.
Fresh == [handle |-> 0, refs |-> << >>]

Known(state, class) == class \in DOMAIN state.refs

\* Faulty variant: the descriptions of a new stream are forgotten.
Roomy_OnlyLong(layout, state) == state.handle > ResetAfter

\* The estimate leaves room for descriptions when it expects some.
Roomy(layout, state) ==
  ~Known(state, KeyClass(layout)) \/ state.handle > ResetAfter

\* A stream that was not begun is begun silently, a long one is reset if the
\* buffer is large enough for the descriptions.
Resets(layout, state, roomy) ==
  Known(state, KeyClass(layout)) /\ state.handle > ResetAfter /\ roomy
Start(layout, state, roomy) ==
  IF ~Known(state, KeyClass(layout)) \/ Resets(layout, state, roomy) THEN Fresh ELSE state

\* Faulty variant: the handle of the object itself is not counted.
Takes_Short(state, e) == IF IsString(e) \/ Known(state, e.class) THEN 1 ELSE e.handles

\* What write_prolog and write_string_object add to the handle.
Takes(state, e) == IF IsString(e) \/ Known(state, e.class) THEN 1 ELSE e.handles + 1

\* The handle behind the first i elements; no class is in a record twice.
Handles(layout, from) ==
  LET h[i \in 0..Len(Elements(layout))] ==
        IF i = 0 THEN from.handle ELSE h[i - 1] + Takes(from, Elements(layout)[i])
  IN h

\* The state behind the record: what it describes can be referred to.
Written(layout, state, roomy) ==
  LET from == Start(layout, state, roomy)
      es == Elements(layout)
      new == {i \in DOMAIN es : ~IsString(es[i]) /\ ~Known(from, es[i].class)} IN
  [handle |-> Handles(layout, from)[Len(es)],
   refs |-> [c \in DOMAIN from.refs \union {es[i].class : i \in new} |->
               IF Known(from, c) THEN from.refs[c]
               ELSE Handles(layout, from)[(CHOOSE i \in new : es[i].class = c) - 1]]]

\* What one element looks like on the wire: a description says how many
\* handles it takes, a reference which one it means.
Item(from, e) ==
  IF IsString(e) THEN [kind |-> "string", class |-> e.class, handle |-> 0]
  ELSE IF Known(from, e.class)
    THEN [kind |-> "ref", class |-> e.class, handle |-> from.refs[e.class]]
    ELSE [kind |-> "desc", class |-> e.class, handle |-> e.handles]

\* Beyond the end of the buffer bytes are counted and not stored.
Outgrows(items, roomy) == ~roomy /\ \E i \in DOMAIN items : items[i].kind = "desc"

\* What format_log4j_message and format_log4j2_message write.  A record with
\* descriptions outgrows a buffer that was estimated without.
Record(layout, state, roomy) ==
  LET from == Start(layout, state, roomy)
      items == [i \in DOMAIN Elements(layout) |-> Item(from, Elements(layout)[i])] IN
  [reset |-> Resets(layout, state, roomy), items |-> items,
   outgrown |-> Outgrows(items, roomy)]

-----------------------------------------------------------------------------
(* The reader, as java.io.ObjectInputStream numbers what it reads *)

NewReader == [header |-> FALSE, ok |-> TRUE, seen |-> << >>]
Broken == [NewReader EXCEPT !.ok = FALSE]

\* What an item adds to the table of things seen.
Adds(item) ==
  IF item.kind = "string" THEN <<"string">>
  ELSE IF item.kind = "ref" THEN <<"object">>
  ELSE <<item.class>> \o [i \in 1..(item.handle - 1) |-> "string"] \o <<"object">>

Understood(seen, item) ==
  /\ item.kind = "ref" => item.handle < Len(seen) /\ seen[item.handle + 1] = item.class
  /\ item.kind = "desc" /\ item.class \in StringTyped =>
       Len(seen) > StringHandle /\ seen[StringHandle + 1] = "string"

\* A record is read after the header only; each of its items refers to what
\* was seen before it.
ReadRecord(r, record) ==
  LET seen[i \in 0..Len(record.items)] ==
        IF i = 0 THEN IF record.reset THEN << >> ELSE r.seen
        ELSE seen[i - 1] \o Adds(record.items[i]) IN
  IF /\ r.ok /\ r.header
     /\ \A i \in DOMAIN record.items : Understood(seen[i - 1], record.items[i])
    THEN [r EXCEPT !.seen = seen[Len(record.items)]]
    ELSE Broken
=============================================================================
