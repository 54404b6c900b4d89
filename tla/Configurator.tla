---------------------------- MODULE Configurator ----------------------------
(***************************************************************************)
(* The two configurators (src/log4stdc/propcfg.c, xmlcfg.c) and the calls  *)
(* that run them on a string or a file (strcfg.c, filecfg.c).  A           *)
(* configurator turns each line or tag of a text into calls of the API, so *)
(* this module drives the operations of LoggerTree, one call a step.       *)
(*                                                                         *)
(* A text is a sequence of items: lines of properties or tags of XML.  An  *)
(* item is a record with the fields that its kind needs:                   *)
(*   logger     name, level, refs, fit: in a file only the first fit refs  *)
(*              stand in the first 255 characters of the line; level "" is *)
(*              that of a tag, which has no such attribute                 *)
(*   additivity name, value     (a line; in XML an attribute of logger)    *)
(*   appender   name, class     (kind "appender")                          *)
(*   option     name, of: "appender" or "layout"   (a line)                *)
(*   ref        name            (tag appender-ref)                         *)
(*   layout, root, param, level (tags, the last with a value)              *)
(*   comment    inside: the tags that stand in it                          *)
(*   ignored    a line without "log4" or '=' or a second '.'               *)
(* A tag has a shape: "start", "end" or "empty".                           *)
(***************************************************************************)
EXTENDS LoggerTree

SX == INSTANCE SequencesExt

CONSTANTS
  Texts,              \* texts that are configured: [form, items]
  ClassesPassed,      \* classes that follow the path or string in the call
  MaxConfigurations   \* bound: calls of a configurator, before the last is repeated

Line ==
  {l \in [kind : {"logger"}, name : LoggerNames, level : Levels, refs : Seq(AppenderNames),
          fit : Nat] : l.fit <= Len(l.refs)}
    \union [kind : {"additivity"}, name : LoggerNames, value : Additivities]
    \union [kind : {"appender"}, name : AppenderNames, class : Kinds]
    \union [kind : {"option"}, name : AppenderNames, of : {"appender", "layout"}]
    \union [kind : {"ignored"}]

\* The tags that end an element have no attributes.
Shapes == {"start", "empty"}
Tag ==
  [kind : {"logger"}, shape : Shapes, name : LoggerNames, additive : {TRUE} \union Additivities]
    \union [kind : {"appender"}, shape : Shapes, name : AppenderNames, class : Kinds]
    \union [kind : {"ref"}, shape : Shapes, name : AppenderNames]
    \union [kind : {"level"}, shape : Shapes, value : Levels]
    \union [kind : {"layout", "param", "root"}, shape : Shapes]
    \union [kind : {"logger", "appender", "ref", "level", "layout", "param", "root"}, shape : {"end"}]
Comment == [kind : {"comment"}, inside : Seq(Tag)]

\* A text says nothing but what the operations of LoggerTree do.
ASSUME TextsAssumption ==
  \A t \in Texts : \/ (t.form = "property" /\ t.items \in Seq(Line))
                  \/ (t.form = "xml" /\ t.items \in Seq(Tag \union Comment))
ASSUME PassedAssumption == ClassesPassed \in Seq(ExtraClasses)

NoneCurrent == [logger |-> 0, appender |-> 0, layout |-> 0]
Idle == [text |-> [form |-> "none", items |-> << >>], source |-> "string", pass |-> 0,
         at |-> 0, todo |-> << >>, begun |-> FALSE]

VARIABLES
  job,         \* the call that is under way: its text, pass, item and calls to make
  cur,         \* struct parsing_state, or the locals of config_from_property_line
  configured,  \* what l4sc_is_configured answers
  placed,      \* history: <<item, target>> of the options set in the last pass
  done         \* history: the calls so far, with the state they found

configuring == <<job, cur, configured, placed, done>>
all == <<vars, configuring>>

ConfiguratorInit ==
  /\ Init
  /\ job = Idle /\ cur = NoneCurrent /\ configured = FALSE
  /\ placed = {} /\ done = << >>

LastCall == done[Len(done)]
Contents == <<loggers, [a \in AppenderIds |-> [appenders[a] EXCEPT !.open = FALSE]]>>

-----------------------------------------------------------------------------
(* From items to calls *)

\* xml_find_next_tag does not know comments: "<!--" is the name of a tag that
\* ends at the first '>', so it takes the first tag inside with it, and the
\* others are read.
Visible(items) ==
  SX!FlattenSeq([i \in DOMAIN items |->
    IF items[i].kind # "comment" THEN <<items[i]>>
    ELSE IF items[i].inside = << >> THEN << >> ELSE Tail(items[i].inside)])

Call(op) == [op |-> op]
Name(op, n) == [op |-> op, name |-> n]
End(what) == [op |-> "end", of |-> what]

\* The part of a line that fgets gets into its buffer of 256 characters; the
\* rest is read as a line of its own, which does not begin with "log4".
Refs(item) ==
  IF job.source = "file" THEN SubSeq(item.refs, 1, item.fit) ELSE item.refs

\* config_from_property_line
LineCalls(item) ==
  CASE item.kind = "logger" ->
         <<Name("logger", item.name), [op |-> "level", value |-> item.level]>>
           \o [i \in DOMAIN Refs(item) |-> Name("ref", Refs(item)[i])]
    [] item.kind = "additivity" ->
         <<Name("logger", item.name), [op |-> "additivity", value |-> item.value]>>
    [] item.kind = "appender" -> <<[op |-> "appender", name |-> item.name, class |-> item.class]>>
    [] item.kind = "option" /\ item.of = "appender" -> <<Name("find", item.name), Call("param")>>
    [] item.kind = "option" /\ item.of = "layout" -> <<Name("find", item.name), Call("layout"), Call("param")>>
    [] OTHER -> << >>

\* on_start_tag.  Left out: the level or the additivity of a logger as a param,
\* and its level as an attribute: other spellings of what the tag and the
\* attribute that are modelled set.
StartCalls(tag) ==
  CASE tag.kind = "logger" ->
         <<Name("logger", tag.name)>>
           \o (IF tag.additive THEN << >> ELSE <<[op |-> "additivity", value |-> FALSE]>>)
    [] tag.kind = "appender" -> <<[op |-> "appender", name |-> tag.name, class |-> tag.class]>>
    [] tag.kind = "ref" -> <<Name("ref", tag.name)>>
    [] tag.kind = "level" -> <<[op |-> "level", value |-> tag.value]>>
    [] tag.kind \in {"layout", "param"} -> <<Call(tag.kind)>>
    [] OTHER -> << >>

\* Faulty variant: the end of a layout leaves it current.
EndCalls_KeepLayout(tag) ==
  CASE tag.kind = "logger" -> <<End("logger")>>
    [] tag.kind \in {"appender", "ref"} -> <<End("appender")>>
    [] OTHER -> << >>

\* on_end_tag, where "appender" is a prefix of "appender-ref".
EndCalls(tag) ==
  CASE tag.kind = "logger" -> <<End("logger")>>
    [] tag.kind \in {"appender", "ref"} -> <<End("appender")>>
    [] tag.kind = "layout" -> <<End("layout")>>
    [] OTHER -> << >>

TagCalls(tag) ==
  (IF tag.shape = "end" THEN << >> ELSE StartCalls(tag))
    \o (IF tag.shape = "start" THEN << >> ELSE EndCalls(tag))

Seen(t) == IF t.form = "xml" THEN Visible(t.items) ELSE t.items

-----------------------------------------------------------------------------
(* A call of a configurator *)

\* l4sc_configure_from_file and _string: first the classes are registered, then
\* all appenders are closed.
Begin(t, source) ==
  /\ job = Idle
  /\ \/ Len(done) < MaxConfigurations
     \/ Len(done) = MaxConfigurations /\ t = LastCall.text /\ source = LastCall.source
  /\ job' = [text |-> t, source |-> source, pass |-> 1, at |-> 0, begun |-> FALSE,
             todo |-> [i \in DOMAIN ClassesPassed |-> Name("register", ClassesPassed[i])]]
  /\ done' = Append(done, [text |-> t, source |-> source, found |-> Contents, failed |-> FALSE])
  /\ placed' = {}
  /\ UNCHANGED <<vars, cur, configured>>

Ready == job # Idle /\ job.todo = << >>

Close ==
  /\ Ready /\ ~job.begun
  /\ CloseAppenders
  /\ job' = [job EXCEPT !.begun = TRUE]
  /\ UNCHANGED <<loggers, adopted, cur, configured, placed, done>>

\* The file cannot be opened or read: nothing of it is configured, but the
\* appenders are closed and the library counts as configured.
Unreadable ==
  /\ Ready /\ job.begun /\ job.source = "file" /\ job.pass = 1 /\ job.at = 0
  /\ job' = Idle /\ cur' = NoneCurrent /\ configured' = TRUE /\ placed' = {}
  /\ done' = [done EXCEPT ![Len(done)].failed = TRUE]
  /\ UNCHANGED vars

\* The next line or tag.  A line has its own locals.
ReadItem ==
  /\ Ready /\ job.begun /\ job.at < Len(Seen(job.text))
  /\ LET item == Seen(job.text)[job.at + 1]
         xml == job.text.form = "xml" IN
     /\ job' = [job EXCEPT !.at = @ + 1,
                           !.todo = IF xml THEN TagCalls(item) ELSE LineCalls(item)]
     /\ cur' = IF xml THEN cur ELSE NoneCurrent
  /\ UNCHANGED <<vars, configured, placed, done>>

\* Faulty variant: lines are read once.
Passes_One(t) == 1

\* The lines are read twice, tags once.
Passes(t) == IF t.form = "xml" THEN 1 ELSE 2

SecondPass ==
  /\ Ready /\ job.begun /\ job.at = Len(Seen(job.text)) /\ job.pass < Passes(job.text)
  /\ job' = [job EXCEPT !.pass = @ + 1, !.at = 0]
  /\ cur' = NoneCurrent /\ placed' = {}
  /\ UNCHANGED <<vars, configured, done>>

\* l4sc_set_configured(1)
Finish ==
  /\ Ready /\ job.begun /\ job.at = Len(Seen(job.text)) /\ job.pass = Passes(job.text)
  /\ job' = Idle /\ cur' = NoneCurrent /\ configured' = TRUE
  /\ UNCHANGED <<vars, placed, done>>

-----------------------------------------------------------------------------
(* The calls *)

Takes(op) ==
  /\ job.todo # << >> /\ Head(job.todo).op = op
  /\ job' = [job EXCEPT !.todo = Tail(@)]
  /\ UNCHANGED <<configured, done>>

\* What an option is set for: the innermost that is current.
Target ==
  IF cur.layout # 0 THEN <<"layout", cur.layout>>
  ELSE IF cur.appender # 0 THEN <<"appender", cur.appender>>
  ELSE IF cur.logger # 0 THEN <<"logger", cur.logger>> ELSE <<"nothing", 0>>

Register ==
  /\ Takes("register") /\ RegisterExtraClass(Head(job.todo).name)
  /\ UNCHANGED <<loggers, adopted, cur, placed>>

CallLogger ==
  /\ Takes("logger")
  /\ GetLogger(Head(job.todo).name)
  /\ cur' = [cur EXCEPT !.logger = LoggerNamed(loggers, Head(job.todo).name)]
  /\ UNCHANGED placed

\* l4sc_set_object_option with what only a logger understands.
CallLevel ==
  /\ Takes("level")
  /\ IF Target[1] = "logger" THEN SetLevel(Target[2], Head(job.todo).value) ELSE UNCHANGED vars
  /\ placed' = placed \union {<<job.at, Target>>}
  /\ UNCHANGED cur

CallAdditivity ==
  /\ Takes("additivity")
  /\ SetAdditivity(cur.logger, Head(job.todo).value)
  /\ UNCHANGED <<cur, placed>>

\* An appender is attached if there is one of this name by now.
CallRef ==
  LET a == FindAppender(Head(job.todo).name) IN
  /\ Takes("ref")
  /\ IF a # 0 /\ cur.logger # 0 THEN SetAppender(cur.logger, a) ELSE UNCHANGED vars
  /\ UNCHANGED <<cur, placed>>

\* l4sc_get_appender with a class: the appender that has it, or a new one.
CallAppender ==
  LET n == Head(job.todo).name
      k == Head(job.todo).class
      a == FindAppender(n)
      same == a # 0 /\ appenders[a].class = ClassOf(k) IN
  /\ Takes("appender")
  /\ IF same THEN UNCHANGED vars ELSE GetAppender(n, k) /\ UNCHANGED <<loggers, adopted>>
  /\ cur' = [cur EXCEPT !.appender = IF same THEN a ELSE Len(appenders) + 1]
  /\ UNCHANGED placed

\* A line about an appender is skipped when there is none of its name.
CallFind ==
  LET a == FindAppender(Head(job.todo).name) IN
  /\ job.todo # << >> /\ Head(job.todo).op = "find"
  /\ job' = [job EXCEPT !.todo = IF a = 0 THEN << >> ELSE Tail(@)]
  /\ cur' = [cur EXCEPT !.appender = a]
  /\ UNCHANGED <<vars, configured, placed, done>>

CallLayout ==
  /\ Takes("layout")
  /\ cur' = IF cur.appender # 0 THEN [cur EXCEPT !.layout = cur.appender] ELSE cur
  /\ UNCHANGED <<vars, placed>>

CallParam ==
  /\ Takes("param")
  /\ placed' = placed \union {<<job.at, Target>>}
  /\ UNCHANGED <<vars, cur>>

CallEnd ==
  /\ Takes("end")
  /\ cur' = [cur EXCEPT ![Head(job.todo).of] = 0]
  /\ UNCHANGED <<vars, placed>>

ConfiguratorNext ==
  \/ \E t \in Texts, source \in {"string", "file"} : Begin(t, source)
  \/ Close \/ Unreadable \/ ReadItem \/ SecondPass \/ Finish
  \/ Register \/ CallLogger \/ CallLevel \/ CallAdditivity \/ CallRef
  \/ CallAppender \/ CallFind \/ CallLayout \/ CallParam \/ CallEnd

ConfiguratorSpec == ConfiguratorInit /\ [][ConfiguratorNext]_all

-----------------------------------------------------------------------------
(* What a text declares, read off the text as a whole *)

Items(t) == DOMAIN t.items
Is(t, i, kind) == t.items[i].kind = kind
Opens(t, i) == t.form = "xml" /\ t.items[i].kind # "comment" /\ t.items[i].shape = "start"
Ends(t, i) == t.form = "xml" /\ t.items[i].kind # "comment" /\ t.items[i].shape = "end"
Depth(t, i) == Cardinality({j \in 1..(i - 1) : Opens(t, j)})
                 - Cardinality({j \in 1..(i - 1) : Ends(t, j)})

\* The element in which a tag stands, 0 for the outermost.
Enclosing(t, i) ==
  LET outer == {j \in 1..(i - 1) : Opens(t, j) /\ Depth(t, j) = Depth(t, i) - 1} IN
  IF outer = {} THEN 0 ELSE CHOOSE j \in outer : \A k \in outer : k <= j

\* The end of the element that tag i opens: the first end tag on its level.
EndOf(t, i, e) ==
  /\ i < e /\ Ends(t, e) /\ t.items[e].kind = t.items[i].kind /\ Depth(t, e) = Depth(t, i) + 1
  /\ \A k \in (i + 1)..e : Depth(t, k) > Depth(t, i)

\* Elements end where XML has them end, and stand where a configuration has
\* them; root is also what the configurator does not know, as what holds them all.
Holder(t, i) == IF Enclosing(t, i) = 0 THEN "nothing" ELSE t.items[Enclosing(t, i)].kind
HoldersOf(kind) ==
  CASE kind \in {"logger", "appender", "root"} -> {"nothing", "root"}
    [] kind = "layout" -> {"appender"}
    [] kind = "ref" -> {"root", "logger", "appender"}
    [] kind \in {"level", "param"} -> {"nothing", "root", "logger", "appender", "layout"}
Conforming(t) ==
  t.form = "xml" =>
    \A i \in Items(t) : ~Is(t, i, "comment") =>
      /\ Opens(t, i) => \E e \in Items(t) : EndOf(t, i, e)
      /\ ~Ends(t, i) => Holder(t, i) \in HoldersOf(t.items[i].kind)

\* The item that says of which logger or appender item i speaks.
Subject(t, i) ==
  IF t.form = "property" THEN i
  ELSE IF Enclosing(t, i) # 0 THEN Enclosing(t, i) ELSE i

Speaks(t, i, n) == Is(t, Subject(t, i), "logger") /\ t.items[Subject(t, i)].name = n

LoggersOf(t) == {t.items[i].name : i \in {j \in Items(t) : Is(t, j, "logger") /\ ~Ends(t, j)}}
ClassesOf(t, n) ==
  {t.items[i].class : i \in {j \in Items(t) : /\ Is(t, j, "appender") /\ ~Ends(t, j)
                                              /\ t.items[j].name = n}}

\* Levels that t sets for the logger n: <<item, level>>.
LevelsOf(t, n) ==
  IF t.form = "property"
    THEN {<<i, t.items[i].level>> : i \in {j \in Items(t) : Is(t, j, "logger") /\ t.items[j].name = n}}
    ELSE {<<i, t.items[i].value>> : i \in {j \in Items(t) : Is(t, j, "level") /\ ~Ends(t, j) /\ Speaks(t, j, n)}}

\* Appenders that t attaches to n, in a file those that fit on their line.
RefsOf(t, n, source) ==
  IF t.form = "property"
    THEN UNION {Elements(IF source = "file" THEN SubSeq(t.items[i].refs, 1, t.items[i].fit)
                         ELSE t.items[i].refs) :
                  i \in {j \in Items(t) : Is(t, j, "logger") /\ t.items[j].name = n}}
    ELSE {t.items[i].name : i \in {j \in Items(t) : Is(t, j, "ref") /\ ~Ends(t, j) /\ Speaks(t, j, n)}}

\* An appender has one class; in XML, where a text is read once, all appenders
\* stand before the references, for a reference finds only what is there and
\* sweeps only what was replaced before; and a comment holds one tag at most.
Orderly(t) ==
  /\ \A n \in AppenderNames : Cardinality(ClassesOf(t, n)) <= 1
  /\ t.form = "xml" =>
       \A i \in Items(t) :
         /\ Is(t, i, "ref") => \A j \in (i + 1)..Len(t.items) :
              ~(Is(t, j, "appender") /\ ~Ends(t, j))
         /\ Is(t, i, "comment") => Len(t.items[i].inside) <= 1

-----------------------------------------------------------------------------
(* Properties *)

Resting == job = Idle /\ done # << >>

\* Whatever was configured before and in whatever order the lines stand, a
\* logger has the last level the text gives it, and every appender that the
\* text names for it and defines, with the class it defines, unless the slots
\* of the logger are all taken.
ConfiguredAsDeclared ==
  (Resting /\ ~LastCall.failed /\ Conforming(LastCall.text) /\ Orderly(LastCall.text)) =>
    LET t == LastCall.text IN
    \A n \in LoggersOf(t) :
      LET l == Lookup(loggers, n)
          slots == Elements(loggers[l].slots) IN
      /\ \A s \in LevelsOf(t, n) :
           (\A r \in LevelsOf(t, n) : r[1] <= s[1]) => loggers[l].level = s[2]
      /\ \A r \in RefsOf(t, n, LastCall.source) :
           LET a == FindAppender(r) IN
           ClassesOf(t, r) # {} =>
             /\ a # 0
             /\ a \in slots \/ 0 \notin slots
             /\ \A k \in ClassesOf(t, r) : appenders[a].class = ClassOf(k)

\* A call that repeats the one before, or whose file cannot be read, finds and
\* leaves the same loggers, appenders and attachments: no appender is created
\* or attached anew, no reference is counted twice.
RepeatChangesNothing ==
  (Resting /\ Len(done) > 1) =>
    LET before == done[Len(done) - 1] IN
    (\/ LastCall.failed
     \/ /\ before.text = LastCall.text /\ before.source = LastCall.source
        /\ ~before.failed /\ Orderly(before.text))
    => LastCall.found = Contents

\* An option that an XML text sets belongs to the element it stands in, or, in
\* an element that is none of them, to nothing: what is current at a tag is the
\* element around it.  Only an appender-ref inside an appender breaks that, for
\* its end has the prefix "appender".
OptionToEnclosing ==
  (Resting /\ LastCall.text.form = "xml" /\ ~LastCall.failed) =>
    LET t == LastCall.text IN
    (/\ Conforming(t)
     /\ \A i \in Items(t) : ~Is(t, i, "comment")
     /\ \A i \in Items(t) : Is(t, i, "ref") => Holder(t, i) # "appender") =>
      \A p \in placed :
        p[2][1] = IF Holder(t, p[1]) = "root" THEN "nothing" ELSE Holder(t, p[1])
=============================================================================
