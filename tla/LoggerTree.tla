------------------------------ MODULE LoggerTree ------------------------------
(***************************************************************************)
(* The loggers of log4stdc (src/log4stdc/logger.c): the global list, the   *)
(* tree of parents that follows from the names, levels that are inherited  *)
(* along it, and the appenders attached to each logger.  The operations    *)
(* are those of the API, one call after the other; the code has no lock.   *)
(*                                                                         *)
(* A name is the sequence of its parts, "a.b" being <<a, b>>, with one     *)
(* character for each part.  A logger is its position in the list, which   *)
(* new loggers join at the end.                                            *)
(***************************************************************************)
EXTENDS AppenderRegistry

CONSTANTS
  LoggerNames,    \* names that programs and configurations ask for
  Parts,          \* parts for which a sublogger is asked
  CustomNames,    \* names of loggers that are made custom loggers
  Levels,         \* levels that are set
  Additivities,   \* additivities that are set
  NameSize,       \* sizeof(namebuf), 40
  MaxSlots,       \* MAX_APPENDERS_PER_LOGGER, 4
  MaxRecursions,  \* MAX_LOGGER_RECURSIONS, 20
  CustomLevel,    \* what the test of a custom logger accepts, and more
  MaxLoggers,     \* bound: loggers in the list
  MaxAdopted      \* bound: loggers whose parent is set

INHERIT_LEVEL == 33010
ERROR_LEVEL == 40000
WARN_LEVEL == 30000
OFF_LEVEL == 60000

\* The parts of which names are made, "" being what stands behind a last dot.
NameParts ==
  {"", "rootlogger", "l4sclog"} \union Parts
    \union UNION {Elements(n) : n \in LoggerNames \union CustomNames}

\* No name that is asked for begins or ends with a dot.
ASSUME LoggerNamesAssumption ==
  /\ \A n \in LoggerNames \union CustomNames :
       n \in Seq(NameParts \ {""}) /\ n # << >>
  /\ "" \notin Parts
ASSUME LevelsAssumption == Levels \subseteq Nat /\ Additivities \subseteq BOOLEAN
ASSUME SizesAssumption ==
  /\ NameSize \in Nat \ {0, 1}
  /\ MaxSlots \in Nat \ {0}
  /\ MaxRecursions \in Nat
\* The names that fit into namebuf have at most as many parts as the
\* recursions go up.
ASSUME RecursionsAssumption == NameSize <= 2 * MaxRecursions

VARIABLES
  loggers,      \* l4sc_loggers
  adopted       \* history: loggers whose parent was set, not found by name

vars == <<registry, loggers, adopted>>

LoggerIds == 1..Len(loggers)
Root == 1              \* rootlogger = predefined_loggers[0]
Slots == 1..MaxSlots
Empty == [i \in Slots |-> 0]

-----------------------------------------------------------------------------
(* Names *)

Front(n) == SubSeq(n, 1, Len(n) - 1)
Prefix(n, k) == SubSeq(n, 1, k)

Fits(n) == 2 * Len(n) - 1 < NameSize

\* set_logger_name: a name that does not fit is cut after NameSize - 1
\* characters, which is behind a part or behind a dot.
Stored(n) ==
  IF Fits(n) THEN n
  ELSE IF NameSize % 2 = 0 THEN Prefix(n, NameSize \div 2)
       ELSE Append(Prefix(n, NameSize \div 2), "")

\* The name l4sc_get_sublogger asks for.
SubName(n, part) ==
  IF n[Len(n)] = "" THEN Append(Front(n), part) ELSE Append(n, part)

\* Faulty variant: the search does not stop at the first match.
Lookup_Last(ls, n) ==
  LET named == {i \in DOMAIN ls : ls[i].name = n} IN
  IF named = {} THEN 0 ELSE CHOOSE i \in named : \A j \in named : j <= i

\* The first logger of the list with this name, 0 when there is none.
Lookup(ls, n) ==
  LET named == {i \in DOMAIN ls : ls[i].name = n} IN
  IF named = {} THEN 0 ELSE CHOOSE i \in named : \A j \in named : i <= j

\* A logger that was asked for by the name n, which is kept as history.
Logger(n, kind, level, additivity, parent) ==
  [name |-> Stored(n), asked |-> n, kind |-> kind, level |-> level,
   additivity |-> additivity, parent |-> parent, slots |-> Empty]

Init ==
  /\ RegistryInit
  /\ loggers = << Logger(<<"rootlogger">>, "root", ERROR_LEVEL, FALSE, 0),
                  Logger(<<"l4sclog">>, "root", WARN_LEVEL, FALSE, Root) >>
  /\ adopted = {}

-----------------------------------------------------------------------------
(* l4sc_get_logger *)

\* What the list is after loggers named by n, by its prefix one part shorter
\* and so on down to the prefix of length k have joined it.
Joined(ls, n, k) ==
  ls \o [i \in 1..(Len(n) - k + 1) |->
           Logger(Prefix(n, Len(n) - i + 1), "logger", INHERIT_LEVEL, TRUE, Len(ls) + i + 1)]

\* The recursion of l4sc_get_logger and set_logger_name ends with the longest
\* prefix that is found; the new loggers are in the list by then.
FoundAt(ls, n, k) == Lookup(Joined(ls, n, k + 1), Prefix(n, k))
Ancestor(ls, n) ==
  LET found == {k \in 1..(Len(n) - 1) : FoundAt(ls, n, k) # 0} IN
  IF found = {} THEN 0 ELSE CHOOSE k \in found : \A j \in found : j <= k

\* Faulty variant: the last new logger hangs under the root, whatever is found.
WithLogger_UnderRoot(ls, n) ==
  IF Lookup(ls, n) # 0 THEN ls
  ELSE LET new == Joined(ls, n, Ancestor(ls, n) + 1) IN
       [new EXCEPT ![Len(new)].parent = Root]

\* The list after l4sc_get_logger(n).  Every new logger has the next new one
\* as its parent, the last one what was found, or the root.
WithLogger(ls, n) ==
  IF Lookup(ls, n) # 0 THEN ls
  ELSE LET k == Ancestor(ls, n)
           new == Joined(ls, n, k + 1) IN
       [new EXCEPT ![Len(new)].parent = IF k = 0 THEN Root ELSE FoundAt(ls, n, k)]

\* The logger that l4sc_get_logger(n) returns.
LoggerNamed(ls, n) == IF Lookup(ls, n) # 0 THEN Lookup(ls, n) ELSE Len(ls) + 1

Bounded(ls) == Len(ls) <= MaxLoggers

\* Faulty variant: the list is not searched before a logger is created.
GetLogger_Always(n) ==
  /\ loggers' = Append(loggers, Logger(n, "logger", INHERIT_LEVEL, TRUE, Root))
  /\ Bounded(loggers')
  /\ UNCHANGED <<registry, adopted>>

GetLogger(n) ==
  /\ loggers' = WithLogger(loggers, n)
  /\ Bounded(loggers')
  /\ UNCHANGED <<registry, adopted>>

\* l4sc_get_sublogger: the logger of the longer name, which gets the parent
\* it was asked from.
GetSublogger(p, part) ==
  LET n == SubName(loggers[p].name, part)
      l == LoggerNamed(loggers, n) IN
  /\ loggers' = [WithLogger(loggers, n) EXCEPT ![l].parent = p]
  /\ Bounded(loggers')
  /\ adopted' = adopted \union {l}
  /\ Cardinality(adopted') <= MaxAdopted
  /\ UNCHANGED registry

\* l4sc_insert_custom_logger: the logger gets another class.
InsertCustomLogger(n) ==
  /\ loggers' = [WithLogger(loggers, n) EXCEPT ![LoggerNamed(loggers, n)].kind = "custom"]
  /\ Bounded(loggers')
  /\ UNCHANGED <<registry, adopted>>

-----------------------------------------------------------------------------
(* Options *)

\* l4sc_set_logger_parent; the loggers of the root class refuse.
SetParent(l, p) ==
  /\ loggers[l].kind # "root"
  /\ loggers' = [loggers EXCEPT ![l].parent = p]
  /\ adopted' = adopted \union {l}
  /\ Cardinality(adopted') <= MaxAdopted
  /\ UNCHANGED registry

SetLevel(l, level) ==
  /\ loggers' = [loggers EXCEPT ![l].level = level]
  /\ UNCHANGED <<registry, adopted>>

SetAdditivity(l, additivity) ==
  /\ loggers' = [loggers EXCEPT ![l].additivity = additivity]
  /\ UNCHANGED <<registry, adopted>>

-----------------------------------------------------------------------------
(* Appenders of a logger *)

\* The reference counts after the appenders in the slots C have been released.
Release(slots, C) ==
  [a \in AppenderIds |->
     [appenders[a] EXCEPT !.refc = @ - Cardinality({i \in C : slots[i] = a})]]

Without(slots, C) == [i \in Slots |-> IF i \in C THEN 0 ELSE slots[i]]

\* l4sc_set_logger_appender(l, NULL)
RemoveAppenders(l) ==
  LET slots == loggers[l].slots
      used == {i \in Slots : slots[i] # 0} IN
  /\ appenders' = Release(slots, used)
  /\ loggers' = [loggers EXCEPT ![l].slots = Without(slots, used)]
  /\ UNCHANGED <<extra, adopted>>

\* Faulty variants: an obsolete appender is cleared without its reference; an
\* appender is attached a second time.
SetAppender_Leak(l, a) ==
  LET slots == loggers[l].slots
      stale == {i \in Slots : slots[i] # 0 /\ IsObsolete(slots[i])}
      swept == Without(slots, stale)
      free == {i \in Slots : swept[i] = 0}
      first == CHOOSE i \in free : \A j \in free : i <= j
      attach == free # {} /\ \A i \in Slots : swept[i] # a IN
  /\ appenders' = IF attach THEN [appenders EXCEPT ![a].refc = @ + 1] ELSE appenders
  /\ loggers' = [loggers EXCEPT ![l].slots =
                   IF attach THEN [swept EXCEPT ![first] = a] ELSE swept]
  /\ UNCHANGED <<extra, adopted>>
SetAppender_Twice(l, a) ==
  LET slots == loggers[l].slots
      free == {i \in Slots : slots[i] = 0}
      first == CHOOSE i \in free : \A j \in free : i <= j IN
  /\ free # {}
  /\ appenders' = [appenders EXCEPT ![a].refc = @ + 1]
  /\ loggers' = [loggers EXCEPT ![l].slots[first] = a]
  /\ UNCHANGED <<extra, adopted>>

\* set_logger_appender: first the obsolete appenders are swept out of the
\* slots, then the new one takes the first free slot, unless it has one
\* already or none is free.
SetAppender(l, a) ==
  LET slots == loggers[l].slots
      stale == {i \in Slots : slots[i] # 0 /\ IsObsolete(slots[i])}
      swept == Without(slots, stale)
      free == {i \in Slots : swept[i] = 0}
      first == CHOOSE i \in free : \A j \in free : i <= j
      attach == free # {} /\ \A i \in Slots : swept[i] # a
      released == Release(slots, stale) IN
  /\ appenders' = IF attach THEN [released EXCEPT ![a].refc = @ + 1] ELSE released
  /\ loggers' = [loggers EXCEPT ![l].slots =
                   IF attach THEN [swept EXCEPT ![first] = a] ELSE swept]
  /\ UNCHANGED <<extra, adopted>>

-----------------------------------------------------------------------------
(* Logging *)

\* A logger that passes the question for a level on to its parent, and the
\* answer of one that does not: is_rootlogger_enabled, customlogger_is_enabled
\* and the end of is_logger_enabled, where INHERIT_LEVEL itself is compared if
\* no recursion is left.
Inherits(lg) == lg.kind = "logger" /\ lg.level = INHERIT_LEVEL
Decides(lg, level) == level >= IF lg.kind = "custom" THEN CustomLevel ELSE lg.level

\* Faulty variant: the recursion stops one logger early.
IsEnabled_Short(l, level) ==
  LET enabled[r \in 0..MaxRecursions] ==
        [i \in LoggerIds |->
           IF Inherits(loggers[i]) /\ r > 1 THEN enabled[r - 1][loggers[i].parent]
           ELSE Decides(loggers[i], level)]
  IN enabled[MaxRecursions][l]

\* is_logger_enabled, as l4sc_logger_enabled calls it.
IsEnabled(l, level) ==
  LET enabled[r \in 0..MaxRecursions] ==
        [i \in LoggerIds |->
           IF Inherits(loggers[i]) /\ r > 0 THEN enabled[r - 1][loggers[i].parent]
           ELSE Decides(loggers[i], level)]
  IN enabled[MaxRecursions][l]

\* How many slots of a logger hold an appender.
Held(lg, a) == Cardinality({i \in Slots : lg.slots[i] = a})

\* Faulty variant: additivity is looked up at the parent.
Deliveries_ParentAdditivity(l) ==
  LET delivered[r \in 0..MaxRecursions] ==
        [i \in LoggerIds |-> [a \in AppenderIds |->
           IF loggers[i].kind # "logger" THEN 0
           ELSE Held(loggers[i], a) +
                (IF loggers[loggers[i].parent].additivity /\ r > 0
                   THEN delivered[r - 1][loggers[i].parent][a] ELSE 0)]]
  IN delivered[MaxRecursions][l]

\* logger_append: how often a message logged to l reaches each appender.  The
\* root loggers print to stderr, whatever is attached to them, and a custom
\* logger calls back; both end the recursion.
Deliveries(l) ==
  LET delivered[r \in 0..MaxRecursions] ==
        [i \in LoggerIds |-> [a \in AppenderIds |->
           IF loggers[i].kind # "logger" THEN 0
           ELSE Held(loggers[i], a) +
                (IF loggers[i].additivity /\ r > 0
                   THEN delivered[r - 1][loggers[i].parent][a] ELSE 0)]]
  IN delivered[MaxRecursions][l]

\* l4sc_log, which does not look at the level again.
Log(l) ==
  /\ OpenOnAppend({a \in AppenderIds : Deliveries(l)[a] > 0})
  /\ UNCHANGED <<extra, loggers, adopted>>

Next ==
  \/ RegistryNext /\ UNCHANGED <<loggers, adopted>>
  \/ \E n \in LoggerNames : GetLogger(n)
  \/ \E n \in CustomNames : InsertCustomLogger(n)
  \/ \E l \in LoggerIds :
       \/ \E part \in Parts : GetSublogger(l, part)
       \/ \E p \in LoggerIds : SetParent(l, p)
       \/ \E level \in Levels : SetLevel(l, level)
       \/ \E additivity \in Additivities : SetAdditivity(l, additivity)
       \/ \E a \in AppenderIds : SetAppender(l, a)
       \/ RemoveAppenders(l)
       \/ Log(l)

Spec == Init /\ [][Next]_vars

-----------------------------------------------------------------------------
(* Properties *)

LoggerType ==
  [name : Seq(NameParts) \ {<< >>}, asked : Seq(NameParts) \ {<< >>},
   kind : {"root", "logger", "custom"}, level : Nat, additivity : BOOLEAN,
   parent : Nat, slots : [Slots -> Nat]]

\* Every logger but the root has a parent, and every slot that is used holds
\* an appender of the registry.
TypeOK ==
  /\ RegistryTypeOK
  /\ loggers \in Seq(LoggerType)
  /\ Root \in LoggerIds
  /\ \A l \in LoggerIds :
       /\ loggers[l].parent \in LoggerIds \/ (l = Root /\ loggers[l].parent = 0)
       /\ \A i \in Slots : loggers[l].slots[i] \in {0} \union AppenderIds
  /\ adopted \subseteq LoggerIds

Attachments(a) == {s \in LoggerIds \X Slots : loggers[s[1]].slots[s[2]] = a}

\* The reference count of an appender is one for the registry and one for
\* every slot of a logger that holds it: sweeping, replacing and a full logger
\* keep the account.
RefcountExact ==
  \A a \in AppenderIds : appenders[a].refc = 1 + Cardinality(Attachments(a))

\* No appender takes two slots of a logger, so a logger passes a message to
\* each of its appenders once, however often it is configured.
AttachedOnce ==
  \A l \in LoggerIds : \A i, j \in Slots :
    (i # j /\ loggers[l].slots[i] # 0) => loggers[l].slots[i] # loggers[l].slots[j]

\* A name that fits denotes one logger for ever: what a program got once is
\* what a later configuration changes, even when other names are cut to it.
LookupStable ==
  [][\A n \in LoggerNames :
       Lookup(loggers, n) # 0 => Lookup(loggers', n) = Lookup(loggers, n)]_vars

\* No two loggers have the same name, except those whose name was cut.
LoggersUnique ==
  \A i, j \in LoggerIds :
    (i # j /\ loggers[i].name = loggers[j].name) =>
      ~Fits(loggers[i].asked) \/ ~Fits(loggers[j].asked)

\* The loggers that were asked for by name.
Named == LoggerIds \ (adopted \union {Root, 2})

\* The parent of a logger is the logger that the name without its last part
\* denotes, at any later time too, unless the program set another parent or
\* the name was cut.
ParentByName ==
  \A l \in Named :
    LET n == loggers[l].asked IN
    Fits(n) => loggers[l].parent = IF Len(n) = 1 THEN Root ELSE Lookup(loggers, Front(n))

\* The loggers on the way up from l, in order; the last one is repeated.
Way(l) ==
  LET up[k \in 0..Len(loggers)] ==
        IF k = 0 THEN l
        ELSE IF loggers[up[k - 1]].kind # "logger" THEN up[k - 1]
        ELSE loggers[up[k - 1]].parent
  IN up

\* The logger that is r steps up from l, or where the way up ends before.
Above(r, l) == Way(l)[r]

\* The loggers a message or a question for a level meets on its way up.
Upward(l) == {Above(r, l) : r \in 0..Len(loggers)}

\* Nothing on the way up from l was given another parent, made a custom logger
\* or cut.
PlainlyNamed(l) ==
  \A x \in Upward(l) : /\ x \notin adopted
                       /\ loggers[x].kind # "custom"
                       /\ Fits(loggers[x].asked)

\* The levels of messages.
Asked == Levels \ {INHERIT_LEVEL}

\* Level of the longest prefix of the logger's name that has one, or that of
\* the root.  The loggers of the root class have one, whatever it is.
LevelByName(l) ==
  LET n == loggers[l].name
      set == {k \in 1..Len(n) :
                /\ Lookup(loggers, Prefix(n, k)) # 0
                /\ ~Inherits(loggers[Lookup(loggers, Prefix(n, k))])}
      longest == CHOOSE k \in set : \A j \in set : j <= k
  IN IF set = {} THEN loggers[Root].level
     ELSE loggers[Lookup(loggers, Prefix(n, longest))].level

\* What is_enabled answers through the tree of parents is what the names say:
\* the level of the longest prefix counts, in whatever order the loggers were
\* created and their levels set.
LevelInherited ==
  \A l \in Named : PlainlyNamed(l) =>
    \A level \in Asked : IsEnabled(l, level) <=> level >= LevelByName(l)

\* A logger that inherits its level answers as its parent, for any tree the
\* program has built, if no way up is longer than the recursion goes.
AnswersAsParent ==
  \A l \in LoggerIds :
    LET lg == loggers[l] IN
    (Inherits(lg) /\ Cardinality(Upward(l)) <= MaxRecursions + 1) =>
      \A level \in Asked : IsEnabled(l, level) <=> IsEnabled(lg.parent, level)

\* The way up ends at a logger that passes nothing on, so it has no cycle.
EndsAbove(l) == \E x \in Upward(l) : loggers[x].kind # "logger"

\* The loggers on the way up as far as additivity lets a message go.
Additive(l) ==
  {Above(r, l) : r \in {k \in 0..Len(loggers) :
     \A j \in 0..(k - 1) : loggers[Above(j, l)].additivity}}

\* A message reaches an appender once for every ordinary logger it is attached
\* to on the way up as far as additivity lets it, never more often.  What is
\* attached to another logger gets nothing: a custom logger calls back instead,
\* and rootlogger_append prints to stderr without looking at the appenders,
\* although configurations attach some to the root (log4j.properties:2,
\* tests/propcfg/level.c:13).  A way up that goes round in a cycle is left out,
\* as there the message comes again until the recursion ends.
DeliveredOncePerLogger ==
  \A l \in LoggerIds :
    (EndsAbove(l) /\ Cardinality(Upward(l)) <= MaxRecursions + 1) =>
      \A a \in AppenderIds :
        Deliveries(l)[a] = Cardinality({x \in Additive(l) : /\ loggers[x].kind = "logger"
                                                            /\ a \in Elements(loggers[x].slots)})

\* "implicit INHERIT", say the tests of a logger whose level was not set, and
\* expect it to answer as the logger its name hangs under: the one that was
\* asked for by the longest part of its name.
Under(p, l) ==
  LET n == loggers[p].asked
      m == loggers[l].asked IN
  Len(n) < Len(m) /\ n = Prefix(m, Len(n))
ImplicitInherit ==
  \A l \in Named, p \in Named :
    (/\ Inherits(loggers[l])
     /\ Under(p, l)
     /\ \A q \in Named : Under(q, l) => Len(loggers[q].asked) <= Len(loggers[p].asked)) =>
      \A level \in Asked : IsEnabled(l, level) <=> IsEnabled(p, level)
=============================================================================
