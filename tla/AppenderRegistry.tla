--------------------------- MODULE AppenderRegistry ---------------------------
(***************************************************************************)
(* The global list of appenders and the table of extra classes             *)
(* (src/log4stdc/appender.c).  A configurator asks for an appender by name *)
(* and class; an appender of that name and class is used again, one of     *)
(* another class is renamed "obsolete", closed and replaced.  Appenders    *)
(* are never destroyed.                                                    *)
(*                                                                         *)
(* An appender is its position in the order of creation; the list in the   *)
(* code is in the opposite order (BFC_SLIST_INSERT_FIRST).                 *)
(***************************************************************************)
EXTENDS Naturals, Sequences, FiniteSets

CONSTANTS
  AppenderNames,   \* names that configurations use
  KeptName,        \* what namebuf[40] keeps of each name
  Obsolete,        \* obsolete_appender_name
  ExtraClasses,    \* classes a program may register
  Kinds,           \* class attributes in configurations, see Kind
  MaxExtraClasses, \* MAX_EXTRA_CLASSES
  MaxAppenders     \* bound: appenders ever created

Sysout == "appender"         \* l4sc_sysout_appender_class, the fallback
File == "fileappender"       \* l4sc_file_appender_class
Classes == {Sysout, File} \union ExtraClasses

\* A class as a configuration writes it: the class its last part names, whether
\* a package name stands before it, and whether the character after it is NUL
\* (in an attribute of an XML element; not inside a line of properties).
Kind == [tail : Classes \union {"unknown"}, dotted : BOOLEAN, ends : BOOLEAN]

ASSUME KeptNameAssumption ==
  /\ KeptName \in [AppenderNames -> AppenderNames]
  /\ \A n \in AppenderNames : KeptName[KeptName[n]] = KeptName[n]
ASSUME ObsoleteAssumption == Obsolete \notin AppenderNames
ASSUME KindsAssumption == Kinds \subseteq Kind
ASSUME MaxExtraClassesAssumption == MaxExtraClasses \in Nat

VARIABLES
  appenders,   \* every appender, in the order of creation
  extra        \* l4sc_extra_classes

registry == <<appenders, extra>>

AppenderIds == 1..Len(appenders)
Elements(s) == {s[i] : i \in DOMAIN s}
IsObsolete(a) == appenders[a].name = Obsolete

RegistryInit ==
  /\ appenders = << >>
  /\ extra = << >>
 

-----------------------------------------------------------------------------
\* Faulty variant: the bound of the table is not checked.
RegisterExtraClass_NoLimit(c) ==
  /\ extra' = IF c \notin Elements(extra) THEN Append(extra, c) ELSE extra
  /\ UNCHANGED appenders

\* l4sc_register_extra_class.  A full table is not an error for it.
RegisterExtraClass(c) ==
  /\ extra' = IF c \notin Elements(extra) /\ Len(extra) < MaxExtraClasses
                THEN Append(extra, c)
                ELSE extra
  /\ UNCHANGED appenders

\* l4sc_get_extra_class: a qualified name is compared up to ITS length, which
\* goes on behind the class name, so it is found only if NUL stands there.
IsExtraClass(k) == k.tail \in Elements(extra) /\ (k.dotted => k.ends)

\* Some existing appender has exactly the class that is asked for.
IsClassInUse(k) == ~k.dotted /\ \E a \in AppenderIds : appenders[a].class = k.tail

\* Faulty variant: the class in use is found by its last part.
ClassOf_ByTail(k) ==
  IF \/ k.tail = File \/ IsExtraClass(k)
     \/ \E a \in AppenderIds : appenders[a].class = k.tail
    THEN k.tail ELSE Sysout

\* The class l4sc_get_appender chooses; an unknown one becomes the console.
ClassOf(k) ==
  IF k.tail = File \/ IsExtraClass(k) \/ IsClassInUse(k) THEN k.tail ELSE Sysout

\* The first appender of the list, which is the youngest, with this name.
FindAppender(n) ==
  LET named == {a \in AppenderIds : appenders[a].name = n} IN
  IF named = {} THEN 0 ELSE CHOOSE a \in named : \A b \in named : b <= a

NewAppender(n, c) == [name |-> KeptName[n], class |-> c, refc |-> 1, open |-> FALSE]

\* Faulty variant: an appender of the same class is replaced as well.
GetAppender_AlwaysNew(n, k) ==
  LET a == FindAppender(n) IN
  /\ Len(appenders) < MaxAppenders
  /\ appenders' =
       Append(IF a = 0 THEN appenders
              ELSE [appenders EXCEPT ![a].name = Obsolete, ![a].open = FALSE],
              NewAppender(n, ClassOf(k)))
  /\ UNCHANGED extra

\* Faulty variant: the replaced appender keeps its name.
GetAppender_KeepName(n, k) ==
  LET a == FindAppender(n) IN
  /\ a # 0 => appenders[a].class # ClassOf(k)
  /\ Len(appenders) < MaxAppenders
  /\ appenders' = Append(appenders, NewAppender(n, ClassOf(k)))
  /\ UNCHANGED extra

\* l4sc_get_appender with a class: when the name is taken by an appender of
\* this class nothing changes.
GetAppender(n, k) ==
  LET a == FindAppender(n)
      c == ClassOf(k) IN
  /\ a # 0 => appenders[a].class # c
  /\ Len(appenders) < MaxAppenders
  /\ appenders' =
       Append(IF a = 0 THEN appenders
              ELSE [appenders EXCEPT ![a].name = Obsolete, ![a].open = FALSE],
              NewAppender(n, c))
  /\ UNCHANGED extra

\* l4sc_close_appenders, which every configuration starts with.
CloseAppenders ==
  /\ appenders' = [a \in AppenderIds |-> [appenders[a] EXCEPT !.open = FALSE]]
  /\ UNCHANGED extra

\* A message reaches the appenders in S: those with a file or a connection
\* open it.
OpenOnAppend(S) ==
  appenders' = [a \in AppenderIds |->
    [appenders[a] EXCEPT !.open = @ \/ (a \in S /\ appenders[a].class # Sysout)]]

RegistryNext ==
  \/ \E c \in ExtraClasses : RegisterExtraClass(c)
  \/ \E n \in AppenderNames, k \in Kinds : GetAppender(n, k)
  \/ \E a \in AppenderIds : OpenOnAppend({a}) /\ UNCHANGED extra
  \/ CloseAppenders

RegistrySpec == RegistryInit /\ [][RegistryNext]_registry

-----------------------------------------------------------------------------
(* Properties *)

Appender == [name : AppenderNames \union {Obsolete}, class : Classes,
             refc : Nat, open : BOOLEAN]

\* Appenders and classes are what the code can create.
RegistryTypeOK ==
  /\ appenders \in Seq(Appender)
  /\ extra \in Seq(ExtraClasses)
  /\ Len(extra) <= MaxExtraClasses

\* A name denotes one appender: however often and with whatever classes a
\* program is reconfigured, no two live appenders share a name, unless it is
\* what is left of a name that does not fit into namebuf.
NamesUnique ==
  \A a, b \in AppenderIds :
    (a # b /\ appenders[a].name = appenders[b].name) =>
      \/ IsObsolete(a)
      \/ \E n \in AppenderNames : n # KeptName[n] /\ KeptName[n] = appenders[a].name

\* An appender that a name denotes is replaced only by one of another class;
\* so the loggers it is attached to need not be configured again otherwise.
ReplacedOnClassChange ==
  [][\A n \in AppenderNames :
       (FindAppender(n) # 0 /\ FindAppender(n)' # FindAppender(n)) =>
         \/ appenders'[FindAppender(n)'].class # appenders[FindAppender(n)].class
         \/ \E m \in AppenderNames : m # KeptName[m] /\ KeptName[m] = n]_registry

\* The second pass of a configurator over the same text, and any later
\* configuration, resolves a class as the first one did: creating appenders
\* never changes the meaning of a class name, only registering classes does.
ResolutionStable ==
  [][extra' = extra => \A k \in Kinds : ClassOf(k)' = ClassOf(k)]_registry

=============================================================================
