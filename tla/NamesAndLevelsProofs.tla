------------------------ MODULE NamesAndLevelsProofs ------------------------
(***************************************************************************)
(* Proofs about what names denote, for any names, classes, sizes and       *)
(* bounds and any sequence of calls.  Appenders: a name denotes one        *)
(* appender, which only one of another class replaces, and creating        *)
(* appenders does not change what a class name means.  Loggers: a name     *)
(* that fits denotes one logger for ever, and the parent of a logger that  *)
(* was asked for by name is the one its name says.                         *)
(*                                                                         *)
(* Then about what is answered along the tree of parents, for any tree     *)
(* that the calls can build, cyclic ones too: a logger that inherits its   *)
(* level answers as its parent does, the level is the one its name says,   *)
(* and a message reaches each appender once for every logger that holds    *)
(* it.                                                                     *)
(***************************************************************************)
EXTENDS LoggerTreeProofs

-----------------------------------------------------------------------------
(* Appenders *)

\* An appender's name is one that the code has put into its namebuf.
NamesKept ==
  \A a \in AppenderIds :
    IsObsolete(a) \/ \E n \in AppenderNames : appenders[a].name = KeptName[n]

NamesInv == RegistryTypeOK /\ NamesKept /\ NamesUnique

\* A step that leaves the names and classes of all appenders as they are.
SameAppenders ==
  /\ Len(appenders') = Len(appenders)
  /\ \A a \in AppenderIds : /\ appenders'[a].name = appenders[a].name
                            /\ appenders'[a].class = appenders[a].class

\* What l4sc_get_appender does to names and classes when it creates an
\* appender: the one that had the name is obsolete, the new one is the last.
Created(n, k) ==
  LET new == Len(appenders) + 1 IN
  /\ Len(appenders') = new
  /\ FindAppender(n) # 0 => appenders[FindAppender(n)].class # ClassOf(k)
  /\ appenders'[new].name = KeptName[n] /\ appenders'[new].class = ClassOf(k)
  /\ \A a \in AppenderIds :
       /\ appenders'[a].class = appenders[a].class
       /\ appenders'[a].name = IF a = FindAppender(n) THEN Obsolete ELSE appenders[a].name

\* Opening or closing appenders keeps their names and classes.
LEMMA OpenKeepsNames ==
  ASSUME RegistryTypeOK, NEW S, OpenOnAppend(S) \/ CloseAppenders
  PROVE  SameAppenders
<1> DEFINE opened(a) == [appenders[a] EXCEPT !.open = @ \/ (a \in S /\ appenders[a].class # Sysout)]
           closed(a) == [appenders[a] EXCEPT !.open = FALSE]
<1>1. Len(appenders) \in Nat /\ \A a \in AppenderIds : appenders[a] \in Appender
  BY ElementOfSeq, LenProperties DEF AppenderIds, RegistryTypeOK
<1>2. ASSUME NEW a \in AppenderIds
      PROVE  /\ opened(a).name = appenders[a].name /\ opened(a).class = appenders[a].class
             /\ closed(a).name = appenders[a].name /\ closed(a).class = appenders[a].class
  BY <1>1 DEF Appender
<1>3. \/ appenders' = [a \in 1..Len(appenders) |-> opened(a)]
      \/ appenders' = [a \in 1..Len(appenders) |-> closed(a)]
  BY DEF OpenOnAppend, CloseAppenders, AppenderIds
<1> HIDE DEF opened, closed
<1>4. Len(appenders') = Len(appenders)
  BY <1>1, <1>3, LenProperties
<1> QED
  BY <1>2, <1>3, <1>4 DEF SameAppenders, AppenderIds

\* l4sc_get_appender that creates an appender.
LEMMA GetAppenderCreates ==
  ASSUME RegistryTypeOK, NEW n \in AppenderNames, NEW k \in Kinds, GetAppender(n, k)
  PROVE  Created(n, k)
<1> DEFINE f == FindAppender(n)
           closed == [appenders[f] EXCEPT !.name = Obsolete, !.open = FALSE]
           rest == IF f = 0 THEN appenders ELSE [appenders EXCEPT ![f] = closed]
           new == NewAppender(n, ClassOf(k))
<1>1. /\ appenders \in Seq(Appender) /\ Len(appenders) \in Nat
      /\ \A a \in AppenderIds : appenders[a] \in Appender
  BY ElementOfSeq, LenProperties DEF AppenderIds, RegistryTypeOK
<1>2. f \in 0..Len(appenders)
  BY <1>1, FindAppenderType
<1>3. new \in Appender /\ new.name = KeptName[n] /\ new.class = ClassOf(k)
  BY ClassOfType, KeptNameAssumption DEF NewAppender, Appender
<1>4. ASSUME f # 0
      PROVE  /\ closed \in Appender /\ closed.name = Obsolete
             /\ closed.class = appenders[f].class
  <2>1. appenders[f] \in Appender
    BY <1>1, <1>2, <1>4 DEF AppenderIds
  <2> HIDE DEF f
  <2> QED
    BY <2>1 DEF Appender
<1>5. /\ appenders' = Append(rest, new)
      /\ f # 0 => appenders[f].class # ClassOf(k)
  BY DEF GetAppender
<1> HIDE DEF f, closed, new
<1>6. /\ rest \in Seq(Appender) /\ Len(rest) = Len(appenders)
      /\ \A a \in AppenderIds :
           /\ rest[a].class = appenders[a].class
           /\ rest[a].name = IF a = f THEN Obsolete ELSE appenders[a].name
  <2>1. CASE f = 0
    BY <1>1, <2>1 DEF AppenderIds
  <2>2. CASE f # 0
    <3>1. f \in 1..Len(appenders)
      BY <1>1, <1>2, <2>2
    <3> QED
      BY <1>1, <1>4, <2>2, <3>1, ExceptSeq DEF AppenderIds
  <2> QED
    BY <2>1, <2>2
<1> HIDE DEF rest
<1>7. /\ Len(appenders') = Len(appenders) + 1
      /\ \A a \in AppenderIds : appenders'[a] = rest[a]
      /\ appenders'[Len(appenders) + 1] = new
  BY <1>3, <1>5, <1>6, AppendProperties DEF AppenderIds
<1> QED
  BY <1>3, <1>5, <1>6, <1>7 DEF Created, f

\* A step of the registry creates an appender or changes no name and no class.
LEMMA RegistryNames ==
  ASSUME RegistryTypeOK, [RegistryNext]_registry
  PROVE  SameAppenders \/ \E n \in AppenderNames, k \in Kinds : Created(n, k) /\ UNCHANGED extra
<1>1. CASE \E c \in ExtraClasses : RegisterExtraClass(c)
  BY <1>1 DEF RegisterExtraClass, SameAppenders
<1>2. CASE \E n \in AppenderNames, k \in Kinds : GetAppender(n, k)
  BY <1>2, GetAppenderCreates DEF GetAppender
<1>3. CASE \E a \in AppenderIds : OpenOnAppend({a}) /\ UNCHANGED extra
  BY <1>3, OpenKeepsNames
<1>4. CASE CloseAppenders
  BY <1>4, OpenKeepsNames
<1>5. CASE UNCHANGED registry
  BY <1>5 DEF registry, SameAppenders
<1> QED
  BY <1>1, <1>2, <1>3, <1>4, <1>5 DEF RegistryNext

\* A search by name answers with the youngest appender that has it.
LEMMA FindAppenderFinds ==
  ASSUME Len(appenders) \in Nat, NEW n
  PROVE  LET f == FindAppender(n) IN
         /\ f \in {0} \union AppenderIds
         /\ f = 0 => \A a \in AppenderIds : appenders[a].name # n
         /\ f # 0 => /\ appenders[f].name = n
                    /\ \A b \in AppenderIds : appenders[b].name = n => b <= f
         /\ \A a \in AppenderIds :
              (appenders[a].name = n
                /\ \A b \in AppenderIds : appenders[b].name = n => b <= a) => f = a
<1> DEFINE named == {a \in AppenderIds : appenders[a].name = n}
<1>1. CASE named = {}
  BY <1>1 DEF FindAppender
<1>2. CASE named # {}
  <2>1. named \subseteq 0..Len(appenders)
    BY DEF AppenderIds
  <2> HIDE DEF named
  <2>2. \E a \in named : \A b \in named : b <= a
    BY <1>2, <2>1, Greatest
  <2>3. FindAppender(n) = CHOOSE a \in named : \A b \in named : b <= a
    BY <1>2 DEF FindAppender, named
  <2>4. FindAppender(n) \in named /\ \A b \in named : b <= FindAppender(n)
    BY <2>2, <2>3
  <2>5. ASSUME NEW a \in named, \A b \in named : b <= a
        PROVE  FindAppender(n) = a
    <3> DEFINE f == FindAppender(n)
    <3>1. a <= f /\ f <= a
      BY <2>4, <2>5
    <3>2. a \in 0..Len(appenders) /\ f \in 0..Len(appenders)
      BY <2>1, <2>4
    <3> HIDE DEF f
    <3>3. a \in Nat /\ f \in Nat
      BY <3>2
    <3>4. a = f
      BY <3>1, <3>3
    <3> QED
      BY <3>4 DEF f
  <2>6. FindAppender(n) # 0
    BY <2>4 DEF named, AppenderIds
  <2> QED
    BY <2>4, <2>5, <2>6 DEF named
<1> QED
  BY <1>1, <1>2

\* The step that creates an appender keeps names unique: the appender that had
\* the name has lost it.
LEMMA CreatedUnique ==
  ASSUME NamesInv, NEW n \in AppenderNames, NEW k \in Kinds, Created(n, k)
  PROVE  NamesKept' /\ NamesUnique'
<1> DEFINE f == FindAppender(n)
           new == Len(appenders) + 1
<1>1. Len(appenders) \in Nat
  BY LenProperties DEF NamesInv, RegistryTypeOK
<1>2. /\ f \in {0} \union AppenderIds
      /\ f = 0 => \A a \in AppenderIds : appenders[a].name # n
      /\ f # 0 => appenders[f].name = n
  BY <1>1, FindAppenderFinds
<1>3. /\ AppenderIds' = 1..new
      /\ appenders'[new].name = KeptName[n]
      /\ \A a \in AppenderIds :
           appenders'[a].name = IF a = f THEN Obsolete ELSE appenders[a].name
  BY DEF Created, AppenderIds
<1>4. AppenderIds' = AppenderIds \union {new} /\ new \notin AppenderIds
  BY <1>1, <1>3 DEF AppenderIds
<1>5. KeptName[n] \in AppenderNames /\ Obsolete \notin AppenderNames
  BY KeptNameAssumption, ObsoleteAssumption
<1> HIDE DEF f, new
<1>6. NamesKept'
  BY <1>3, <1>4 DEF NamesKept, IsObsolete, NamesInv
<1>7. ASSUME KeptName[n] = n, NEW a \in AppenderIds, appenders[a].name = n, a # f
      PROVE  \E m \in AppenderNames : m # KeptName[m] /\ KeptName[m] = n
  <2>1. f \in AppenderIds /\ appenders[f].name = n
    BY <1>2, <1>7
  <2>2. ~IsObsolete(a)
    BY <1>5, <1>7 DEF IsObsolete
  <2> QED
    BY <1>7, <2>1, <2>2 DEF NamesInv, NamesUnique
<1>8. ASSUME NEW a \in AppenderIds, appenders'[a].name = KeptName[n]
      PROVE  \E m \in AppenderNames : m # KeptName[m] /\ KeptName[m] = KeptName[n]
  <2>1. a # f /\ appenders[a].name = KeptName[n]
    BY <1>3, <1>5, <1>8
  <2> QED
    BY <1>7, <2>1
<1>9. ASSUME NEW a \in AppenderIds, NEW b \in AppenderIds, a # b,
             appenders'[a].name = appenders'[b].name, appenders'[a].name # Obsolete
      PROVE  \E m \in AppenderNames : m # KeptName[m] /\ KeptName[m] = appenders'[a].name
  <2>1. a # f /\ b # f /\ appenders'[a].name = appenders[a].name /\ appenders'[b].name = appenders[b].name
    BY <1>3, <1>9
  <2> QED
    BY <1>9, <2>1 DEF NamesInv, NamesUnique, IsObsolete
<1>10. NamesUnique'
  BY <1>3, <1>4, <1>8, <1>9 DEF NamesUnique, IsObsolete
<1> QED
  BY <1>6, <1>10

\* Names stay kept and unique when none changes.
LEMMA SameUnique ==
  ASSUME NamesInv, SameAppenders
  PROVE  NamesKept' /\ NamesUnique'
<1>1. AppenderIds' = AppenderIds /\ \A a \in AppenderIds : appenders'[a].name = appenders[a].name
  BY DEF SameAppenders, AppenderIds
<1> QED
  BY <1>1 DEF NamesInv, NamesKept, NamesUnique, IsObsolete

\* Searching for a name answers the same when no name changes.
LEMMA SameFinds ==
  ASSUME SameAppenders, NEW n
  PROVE  FindAppender(n)' = FindAppender(n)
<1>1. AppenderIds' = AppenderIds /\ \A a \in AppenderIds : appenders'[a].name = appenders[a].name
  BY DEF SameAppenders, AppenderIds
<1> DEFINE named == {a \in AppenderIds : appenders[a].name = n}
<1>2. named' = named
  BY <1>1
<1>3. FindAppender(n) = IF named = {} THEN 0 ELSE CHOOSE a \in named : \A b \in named : b <= a
  BY DEF FindAppender
<1>4. FindAppender(n)' = IF named' = {} THEN 0 ELSE CHOOSE a \in named' : \A b \in named' : b <= a
  BY DEF FindAppender
<1> HIDE DEF named
<1> QED
  BY <1>2, <1>3, <1>4

\* The class of the appender that a name denotes changes with it.
LEMMA ReplacedOrSame ==
  ASSUME NamesInv, SameAppenders \/ \E n \in AppenderNames, k \in Kinds : Created(n, k),
         NEW n \in AppenderNames, FindAppender(n) # 0, FindAppender(n)' # FindAppender(n)
  PROVE  \/ appenders'[FindAppender(n)'].class # appenders[FindAppender(n)].class
         \/ \E m \in AppenderNames : m # KeptName[m] /\ KeptName[m] = n
<1> SUFFICES ASSUME ~\E m \in AppenderNames : m # KeptName[m] /\ KeptName[m] = n
             PROVE  appenders'[FindAppender(n)'].class # appenders[FindAppender(n)].class
  OBVIOUS
<1>1. PICK m \in AppenderNames, k \in Kinds : Created(m, k)
  BY SameFinds
<1> DEFINE f == FindAppender(n)
           g == FindAppender(n)'
           new == Len(appenders) + 1
<1>2. Len(appenders) \in Nat /\ Len(appenders') = new
  BY <1>1, LenProperties DEF NamesInv, RegistryTypeOK, Created
<1>3. f \in AppenderIds /\ appenders[f].name = n
  BY <1>2, FindAppenderFinds
<1>4. KeptName[n] = n
  <2>1. f \in AppenderIds /\ appenders[f].name # Obsolete
    BY <1>3, ObsoleteAssumption
  <2>2. PICK j \in AppenderNames : n = KeptName[j]
    BY <1>3, <2>1 DEF NamesInv, NamesKept, IsObsolete
  <2> QED
    BY <2>2, KeptNameAssumption
<1>5. /\ appenders'[new].name = KeptName[m]
      /\ appenders'[new].class = ClassOf(k)
      /\ \A a \in AppenderIds :
           appenders'[a].name = IF a = FindAppender(m) THEN Obsolete ELSE appenders[a].name
      /\ FindAppender(m) # 0 => appenders[FindAppender(m)].class # ClassOf(k)
  BY <1>1 DEF Created
<1>6. AppenderIds' = AppenderIds \union {new} /\ new \notin AppenderIds
      /\ \A a \in AppenderIds' : a <= new
  BY <1>2 DEF AppenderIds
<1>7. \A a \in AppenderIds' :
        (appenders'[a].name = n
           /\ \A b \in AppenderIds' : appenders'[b].name = n => b <= a) => g = a
  <2>1. Len(appenders') \in Nat
    BY <1>2
  <2>2. (Len(appenders) \in Nat => \A a \in AppenderIds :
           (appenders[a].name = n
              /\ \A b \in AppenderIds : appenders[b].name = n => b <= a) => FindAppender(n) = a)'
    BY FindAppenderFinds, PTL
  <2> QED
    BY <2>1, <2>2
<1>8. CASE m = n
  BY <1>3, <1>4, <1>5, <1>6, <1>7, <1>8
<1>9. CASE m # n
  <2>1. KeptName[m] # n
    BY <1>9
  <2>2. FindAppender(m) # f
    <3>1. FindAppender(m) # 0 => appenders[FindAppender(m)].name = m
      BY <1>2, FindAppenderFinds
    <3> QED
      BY <1>3, <1>9, <3>1
  <2>3. appenders'[f].name = n /\ f \in AppenderIds'
    BY <1>3, <1>5, <1>6, <2>2
  <2>4. \A b \in AppenderIds : appenders[b].name = n => b <= f
    BY <1>2, <1>3, FindAppenderFinds
  <2>5. ASSUME NEW b \in AppenderIds', appenders'[b].name = n
        PROVE  b <= f
    <3>1. b \in AppenderIds /\ appenders[b].name = n
      BY <1>5, <1>6, <2>1, <2>5, ObsoleteAssumption
    <3> QED
      BY <2>4, <3>1
  <2> HIDE DEF f, g
  <2>6. g = f
    BY <1>7, <2>3, <2>5
  <2> QED
    BY <2>6 DEF f, g
<1> QED
  BY <1>8, <1>9

\* A step of the registry that registers no class leaves every class name its
\* meaning: what an appender brings into use had that meaning before.
LEMMA ResolutionKept ==
  ASSUME RegistryTypeOK, UNCHANGED extra, NEW k \in Kinds,
         SameAppenders \/ \E n \in AppenderNames, j \in Kinds : Created(n, j)
  PROVE  ClassOf(k)' = ClassOf(k)
<1>1. IsExtraClass(k)' <=> IsExtraClass(k)
  BY DEF IsExtraClass, Elements
<1>2. Len(appenders) \in Nat
  BY LenProperties DEF RegistryTypeOK
<1>3. CASE SameAppenders
  <2>1. AppenderIds' = AppenderIds /\ \A a \in AppenderIds : appenders'[a].class = appenders[a].class
    BY <1>3 DEF SameAppenders, AppenderIds
  <2>2. IsClassInUse(k)' <=> IsClassInUse(k)
    BY <2>1 DEF IsClassInUse
  <2> QED
    BY <1>1, <2>2 DEF ClassOf
<1>4. ASSUME NEW n \in AppenderNames, NEW j \in Kinds, Created(n, j)
      PROVE  ClassOf(k)' = ClassOf(k)
  <2> DEFINE new == Len(appenders) + 1
             c == ClassOf(j)
  <2>1. /\ AppenderIds' = AppenderIds \union {new}
        /\ \A a \in AppenderIds : a # new /\ appenders'[a].class = appenders[a].class
        /\ appenders'[new].class = c
    BY <1>2, <1>4 DEF Created, AppenderIds
  <2>2. c \in {File, Sysout} \/ (IsExtraClass(j) /\ c = j.tail)
          \/ (\E a \in AppenderIds : appenders[a].class = c)
    BY DEF ClassOf, IsClassInUse
  <2> HIDE DEF new, c
  <2>3. IsClassInUse(k) => IsClassInUse(k)'
    BY <2>1 DEF IsClassInUse
  <2>4. ASSUME ~IsClassInUse(k), IsClassInUse(k)'
        PROVE  ~k.dotted /\ k.tail = c /\ ~\E a \in AppenderIds : appenders[a].class = c
    BY <2>1, <2>4 DEF IsClassInUse
  <2>5. ASSUME ~IsClassInUse(k), IsClassInUse(k)'
        PROVE  k.tail \in {File, Sysout} \/ IsExtraClass(k)
    BY <2>2, <2>4, <2>5 DEF IsExtraClass
  <2> QED
    BY <1>1, <2>3, <2>5 DEF ClassOf
<1> QED
  BY <1>3, <1>4

\* A call on the loggers is one on the registry or changes no name and no
\* class of an appender.
LEMMA LoggersKeepNames ==
  ASSUME IInv, [Next]_vars
  PROVE  [RegistryNext]_registry \/ (SameAppenders /\ UNCHANGED extra)
<1>1. TypeOK /\ Len(appenders) \in Nat /\ \A a \in AppenderIds : appenders[a] \in Appender
  BY SlotsAreTyped DEF IInv
<1>2. ASSUME NEW l \in LoggerIds, NEW C \in SUBSET Slots, NEW attach \in BOOLEAN,
             NEW a, NEW first, SlotStep(l, C, attach, a, first)
      PROVE  SameAppenders /\ UNCHANGED extra
  <2>1. SlotEffect(l, C, attach, a, first)
    BY <1>2, SlotStepEffect
  <2>2. appenders' = [b \in 1..Len(appenders) |-> appenders'[b]]
    BY <2>1 DEF SlotEffect, AppenderIds
  <2>3. Len(appenders') = Len(appenders)
    BY <1>1, <2>2, LenProperties
  <2>4. \A b \in AppenderIds : /\ appenders'[b].name = appenders[b].name
                               /\ appenders'[b].class = appenders[b].class
    BY <1>1, <2>1, ZenonT(60) DEF SlotEffect, Appender
  <2> QED
    BY <1>2, <2>3, <2>4 DEF SameAppenders, SlotStep
<1>3. CASE UNCHANGED registry
  BY <1>3
<1>4. ASSUME NEW l \in LoggerIds, NEW a \in AppenderIds, SetAppender(l, a)
      PROVE  SameAppenders /\ UNCHANGED extra
  BY <1>2, <1>4, SetAppenderStep
<1>5. ASSUME NEW l \in LoggerIds, RemoveAppenders(l)
      PROVE  SameAppenders /\ UNCHANGED extra
  BY <1>2, <1>5, RemoveAppendersStep
<1>6. ASSUME NEW l \in LoggerIds, Log(l)
      PROVE  SameAppenders /\ UNCHANGED extra
  <2> DEFINE S == {a \in AppenderIds : Deliveries(l)[a] > 0}
  <2>1. OpenOnAppend(S) /\ UNCHANGED extra
    BY <1>6 DEF Log
  <2> HIDE DEF S
  <2> QED
    BY <1>1, <2>1, OpenKeepsNames DEF TypeOK
<1>7. CASE RegistryNext
  BY <1>7
<1>8. CASE \E l \in LoggerIds : \/ \E part \in Parts : GetSublogger(l, part)
                                \/ \E p \in LoggerIds : SetParent(l, p)
                                \/ \E level \in Levels : SetLevel(l, level)
                                \/ \E additivity \in Additivities : SetAdditivity(l, additivity)
  BY <1>3, <1>8 DEF GetSublogger, SetParent, SetLevel, SetAdditivity
<1>9. CASE \/ \E n \in LoggerNames : GetLogger(n)
           \/ \E n \in CustomNames : InsertCustomLogger(n)
  BY <1>3, <1>9 DEF GetLogger, InsertCustomLogger
<1>10. CASE UNCHANGED vars
  BY <1>3, <1>10 DEF vars
<1> QED
  BY <1>4, <1>5, <1>6, <1>7, <1>8, <1>9, <1>10 DEF Next

\* The invariant of the names holds at first and through every step of the
\* registry, whatever the loggers do.
LEMMA InitNamesInv == RegistryInit => NamesInv
BY MaxExtraClassesAssumption
   DEF RegistryInit, NamesInv, RegistryTypeOK, NamesKept, NamesUnique, AppenderIds

\* l4sc_get_appender makes the old holder of a name obsolete before it gives the
\* name away; the other operations leave names as they are.
LEMMA NextNamesInv == NamesInv /\ [RegistryNext]_registry => NamesInv'
<1> SUFFICES ASSUME NamesInv, [RegistryNext]_registry PROVE NamesInv'
  OBVIOUS
<1>1. RegistryTypeOK
  BY DEF NamesInv
<1>2. RegistryTypeOK'
  BY <1>1, RegistryStep DEF registry, RegistryTypeOK
<1> QED
  BY <1>1, <1>2, RegistryNames, SameUnique, CreatedUnique DEF NamesInv

\* The same through every call on the loggers.
LEMMA NextLoggersNamesInv == IInv /\ IInv' /\ NamesInv /\ [Next]_vars => NamesInv'
<1> SUFFICES ASSUME IInv, IInv', NamesInv, [Next]_vars PROVE NamesInv'
  OBVIOUS
<1>1. CASE [RegistryNext]_registry
  BY <1>1, NextNamesInv
<1>2. CASE SameAppenders /\ UNCHANGED extra
  <2>1. RegistryTypeOK'
    BY DEF IInv, TypeOK
  <2> QED
    BY <1>2, <2>1, SameUnique DEF NamesInv
<1> QED
  BY <1>1, <1>2, LoggersKeepNames

\* The two action properties of the registry hold of a step that creates an
\* appender or keeps their names and classes.
LEMMA RegistryStepsProper ==
  ASSUME NamesInv, [RegistryNext]_registry \/ (SameAppenders /\ UNCHANGED extra)
  PROVE  /\ \A n \in AppenderNames :
              (FindAppender(n) # 0 /\ FindAppender(n)' # FindAppender(n)) =>
                \/ appenders'[FindAppender(n)'].class # appenders[FindAppender(n)].class
                \/ \E m \in AppenderNames : m # KeptName[m] /\ KeptName[m] = n
         /\ extra' = extra => \A k \in Kinds : ClassOf(k)' = ClassOf(k)
<1>1. SameAppenders \/ \E n \in AppenderNames, k \in Kinds : Created(n, k)
  BY RegistryNames DEF NamesInv
<1>2. ASSUME NEW n \in AppenderNames, FindAppender(n) # 0, FindAppender(n)' # FindAppender(n)
      PROVE  \/ appenders'[FindAppender(n)'].class # appenders[FindAppender(n)].class
             \/ \E m \in AppenderNames : m # KeptName[m] /\ KeptName[m] = n
  BY <1>1, <1>2, ReplacedOrSame
<1>3. ASSUME extra' = extra, NEW k \in Kinds
      PROVE  ClassOf(k)' = ClassOf(k)
  BY <1>1, <1>3, ResolutionKept DEF NamesInv
<1> QED
  BY <1>2, <1>3

\* However often a program configures its appenders and loggers, no two live
\* appenders share a name that namebuf holds.
THEOREM NamesUniqueCorrect == Spec => []NamesUnique
<1>1. Init => IInv /\ NamesInv
  BY InitInv, InitNamesInv DEF Init
<1>2. IInv /\ NamesInv /\ [Next]_vars => IInv' /\ NamesInv'
  BY NextInv, NextLoggersNamesInv
<1>3. NamesInv => NamesUnique
  BY DEF NamesInv
<1> QED
  BY <1>1, <1>2, <1>3, PTL DEF Spec

\* An appender that a name denotes is replaced only by one of another class.
THEOREM ReplacedOnClassChangeCorrect == Spec => ReplacedOnClassChange
<1>1. Init => IInv /\ NamesInv
  BY InitInv, InitNamesInv DEF Init
<1>2. IInv /\ NamesInv /\ [Next]_vars => IInv' /\ NamesInv'
  BY NextInv, NextLoggersNamesInv
<1>3. IInv /\ NamesInv /\ [Next]_vars =>
        [\A n \in AppenderNames :
           (FindAppender(n) # 0 /\ FindAppender(n)' # FindAppender(n)) =>
             \/ appenders'[FindAppender(n)'].class # appenders[FindAppender(n)].class
             \/ \E m \in AppenderNames : m # KeptName[m] /\ KeptName[m] = n]_registry
  BY LoggersKeepNames, RegistryStepsProper
<1> QED
  BY <1>1, <1>2, <1>3, PTL DEF Spec, ReplacedOnClassChange

\* Creating appenders never changes what a class name means, so a second pass
\* of a configurator resolves every class as the first.
THEOREM ResolutionStableCorrect == Spec => ResolutionStable
<1>1. Init => IInv /\ NamesInv
  BY InitInv, InitNamesInv DEF Init
<1>2. IInv /\ NamesInv /\ [Next]_vars => IInv' /\ NamesInv'
  BY NextInv, NextLoggersNamesInv
<1>3. IInv /\ NamesInv /\ [Next]_vars =>
        [extra' = extra => \A k \in Kinds : ClassOf(k)' = ClassOf(k)]_registry
  BY LoggersKeepNames, RegistryStepsProper
<1> QED
  BY <1>1, <1>2, <1>3, PTL DEF Spec, ResolutionStable

-----------------------------------------------------------------------------
(* What loggers the recursion over the prefixes of a name creates *)

\* A search answers with the first logger of the name, 0 if there is none.
LEMMA LookupFinds ==
  ASSUME NEW ls, NEW len \in Nat, DOMAIN ls = 1..len, NEW n
  PROVE  /\ Lookup(ls, n) \in 0..len
         /\ Lookup(ls, n) = 0 => \A i \in 1..len : ls[i].name # n
         /\ Lookup(ls, n) # 0 => /\ ls[Lookup(ls, n)].name = n
                                 /\ \A i \in 1..len : ls[i].name = n => Lookup(ls, n) <= i
<1> DEFINE named == {i \in DOMAIN ls : ls[i].name = n}
<1>1. CASE named = {}
  BY <1>1 DEF Lookup
<1>2. CASE named # {}
  <2>0. named \subseteq Nat
    OBVIOUS
  <2> HIDE DEF named
  <2>1. \E i \in named : \A j \in named : i <= j
    BY <1>2, <2>0, Least
  <2>2. Lookup(ls, n) = CHOOSE i \in named : \A j \in named : i <= j
    BY <1>2 DEF Lookup, named
  <2>3. Lookup(ls, n) \in named /\ \A j \in named : Lookup(ls, n) <= j
    BY <2>1, <2>2
  <2> QED
    BY <2>3 DEF named
<1> QED
  BY <1>1, <1>2

\* A list that goes on, with the same names as far as it went, answers the
\* same for a name that was found.
LEMMA LookupGoesOn ==
  ASSUME NEW ls, NEW len \in Nat, DOMAIN ls = 1..len,
         NEW new, NEW more \in Nat, DOMAIN new = 1..more, len <= more,
         \A i \in 1..len : new[i].name = ls[i].name,
         NEW n, Lookup(ls, n) # 0
  PROVE  Lookup(new, n) = Lookup(ls, n)
<1> DEFINE a == Lookup(ls, n)
           b == Lookup(new, n)
<1>1. a \in 1..len /\ ls[a].name = n /\ \A i \in 1..len : ls[i].name = n => a <= i
  BY LookupFinds
<1>2. /\ b \in 0..more
      /\ b = 0 => \A i \in 1..more : new[i].name # n
      /\ b # 0 => new[b].name = n /\ \A i \in 1..more : new[i].name = n => b <= i
  BY LookupFinds
<1> HIDE DEF a, b
<1>3. a \in 1..more /\ new[a].name = n
  BY <1>1
<1>4. b # 0 /\ b <= a
  BY <1>2, <1>3
<1>5. b \in 1..len /\ ls[b].name = n
  BY <1>1, <1>2, <1>4
<1>6. a <= b
  BY <1>1, <1>5
<1> QED
  BY <1>1, <1>4, <1>5, <1>6 DEF a, b

\* A name that one logger has alone denotes it.
LEMMA LookupOnly ==
  ASSUME NEW ls, NEW len \in Nat, DOMAIN ls = 1..len, NEW i \in 1..len,
         \A h \in 1..len : ls[h].name = ls[i].name => h = i
  PROVE  Lookup(ls, ls[i].name) = i
BY LookupFinds

\* A prefix of a name: its length, and what it is without its last part.
LEMMA PrefixProperties ==
  ASSUME NEW n \in Seq(NameParts), NEW j \in 1..Len(n)
  PROVE  /\ Prefix(n, j) \in Seq(NameParts) /\ Len(Prefix(n, j)) = j
         /\ \A i \in 1..j : Prefix(n, j)[i] = n[i]
         /\ j > 1 => Front(Prefix(n, j)) = Prefix(n, j - 1)
<1>1. Len(n) \in Nat
  BY LenProperties
<1>2. ASSUME NEW k \in 1..Len(n)
      PROVE  /\ Prefix(n, k) \in Seq(NameParts) /\ Len(Prefix(n, k)) = k
             /\ \A i \in 1..k : Prefix(n, k)[i] = n[i]
  BY <1>1, <1>2, SubSeqProperties, ElementOfSeq DEF Prefix
<1>3. ASSUME j > 1
      PROVE  Front(Prefix(n, j)) = Prefix(n, j - 1)
  <2> DEFINE p == Prefix(n, j)
             q == Prefix(n, j - 1)
             r == SubSeq(p, 1, j - 1)
  <2>1. j - 1 \in 1..Len(n) /\ j - 1 \in Nat
    BY <1>1, <1>3
  <2>2. /\ p \in Seq(NameParts) /\ Len(p) = j /\ \A i \in 1..j : p[i] = n[i]
        /\ q \in Seq(NameParts) /\ Len(q) = j - 1 /\ \A i \in 1..(j - 1) : q[i] = n[i]
    BY <1>2, <2>1
  <2> HIDE DEF p, q
  <2>3. r \in Seq(NameParts) /\ Len(r) = j - 1 /\ \A i \in 1..(j - 1) : r[i] = p[i]
    BY <2>1, <2>2, SubSeqProperties, ElementOfSeq
  <2>4. r = q
    <3> HIDE DEF r
    <3>1. \A i \in 1..Len(r) : r[i] = q[i]
      BY <2>1, <2>2, <2>3
    <3> QED
      BY <2>2, <2>3, <3>1, SeqEqual
  <2> QED
    BY <2>2, <2>4 DEF Front, p, q
<1> QED
  BY <1>2, <1>3

\* The loggers that join the list are asked for by the name and its prefixes,
\* one part shorter each; stopping earlier only leaves out the last ones.
LEMMA JoinedNames ==
  ASSUME NEW ls \in Seq(LoggerType), NEW n \in Seq(NameParts) \ {<< >>},
         NEW k \in 1..Len(n)
  PROVE  /\ \A j \in k..Len(n) :
              LET i == Len(ls) + Len(n) - j + 1 IN
              /\ Joined(ls, n, k)[i].asked = Prefix(n, j)
              /\ Joined(ls, n, k)[i].name = Stored(Prefix(n, j))
         /\ \A j \in k..Len(n) : \A i \in 1..(Len(ls) + Len(n) - j + 1) :
              Joined(ls, n, j)[i] = Joined(ls, n, k)[i]
<1>1. Len(n) \in Nat /\ Len(ls) \in Nat /\ DOMAIN ls = 1..Len(ls)
  BY LenProperties
<1> DEFINE new(i) == Logger(Prefix(n, Len(n) - i + 1), "logger", INHERIT_LEVEL, TRUE,
                            Len(ls) + i + 1)
<1>2. ASSUME NEW j \in k..Len(n)
      PROVE  \A i \in 1..(Len(ls) + Len(n) - j + 1) :
               Joined(ls, n, j)[i] = IF i <= Len(ls) THEN ls[i] ELSE new(i - Len(ls))
  <2> DEFINE m == Len(n) - j + 1
             added == [i \in 1..m |-> new(i)]
  <2>1. m \in Nat
    BY <1>1
  <2>2. Joined(ls, n, j) = ls \o added
    BY DEF Joined
  <2>3. Len(ls) + Len(n) - j + 1 = Len(ls) + m
    BY <1>1
  <2> HIDE DEF m, new
  <2> DEFINE U == {new(i) : i \in 1..m}
             T == LoggerType \union U
  <2>4. added \in Seq(U) /\ Len(added) = m /\ \A i \in 1..m : added[i] = new(i)
    <3>1. added \in [1..m -> U] /\ \A i \in 1..m : added[i] = new(i)
      OBVIOUS
    <3> HIDE DEF added, U
    <3>2. added \in Seq(U)
      BY <2>1, <3>1, SeqDef
    <3>3. Len(added) = m
      BY <2>1, <3>1, <3>2, LenProperties
    <3> QED
      BY <3>1, <3>2, <3>3
  <2> HIDE DEF added, U
  <2>5. ls \in Seq(T) /\ added \in Seq(T)
    <3>1. LoggerType \subseteq T /\ U \subseteq T /\ added \in Seq(U)
      BY <2>4
    <3> HIDE DEF T
    <3> QED
      BY <3>1, SeqMonotonic
  <2>8. Len(added) = m
    BY <2>4
  <2> HIDE DEF T
  <2>6. \A i \in 1..(Len(ls) + m) :
          (ls \o added)[i] = IF i <= Len(ls) THEN ls[i] ELSE added[i - Len(ls)]
    BY <2>5, <2>8, ConcatProperties
  <2>7. \A i \in 1..(Len(ls) + m) : i <= Len(ls) \/ i - Len(ls) \in 1..m
    BY <1>1, <2>1
  <2> QED
    BY <2>2, <2>3, <2>4, <2>6, <2>7
<1>3. ASSUME NEW j \in k..Len(n)
      PROVE  LET i == Len(ls) + Len(n) - j + 1 IN
             /\ Joined(ls, n, k)[i].asked = Prefix(n, j)
             /\ Joined(ls, n, k)[i].name = Stored(Prefix(n, j))
  <2> DEFINE i == Len(ls) + Len(n) - j + 1
  <2>1. /\ i \in 1..(Len(ls) + Len(n) - k + 1) /\ ~(i <= Len(ls))
        /\ Len(n) - (i - Len(ls)) + 1 = j /\ k \in k..Len(n)
    BY <1>1
  <2> HIDE DEF i, new
  <2>2. Joined(ls, n, k)[i] = new(i - Len(ls))
    BY <1>2, <2>1
  <2>3. new(i - Len(ls)) = Logger(Prefix(n, j), "logger", INHERIT_LEVEL, TRUE,
                                  Len(ls) + (i - Len(ls)) + 1)
    BY <2>1 DEF new
  <2>4. Joined(ls, n, k)[i].asked = Prefix(n, j) /\ Joined(ls, n, k)[i].name = Stored(Prefix(n, j))
    BY <2>2, <2>3 DEF Logger
  <2> QED
    BY <2>4 DEF i
<1>4. ASSUME NEW j \in k..Len(n), NEW i \in 1..(Len(ls) + Len(n) - j + 1)
      PROVE  Joined(ls, n, j)[i] = Joined(ls, n, k)[i]
  <2>1. i \in 1..(Len(ls) + Len(n) - k + 1) /\ k \in k..Len(n)
    BY <1>1
  <2> HIDE DEF new
  <2> QED
    BY <1>2, <2>1
<1> QED
  BY <1>3, <1>4

\* The loggers that have joined the list ls in the list new: a name that fits
\* is kept, it is its logger's alone, and the parent is the one the name says.
ProperlyNamed(ls, new) ==
  \A i \in (Len(ls) + 1)..Len(new) : Fits(new[i].asked) =>
    /\ new[i].name = new[i].asked
    /\ \A h \in 1..Len(new) : new[h].name = new[i].name => h = i
    /\ new[i].parent = IF Len(new[i].asked) = 1 THEN Root
                       ELSE Lookup(new, Front(new[i].asked))

\* No logger of the list, and none created before, has the name of one that
\* l4sc_get_logger creates.
LEMMA NoneBefore ==
  ASSUME NEW ls \in Seq(LoggerType), NEW n \in Seq(NameParts) \ {<< >>},
         Lookup(ls, n) = 0, NEW j \in (Ancestor(ls, n) + 1)..Len(n)
  PROVE  \A h \in 1..(Len(ls) + Len(n) - j) :
           Joined(ls, n, Ancestor(ls, n) + 1)[h].name # Prefix(n, j)
<1> DEFINE k == Ancestor(ls, n)
           found == {i \in 1..(Len(n) - 1) : FoundAt(ls, n, i) # 0}
<1>1. Len(n) \in Nat /\ Len(n) > 0 /\ Len(ls) \in Nat /\ DOMAIN ls = 1..Len(ls)
  BY LenProperties, EmptySeq
<1>2. k \in 0..(Len(n) - 1) /\ k + 1 \in 1..Len(n)
  BY <1>1, AncestorType
<1>3. ASSUME NEW i \in found PROVE i <= k
  <2>1. found # {} /\ found \subseteq 0..Len(n)
    BY <1>1
  <2>2. k = CHOOSE x \in found : \A y \in found : y <= x
    BY <2>1 DEF Ancestor
  <2> HIDE DEF found, k
  <2>3. \E x \in found : \A y \in found : y <= x
    BY <1>1, <2>1, Greatest
  <2> QED
    BY <2>2, <2>3
<1> HIDE DEF k
<1>4. CASE j = Len(n)
  <2>1. Prefix(n, j) = n
    <3>1. /\ Prefix(n, j) \in Seq(NameParts) /\ Len(Prefix(n, j)) = Len(n)
          /\ \A i \in 1..Len(n) : Prefix(n, j)[i] = n[i]
      BY <1>1, <1>4, PrefixProperties
    <3> HIDE DEF k
    <3> QED
      BY <3>1, SeqEqual
  <2>2. \A h \in 1..Len(ls) : ls[h].name # n
    BY <1>1, LookupFinds
  <2>3. \A h \in 1..Len(ls) : Joined(ls, n, k + 1)[h] = ls[h]
    BY <1>2, JoinedExtends
  <2>4. Len(ls) + Len(n) - j = Len(ls)
    BY <1>1, <1>4
  <2> QED
    BY <2>1, <2>2, <2>3, <2>4 DEF k
<1>5. CASE j # Len(n)
  <2>1. j \in 1..(Len(n) - 1) /\ j \in Nat /\ ~(j <= k)
    BY <1>1, <1>2, <1>5 DEF k
  <2>2. FoundAt(ls, n, j) = 0
    BY <1>3, <2>1
  <2> DEFINE shorter == Joined(ls, n, j + 1)
             len == Len(ls) + Len(n) - j
  <2>3. j + 1 \in 1..Len(n) /\ j + 1 \in (k + 1)..Len(n)
    BY <1>1, <1>2, <2>1
  <2>4. shorter \in Seq(LoggerType) /\ Len(shorter) = len
    <3>1. shorter \in Seq(LoggerType) /\ Len(shorter) = Len(ls) + Len(n) - (j + 1) + 1
      BY <2>3, JoinedExtends
    <3> QED
      BY <1>1, <2>1, <3>1
  <2>5. \A h \in 1..len : shorter[h].name # Prefix(n, j)
    <3>1. DOMAIN shorter = 1..len /\ len \in Nat
      BY <2>4, LenProperties
    <3>2. Lookup(shorter, Prefix(n, j)) = 0
      BY <2>2 DEF FoundAt
    <3> HIDE DEF shorter, len
    <3> QED
      BY <3>1, <3>2, LookupFinds
  <2>6. \A h \in 1..len : shorter[h] = Joined(ls, n, k + 1)[h]
    <3>1. \A x \in (k + 1)..Len(n) : \A h \in 1..(Len(ls) + Len(n) - x + 1) :
            Joined(ls, n, x)[h] = Joined(ls, n, k + 1)[h]
      BY <1>2, JoinedNames
    <3>2. len = Len(ls) + Len(n) - (j + 1) + 1
      BY <1>1, <2>1
    <3> QED
      BY <2>3, <3>1, <3>2
  <2> HIDE DEF shorter
  <2> QED
    BY <2>5, <2>6 DEF k
<1> QED
  BY <1>4, <1>5

\* A name that fits stays a name that fits when its last part goes.
LEMMA ShorterFits ==
  ASSUME NEW n \in Seq(NameParts), NEW j \in 1..Len(n), NEW i \in 1..j, Fits(Prefix(n, j))
  PROVE  Fits(Prefix(n, i)) /\ Stored(Prefix(n, i)) = Prefix(n, i)
<1>1. Len(n) \in Nat
  BY LenProperties
<1>2. Len(Prefix(n, j)) = j /\ Len(Prefix(n, i)) = i
  <2>1. i \in 1..Len(n)
    BY <1>1
  <2> QED
    BY <2>1, PrefixProperties
<1> DEFINE p == Prefix(n, i)
<1>3. j \in Nat /\ i \in Nat /\ i <= j /\ NameSize \in Nat
  BY <1>1, SizesAssumption
<1>4. 2 * j - 1 < NameSize
  BY <1>2 DEF Fits
<1>5. 2 * i - 1 < NameSize
  BY <1>3, <1>4
<1>6. Len(p) = i
  BY <1>2
<1> HIDE DEF p
<1>7. Fits(p) /\ Stored(p) = p
  BY <1>5, <1>6 DEF Fits, Stored
<1> QED
  BY <1>7 DEF p

\* The new loggers before the last one gets its parent.
LEMMA JoinedProperly ==
  ASSUME NEW ls \in Seq(LoggerType), NEW n \in Seq(NameParts) \ {<< >>},
         Lookup(ls, n) = 0,
         NEW j \in (Ancestor(ls, n) + 1)..Len(n), Fits(Prefix(n, j))
  PROVE  LET new == Joined(ls, n, Ancestor(ls, n) + 1)
             i == Len(ls) + Len(n) - j + 1 IN
         /\ i \in 1..Len(new) /\ new[i].name = Prefix(n, j)
         /\ \A h \in 1..Len(new) : new[h].name = Prefix(n, j) => h = i
<1> DEFINE k == Ancestor(ls, n)
           new == Joined(ls, n, k + 1)
           i == Len(ls) + Len(n) - j + 1
<1>1. Len(n) \in Nat /\ Len(n) > 0 /\ Len(ls) \in Nat
  BY LenProperties, EmptySeq
<1>2. k \in 0..(Len(n) - 1) /\ k + 1 \in 1..Len(n)
  BY <1>1, AncestorType
<1>3. j \in 1..Len(n) /\ j \in Nat /\ j >= k + 1
  BY <1>1, <1>2
<1>4. Len(new) = Len(ls) + Len(n) - k
  <2>1. Len(new) = Len(ls) + Len(n) - (k + 1) + 1
    BY <1>2, JoinedExtends
  <2> QED
    BY <1>1, <1>2, <2>1
<1>5. \A x \in (k + 1)..Len(n) : new[Len(ls) + Len(n) - x + 1].name = Stored(Prefix(n, x))
  BY <1>2, JoinedNames
<1>6. \A h \in 1..(Len(ls) + Len(n) - j) : new[h].name # Prefix(n, j)
  BY NoneBefore
<1> HIDE DEF new, k
<1>7. i \in 1..Len(new) /\ new[i].name = Prefix(n, j)
  <2>1. Stored(Prefix(n, j)) = Prefix(n, j)
    BY <1>3, ShorterFits
  <2>2. j \in (k + 1)..Len(n)
    BY DEF k
  <2>3. new[i].name = Prefix(n, j)
    BY <1>5, <2>1, <2>2
  <2>4. i \in 1..Len(new)
    BY <1>1, <1>2, <1>3, <1>4
  <2> QED
    BY <2>3, <2>4
<1>8. ASSUME NEW h \in 1..Len(new), new[h].name = Prefix(n, j), h # i
      PROVE  FALSE
  <2>1. h > i
    <3>1. h \notin 1..(Len(ls) + Len(n) - j)
      BY <1>6, <1>8
    <3> QED
      BY <1>1, <1>2, <1>3, <1>4, <1>8, <3>1, SMTT(30)
  <2> DEFINE x == Len(ls) + Len(n) + 1 - h
  <2>2. x \in (k + 1)..Len(n) /\ Len(ls) + Len(n) - x + 1 = h /\ x \in 1..j /\ x # j
    BY <1>1, <1>2, <1>3, <1>4, <2>1
  <2> HIDE DEF x
  <2>3. new[h].name = Stored(Prefix(n, x))
    BY <1>5, <2>2
  <2>4. Stored(Prefix(n, x)) = Prefix(n, x)
    BY <1>3, <2>2, ShorterFits
  <2>5. Len(Prefix(n, x)) = x /\ Len(Prefix(n, j)) = j
    BY <1>1, <1>2, <1>3, <2>2, PrefixProperties
  <2> QED
    BY <1>8, <2>2, <2>3, <2>4, <2>5
<1> HIDE DEF i
<1>9. /\ i \in 1..Len(new) /\ new[i].name = Prefix(n, j)
      /\ \A h \in 1..Len(new) : new[h].name = Prefix(n, j) => h = i
  BY <1>7, <1>8
<1> QED
  BY <1>9 DEF i, new, k

\* Lists with the same names answer the same.
LEMMA LookupSame ==
  ASSUME NEW ls, NEW new, DOMAIN new = DOMAIN ls,
         \A i \in DOMAIN ls : new[i].name = ls[i].name, NEW n
  PROVE  Lookup(new, n) = Lookup(ls, n)
<1> DEFINE named(l) == {i \in DOMAIN l : l[i].name = n}
<1>1. named(new) = named(ls)
  OBVIOUS
<1>2. \A l : Lookup(l, n) = IF named(l) = {} THEN 0
                            ELSE CHOOSE i \in named(l) : \A j \in named(l) : i <= j
  BY DEF Lookup
<1> HIDE DEF named
<1> QED
  BY <1>1, <1>2

\* l4sc_get_logger names the loggers it creates properly and keeps the names
\* of those of the list.
LEMMA WithLoggerProper ==
  ASSUME NEW ls \in Seq(LoggerType), Len(ls) > 0,
         NEW n \in Seq(NameParts) \ {<< >>}
  PROVE  ProperlyNamed(ls, WithLogger(ls, n))
<1> DEFINE k == Ancestor(ls, n)
           new == Joined(ls, n, k + 1)
           parent == IF k = 0 THEN Root ELSE FoundAt(ls, n, k)
           final == WithLogger(ls, n)
<1>1. Len(n) \in Nat /\ Len(n) > 0 /\ Len(ls) \in Nat
  BY LenProperties, EmptySeq
<1>2. CASE Lookup(ls, n) # 0
  <2>1. final = ls
    BY <1>2 DEF WithLogger
  <2> HIDE DEF final
  <2>2. ASSUME NEW i \in (Len(ls) + 1)..Len(final) PROVE FALSE
    BY <1>1, <2>1
  <2> QED
    BY <2>2 DEF ProperlyNamed, final
<1>3. CASE Lookup(ls, n) = 0
  <2>1. k \in 0..(Len(n) - 1) /\ k + 1 \in 1..Len(n)
    BY <1>1, AncestorType
  <2>2. /\ new \in Seq(LoggerType)
        /\ Len(new) = Len(ls) + Len(n) - (k + 1) + 1
        /\ \A i \in (Len(ls) + 1)..Len(new) : new[i].parent = i + 1
    BY <2>1, JoinedExtends
  <2>3. \A j \in (k + 1)..Len(n) : new[Len(ls) + Len(n) - j + 1].asked = Prefix(n, j)
    BY <2>1, JoinedNames
  <2>4. \A j \in (k + 1)..Len(n) : Fits(Prefix(n, j)) =>
          LET i == Len(ls) + Len(n) - j + 1 IN
          /\ i \in 1..Len(new) /\ new[i].name = Prefix(n, j)
          /\ \A h \in 1..Len(new) : new[h].name = Prefix(n, j) => h = i
    BY <1>3, JoinedProperly
  <2>5. k # 0 => parent = Lookup(new, Prefix(n, k))
    BY DEF FoundAt
  <2>6. final = [new EXCEPT ![Len(new)].parent = parent]
    BY <1>3 DEF WithLogger
  <2> HIDE DEF new, final, parent
  <2>7. Len(new) \in Nat /\ DOMAIN new = 1..Len(new) /\ Len(new) = Len(ls) + Len(n) - k
    BY <1>1, <2>1, <2>2, LenProperties, SMTT(30)
  <2>8. /\ Len(final) = Len(new) /\ DOMAIN final = 1..Len(new)
        /\ \A i \in 1..Len(new) :
             /\ final[i].name = new[i].name /\ final[i].asked = new[i].asked
             /\ final[i].parent = IF i = Len(new) THEN parent ELSE new[i].parent
    <3> DEFINE last == [new[Len(new)] EXCEPT !.parent = parent]
    <3>1. new[Len(new)] \in LoggerType
      BY <1>1, <2>1, <2>2, <2>7, ElementOfSeq
    <3>2. /\ last.name = new[Len(new)].name /\ last.asked = new[Len(new)].asked
          /\ last.parent = parent
      BY <3>1 DEF LoggerType
    <3>3. final = [new EXCEPT ![Len(new)] = last]
      BY <2>6
    <3> HIDE DEF last
    <3>4. DOMAIN final = 1..Len(new) /\ Len(final) = Len(new)
      <4>1. final = [i \in 1..Len(new) |-> final[i]]
        BY <2>7, <3>3
      <4> QED
        BY <2>7, <4>1, LenProperties
    <3>5. \A i \in 1..Len(new) : final[i] = IF i = Len(new) THEN last ELSE new[i]
      BY <2>7, <3>3
    <3> QED
      BY <3>2, <3>4, <3>5
  <2>9. \A m : Lookup(final, m) = Lookup(new, m)
    BY <2>7, <2>8, LookupSame
  <2>10. ASSUME NEW i \in (Len(ls) + 1)..Len(final), Fits(final[i].asked)
         PROVE  /\ final[i].name = final[i].asked
                /\ \A h \in 1..Len(final) : final[h].name = final[i].name => h = i
                /\ final[i].parent = IF Len(final[i].asked) = 1 THEN Root
                                     ELSE Lookup(final, Front(final[i].asked))
    <3> DEFINE j == Len(ls) + Len(n) - i + 1
    <3>1. /\ j \in (k + 1)..Len(n) /\ j \in 1..Len(n) /\ i \in 1..Len(new)
          /\ Len(ls) + Len(n) - j + 1 = i /\ (j = k + 1 <=> i = Len(new)) /\ j \in Nat
      BY <1>1, <2>1, <2>7, <2>8
    <3> HIDE DEF j
    <3>2. final[i].asked = Prefix(n, j) /\ Fits(Prefix(n, j))
      BY <2>3, <2>8, <2>10, <3>1
    <3>3. /\ new[i].name = Prefix(n, j)
          /\ \A h \in 1..Len(new) : new[h].name = Prefix(n, j) => h = i
      BY <2>4, <3>1, <3>2
    <3>4. /\ final[i].name = final[i].asked
          /\ \A h \in 1..Len(final) : final[h].name = final[i].name => h = i
      BY <2>8, <3>1, <3>2, <3>3
    <3>5. Len(Prefix(n, j)) = j /\ (j > 1 => Front(Prefix(n, j)) = Prefix(n, j - 1))
      BY <3>1, PrefixProperties
    <3>6. CASE j = k + 1
      <4>1. final[i].parent = parent
        BY <2>8, <3>1, <3>6
      <4>2. CASE k = 0
        BY <2>1, <3>2, <3>4, <3>5, <3>6, <4>1, <4>2 DEF parent
      <4>3. CASE k # 0
        <5>1. j > 1 /\ j # 1 /\ j - 1 = k
          BY <2>1, <3>6, <4>3, SMTT(30)
        <5>2. Front(Prefix(n, j)) = Prefix(n, k)
          BY <3>5, <5>1
        <5> QED
          BY <2>5, <2>9, <3>2, <3>4, <3>5, <4>1, <4>3, <5>1, <5>2
      <4> QED
        BY <4>2, <4>3, SMTT(30)
    <3>7. CASE j # k + 1
      <4> DEFINE x == j - 1
      <4>1. /\ x \in (k + 1)..Len(n) /\ x \in 1..j /\ j > 1 /\ j # 1
            /\ Len(ls) + Len(n) - x + 1 = i + 1 /\ i \in (Len(ls) + 1)..Len(new) /\ i # Len(new)
        <5>1. i \in (Len(ls) + 1)..Len(new) /\ i # Len(new)
          BY <2>8, <3>1, <3>7
        <5>2. j \in Nat /\ k \in Nat /\ j > k + 1
          BY <1>1, <2>1, <3>1, <3>7
        <5>3. x \in (k + 1)..Len(n) /\ x \in 1..j /\ j > 1 /\ j # 1
          BY <1>1, <3>1, <5>2
        <5>4. Len(ls) + Len(n) - x + 1 = i + 1
          BY <1>1, <2>7, <3>1, <5>1, <5>2
        <5> QED
          BY <5>1, <5>3, <5>4
      <4> HIDE DEF x
      <4>2. Fits(Prefix(n, x))
        BY <3>1, <3>2, <4>1, ShorterFits
      <4>3. /\ i + 1 \in 1..Len(new) /\ new[i + 1].name = Prefix(n, x)
            /\ \A h \in 1..Len(new) : new[h].name = Prefix(n, x) => h = i + 1
        BY <2>4, <4>1, <4>2
      <4>4. Lookup(new, Prefix(n, x)) = i + 1
        <5>1. \A h \in 1..Len(new) : new[h].name = new[i + 1].name => h = i + 1
          BY <4>3
        <5>2. Lookup(new, new[i + 1].name) = i + 1
          BY <2>7, <4>3, <5>1, LookupOnly
        <5> QED
          BY <4>3, <5>2
      <4>5. final[i].parent = i + 1
        BY <2>2, <2>8, <3>1, <4>1
      <4>6. Front(final[i].asked) = Prefix(n, x) /\ Len(final[i].asked) # 1
        BY <3>2, <3>5, <4>1 DEF x
      <4> QED
        BY <2>9, <3>4, <4>4, <4>5, <4>6
    <3> QED
      BY <3>4, <3>6, <3>7
  <2> HIDE DEF k
  <2>11. ProperlyNamed(ls, final)
    BY <2>10 DEF ProperlyNamed
  <2> QED
    BY <2>11 DEF final
<1> QED
  BY <1>2, <1>3, LookupType DEF WithLogger

-----------------------------------------------------------------------------
(* Loggers *)

\* What a call does to the list as far as names, parents and classes go: it
\* keeps them, except for a parent that the program sets and a logger that
\* becomes a custom logger, and names new loggers properly.
NamesStep ==
  /\ Len(loggers') \in Nat /\ DOMAIN loggers' = 1..Len(loggers')
  /\ Len(loggers') >= Len(loggers)
  /\ adopted \subseteq adopted'
  /\ \A l \in LoggerIds : /\ loggers'[l].name = loggers[l].name
                          /\ loggers'[l].asked = loggers[l].asked
                          /\ l \in adopted' \/ loggers'[l].parent = loggers[l].parent
                          /\ loggers'[l].kind \in {loggers[l].kind, "custom"}
  /\ \A i \in (Len(loggers) + 1)..Len(loggers') : Fits(loggers'[i].asked) =>
       /\ loggers'[i].name = loggers'[i].asked
       /\ \A h \in LoggerIds' : loggers'[h].name = loggers'[i].name => h = i
       /\ \/ i \in adopted'
          \/ loggers'[i].parent = IF Len(loggers'[i].asked) = 1 THEN Root
                                  ELSE Lookup(loggers', Front(loggers'[i].asked))

\* A call that changes one logger of the list that l4sc_get_logger has left,
\* its name apart.
LEMMA EditStep ==
  ASSUME IInv, NEW ls \in Seq(LoggerType), Len(ls) >= Len(loggers),
         \A i \in LoggerIds : ls[i] = loggers[i],
         ProperlyNamed(loggers, ls),
         NEW l \in 1..Len(ls), NEW new \in LoggerType,
         new.name = ls[l].name, new.asked = ls[l].asked,
         l \in adopted' \/ new.parent = ls[l].parent,
         new.kind \in {ls[l].kind, "custom"},
         loggers' = [ls EXCEPT ![l] = new], adopted \subseteq adopted'
  PROVE  NamesStep
<1>1. Len(loggers) \in Nat /\ Len(ls) \in Nat /\ DOMAIN ls = 1..Len(ls)
  BY SlotsAreTyped, LenProperties DEF IInv
<1>2. /\ Len(loggers') = Len(ls) /\ DOMAIN loggers' = 1..Len(ls)
      /\ \A i \in 1..Len(ls) : loggers'[i] = IF i = l THEN new ELSE ls[i]
  <2>1. loggers' \in Seq(LoggerType) /\ Len(loggers') = Len(ls)
        /\ \A i \in 1..Len(ls) : loggers'[i] = IF i = l THEN new ELSE ls[i]
    BY ExceptSeq
  <2> QED
    BY <2>1, LenProperties
<1>3. \A i \in 1..Len(ls) : /\ loggers'[i].name = ls[i].name
                            /\ loggers'[i].asked = ls[i].asked
                            /\ i \in adopted' \/ loggers'[i].parent = ls[i].parent
                            /\ loggers'[i].kind \in {ls[i].kind, "custom"}
  BY <1>2
<1>4. \A m : Lookup(loggers', m) = Lookup(ls, m)
  BY <1>1, <1>2, <1>3, LookupSame
<1>5. LoggerIds \subseteq 1..Len(ls) /\ LoggerIds' = 1..Len(ls)
  BY <1>1, <1>2 DEF LoggerIds
<1>6. ASSUME NEW i \in (Len(loggers) + 1)..Len(loggers'), Fits(loggers'[i].asked)
      PROVE  /\ loggers'[i].name = loggers'[i].asked
             /\ \A h \in LoggerIds' : loggers'[h].name = loggers'[i].name => h = i
             /\ \/ i \in adopted'
                \/ loggers'[i].parent = IF Len(loggers'[i].asked) = 1 THEN Root
                                        ELSE Lookup(loggers', Front(loggers'[i].asked))
  <2>1. i \in (Len(loggers) + 1)..Len(ls) /\ i \in 1..Len(ls)
    BY <1>1, <1>2
  <2>2. loggers'[i].asked = ls[i].asked /\ loggers'[i].name = ls[i].name
    BY <1>3, <2>1
  <2>3. /\ ls[i].name = ls[i].asked
        /\ \A h \in 1..Len(ls) : ls[h].name = ls[i].name => h = i
        /\ ls[i].parent = IF Len(ls[i].asked) = 1 THEN Root ELSE Lookup(ls, Front(ls[i].asked))
    BY <1>6, <2>1, <2>2 DEF ProperlyNamed
  <2>4. \A h \in LoggerIds' : loggers'[h].name = loggers'[i].name => h = i
    BY <1>3, <1>5, <2>2, <2>3
  <2>5. i \in adopted' \/ loggers'[i].parent = ls[i].parent
    BY <1>3, <2>1
  <2>6. Lookup(loggers', Front(loggers'[i].asked)) = Lookup(ls, Front(ls[i].asked))
    BY <1>4, <2>2
  <2>7. \/ i \in adopted'
        \/ loggers'[i].parent = IF Len(loggers'[i].asked) = 1 THEN Root
                                ELSE Lookup(loggers', Front(loggers'[i].asked))
    BY <2>2, <2>3, <2>5, <2>6
  <2> QED
    BY <2>2, <2>3, <2>4, <2>7
<1>7. \A i \in LoggerIds : /\ loggers'[i].name = loggers[i].name
                           /\ loggers'[i].asked = loggers[i].asked
                           /\ i \in adopted' \/ loggers'[i].parent = loggers[i].parent
                           /\ loggers'[i].kind \in {loggers[i].kind, "custom"}
  BY <1>3, <1>5
<1>8. /\ Len(loggers') \in Nat /\ DOMAIN loggers' = 1..Len(loggers')
      /\ Len(loggers') >= Len(loggers)
  BY <1>1, <1>2
<1> QED
  BY <1>6, <1>7, <1>8, Zenon DEF NamesStep

\* A call that changes one logger that was in the list.
LEMMA OldLoggerStep ==
  ASSUME IInv, NEW l \in LoggerIds, NEW new \in LoggerType,
         new.name = loggers[l].name, new.asked = loggers[l].asked,
         l \in adopted' \/ new.parent = loggers[l].parent,
         new.kind \in {loggers[l].kind, "custom"},
         loggers' = [loggers EXCEPT ![l] = new], adopted \subseteq adopted'
  PROVE  NamesStep
<1>1. loggers \in Seq(LoggerType) /\ Len(loggers) \in Nat
  BY SlotsAreTyped DEF IInv, TypeOK
<1>2. ProperlyNamed(loggers, loggers)
  BY <1>1 DEF ProperlyNamed
<1>3. l \in 1..Len(loggers) /\ Len(loggers) >= Len(loggers)
  BY <1>1 DEF LoggerIds
<1> QED
  BY <1>1, <1>2, <1>3, EditStep, Zenon

\* Calls that leave the list alone.
LEMMA SameListStep ==
  ASSUME IInv, UNCHANGED <<loggers, adopted>>
  PROVE  NamesStep
<1>1. Len(loggers) \in Nat /\ DOMAIN loggers = LoggerIds
  BY SlotsAreTyped DEF IInv
<1> QED
  BY <1>1 DEF NamesStep, LoggerIds

\* Every call does no more to names and parents.
LEMMA NextNamesStep == IInv /\ [Next]_vars => NamesStep
<1> SUFFICES ASSUME IInv, [Next]_vars PROVE NamesStep
  OBVIOUS
<1>1. /\ \A l \in LoggerIds : loggers[l] \in LoggerType
      /\ loggers \in Seq(LoggerType) /\ Len(loggers) > 0 /\ Len(loggers) \in Nat
  BY SlotsAreTyped DEF IInv, TypeOK, LoggerIds
<1>2. ASSUME NEW n \in LoggerNames, GetLogger(n)
      PROVE  NamesStep
  <2> DEFINE ls == WithLogger(loggers, n)
  <2>1. n \in Seq(NameParts) \ {<< >>}
    BY AskedNameType
  <2>2. /\ ls \in Seq(LoggerType) /\ Len(ls) \in Nat /\ Len(ls) >= Len(loggers)
        /\ \A i \in LoggerIds : ls[i] = loggers[i]
    BY <2>1, NamedLogger
  <2>3. ProperlyNamed(loggers, ls)
    BY <1>1, <2>1, WithLoggerProper
  <2>4. loggers' = ls /\ adopted' = adopted
    BY <1>2 DEF GetLogger
  <2> HIDE DEF ls
  <2>5. 1 \in 1..Len(ls) /\ ls[1] \in LoggerType /\ ls = [ls EXCEPT ![1] = ls[1]]
    BY <1>1, <2>2, ElementOfSeq, LenProperties
  <2> QED
    BY <2>2, <2>3, <2>4, <2>5, EditStep
<1>3. ASSUME NEW n \in CustomNames, InsertCustomLogger(n)
      PROVE  NamesStep
  <2> DEFINE ls == WithLogger(loggers, n)
             l == LoggerNamed(loggers, n)
             new == [ls[l] EXCEPT !.kind = "custom"]
  <2>1. n \in Seq(NameParts) \ {<< >>}
    BY AskedNameType
  <2>2. /\ ls \in Seq(LoggerType) /\ Len(ls) \in Nat /\ Len(ls) >= Len(loggers)
        /\ \A i \in LoggerIds : ls[i] = loggers[i]
        /\ l \in 1..Len(ls) /\ ls[l] \in LoggerType
    BY <2>1, NamedLogger
  <2>3. ProperlyNamed(loggers, ls)
    BY <1>1, <2>1, WithLoggerProper
  <2>4. loggers' = [ls EXCEPT ![l] = new] /\ adopted' = adopted
    BY <1>3 DEF InsertCustomLogger
  <2> HIDE DEF ls, l
  <2>5. /\ new \in LoggerType /\ new.name = ls[l].name /\ new.asked = ls[l].asked
        /\ new.parent = ls[l].parent /\ new.kind = "custom"
    BY <2>2 DEF LoggerType
  <2> HIDE DEF new
  <2> QED
    BY <2>2, <2>3, <2>4, <2>5, EditStep
<1>4. ASSUME NEW p \in LoggerIds, NEW part \in Parts, GetSublogger(p, part)
      PROVE  NamesStep
  <2> DEFINE n == SubName(loggers[p].name, part)
             ls == WithLogger(loggers, n)
             l == LoggerNamed(loggers, n)
             new == [ls[l] EXCEPT !.parent = p]
  <2>1. n \in Seq(NameParts) \ {<< >>}
    <3>1. loggers[p].name \in Seq(NameParts) \ {<< >>}
      BY <1>1 DEF LoggerType
    <3> QED
      BY <3>1, SubNameType
  <2>2. loggers' = [ls EXCEPT ![l] = new] /\ adopted' = adopted \union {l}
    BY <1>4 DEF GetSublogger
  <2> HIDE DEF n
  <2>3. /\ ls \in Seq(LoggerType) /\ Len(ls) \in Nat /\ Len(ls) >= Len(loggers)
        /\ \A i \in LoggerIds : ls[i] = loggers[i]
        /\ l \in 1..Len(ls) /\ ls[l] \in LoggerType
    BY <2>1, NamedLogger
  <2>4. ProperlyNamed(loggers, ls)
    BY <1>1, <2>1, WithLoggerProper
  <2> HIDE DEF ls, l
  <2>5. /\ new \in LoggerType /\ new.name = ls[l].name /\ new.asked = ls[l].asked
        /\ new.kind = ls[l].kind
    <3>1. p \in Nat
      BY <1>1 DEF LoggerIds
    <3> QED
      BY <2>3, <3>1 DEF LoggerType
  <2> HIDE DEF new
  <2>6. l \in adopted' /\ adopted \subseteq adopted'
    BY <2>2
  <2> QED
    BY <2>2, <2>3, <2>4, <2>5, <2>6, EditStep
<1>5. ASSUME NEW l \in LoggerIds, NEW p \in LoggerIds, SetParent(l, p)
      PROVE  NamesStep
  <2> DEFINE new == [loggers[l] EXCEPT !.parent = p]
  <2>1. /\ new \in LoggerType /\ new.name = loggers[l].name /\ new.asked = loggers[l].asked
        /\ new.kind = loggers[l].kind
    <3>1. p \in Nat
      BY <1>1 DEF LoggerIds
    <3> QED
      BY <1>1, <3>1 DEF LoggerType
  <2>2. loggers' = [loggers EXCEPT ![l] = new] /\ adopted' = adopted \union {l}
    BY <1>5 DEF SetParent
  <2> HIDE DEF new
  <2>3. l \in adopted' /\ adopted \subseteq adopted'
    BY <2>2
  <2> QED
    BY <2>1, <2>2, <2>3, OldLoggerStep
<1>6. ASSUME NEW l \in LoggerIds, NEW level \in Levels, SetLevel(l, level)
      PROVE  NamesStep
  <2> DEFINE new == [loggers[l] EXCEPT !.level = level]
  <2>1. /\ new \in LoggerType /\ new.name = loggers[l].name /\ new.asked = loggers[l].asked
        /\ new.parent = loggers[l].parent /\ new.kind = loggers[l].kind
    BY <1>1, LevelsAssumption DEF LoggerType
  <2>2. loggers' = [loggers EXCEPT ![l] = new] /\ adopted' = adopted
    BY <1>6 DEF SetLevel
  <2> HIDE DEF new
  <2> QED
    BY <2>1, <2>2, OldLoggerStep
<1>7. ASSUME NEW l \in LoggerIds, NEW additivity \in Additivities, SetAdditivity(l, additivity)
      PROVE  NamesStep
  <2> DEFINE new == [loggers[l] EXCEPT !.additivity = additivity]
  <2>1. /\ new \in LoggerType /\ new.name = loggers[l].name /\ new.asked = loggers[l].asked
        /\ new.parent = loggers[l].parent /\ new.kind = loggers[l].kind
    BY <1>1, LevelsAssumption DEF LoggerType
  <2>2. loggers' = [loggers EXCEPT ![l] = new] /\ adopted' = adopted
    BY <1>7 DEF SetAdditivity
  <2> HIDE DEF new
  <2> QED
    BY <2>1, <2>2, OldLoggerStep
<1>8. ASSUME NEW l \in LoggerIds, NEW C \in SUBSET Slots, NEW attach \in BOOLEAN,
             NEW a, NEW first, SlotStep(l, C, attach, a, first), IInv'
      PROVE  NamesStep
  <2> DEFINE new == loggers'[l]
  <2>1. SlotEffect(l, C, attach, a, first)
    BY <1>8, SlotStepEffect
  <2>2. /\ new = [loggers[l] EXCEPT !.slots = new.slots]
        /\ loggers' = [loggers EXCEPT ![l] = new]
    BY <2>1 DEF SlotEffect
  <2>3. adopted' = adopted
    BY <1>8 DEF SlotStep
  <2>4. new \in LoggerType
    <3>1. loggers' \in Seq(LoggerType)
      BY <1>8 DEF IInv, TypeOK
    <3>2. Len(loggers') = Len(loggers)
      <4>1. DOMAIN loggers' = DOMAIN loggers
        BY <2>2
      <4> QED
        BY <1>1, <3>1, <4>1, LenProperties
    <3> QED
      BY <3>1, <3>2, ElementOfSeq DEF LoggerIds
  <2> HIDE DEF new
  <2>5. /\ new.name = loggers[l].name /\ new.asked = loggers[l].asked
        /\ new.parent = loggers[l].parent /\ new.kind = loggers[l].kind
    <3> DEFINE slots == new.slots
    <3>1. new = [loggers[l] EXCEPT !.slots = slots]
      BY <2>2
    <3> HIDE DEF slots
    <3> QED
      BY <1>1, <3>1 DEF LoggerType
  <2> QED
    BY <2>2, <2>3, <2>4, <2>5, OldLoggerStep
<1>9. IInv'
  BY NextInv
<1>10. ASSUME NEW l \in LoggerIds, NEW a \in AppenderIds, SetAppender(l, a)
       PROVE  NamesStep
  BY <1>8, <1>9, <1>10, SetAppenderStep
<1>11. ASSUME NEW l \in LoggerIds, RemoveAppenders(l)
       PROVE  NamesStep
  BY <1>8, <1>9, <1>11, RemoveAppendersStep
<1>12. CASE \/ RegistryNext /\ UNCHANGED <<loggers, adopted>>
            \/ \E l \in LoggerIds : Log(l)
            \/ UNCHANGED vars
  BY <1>12, SameListStep DEF Log, vars
<1> QED
  BY <1>2, <1>3, <1>4, <1>5, <1>6, <1>7, <1>10, <1>11, <1>12 DEF Next

\* Names are looked up in the grown list as before.
LEMMA LookupKept ==
  ASSUME IInv, NamesStep, NEW n, Lookup(loggers, n) # 0
  PROVE  Lookup(loggers', n) = Lookup(loggers, n)
<1>1. Len(loggers) \in Nat /\ DOMAIN loggers = 1..Len(loggers)
  BY SlotsAreTyped DEF IInv, LoggerIds
<1>2. \A i \in 1..Len(loggers) : loggers'[i].name = loggers[i].name
  BY DEF NamesStep, LoggerIds
<1> QED
  BY <1>1, <1>2, LookupGoesOn DEF NamesStep

\* The invariant of the loggers' names.
LoggerNamesInv == LoggersUnique /\ ParentByName

\* No name is taken twice: a new logger that fits has its name alone.
LEMMA UniqueStep ==
  ASSUME IInv, NamesStep, LoggersUnique
  PROVE  LoggersUnique'
<1> SUFFICES ASSUME NEW i \in LoggerIds', NEW j \in LoggerIds', i # j,
                    loggers'[i].name = loggers'[j].name,
                    Fits(loggers'[i].asked), Fits(loggers'[j].asked)
             PROVE  FALSE
  BY DEF LoggersUnique
<1>1. Len(loggers) \in Nat /\ Len(loggers') \in Nat
  BY SlotsAreTyped DEF IInv, NamesStep
<1>2. ASSUME NEW x \in LoggerIds'
      PROVE  x \in LoggerIds \/ x \in (Len(loggers) + 1)..Len(loggers')
  BY <1>1 DEF LoggerIds
<1>3. CASE i \in (Len(loggers) + 1)..Len(loggers') \/ j \in (Len(loggers) + 1)..Len(loggers')
  BY <1>3 DEF NamesStep
<1>4. CASE i \in LoggerIds /\ j \in LoggerIds
  BY <1>4 DEF NamesStep, LoggersUnique
<1> QED
  BY <1>2, <1>3, <1>4

\* A parent that a name gave stays the logger of that name.
LEMMA ParentStep ==
  ASSUME IInv, IInv', NamesStep, ParentByName
  PROVE  ParentByName'
<1> SUFFICES ASSUME NEW l \in Named', Fits(loggers'[l].asked)
             PROVE  loggers'[l].parent = IF Len(loggers'[l].asked) = 1 THEN Root
                                         ELSE Lookup(loggers', Front(loggers'[l].asked))
  BY DEF ParentByName
<1>1. Len(loggers) \in Nat /\ Len(loggers') \in Nat
  BY SlotsAreTyped DEF IInv, NamesStep
<1>2. l \in LoggerIds' /\ l \notin adopted' /\ l # Root /\ l # 2
  BY DEF Named
<1>3. CASE l \in (Len(loggers) + 1)..Len(loggers')
  BY <1>2, <1>3 DEF NamesStep
<1>4. CASE l \in LoggerIds
  <2> DEFINE n == loggers[l].asked
  <2>1. l \in Named
    BY <1>2, <1>4 DEF Named, NamesStep
  <2>2. loggers'[l].asked = n /\ loggers'[l].parent = loggers[l].parent
    BY <1>2, <1>4 DEF NamesStep
  <2>3. loggers[l].parent = IF Len(n) = 1 THEN Root ELSE Lookup(loggers, Front(n))
    BY <2>1, <2>2 DEF ParentByName
  <2>4. loggers[l].parent # 0
    BY <1>2, <1>4 DEF IInv, TypeOK, LoggerIds
  <2> HIDE DEF n
  <2>5. Len(n) # 1 => Lookup(loggers', Front(n)) = Lookup(loggers, Front(n))
    BY <2>3, <2>4, LookupKept
  <2> QED
    BY <2>2, <2>3, <2>5
<1>5. l \in LoggerIds \/ l \in (Len(loggers) + 1)..Len(loggers')
  BY <1>1, <1>2 DEF LoggerIds
<1> QED
  BY <1>3, <1>4, <1>5

\* At first there are the two predefined loggers.
LEMMA InitLoggerNames == Init => LoggerNamesInv
<1> SUFFICES ASSUME Init PROVE LoggerNamesInv
  OBVIOUS
<1> DEFINE r == <<"rootlogger">>
           s == <<"l4sclog">>
<1>1. Fits(r) /\ Fits(s)
  BY SizesAssumption DEF Fits
<1>2. r # s
  OBVIOUS
<1>3. loggers = << Logger(r, "root", ERROR_LEVEL, FALSE, 0), Logger(s, "root", WARN_LEVEL, FALSE, Root) >>
  BY DEF Init
<1> HIDE DEF r, s
<1>4. LoggerIds = {1, 2} /\ loggers[1].name = r /\ loggers[2].name = s
  BY <1>1, <1>3 DEF LoggerIds, Logger, Stored
<1> QED
  BY <1>2, <1>4 DEF LoggerNamesInv, LoggersUnique, ParentByName, Named, Root

\* Every call keeps it.
LEMMA NextLoggerNames == IInv /\ IInv' /\ LoggerNamesInv /\ [Next]_vars => LoggerNamesInv'
BY NextNamesStep, UniqueStep, ParentStep DEF LoggerNamesInv

\* Loggers never share a name that fits into namebuf, whatever names are asked
\* for and in whatever order.
THEOREM LoggersUniqueCorrect == Spec => []LoggersUnique
<1>1. Init => IInv /\ LoggerNamesInv
  BY InitInv, InitLoggerNames
<1>2. IInv /\ LoggerNamesInv /\ [Next]_vars => IInv' /\ LoggerNamesInv'
  BY NextInv, NextLoggerNames
<1>3. LoggerNamesInv => LoggersUnique
  BY DEF LoggerNamesInv
<1> QED
  BY <1>1, <1>2, <1>3, PTL DEF Spec

\* The parent of a logger that was asked for by a name that fits is the logger
\* of the name without its last part, at any later time too.
THEOREM ParentByNameCorrect == Spec => []ParentByName
<1>1. Init => IInv /\ LoggerNamesInv
  BY InitInv, InitLoggerNames
<1>2. IInv /\ LoggerNamesInv /\ [Next]_vars => IInv' /\ LoggerNamesInv'
  BY NextInv, NextLoggerNames
<1>3. LoggerNamesInv => ParentByName
  BY DEF LoggerNamesInv
<1> QED
  BY <1>1, <1>2, <1>3, PTL DEF Spec

\* What a program got for a name once is what it gets ever after.
THEOREM LookupStableCorrect == Spec => LookupStable
<1>1. IInv /\ [Next]_vars =>
        [\A n \in LoggerNames :
           Lookup(loggers, n) # 0 => Lookup(loggers', n) = Lookup(loggers, n)]_vars
  BY NextNamesStep, LookupKept
<1> QED
  BY <1>1, InitInv, NextInv, PTL DEF Spec, LookupStable

-----------------------------------------------------------------------------
(* Recursive functions over 0..m *)

\* Induction over 0..m: a set that holds 0 and with every number the next one
\* holds all of them.
LEMMA Climb ==
  ASSUME NEW m \in Nat, NEW S, 0 \in S, \A k \in 0..m : k \in S /\ k < m => k + 1 \in S
  PROVE  \A k \in 0..m : k \in S
<1> DEFINE T == {k \in 0..m : k \notin S}
<1> SUFFICES ASSUME T # {} PROVE FALSE
  OBVIOUS
<1>1. T \subseteq Nat
  OBVIOUS
<1>2. PICK k \in T : \A j \in T : k <= j
  <2> HIDE DEF T
  <2> QED
    BY <1>1, Least
<1>3. k \in 0..m /\ k # 0 /\ k \notin S
  BY <1>2
<1>4. k - 1 \in 0..m /\ k - 1 < m /\ ~(k <= k - 1) /\ (k - 1) + 1 = k
  BY <1>3
<1>5. k - 1 \in S
  BY <1>2, <1>4
<1> QED
  BY <1>3, <1>4, <1>5

\* What a function that repeats a step has at k.
Repeated(step, a, f, k) == IF k = 0 THEN a ELSE step[f[k - 1]]

\* A step can be repeated any number of times.
Repeatable(S, step, a, m) == step \in [S -> S] /\ a \in S /\ m \in Nat
LEMMA Iterates ==
  ASSUME NEW S, NEW step, NEW a, NEW m, Repeatable(S, step, a, m)
  PROVE  \E f \in [0..m -> S] : \A k \in 0..m : f[k] = Repeated(step, a, f, k)
<1> DEFINE Has(n) == \E f \in [0..n -> S] : \A k \in 0..n : f[k] = Repeated(step, a, f, k)
           T == {n \in 0..m : Has(n)}
<1> USE DEF Repeatable
<1>1. Has(0)
  <2> DEFINE f == [k \in 0..0 |-> a]
  <2>1. f \in [0..0 -> S] /\ \A k \in 0..0 : f[k] = Repeated(step, a, f, k)
    BY DEF Repeated
  <2> QED
    BY <2>1
<1>2. ASSUME NEW n \in 0..m, Has(n) PROVE Has(n + 1)
  <2>1. PICK f \in [0..n -> S] : \A k \in 0..n : f[k] = Repeated(step, a, f, k)
    BY <1>2
  <2> DEFINE g == [k \in 0..(n + 1) |-> IF k = n + 1 THEN step[f[n]] ELSE f[k]]
  <2>2. g \in [0..(n + 1) -> S]
    <3>1. n \in 0..n
      OBVIOUS
    <3>2. step[f[n]] \in S
      BY <2>1, <3>1
    <3> QED
      BY <2>1, <3>2
  <2>3. ASSUME NEW k \in 0..(n + 1) PROVE g[k] = Repeated(step, a, g, k)
    <3>1. CASE k = n + 1
      <4>1. k - 1 = n /\ n \in 0..(n + 1) /\ n # n + 1 /\ k # 0
        BY <3>1
      <4>2. g[n] = f[n] /\ g[k] = step[f[n]]
        BY <3>1, <4>1
      <4> HIDE DEF g
      <4> QED
        BY <4>1, <4>2 DEF Repeated
    <3>2. CASE k # n + 1
      <4>1. k \in 0..n /\ (k # 0 => k - 1 \in 0..(n + 1) /\ k - 1 # n + 1)
        BY <3>2
      <4>2. g[k] = f[k] /\ (k # 0 => g[k - 1] = f[k - 1])
        BY <3>2, <4>1
      <4>3. f[k] = Repeated(step, a, f, k)
        BY <2>1, <4>1
      <4> HIDE DEF g
      <4> QED
        BY <4>2, <4>3 DEF Repeated
    <3> QED
      BY <3>1, <3>2
  <2> HIDE DEF g
  <2> QED
    BY <2>2, <2>3
<1> HIDE DEF Has
<1>3. 0 \in T
  BY <1>1
<1>4. \A n \in 0..m : n \in T /\ n < m => n + 1 \in T
  BY <1>2
<1>5. m \in T
  <2> HIDE DEF T
  <2>1. m \in 0..m
    OBVIOUS
  <2> QED
    BY <1>3, <1>4, <2>1, Climb
<1>6. Has(m)
  BY <1>5
<1> QED
  BY <1>6 DEF Has

-----------------------------------------------------------------------------
(* The way up *)

\* Every logger that passes questions and messages on has a parent.
ParentsThere ==
  /\ Len(loggers) \in Nat
  /\ \A i \in LoggerIds : loggers[i].kind = "logger" => loggers[i].parent \in LoggerIds

\* The next logger on the way up, which ends where nothing is passed on.
Onward == [i \in LoggerIds |-> IF loggers[i].kind # "logger" THEN i ELSE loggers[i].parent]

\* What Way has at k.
WayAt(l, f, k) ==
  IF k = 0 THEN l
  ELSE IF loggers[f[k - 1]].kind # "logger" THEN f[k - 1]
  ELSE loggers[f[k - 1]].parent

\* A step up stays in the list.
LEMMA OnwardType ==
  ASSUME ParentsThere
  PROVE  Onward \in [LoggerIds -> LoggerIds]
BY DEF ParentsThere, Onward

\* The recursive definition of the way up is met by what it defines, and it
\* stays in the list.
LEMMA WayIs ==
  ASSUME ParentsThere, NEW l \in LoggerIds
  PROVE  \A k \in 0..Len(loggers) :
           Way(l)[k] \in LoggerIds /\ Way(l)[k] = Repeated(Onward, l, Way(l), k)
<1> DEFINE m == Len(loggers)
           way == CHOOSE f : f = [k \in 0..m |-> WayAt(l, f, k)]
<1>1. Way(l) = way
  BY DEF Way, WayAt
<1>2. m \in Nat
  BY DEF ParentsThere
<1>3. \E f : f = [k \in 0..m |-> WayAt(l, f, k)]
  <2>1. PICK f \in [0..m -> LoggerIds] : \A k \in 0..m : f[k] = Repeated(Onward, l, f, k)
    <3> HIDE DEF m
    <3>1. Onward \in [LoggerIds -> LoggerIds]
      BY OnwardType
    <3>2. Repeatable(LoggerIds, Onward, l, m)
      BY <1>2, <3>1 DEF Repeatable
    <3> QED
      BY <3>2, Iterates
  <2>2. ASSUME NEW k \in 0..m PROVE f[k] = WayAt(l, f, k)
    <3>1. k # 0 => k - 1 \in 0..m
      BY <1>2
    <3>2. k # 0 => f[k - 1] \in LoggerIds
      BY <3>1
    <3>3. f[k] = Repeated(Onward, l, f, k)
      BY <2>1
    <3> QED
      BY <3>2, <3>3 DEF Repeated, WayAt, Onward
  <2>3. f = [k \in 0..m |-> f[k]]
    OBVIOUS
  <2>4. f = [k \in 0..m |-> WayAt(l, f, k)]
    BY <2>2, <2>3
  <2> QED
    BY <2>4
<1> HIDE DEF m
<1>4. way = [k \in 0..m |-> WayAt(l, way, k)]
  BY <1>3, Zenon
<1> HIDE DEF way
<1>5. \A k \in 0..m : way[k] = WayAt(l, way, k)
  <2> HIDE DEF WayAt
  <2> QED
    BY <1>4, Zenon
<1> DEFINE T == {k \in 0..m : way[k] \in LoggerIds}
<1>6. 0 \in T
  <2>1. 0 \in 0..m
    BY <1>2
  <2> QED
    BY <1>5, <2>1 DEF WayAt
<1>7. ASSUME NEW k \in 0..m, k \in T, k < m PROVE k + 1 \in T
  <2>1. k + 1 \in 0..m /\ k + 1 # 0 /\ (k + 1) - 1 = k
    BY <1>2, <1>7
  <2>2. way[k + 1] = WayAt(l, way, k + 1) /\ way[k] \in LoggerIds
    BY <1>5, <1>7, <2>1
  <2>3. way[k + 1] \in LoggerIds
    BY <2>1, <2>2 DEF WayAt, ParentsThere
  <2> QED
    BY <2>1, <2>3
<1>8. \A k \in 0..m : k \in T
  <2> HIDE DEF T
  <2> QED
    BY <1>2, <1>6, <1>7, Climb
<1>9. ASSUME NEW k \in 0..m PROVE way[k] = Repeated(Onward, l, way, k)
  <2>1. k # 0 => k - 1 \in 0..m
    BY <1>2
  <2>2. k # 0 => way[k - 1] \in LoggerIds
    BY <1>8, <2>1
  <2>3. way[k] = WayAt(l, way, k)
    BY <1>5
  <2> QED
    BY <2>2, <2>3 DEF WayAt, Repeated, Onward
<1> QED
  BY <1>1, <1>8, <1>9 DEF m

-----------------------------------------------------------------------------
(* Questions for a level *)

\* What is_logger_enabled answers for i with r recursions left, given the
\* answers e of its parents.
Answer(level, e, r, i) ==
  IF Inherits(loggers[i]) /\ r > 0 THEN e[r - 1][loggers[i].parent]
  ELSE Decides(loggers[i], level)

Answers(level) ==
  CHOOSE e : e = [r \in 0..MaxRecursions |-> [i \in LoggerIds |-> Answer(level, e, r, i)]]

\* The recursive definition of the answers is met by what it defines.
LEMMA AnswersAre ==
  ASSUME ParentsThere, NEW level
  PROVE  /\ \A l : IsEnabled(l, level) = Answers(level)[MaxRecursions][l]
         /\ \A r \in 0..MaxRecursions, i \in LoggerIds :
              Answers(level)[r][i] =
                IF Inherits(loggers[i]) /\ r > 0 THEN Answers(level)[r - 1][loggers[i].parent]
                ELSE Decides(loggers[i], level)
<1> DEFINE M == MaxRecursions
           V == {Decides(loggers[i], level) : i \in LoggerIds}
           S == [LoggerIds -> V]
           start == [i \in LoggerIds |-> Decides(loggers[i], level)]
           step == [e \in S |-> [i \in LoggerIds |->
                      IF Inherits(loggers[i]) THEN e[loggers[i].parent] ELSE Decides(loggers[i], level)]]
<1>1. \A l : IsEnabled(l, level) = Answers(level)[MaxRecursions][l]
  BY DEF IsEnabled, Answers, Answer
<1>2. M \in Nat
  BY SizesAssumption
<1>3. Repeatable(S, step, start, M)
  <2>1. \A i \in LoggerIds : Decides(loggers[i], level) \in V
    OBVIOUS
  <2> HIDE DEF V
  <2>2. start \in S
    BY <2>1
  <2>3. ASSUME NEW e \in S PROVE step[e] \in S
    <3>1. \A i \in LoggerIds : Inherits(loggers[i]) => loggers[i].parent \in LoggerIds
      BY DEF Inherits, ParentsThere
    <3>2. \A i \in LoggerIds : Inherits(loggers[i]) => e[loggers[i].parent] \in V
      BY <3>1
    <3> QED
      BY <2>1, <3>2
  <2>4. step \in [S -> S]
    <3>1. step = [e \in S |-> step[e]]
      OBVIOUS
    <3> HIDE DEF step, S
    <3> QED
      BY <2>3, <3>1
  <2> HIDE DEF step, start, S
  <2> QED
    BY <1>2, <2>2, <2>4 DEF Repeatable
<1>4. PICK e \in [0..M -> S] : \A k \in 0..M : e[k] = Repeated(step, start, e, k)
  <2> HIDE DEF step, start, S, M
  <2> QED
    BY <1>3, Iterates
<1>5. ASSUME NEW r \in 0..M PROVE e[r] = [i \in LoggerIds |-> Answer(level, e, r, i)]
  <2>1. e[r] = Repeated(step, start, e, r)
    BY <1>4
  <2>2. r # 0 => r - 1 \in 0..M
    BY <1>2
  <2>3. r # 0 => e[r - 1] \in S
    BY <2>2
  <2>4. CASE r = 0
    <3>1. e[r] = start
      BY <2>1, <2>4 DEF Repeated
    <3>2. \A i \in LoggerIds : Answer(level, e, r, i) = Decides(loggers[i], level)
      BY <2>4 DEF Answer
    <3> QED
      BY <3>1, <3>2
  <2>5. CASE r # 0
    <3>1. e[r] = step[e[r - 1]]
      <4> HIDE DEF step, S
      <4> QED
        BY <2>1, <2>5 DEF Repeated
    <3>2. e[r] = [i \in LoggerIds |->
                    IF Inherits(loggers[i]) THEN e[r - 1][loggers[i].parent] ELSE Decides(loggers[i], level)]
      <4> DEFINE b == e[r - 1]
      <4>1. b \in S /\ e[r] = step[b]
        BY <2>3, <2>5, <3>1
      <4> HIDE DEF b, S
      <4>2. step[b] = [i \in LoggerIds |->
                         IF Inherits(loggers[i]) THEN b[loggers[i].parent] ELSE Decides(loggers[i], level)]
        BY <4>1
      <4> QED
        BY <4>1, <4>2 DEF b
    <3>3. r > 0
      BY <1>2, <2>5
    <3>4. \A i \in LoggerIds :
            Answer(level, e, r, i) =
              IF Inherits(loggers[i]) THEN e[r - 1][loggers[i].parent] ELSE Decides(loggers[i], level)
      BY <3>3 DEF Answer
    <3> QED
      BY <3>2, <3>4
  <2> QED
    BY <2>4, <2>5
<1>6. e = [r \in 0..M |-> [i \in LoggerIds |-> Answer(level, e, r, i)]]
  <2>1. e = [r \in 0..M |-> e[r]]
    BY <1>4
  <2> HIDE DEF M
  <2> QED
    BY <1>5, <2>1
<1> DEFINE a == Answers(level)
<1>7. a = [r \in 0..M |-> [i \in LoggerIds |-> Answer(level, a, r, i)]]
  <2>1. \E f : f = [r \in 0..M |-> [i \in LoggerIds |-> Answer(level, f, r, i)]]
    BY <1>6
  <2> HIDE DEF Answer
  <2> QED
    BY <2>1, Zenon DEF Answers
<1>8. ASSUME NEW r \in 0..M, NEW i \in LoggerIds
      PROVE  a[r][i] = IF Inherits(loggers[i]) /\ r > 0 THEN a[r - 1][loggers[i].parent] ELSE Decides(loggers[i], level)
  <2> HIDE DEF a, M
  <2>1. a[r] = [j \in LoggerIds |-> Answer(level, a, r, j)]
    BY <1>7, Zenon
  <2>2. a[r][i] = Answer(level, a, r, i)
    BY <2>1, Zenon
  <2> QED
    BY <2>2 DEF Answer
<1> QED
  BY <1>1, <1>8

-----------------------------------------------------------------------------
(* What repeats *)

\* x repeats the step from a on, at 0..m.
Repeats(step, a, x, m) == m \in Nat /\ \A k \in 0..m : x[k] = Repeated(step, a, x, k)

\* Two functions that repeat a step agree as far as both go.
LEMMA RepeatedAgree ==
  ASSUME NEW step, NEW a, NEW f, NEW g, NEW m, Repeats(step, a, f, m), Repeats(step, a, g, m)
  PROVE  \A k \in 0..m : f[k] = g[k]
<1> USE DEF Repeats
<1> DEFINE T == {k \in 0..m : f[k] = g[k]}
<1>1. 0 \in T
  <2>1. 0 \in 0..m
    OBVIOUS
  <2>2. f[0] = Repeated(step, a, f, 0) /\ g[0] = Repeated(step, a, g, 0)
    BY <2>1
  <2> QED
    BY <2>1, <2>2 DEF Repeated
<1>2. ASSUME NEW k \in 0..m, k \in T, k < m PROVE k + 1 \in T
  <2>1. k + 1 \in 0..m /\ k + 1 # 0 /\ (k + 1) - 1 = k /\ f[k] = g[k]
    BY <1>2
  <2>2. f[k + 1] = Repeated(step, a, f, k + 1) /\ g[k + 1] = Repeated(step, a, g, k + 1)
    BY <2>1
  <2>3. f[k + 1] = g[k + 1]
    BY <2>1, <2>2 DEF Repeated
  <2> QED
    BY <2>1, <2>3
<1> HIDE DEF T
<1>3. \A k \in 0..m : k \in T
  BY <1>1, <1>2, Climb
<1> QED
  BY <1>3 DEF T

\* x[m] is the first of x that is among the ends.
FirstIn(ends, x, m) == x[m] \in ends /\ \A k \in 0..m : k < m => x[k] \notin ends

\* What has come twice comes again and again, so a way up on which the last
\* logger differs from all before it in passing nothing on has no logger twice.
LEMMA NeverTwice ==
  ASSUME NEW step, NEW a, NEW x, NEW m, Repeats(step, a, x, m),
         NEW ends, FirstIn(ends, x, m)
  PROVE  \A b, c \in 0..m : x[b] = x[c] => b = c
<1> USE DEF Repeats, FirstIn
<1>1. ASSUME NEW i \in 0..m, NEW j \in 0..m, x[i] = x[j], i < j PROVE FALSE
  <2> DEFINE d == m - j
             T == {k \in 0..d : x[i + k] = x[j + k]}
  <2>1. d \in Nat
    BY <1>1
  <2>2. 0 \in T
    BY <1>1
  <2>3. ASSUME NEW k \in 0..d, k \in T, k < d PROVE k + 1 \in T
    <3>1. /\ i + (k + 1) \in 0..m /\ i + (k + 1) # 0 /\ (i + (k + 1)) - 1 = i + k
          /\ j + (k + 1) \in 0..m /\ j + (k + 1) # 0 /\ (j + (k + 1)) - 1 = j + k
          /\ k + 1 \in 0..d
      BY <1>1, <2>3
    <3>2. x[i + k] = x[j + k]
      BY <2>3
    <3> DEFINE i1 == i + (k + 1)
               j1 == j + (k + 1)
    <3> HIDE DEF d
    <3>3. /\ i1 \in 0..m /\ i1 # 0 /\ i1 - 1 = i + k
          /\ j1 \in 0..m /\ j1 # 0 /\ j1 - 1 = j + k
      BY <3>1
    <3>4. x[i1] = x[j1]
      <4> HIDE DEF i1, j1
      <4>1. x[i1] = Repeated(step, a, x, i1) /\ x[j1] = Repeated(step, a, x, j1)
        BY <3>3
      <4> QED
        BY <3>2, <3>3, <4>1 DEF Repeated
    <3> QED
      BY <3>1, <3>4
  <2>4. d \in T
    <3>1. d \in 0..d
      BY <2>1
    <3> HIDE DEF T, d
    <3> QED
      BY <2>1, <2>2, <2>3, <3>1, Climb
  <2>5. x[i + d] = x[m] /\ i + d \in 0..m /\ i + d < m
    BY <1>1, <2>4
  <2> QED
    BY <2>5
<1> QED
  BY <1>1

\* More numbers than a set has members cannot all have members of their own.
LEMMA Crowded ==
  ASSUME NEW m \in Nat, NEW S, IsFiniteSet(S), NEW x, \A k \in 0..m : x[k] \in S,
         \A i, j \in 0..m : x[i] = x[j] => i = j
  PROVE  m + 1 <= Cardinality(S)
<1>1. IsFiniteSet(0..m) /\ Cardinality(0..m) = m + 1
  BY FS_Interval
<1> DEFINE f == [k \in 0..m |-> x[k]]
<1>2. f \in [0..m -> S] /\ \A i, j \in 0..m : f[i] = f[j] => i = j
  OBVIOUS
<1>3. Cardinality(S) \in Nat
  BY FS_CardinalityType
<1>4. CASE Cardinality(S) < m + 1
  <2> HIDE DEF f
  <2>1. \E i, j \in 0..m : i # j /\ f[i] = f[j]
    BY <1>1, <1>2, <1>4, FS_PigeonHole
  <2> QED
    BY <1>2, <2>1
<1> QED
  BY <1>3, <1>4

-----------------------------------------------------------------------------
(* A logger that inherits its level answers as its parent *)

\* Neither of the predefined loggers ever becomes one that passes things on.
PredefinedKinds ==
  /\ Len(loggers) \in Nat /\ Len(loggers) >= 2
  /\ loggers[1].kind # "logger" /\ loggers[2].kind # "logger"

LEMMA InitKinds == Init => PredefinedKinds
<1> SUFFICES ASSUME Init PROVE PredefinedKinds
  OBVIOUS
<1> DEFINE r == Logger(<<"rootlogger">>, "root", ERROR_LEVEL, FALSE, 0)
           s == Logger(<<"l4sclog">>, "root", WARN_LEVEL, FALSE, Root)
<1>1. r.kind = "root" /\ s.kind = "root"
  BY DEF Logger
<1>2. loggers = <<r, s>>
  BY DEF Init
<1> HIDE DEF r, s
<1> QED
  BY <1>1, <1>2 DEF PredefinedKinds

LEMMA NextKinds == IInv /\ PredefinedKinds /\ [Next]_vars => PredefinedKinds'
<1> SUFFICES ASSUME IInv, PredefinedKinds, [Next]_vars PROVE PredefinedKinds'
  OBVIOUS
<1>1. NamesStep
  BY NextNamesStep
<1>2. 1 \in LoggerIds /\ 2 \in LoggerIds
  BY DEF PredefinedKinds, LoggerIds
<1> QED
  BY <1>1, <1>2 DEF NamesStep, PredefinedKinds

\* So every logger that passes something on has a parent.
LEMMA ParentsAreThere ==
  ASSUME TypeOK, PredefinedKinds
  PROVE  ParentsThere
<1>1. Len(loggers) \in Nat
  BY LenProperties DEF TypeOK
<1>2. \A i \in LoggerIds : loggers[i].kind = "logger" => loggers[i].parent \in LoggerIds
  <2>1. \A i \in LoggerIds : loggers[i].parent \in LoggerIds \/ i = Root
    BY DEF TypeOK
  <2>2. loggers[Root].kind # "logger"
    BY DEF PredefinedKinds, Root
  <2> QED
    BY <2>1, <2>2
<1> QED
  BY <1>1, <1>2 DEF ParentsThere

\* The way up from l over m loggers.
Climbs(l, x, m) ==
  /\ Repeats(Onward, l, x, m)
  /\ \A k \in 0..m : /\ x[k] \in LoggerIds
                     /\ k < m /\ Inherits(loggers[x[k]]) => x[k + 1] = loggers[x[k]].parent

LEMMA RepeatsClimbs ==
  ASSUME ParentsThere, NEW l, NEW x, NEW m, Repeats(Onward, l, x, m),
         \A k \in 0..m : x[k] \in LoggerIds
  PROVE  x[0] = l /\ Climbs(l, x, m)
<1> USE DEF Repeats
<1>1. ASSUME NEW k \in 0..m, k < m, Inherits(loggers[x[k]])
      PROVE  x[k + 1] = loggers[x[k]].parent
  <2>1. k + 1 \in 0..m /\ k + 1 # 0 /\ (k + 1) - 1 = k
    BY <1>1
  <2>2. x[k + 1] = Repeated(Onward, l, x, k + 1)
    BY <2>1
  <2>3. x[k + 1] = Onward[x[k]]
    BY <2>1, <2>2 DEF Repeated
  <2> QED
    BY <1>1, <2>3 DEF Onward, Inherits
<1>2. x[0] = l
  <2>1. 0 \in 0..m
    OBVIOUS
  <2>2. x[0] = Repeated(Onward, l, x, 0)
    BY <2>1
  <2> QED
    BY <2>2 DEF Repeated
<1> QED
  BY <1>1, <1>2 DEF Climbs

\* The way up can be followed any number of times.
LEMMA ClimbExists ==
  ASSUME ParentsThere, NEW l \in LoggerIds, NEW m \in Nat
  PROVE  \E x : x[0] = l /\ Climbs(l, x, m)
<1>1. Repeatable(LoggerIds, Onward, l, m)
  BY OnwardType DEF Repeatable
<1> DEFINE top == m
           first == l
<1>2. Repeatable(LoggerIds, Onward, first, top)
  BY <1>1
<1> HIDE DEF top, first
<1>3. PICK x \in [0..top -> LoggerIds] : \A k \in 0..top : x[k] = Repeated(Onward, first, x, k)
  BY <1>2, Iterates
<1>4. \A k \in 0..m : x[k] \in LoggerIds
  BY DEF top
<1>5. Repeats(Onward, l, x, m)
  BY <1>3 DEF Repeats, top, first
<1> QED
  BY <1>4, <1>5, RepeatsClimbs

\* So can Way, as far as it goes.
LEMMA WayClimbs ==
  ASSUME ParentsThere, NEW l \in LoggerIds
  PROVE  Way(l)[0] = l /\ Climbs(l, Way(l), Len(loggers))
<1>1. Len(loggers) \in Nat
  BY DEF ParentsThere
<1>2. Repeats(Onward, l, Way(l), Len(loggers)) /\ \A k \in 0..Len(loggers) : Way(l)[k] \in LoggerIds
  BY <1>1, WayIs DEF Repeats
<1> QED
  BY <1>2, RepeatsClimbs

\* The loggers on a way up can be counted.
LEMMA UpwardFinite ==
  ASSUME ParentsThere, NEW l \in LoggerIds
  PROVE  /\ IsFiniteSet(LoggerIds) /\ Cardinality(LoggerIds) = Len(loggers)
         /\ IsFiniteSet(Upward(l)) /\ Cardinality(Upward(l)) \in Nat
<1> DEFINE n == Len(loggers)
<1>1. 1 \in Int /\ n \in Int /\ n \in Nat
  BY DEF ParentsThere
<1>2. IsFiniteSet(1..n) /\ Cardinality(1..n) = IF 1 > n THEN 0 ELSE n - 1 + 1
  BY <1>1, FS_Interval
<1>3. IsFiniteSet(LoggerIds) /\ Cardinality(LoggerIds) = n
  BY <1>1, <1>2 DEF LoggerIds
<1>4. Upward(l) \in SUBSET LoggerIds
  BY WayIs DEF Upward, Above
<1> QED
  BY <1>3, <1>4, FS_Subset, FS_CardinalityType

\* A way up on which only the last logger answers for itself is not longer
\* than Upward says.
LEMMA ClimbIsUpward ==
  ASSUME ParentsThere, NEW l \in LoggerIds, NEW x, NEW m, Climbs(l, x, m),
         NEW ends, FirstIn(ends, x, m)
  PROVE  m + 1 <= Cardinality(Upward(l))
<1> DEFINE n == Len(loggers)
<1>1. m \in Nat /\ n \in Nat /\ Repeats(Onward, l, x, m)
  BY DEF Climbs, Repeats, ParentsThere
<1>2. \A b, c \in 0..m : x[b] = x[c] => b = c
  BY <1>1, NeverTwice
<1>3. IsFiniteSet(LoggerIds) /\ Cardinality(LoggerIds) = n
  BY UpwardFinite
<1>4. m + 1 <= n
  <2>1. \A k \in 0..m : x[k] \in LoggerIds
    BY DEF Climbs
  <2> QED
    BY <1>1, <1>2, <1>3, <2>1, Crowded
<1>5. Repeats(Onward, l, Way(l), m) /\ \A k \in 0..n : Way(l)[k] \in LoggerIds
  BY <1>1, <1>4, WayIs DEF Repeats
<1>6. \A k \in 0..m : x[k] = Way(l)[k]
  BY <1>1, <1>5, RepeatedAgree
<1>7. \A k \in 0..m : x[k] \in Upward(l)
  BY <1>1, <1>4, <1>6 DEF Upward, Above
<1>8. IsFiniteSet(Upward(l))
  BY UpwardFinite
<1> QED
  BY <1>1, <1>2, <1>7, <1>8, Crowded

\* If the answers of a logger and its parent differ, every logger on the way
\* up inherits until no recursion is left, and the next one does not: the way
\* is longer than the recursion.
LEMMA AnswersAgree ==
  ASSUME ParentsThere, NEW l \in LoggerIds, Inherits(loggers[l]),
         Cardinality(Upward(l)) <= MaxRecursions + 1, NEW level
  PROVE  IsEnabled(l, level) = IsEnabled(loggers[l].parent, level)
<1> DEFINE M == MaxRecursions
           E == Answers(level)
           own(i) == Decides(loggers[i], level)
           ends == {i \in LoggerIds : ~Inherits(loggers[i])}
<1>1. M \in Nat /\ M > 0
  BY SizesAssumption, RecursionsAssumption
<1>2. PICK x : x[0] = l /\ Climbs(l, x, M + 1)
  <2>1. M + 1 \in Nat
    BY <1>1
  <2> HIDE DEF M
  <2> QED
    BY <2>1, ClimbExists
<1>3. \A k \in 0..(M + 1) : x[k] \in LoggerIds
  BY <1>2 DEF Climbs
<1>4. \A k \in 0..M : Inherits(loggers[x[k]]) => x[k + 1] = loggers[x[k]].parent
  BY <1>1, <1>2 DEF Climbs
<1>5. /\ IsEnabled(l, level) = E[M][l]
      /\ IsEnabled(loggers[l].parent, level) = E[M][loggers[l].parent]
  BY AnswersAre
<1>6. x[1] = loggers[l].parent
  BY <1>1, <1>2, <1>4
<1> HIDE DEF E, M
<1>7. \A r \in 0..M, i \in LoggerIds :
        /\ Inherits(loggers[i]) /\ r > 0 => E[r][i] = E[r - 1][loggers[i].parent]
        /\ ~(Inherits(loggers[i]) /\ r > 0) => E[r][i] = own(i)
  <2> HIDE DEF own
  <2>1. \A r \in 0..M, i \in LoggerIds :
          E[r][i] = IF Inherits(loggers[i]) /\ r > 0 THEN E[r - 1][loggers[i].parent] ELSE own(i)
    BY AnswersAre DEF E, M, own
  <2> QED
    BY <2>1
<1>8. \A i, j : Inherits(loggers[i]) /\ Inherits(loggers[j]) => own(i) = own(j)
  BY DEF Inherits, Decides
<1> HIDE DEF own
<1> SUFFICES ASSUME E[M][l] # E[M][x[1]] PROVE FALSE
  BY <1>5, <1>6
<1> DEFINE T == {k \in 0..(M - 1) : /\ \A j \in 0..k : Inherits(loggers[x[j]])
                                    /\ E[M - k][x[k + 1]] # E[M - k - 1][x[k + 1]]}
<1>9. 0 \in T
  <2>1. E[M][l] = E[M - 1][x[1]]
    BY <1>1, <1>6, <1>7
  <2> QED
    BY <1>1, <1>2, <2>1
<1>10. ASSUME NEW r \in 0..M, r > 0, NEW k \in 0..M, E[r][x[k]] # E[r - 1][x[k]]
       PROVE  /\ Inherits(loggers[x[k]])
              /\ E[r][x[k]] = E[r - 1][x[k + 1]]
              /\ r > 1 => E[r - 1][x[k]] = E[r - 2][x[k + 1]]
              /\ r = 1 => E[r - 1][x[k]] = own(x[k])
  <2>1. x[k] \in LoggerIds /\ r - 1 \in 0..M
    BY <1>1, <1>3, <1>10
  <2>2. Inherits(loggers[x[k]])
    <3>1. CASE ~Inherits(loggers[x[k]])
      BY <1>7, <1>10, <2>1, <3>1
    <3> QED
      BY <3>1
  <2>3. x[k + 1] = loggers[x[k]].parent
    BY <1>4, <2>2
  <2>4. (r - 1) - 1 = r - 2 /\ (r > 1 => r - 1 > 0) /\ (r = 1 => ~(r - 1 > 0))
    BY <1>1, <1>10
  <2>5. E[r][x[k]] = E[r - 1][x[k + 1]]
    BY <1>7, <1>10, <2>1, <2>2, <2>3
  <2>6. r > 1 => E[r - 1][x[k]] = E[r - 2][x[k + 1]]
    BY <1>7, <2>1, <2>2, <2>3, <2>4
  <2>7. r = 1 => E[r - 1][x[k]] = own(x[k])
    BY <1>7, <2>1, <2>4
  <2> QED
    BY <2>2, <2>5, <2>6, <2>7
<1>11. ASSUME NEW k \in 0..(M - 1), k \in T, k < M - 1 PROVE k + 1 \in T
  <2> DEFINE r == M - k
  <2>1. /\ r \in 0..M /\ r > 1 /\ k + 1 \in 0..M /\ k + 1 \in 0..(M - 1) /\ (k + 1) + 1 = k + 2
        /\ r - 1 = M - (k + 1) /\ r - 2 = M - (k + 1) - 1
    BY <1>1, <1>11
  <2>2. E[r][x[k + 1]] # E[r - 1][x[k + 1]] /\ \A j \in 0..k : Inherits(loggers[x[j]])
    BY <1>11
  <2> HIDE DEF r
  <2>3. /\ Inherits(loggers[x[k + 1]])
        /\ E[r - 1][x[k + 2]] # E[r - 2][x[k + 2]]
    BY <1>10, <2>1, <2>2
  <2>4. \A j \in 0..(k + 1) : Inherits(loggers[x[j]])
    <3>1. \A j \in 0..(k + 1) : j \in 0..k \/ j = k + 1
      BY <2>1
    <3> QED
      BY <2>2, <2>3, <3>1
  <2> QED
    BY <2>1, <2>3, <2>4
<1>12. M - 1 \in T
  <2>1. M - 1 \in Nat /\ M - 1 \in 0..(M - 1)
    BY <1>1
  <2> HIDE DEF T
  <2> QED
    BY <1>9, <1>11, <2>1, Climb
<1>13. /\ \A j \in 0..(M - 1) : Inherits(loggers[x[j]])
       /\ E[1][x[M]] # E[0][x[M]]
  <2>1. M - (M - 1) = 1 /\ M - (M - 1) - 1 = 0 /\ (M - 1) + 1 = M
    BY <1>1
  <2> QED
    BY <1>12, <2>1
<1>14. /\ Inherits(loggers[x[M]]) /\ E[1][x[M]] = E[0][x[M + 1]] /\ E[0][x[M]] = own(x[M])
  <2>1. 1 \in 0..M /\ 1 > 0 /\ M \in 0..M /\ 1 - 1 = 0
    BY <1>1
  <2>2. E[1][x[M]] # E[1 - 1][x[M]]
    BY <1>13, <2>1
  <2> QED
    BY <1>10, <2>1, <2>2
<1>15. ~Inherits(loggers[x[M + 1]])
  <2>1. M + 1 \in 0..(M + 1) /\ 0 \in 0..M /\ ~(0 > 0)
    BY <1>1
  <2>2. E[0][x[M + 1]] = own(x[M + 1])
    BY <1>3, <1>7, <2>1
  <2> QED
    BY <1>8, <1>13, <1>14, <2>2
<1>16. FirstIn(ends, x, M + 1)
  <2>1. M + 1 \in 0..(M + 1)
    BY <1>1
  <2>2. ASSUME NEW k \in 0..(M + 1), k < M + 1 PROVE Inherits(loggers[x[k]])
    <3>1. k \in 0..(M - 1) \/ k = M
      BY <1>1, <2>2
    <3> QED
      BY <1>13, <1>14, <3>1
  <2> QED
    BY <1>3, <1>15, <2>1, <2>2 DEF FirstIn
<1> DEFINE m == M + 1
<1>17. m + 1 <= Cardinality(Upward(l))
  <2>1. Climbs(l, x, m) /\ FirstIn(ends, x, m)
    BY <1>2, <1>16
  <2> HIDE DEF m, ends
  <2> QED
    BY <2>1, ClimbIsUpward
<1> QED
  BY <1>1, <1>17, UpwardFinite DEF M

\* A logger that inherits its level answers as its parent, whatever parents
\* the program sets and whatever becomes a custom logger, as long as no way up
\* is longer than the recursion goes.
THEOREM AnswersAsParentCorrect == Spec => []AnswersAsParent
<1>1. TypeOK /\ PredefinedKinds => AnswersAsParent
  <2> SUFFICES ASSUME TypeOK, PredefinedKinds, NEW l \in LoggerIds, Inherits(loggers[l]),
                      Cardinality(Upward(l)) <= MaxRecursions + 1, NEW level \in Asked
               PROVE  IsEnabled(l, level) <=> IsEnabled(loggers[l].parent, level)
    BY DEF AnswersAsParent
  <2>1. IsEnabled(l, level) = IsEnabled(loggers[l].parent, level)
    BY ParentsAreThere, AnswersAgree
  <2> QED
    BY <2>1
<1>2. IInv => TypeOK
  BY DEF IInv
<1> QED
  BY <1>1, <1>2, InitInv, NextInv, InitKinds, NextKinds, PTL DEF Spec

-----------------------------------------------------------------------------
(* The level that a logger has by its name *)

\* A name that fits is kept as it was asked for, and the first logger of the
\* list that has it is the one that was asked for by it: later ones got it by
\* being cut.
NamesAsAsked ==
  \A l \in LoggerIds : Fits(loggers[l].asked) =>
    /\ loggers[l].name = loggers[l].asked
    /\ \A i \in LoggerIds : loggers[i].name = loggers[l].name => l <= i

LEMMA InitNamesAsAsked == Init => NamesAsAsked
<1> SUFFICES ASSUME Init PROVE NamesAsAsked
  OBVIOUS
<1> DEFINE r == <<"rootlogger">>
           s == <<"l4sclog">>
<1>1. Fits(r) /\ Fits(s)
  BY SizesAssumption DEF Fits
<1>2. r # s
  OBVIOUS
<1>3. loggers = << Logger(r, "root", ERROR_LEVEL, FALSE, 0), Logger(s, "root", WARN_LEVEL, FALSE, Root) >>
  BY DEF Init
<1> HIDE DEF r, s
<1>4. /\ LoggerIds = {1, 2}
      /\ loggers[1].name = r /\ loggers[1].asked = r /\ loggers[2].name = s /\ loggers[2].asked = s
  BY <1>1, <1>3 DEF LoggerIds, Logger, Stored
<1> QED
  BY <1>2, <1>4 DEF NamesAsAsked

LEMMA NextNamesAsAsked == IInv /\ NamesAsAsked /\ [Next]_vars => NamesAsAsked'
<1> SUFFICES ASSUME IInv, NamesAsAsked, [Next]_vars,
                    NEW l \in LoggerIds', Fits(loggers'[l].asked)
             PROVE  /\ loggers'[l].name = loggers'[l].asked
                    /\ \A i \in LoggerIds' : loggers'[i].name = loggers'[l].name => l <= i
  BY DEF NamesAsAsked
<1>1. NamesStep
  BY NextNamesStep
<1>2. Len(loggers) \in Nat /\ Len(loggers') \in Nat
  BY <1>1, SlotsAreTyped DEF IInv, NamesStep
<1>3. CASE l \in (Len(loggers) + 1)..Len(loggers')
  <2>1. /\ loggers'[l].name = loggers'[l].asked
        /\ \A i \in LoggerIds' : loggers'[i].name = loggers'[l].name => i = l
    BY <1>1, <1>3 DEF NamesStep
  <2> QED
    BY <1>2, <1>3, <2>1
<1>4. CASE l \in LoggerIds
  <2>1. /\ loggers'[l].name = loggers[l].name /\ loggers'[l].asked = loggers[l].asked
        /\ loggers[l].name = loggers[l].asked
        /\ \A i \in LoggerIds : loggers[i].name = loggers[l].name => l <= i
    BY <1>1, <1>4 DEF NamesStep, NamesAsAsked
  <2>2. ASSUME NEW i \in LoggerIds', loggers'[i].name = loggers'[l].name PROVE l <= i
    <3>1. CASE i \in LoggerIds
      BY <1>1, <2>1, <2>2, <3>1 DEF NamesStep
    <3>2. CASE i \notin LoggerIds
      BY <1>2, <1>4, <3>2 DEF LoggerIds
    <3> QED
      BY <3>1, <3>2
  <2> QED
    BY <2>1, <2>2
<1> QED
  BY <1>2, <1>3, <1>4 DEF LoggerIds

\* What is known of every state.
LevelInv == TypeOK /\ PredefinedKinds /\ NamesAsAsked /\ LoggerNamesInv

\* The way up from a logger, by name: what is asked for the logger's answer
\* goes along the prefixes of its name to the root.
LEMMA NamesUp ==
  ASSUME LevelInv, NEW l \in Named, PlainlyNamed(l), NEW k \in 0..Len(loggers),
         k <= Len(loggers[l].name), \A j \in 0..Len(loggers) : j < k => Inherits(loggers[Way(l)[j]])
  PROVE  LET L == Len(loggers[l].name) IN
         IF k < L THEN /\ loggers[Way(l)[k]].name = Prefix(loggers[l].name, L - k)
                       /\ Lookup(loggers, Prefix(loggers[l].name, L - k)) = Way(l)[k]
         ELSE Way(l)[k] = Root
<1> DEFINE N == Len(loggers)
           n == loggers[l].name
           L == Len(n)
           w == Way(l)
           At(j) == IF j < L THEN /\ loggers[w[j]].name = Prefix(n, L - j)
                                  /\ Lookup(loggers, Prefix(n, L - j)) = w[j]
                    ELSE w[j] = Root
           T == {j \in 0..k : At(j)}
<1>1. /\ ParentsThere /\ N \in Nat /\ l \in LoggerIds /\ l # Root /\ DOMAIN loggers = 1..N
      /\ \A i \in LoggerIds : loggers[i] \in LoggerType
      /\ \A i \in LoggerIds : loggers[i].parent \in LoggerIds \/ i = Root
  <2>1. ParentsThere /\ l \in LoggerIds /\ l # Root
    BY ParentsAreThere DEF LevelInv, Named
  <2>2. loggers \in Seq(LoggerType) /\ \A i \in LoggerIds : loggers[i].parent \in LoggerIds \/ i = Root
    BY DEF LevelInv, TypeOK
  <2> QED
    BY <2>1, <2>2, LenProperties, ElementOfSeq DEF ParentsThere, LoggerIds
<1>2. n \in Seq(NameParts) /\ L \in Nat /\ L > 0
  <2>1. n \in Seq(NameParts) \ {<< >>}
    BY <1>1 DEF LoggerType
  <2> HIDE DEF n
  <2> QED
    BY <2>1, LenProperties, EmptySeq
<1>3. w[0] = l /\ Climbs(l, w, N)
  BY <1>1, WayClimbs
<1>4. \A j \in 0..N : /\ w[j] \in LoggerIds /\ w[j] \notin adopted /\ Fits(loggers[w[j]].asked)
                      /\ j < N /\ Inherits(loggers[w[j]]) => w[j + 1] = loggers[w[j]].parent
  BY <1>3 DEF Climbs, PlainlyNamed, Upward, Above
<1> HIDE DEF w, N
<1>5. \A j \in 0..k : j \in 0..N /\ (j < k => Inherits(loggers[w[j]]) /\ j < N)
  BY <1>1 DEF w, N
<1>6. \A i \in LoggerIds : Fits(loggers[i].asked) =>
        loggers[i].name = loggers[i].asked /\ Lookup(loggers, loggers[i].name) = i
  <2>1. ASSUME NEW i \in LoggerIds, Fits(loggers[i].asked)
        PROVE  Lookup(loggers, loggers[i].name) = i
    <3>1. i \in 1..N /\ \A h \in 1..N : loggers[h].name = loggers[i].name => i <= h
      BY <2>1 DEF LevelInv, NamesAsAsked, LoggerIds, N
    <3>2. LET a == Lookup(loggers, loggers[i].name) IN
          /\ a \in 0..N
          /\ a = 0 => \A h \in 1..N : loggers[h].name # loggers[i].name
          /\ a # 0 => /\ loggers[a].name = loggers[i].name
                      /\ \A h \in 1..N : loggers[h].name = loggers[i].name => a <= h
      BY <1>1, LookupFinds
    <3> DEFINE a == Lookup(loggers, loggers[i].name)
    <3>3. a \in 1..N /\ loggers[a].name = loggers[i].name /\ a <= i
      BY <3>1, <3>2
    <3> HIDE DEF a
    <3>4. i <= a
      BY <3>1, <3>3
    <3> QED
      BY <1>1, <3>1, <3>3, <3>4 DEF a
  <2> QED
    BY <2>1 DEF LevelInv, NamesAsAsked
<1> HIDE DEF n, L
<1>7. Prefix(n, L) = n
  <2> DEFINE p == Prefix(n, L)
  <2>1. L \in 1..Len(n) /\ L = Len(n)
    BY <1>2 DEF L
  <2>2. p \in Seq(NameParts) /\ Len(p) = Len(n) /\ \A i \in 1..Len(n) : p[i] = n[i]
    BY <1>2, <2>1, PrefixProperties
  <2> HIDE DEF p
  <2>3. p = n
    BY <1>2, <2>2, SeqEqual
  <2> QED
    BY <2>3 DEF p
<1>8. 0 \in T
  <2>1. At(0)
    <3>1. 0 < L /\ L - 0 = L /\ 0 \in 0..N
      BY <1>1, <1>2
    <3>2. loggers[w[0]].name = n /\ Fits(loggers[w[0]].asked)
      BY <1>3, <1>4, <3>1 DEF n
    <3>3. Lookup(loggers, n) = w[0]
      BY <1>4, <1>6, <3>1, <3>2
    <3> QED
      BY <1>7, <3>1, <3>2, <3>3
  <2> HIDE DEF At
  <2> QED
    BY <2>1
<1>9. ASSUME NEW j \in 0..k, j \in T, j < k PROVE j + 1 \in T
  <2>0. j + 1 \in 0..k /\ k <= L
    BY <1>9 DEF L, n
  <2>1. j \in 0..N /\ j < N /\ Inherits(loggers[w[j]]) /\ j < L /\ j + 1 \in 0..N
    BY <1>1, <1>2, <1>5, <1>9, <2>0
  <2> DEFINE i == w[j]
             q == L - j
  <2>2. q \in 1..Len(n) /\ q \in Nat /\ (q = 1 <=> ~(j + 1 < L)) /\ q - 1 = L - (j + 1)
        /\ (j + 1 < L => q > 1)
    BY <1>2, <2>1 DEF L
  <2>3. i \in LoggerIds /\ i \notin adopted /\ Fits(loggers[i].asked) /\ w[j + 1] = loggers[i].parent
    BY <1>4, <2>1
  <2>4. loggers[i].name = Prefix(n, q)
    BY <1>9, <2>1
  <2> HIDE DEF i, q
  <2>5. i # 1 /\ i # 2
    BY <2>1 DEF i, Inherits, LevelInv, PredefinedKinds
  <2>6. i \in Named /\ i # Root
    BY <2>3, <2>5 DEF Named, Root
  <2>7. loggers[i].asked = Prefix(n, q)
    BY <1>6, <2>3, <2>4
  <2>8. loggers[i].parent = IF Len(Prefix(n, q)) = 1 THEN Root ELSE Lookup(loggers, Front(Prefix(n, q)))
    BY <2>3, <2>6, <2>7 DEF LevelInv, LoggerNamesInv, ParentByName
  <2>9. Len(Prefix(n, q)) = q /\ (q > 1 => Front(Prefix(n, q)) = Prefix(n, q - 1))
    BY <1>2, <2>2, PrefixProperties
  <2>10. At(j + 1)
    <3>1. CASE j + 1 < L
      <4>1. q # 1 /\ q > 1
        BY <2>2, <3>1
      <4>2. w[j + 1] = Lookup(loggers, Prefix(n, L - (j + 1)))
        BY <2>2, <2>3, <2>8, <2>9, <4>1
      <4>3. w[j + 1] # 0
        BY <1>4, <2>1 DEF LoggerIds
      <4>4. loggers[w[j + 1]].name = Prefix(n, L - (j + 1))
        <5> DEFINE p == Prefix(n, L - (j + 1))
        <5>1. Lookup(loggers, p) # 0 /\ w[j + 1] = Lookup(loggers, p)
          BY <4>2, <4>3
        <5> HIDE DEF p
        <5>2. loggers[Lookup(loggers, p)].name = p
          BY <1>1, <5>1, LookupFinds
        <5> QED
          BY <5>1, <5>2 DEF p
      <4> QED
        BY <3>1, <4>2, <4>4
    <3>2. CASE ~(j + 1 < L)
      <4>1. w[j + 1] = Root
        BY <2>2, <2>3, <2>8, <2>9, <3>2
      <4> QED
        BY <3>2, <4>1
    <3> QED
      BY <3>1, <3>2
  <2> HIDE DEF At
  <2> QED
    BY <2>0, <2>10
<1>10. At(k)
  <2> HIDE DEF At
  <2>1. k \in 0..k /\ k \in Nat
    BY <1>1
  <2>2. k \in T
    <3> HIDE DEF T
    <3> QED
      BY <1>8, <1>9, <2>1, Climb
  <2> QED
    BY <2>2
<1> QED
  BY <1>10 DEF w, n, L

\* Somewhere on the way up, at the root if not before, a logger answers for
\* itself.
LEMMA SomeoneDecides ==
  ASSUME LevelInv, NEW l \in Named, PlainlyNamed(l)
  PROVE  \E k \in 0..Len(loggers) :
           /\ k <= Len(loggers[l].name)
           /\ ~Inherits(loggers[Way(l)[k]])
           /\ \A j \in 0..Len(loggers) : j < k => Inherits(loggers[Way(l)[j]])
<1> DEFINE N == Len(loggers)
           n == loggers[l].name
           L == Len(n)
           w == Way(l)
           S == {k \in 0..N : ~Inherits(loggers[w[k]])}
<1>1. ParentsThere /\ N \in Nat /\ l \in LoggerIds /\ n \in Seq(NameParts) /\ L \in Nat
  <2>1. ParentsThere /\ l \in LoggerIds
    BY ParentsAreThere DEF LevelInv, Named
  <2>2. n \in Seq(NameParts)
    <3>1. loggers[l] \in LoggerType
      BY <2>1, ElementOfSeq DEF LevelInv, TypeOK, LoggerIds
    <3> QED
      BY <3>1 DEF LoggerType
  <2> QED
    BY <2>1, <2>2, LenProperties DEF ParentsThere
<1>2. ~Inherits(loggers[Root])
  BY DEF Inherits, Root, LevelInv, PredefinedKinds
<1>3. ASSUME NEW k \in 0..N, k <= L, \A j \in 0..N : j < k => Inherits(loggers[w[j]])
      PROVE  /\ k < L => loggers[w[k]].name = Prefix(n, L - k)
             /\ ~(k < L) => w[k] = Root
  BY <1>3, NamesUp
<1> HIDE DEF n, L, w, N
<1>4. S # {}
  <2> SUFFICES ASSUME S = {} PROVE FALSE
    OBVIOUS
  <2>1. \A k \in 0..N : Inherits(loggers[w[k]])
    OBVIOUS
  <2>2. ~(L <= N)
    <3> SUFFICES ASSUME L <= N PROVE FALSE
      OBVIOUS
    <3>1. L \in 0..N /\ ~(L < L)
      BY <1>1
    <3>2. w[L] = Root
      BY <1>3, <2>1, <3>1
    <3> QED
      BY <1>2, <2>1, <3>1, <3>2
  <2>3. \A k \in 0..N : Len(loggers[w[k]].name) = L - k
    <3> SUFFICES ASSUME NEW k \in 0..N PROVE Len(loggers[w[k]].name) = L - k
      OBVIOUS
    <3>1. k <= L /\ k < L /\ L - k \in 1..L
      BY <1>1, <2>2
    <3>2. loggers[w[k]].name = Prefix(n, L - k)
      BY <1>3, <2>1, <3>1
    <3>3. Len(Prefix(n, L - k)) = L - k
      BY <1>1, <3>1, PrefixProperties DEF L
    <3> QED
      BY <3>2, <3>3
  <2>4. \A i, j \in 0..N : w[i] = w[j] => i = j
    <3>1. \A i, j \in 0..N : L - i = L - j => i = j
      BY <1>1
    <3> QED
      BY <2>3, <3>1
  <2>5. IsFiniteSet(LoggerIds) /\ Cardinality(LoggerIds) = N /\ \A k \in 0..N : w[k] \in LoggerIds
    BY <1>1, UpwardFinite, WayIs DEF N, w
  <2>6. N + 1 <= Cardinality(LoggerIds)
    BY <1>1, <2>4, <2>5, Crowded
  <2> QED
    BY <1>1, <2>5, <2>6
<1>5. S \subseteq Nat
  BY <1>1
<1>6. PICK k \in S : \A j \in S : k <= j
  <2> HIDE DEF S
  <2> QED
    BY <1>4, <1>5, Least
<1>7. k \in 0..N /\ ~Inherits(loggers[w[k]]) /\ \A j \in 0..N : j < k => Inherits(loggers[w[j]])
  <2>1. \A j \in 0..N : j < k => ~(k <= j)
    BY <1>1, <1>6
  <2> QED
    BY <1>6, <2>1
<1>8. k <= L
  <2> SUFFICES ASSUME L < k PROVE FALSE
    BY <1>1, <1>7
  <2>1. L \in 0..N /\ L <= L /\ ~(L < L) /\ \A j \in 0..N : j < L => j < k
    BY <1>1, <1>7
  <2>2. w[L] = Root
    BY <1>3, <1>7, <2>1
  <2> QED
    BY <1>2, <1>7, <2>1, <2>2
<1> QED
  BY <1>7, <1>8 DEF n, L, w, N

\* Its answer is the answer of the logger, if the recursion goes that far.
LEMMA DeciderAnswers ==
  ASSUME ParentsThere, NEW l \in LoggerIds, NEW level,
         NEW k \in 0..Len(loggers), k <= MaxRecursions,
         ~Inherits(loggers[Way(l)[k]]),
         \A j \in 0..Len(loggers) : j < k => Inherits(loggers[Way(l)[j]])
  PROVE  IsEnabled(l, level) = Decides(loggers[Way(l)[k]], level)
<1> DEFINE N == Len(loggers)
           M == MaxRecursions
           E == Answers(level)
           w == Way(l)
           own(i) == Decides(loggers[i], level)
           T == {j \in 0..k : E[M][l] = E[M - j][w[j]]}
<1>1. M \in Nat /\ N \in Nat
  BY SizesAssumption DEF ParentsThere
<1>2. w[0] = l /\ Climbs(l, w, N)
  BY WayClimbs
<1>3. \A j \in 0..N : /\ w[j] \in LoggerIds
                      /\ j < N /\ Inherits(loggers[w[j]]) => w[j + 1] = loggers[w[j]].parent
  BY <1>2 DEF Climbs
<1>4. IsEnabled(l, level) = E[M][l]
  BY AnswersAre
<1>5. \A r \in 0..M, i \in LoggerIds :
        /\ Inherits(loggers[i]) /\ r > 0 => E[r][i] = E[r - 1][loggers[i].parent]
        /\ ~Inherits(loggers[i]) => E[r][i] = own(i)
  <2> HIDE DEF own
  <2>1. \A r \in 0..M, i \in LoggerIds :
          E[r][i] = IF Inherits(loggers[i]) /\ r > 0 THEN E[r - 1][loggers[i].parent] ELSE own(i)
    BY AnswersAre DEF own
  <2> QED
    BY <2>1
<1>6. \A j \in 0..k : j < k => Inherits(loggers[w[j]]) /\ j < N /\ j \in 0..N
  BY <1>1
<1>7. k \in 0..N /\ k <= M /\ ~Inherits(loggers[w[k]])
  OBVIOUS
<1> HIDE DEF E, M, N, w, own
<1>8. 0 \in T
  <2>1. 0 \in 0..k /\ M - 0 = M
    BY <1>1, <1>7
  <2> QED
    BY <1>2, <2>1
<1>9. ASSUME NEW j \in 0..k, j \in T, j < k PROVE j + 1 \in T
  <2>0. k \in Nat /\ j \in Nat /\ j < k
    BY <1>1, <1>7, <1>9
  <2>1. /\ M - j \in 0..M /\ M - j > 0 /\ (M - j) - 1 = M - (j + 1) /\ j + 1 \in 0..k
    BY <1>1, <1>7, <2>0
  <2>2. w[j] \in LoggerIds /\ Inherits(loggers[w[j]]) /\ w[j + 1] = loggers[w[j]].parent
    BY <1>3, <1>6, <1>9
  <2>3. E[M - j][w[j]] = E[(M - j) - 1][w[j + 1]]
    BY <1>5, <2>1, <2>2
  <2>4. E[M][l] = E[M - j][w[j]]
    BY <1>9
  <2> QED
    BY <2>1, <2>3, <2>4
<1>10. k \in T
  <2>1. k \in 0..k /\ k \in Nat
    BY <1>1, <1>7
  <2> HIDE DEF T
  <2> QED
    BY <1>8, <1>9, <2>1, Climb
<1>11. E[M - k][w[k]] = own(w[k])
  <2>1. M - k \in 0..M
    BY <1>1, <1>7
  <2> QED
    BY <1>3, <1>5, <1>7, <2>1
<1> QED
  BY <1>4, <1>10, <1>11 DEF own, w

\* The logger that decides has the level that the names give.
LEMMA DeciderByName ==
  ASSUME LevelInv, NEW l \in Named, PlainlyNamed(l),
         NEW k \in 0..Len(loggers), k <= Len(loggers[l].name),
         ~Inherits(loggers[Way(l)[k]]),
         \A j \in 0..Len(loggers) : j < k => Inherits(loggers[Way(l)[j]])
  PROVE  LevelByName(l) = loggers[Way(l)[k]].level
<1> DEFINE N == Len(loggers)
           n == loggers[l].name
           L == Len(n)
           w == Way(l)
           at(i) == Lookup(loggers, Prefix(n, i))
           set == {i \in 1..L : at(i) # 0 /\ ~Inherits(loggers[at(i)])}
           longest == CHOOSE i \in set : \A j \in set : j <= i
<1>1. N \in Nat /\ L \in Nat /\ ParentsThere /\ l \in LoggerIds
  <2>1. ParentsThere /\ l \in LoggerIds
    BY ParentsAreThere DEF LevelInv, Named
  <2>2. n \in Seq(NameParts)
    <3>1. loggers[l] \in LoggerType
      BY <2>1, ElementOfSeq DEF LevelInv, TypeOK, LoggerIds
    <3> QED
      BY <3>1 DEF LoggerType
  <2> QED
    BY <2>1, <2>2, LenProperties DEF ParentsThere
<1>2. ASSUME NEW j \in 0..N, j <= k
      PROVE  /\ j < L => at(L - j) = w[j]
             /\ ~(j < L) => w[j] = Root
  <2>1. j <= L /\ \A i \in 0..N : i < j => Inherits(loggers[w[i]])
    BY <1>1, <1>2
  <2> QED
    BY <2>1, NamesUp
<1>3. LevelByName(l) = IF set = {} THEN loggers[Root].level ELSE loggers[at(longest)].level
  BY DEF LevelByName
<1>4. \A j \in 0..N : w[j] \in LoggerIds /\ w[j] # 0
  BY <1>1, WayIs DEF LoggerIds
<1>5. k \in 0..N /\ k <= L /\ ~Inherits(loggers[w[k]]) /\ \A j \in 0..N : j < k => Inherits(loggers[w[j]])
  OBVIOUS
<1> HIDE DEF n, L, w, N, at
<1>6. ASSUME NEW i \in set PROVE i <= L - k
  <2> SUFFICES ASSUME i > L - k PROVE FALSE
    BY <1>1, <1>5
  <2> DEFINE j == L - i
  <2>1. j \in 0..N /\ j < k /\ j <= k /\ j < L /\ L - j = i
    BY <1>1, <1>5, <1>6
  <2> HIDE DEF j
  <2>2. at(i) = w[j]
    BY <1>2, <2>1
  <2>3. Inherits(loggers[w[j]])
    BY <1>5, <2>1
  <2> QED
    BY <1>6, <2>2, <2>3
<1>7. CASE k < L
  <2> DEFINE q == L - k
  <2>1. q \in 1..L /\ k \in 0..N /\ k <= k
    BY <1>1, <1>5, <1>7
  <2>2. at(q) = w[k]
    BY <1>2, <1>7, <2>1
  <2>3. q \in set
    BY <1>4, <1>5, <2>1, <2>2
  <2>4. \A i \in set : i <= q
    BY <1>6
  <2>5. set \subseteq Nat
    BY <1>1
  <2> HIDE DEF q, set
  <2>6. longest \in set /\ \A i \in set : i <= longest
    BY <2>3, <2>4
  <2> HIDE DEF longest
  <2>7. longest = q
    <3>1. longest <= q /\ q <= longest /\ longest \in Nat /\ q \in Nat
      BY <2>3, <2>4, <2>5, <2>6
    <3> QED
      BY <3>1
  <2> QED
    BY <1>3, <2>2, <2>3, <2>7 DEF w
<1>8. CASE ~(k < L)
  <2>1. k = L /\ k <= k
    BY <1>1, <1>5, <1>8
  <2>2. w[k] = Root
    BY <1>2, <1>5, <1>8, <2>1
  <2>3. set = {}
    <3>1. ASSUME NEW i \in set PROVE FALSE
      <4>1. i \in 1..L /\ i <= L - k
        BY <1>6, <3>1
      <4> QED
        BY <1>1, <2>1, <4>1
    <3> QED
      BY <3>1
  <2> QED
    BY <1>3, <2>2, <2>3 DEF w
<1> QED
  BY <1>7, <1>8

\* A name that fits has no more parts than the recursion goes up.
LEMMA FittingDepth ==
  ASSUME NEW n \in Seq(NameParts), Fits(n)
  PROVE  Len(n) <= MaxRecursions
<1>1. Len(n) \in Nat /\ NameSize \in Nat /\ MaxRecursions \in Nat
  BY LenProperties, SizesAssumption
<1>2. 2 * Len(n) - 1 < NameSize /\ NameSize <= 2 * MaxRecursions
  BY RecursionsAssumption DEF Fits
<1> QED
  BY <1>1, <1>2

\* The recursion over the parents answers what the names say.
LEMMA LevelByTheName ==
  ASSUME LevelInv, NEW l \in Named, PlainlyNamed(l), NEW level
  PROVE  IsEnabled(l, level) = (level >= LevelByName(l))
<1>1. PICK k \in 0..Len(loggers) :
        /\ k <= Len(loggers[l].name)
        /\ ~Inherits(loggers[Way(l)[k]])
        /\ \A j \in 0..Len(loggers) : j < k => Inherits(loggers[Way(l)[j]])
  BY SomeoneDecides
<1>2. ParentsThere /\ l \in LoggerIds /\ Len(loggers) \in Nat
  BY ParentsAreThere DEF LevelInv, Named, ParentsThere
<1> DEFINE d == Way(l)[k]
<1>3. d \in Upward(l) /\ loggers[d].kind # "custom"
  BY <1>1 DEF PlainlyNamed, Upward, Above
<1>4. k <= MaxRecursions
  <2>1. loggers[l] \in LoggerType
    BY <1>2, ElementOfSeq DEF LevelInv, TypeOK, LoggerIds
  <2>2. loggers[l].name \in Seq(NameParts)
    BY <2>1 DEF LoggerType
  <2>3. Way(l)[0] = l /\ 0 \in 0..Len(loggers)
    BY <1>2, WayClimbs
  <2>4. l \in Upward(l)
    BY <2>3 DEF Upward, Above
  <2>5. Fits(loggers[l].name)
    BY <1>2, <2>4 DEF PlainlyNamed, LevelInv, NamesAsAsked
  <2>6. Len(loggers[l].name) <= MaxRecursions /\ Len(loggers[l].name) \in Nat /\ MaxRecursions \in Nat
    BY <2>2, <2>5, FittingDepth, LenProperties, SizesAssumption
  <2> QED
    BY <1>1, <1>2, <2>6
<1>5. IsEnabled(l, level) = Decides(loggers[d], level)
  BY <1>1, <1>2, <1>4, DeciderAnswers
<1>6. LevelByName(l) = loggers[d].level
  BY <1>1, DeciderByName
<1> QED
  BY <1>3, <1>5, <1>6 DEF Decides

\* The level of the longest part of its name that has one is the level of a
\* logger, in whatever order loggers are created and their levels set, for any
\* names that fit: the recursion is deep enough for all of them.
THEOREM LevelInheritedCorrect == Spec => []LevelInherited
<1>1. IInv /\ PredefinedKinds /\ NamesAsAsked /\ LoggerNamesInv => LevelInherited
  <2> SUFFICES ASSUME LevelInv, NEW l \in Named, PlainlyNamed(l), NEW level \in Asked
               PROVE  IsEnabled(l, level) <=> level >= LevelByName(l)
    BY DEF IInv, LevelInv, LevelInherited
  <2>1. IsEnabled(l, level) = (level >= LevelByName(l))
    BY LevelByTheName
  <2> QED
    BY <2>1
<1>2. Init => IInv /\ PredefinedKinds /\ NamesAsAsked /\ LoggerNamesInv
  BY InitInv, InitKinds, InitNamesAsAsked, InitLoggerNames
<1>3. IInv /\ PredefinedKinds /\ NamesAsAsked /\ LoggerNamesInv /\ [Next]_vars
        => IInv' /\ PredefinedKinds' /\ NamesAsAsked' /\ LoggerNamesInv'
  BY NextInv, NextKinds, NextNamesAsAsked, NextLoggerNames
<1> QED
  BY <1>1, <1>2, <1>3, PTL DEF Spec

-----------------------------------------------------------------------------
(* How often a message reaches an appender *)

\* What logger_append adds up for a with r recursions left, given what its
\* parents add up.
Delivered(d, r, i, a) ==
  IF loggers[i].kind # "logger" THEN 0
  ELSE Held(loggers[i], a) +
       (IF loggers[i].additivity /\ r > 0 THEN d[r - 1][loggers[i].parent][a] ELSE 0)

Sums ==
  CHOOSE d : d = [r \in 0..MaxRecursions |->
                    [i \in LoggerIds |-> [a \in AppenderIds |-> Delivered(d, r, i, a)]]]

\* A logger holds a number of each appender.
LEMMA HeldType ==
  ASSUME NEW lg, NEW a
  PROVE  Held(lg, a) \in Nat
<1>1. MaxSlots \in Nat /\ 1 \in Int /\ MaxSlots \in Int
  BY SizesAssumption
<1>2. IsFiniteSet(Slots)
  BY <1>1, FS_Interval DEF Slots
<1>3. {i \in Slots : lg.slots[i] = a} \in SUBSET Slots
  OBVIOUS
<1> QED
  BY <1>2, <1>3, FS_Subset, FS_CardinalityType DEF Held

\* The recursive definition of the sums is met by what it defines.
LEMMA SumsAre ==
  ASSUME ParentsThere
  PROVE  /\ \A l : Deliveries(l) = Sums[MaxRecursions][l]
         /\ \A r \in 0..MaxRecursions, i \in LoggerIds, a \in AppenderIds :
              Sums[r][i][a] \in Nat /\ Sums[r][i][a] = Delivered(Sums, r, i, a)
<1> DEFINE M == MaxRecursions
           S == [LoggerIds -> [AppenderIds -> Nat]]
           start == [i \in LoggerIds |-> [a \in AppenderIds |-> Delivered(Sums, 0, i, a)]]
           one(e, i, a) ==
             IF loggers[i].kind # "logger" THEN 0
             ELSE Held(loggers[i], a) + (IF loggers[i].additivity THEN e[loggers[i].parent][a] ELSE 0)
           step == [e \in S |-> [i \in LoggerIds |-> [a \in AppenderIds |-> one(e, i, a)]]]
<1>1. \A l : Deliveries(l) = Sums[MaxRecursions][l]
  BY DEF Deliveries, Sums, Delivered
<1>2. M \in Nat
  BY SizesAssumption
<1>3. Repeatable(S, step, start, M)
  <2>1. \A i \in LoggerIds, a \in AppenderIds : Delivered(Sums, 0, i, a) \in Nat
    BY HeldType DEF Delivered
  <2>2. start \in S
    BY <2>1
  <2>3. ASSUME NEW e \in S PROVE step[e] \in S
    <3>1. \A i \in LoggerIds : loggers[i].kind = "logger" => loggers[i].parent \in LoggerIds
      BY DEF ParentsThere
    <3>2. \A i \in LoggerIds, a \in AppenderIds :
            loggers[i].kind = "logger" => e[loggers[i].parent][a] \in Nat
      BY <3>1
    <3>3. \A i \in LoggerIds, a \in AppenderIds : one(e, i, a) \in Nat
      BY <3>2, HeldType
    <3> HIDE DEF one
    <3> QED
      BY <3>3
  <2>4. step \in [S -> S]
    <3>1. step = [e \in S |-> step[e]]
      OBVIOUS
    <3> HIDE DEF step, S
    <3> QED
      BY <2>3, <3>1
  <2> HIDE DEF step, start, S
  <2> QED
    BY <1>2, <2>2, <2>4 DEF Repeatable
<1>4. PICK d \in [0..M -> S] : \A k \in 0..M : d[k] = Repeated(step, start, d, k)
  <2> HIDE DEF step, start, S, M
  <2> QED
    BY <1>3, Iterates
<1>5. ASSUME NEW r \in 0..M
      PROVE  d[r] = [i \in LoggerIds |-> [a \in AppenderIds |-> Delivered(d, r, i, a)]]
  <2>1. d[r] = Repeated(step, start, d, r)
    BY <1>4
  <2>2. r # 0 => r - 1 \in 0..M
    BY <1>2
  <2>3. r # 0 => d[r - 1] \in S
    BY <2>2
  <2>4. CASE r = 0
    <3>1. d[r] = start
      BY <2>1, <2>4 DEF Repeated
    <3>2. \A i \in LoggerIds, a \in AppenderIds : Delivered(d, r, i, a) = Delivered(Sums, 0, i, a)
      BY <2>4 DEF Delivered
    <3> QED
      BY <3>1, <3>2
  <2>5. CASE r # 0
    <3>1. d[r] = step[d[r - 1]]
      <4> HIDE DEF step, S
      <4> QED
        BY <2>1, <2>5 DEF Repeated
    <3>2. d[r] = [i \in LoggerIds |-> [a \in AppenderIds |-> one(d[r - 1], i, a)]]
      <4> DEFINE b == d[r - 1]
      <4>1. b \in S /\ d[r] = step[b]
        BY <2>3, <2>5, <3>1
      <4> HIDE DEF b, S, one
      <4>2. step[b] = [i \in LoggerIds |-> [a \in AppenderIds |-> one(b, i, a)]]
        BY <4>1
      <4> QED
        BY <4>1, <4>2 DEF b
    <3>3. r > 0
      BY <1>2, <2>5
    <3>4. \A i \in LoggerIds, a \in AppenderIds : Delivered(d, r, i, a) = one(d[r - 1], i, a)
      BY <3>3 DEF Delivered
    <3> HIDE DEF one
    <3> QED
      BY <3>2, <3>4
  <2> QED
    BY <2>4, <2>5
<1>6. d = [r \in 0..M |-> [i \in LoggerIds |-> [a \in AppenderIds |-> Delivered(d, r, i, a)]]]
  <2>1. d = [r \in 0..M |-> d[r]]
    BY <1>4
  <2> HIDE DEF M
  <2> QED
    BY <1>5, <2>1
<1> DEFINE s == Sums
<1>7. s = [r \in 0..M |-> [i \in LoggerIds |-> [a \in AppenderIds |-> Delivered(s, r, i, a)]]]
  <2>1. \E f : f = [r \in 0..M |-> [i \in LoggerIds |-> [a \in AppenderIds |-> Delivered(f, r, i, a)]]]
    BY <1>6
  <2> HIDE DEF Delivered
  <2> QED
    BY <2>1, Zenon DEF Sums
<1>8. ASSUME NEW r \in 0..M, NEW i \in LoggerIds, NEW a \in AppenderIds
      PROVE  s[r][i][a] = Delivered(s, r, i, a)
  <2> HIDE DEF s, M, Delivered
  <2>1. s[r] = [j \in LoggerIds |-> [b \in AppenderIds |-> Delivered(s, r, j, b)]]
    BY <1>7, Zenon
  <2>2. s[r][i] = [b \in AppenderIds |-> Delivered(s, r, i, b)]
    BY <2>1, Zenon
  <2> QED
    BY <2>2, Zenon
<1> DEFINE T == {r \in 0..M : \A i \in LoggerIds, a \in AppenderIds : s[r][i][a] \in Nat}
<1> HIDE DEF s, M
<1>9. 0 \in T
  <2>1. 0 \in 0..M /\ ~(0 > 0)
    BY <1>2
  <2>2. \A i \in LoggerIds, a \in AppenderIds : Delivered(s, 0, i, a) \in Nat
    BY <2>1, HeldType DEF Delivered
  <2> QED
    BY <1>8, <2>1, <2>2
<1>10. ASSUME NEW r \in 0..M, r \in T, r < M PROVE r + 1 \in T
  <2>1. r + 1 \in 0..M /\ (r + 1) - 1 = r
    BY <1>2, <1>10
  <2>2. ASSUME NEW i \in LoggerIds, NEW a \in AppenderIds PROVE Delivered(s, r + 1, i, a) \in Nat
    <3>1. Held(loggers[i], a) \in Nat
      BY HeldType
    <3>2. loggers[i].kind = "logger" => s[r][loggers[i].parent][a] \in Nat
      BY <1>10 DEF ParentsThere
    <3> QED
      BY <2>1, <3>1, <3>2 DEF Delivered
  <2> QED
    BY <1>8, <2>1, <2>2
<1>11. \A r \in 0..M : r \in T
  <2> HIDE DEF T
  <2> QED
    BY <1>2, <1>9, <1>10, Climb
<1> QED
  BY <1>1, <1>8, <1>11 DEF s, M

\* A logger holds an appender in one slot or in none.
LEMMA HeldOnce ==
  ASSUME TypeOK, AttachedOnce, NEW i \in LoggerIds, NEW a \in AppenderIds
  PROVE  Held(loggers[i], a) = IF a \in Elements(loggers[i].slots) THEN 1 ELSE 0
<1> DEFINE slots == loggers[i].slots
           S == {j \in Slots : slots[j] = a}
<1>1. a # 0
  BY DEF AppenderIds
<1>2. DOMAIN slots = Slots
  <2>1. loggers[i] \in LoggerType
    BY ElementOfSeq DEF TypeOK, LoggerIds
  <2> QED
    BY <2>1 DEF LoggerType
<1>3. Held(loggers[i], a) = Cardinality(S)
  BY DEF Held
<1>4. a \in Elements(slots) <=> S # {}
  BY <1>2 DEF Elements
<1>5. \A j, k \in S : j = k
  BY <1>1 DEF AttachedOnce
<1>6. S # {} => Cardinality(S) = 1
  <2> SUFFICES ASSUME NEW j \in S PROVE Cardinality(S) = 1
    OBVIOUS
  <2>1. S = {j}
    BY <1>5
  <2> HIDE DEF S
  <2> QED
    BY <2>1, FS_Singleton
<1>7. S = {} => Cardinality(S) = 0
  <2> HIDE DEF S
  <2> QED
    BY FS_EmptySet
<1> HIDE DEF S, slots
<1>8. Cardinality(S) = IF a \in Elements(slots) THEN 1 ELSE 0
  BY <1>4, <1>6, <1>7
<1> QED
  BY <1>3, <1>8 DEF slots

\* Where the way up ends, and that no logger comes twice before.
LEMMA EndReached ==
  ASSUME ParentsThere, NEW l \in LoggerIds, EndsAbove(l),
         Cardinality(Upward(l)) <= MaxRecursions + 1
  PROVE  \E k \in 0..Len(loggers) :
           /\ k <= MaxRecursions
           /\ loggers[Way(l)[k]].kind # "logger"
           /\ \A j \in 0..Len(loggers) : j < k => loggers[Way(l)[j]].kind = "logger"
           /\ \A i, j \in 0..k : Way(l)[i] = Way(l)[j] => i = j
<1> DEFINE N == Len(loggers)
           w == Way(l)
           ends == {i \in LoggerIds : loggers[i].kind # "logger"}
           S == {k \in 0..N : loggers[w[k]].kind # "logger"}
<1>1. N \in Nat /\ MaxRecursions \in Nat
  BY SizesAssumption DEF ParentsThere
<1>2. S # {} /\ S \subseteq Nat
  BY <1>1 DEF EndsAbove, Upward, Above
<1>3. PICK k \in S : \A j \in S : k <= j
  <2> HIDE DEF S
  <2> QED
    BY <1>2, Least
<1>4. Climbs(l, w, N) /\ \A j \in 0..N : w[j] \in LoggerIds
  BY WayClimbs DEF Climbs
<1> HIDE DEF w, N
<1>5. /\ k \in 0..N /\ k \in Nat /\ loggers[w[k]].kind # "logger"
      /\ \A j \in 0..N : j < k => loggers[w[j]].kind = "logger"
  <2>1. k \in 0..N /\ k \in Nat /\ loggers[w[k]].kind # "logger"
    BY <1>1
  <2>2. \A j \in 0..N : j < k => ~(k <= j)
    BY <1>1
  <2> QED
    BY <1>3, <2>1, <2>2
<1>6. \A j \in 0..k : j \in 0..N
  BY <1>1, <1>5
<1>7. Repeats(Onward, l, w, k)
  BY <1>4, <1>5, <1>6 DEF Climbs, Repeats
<1>8. Climbs(l, w, k)
  <2>1. \A j \in 0..k : j < k => j < N
    BY <1>1, <1>5
  <2> QED
    BY <1>4, <1>6, <1>7, <2>1 DEF Climbs
<1>9. FirstIn(ends, w, k)
  BY <1>4, <1>5, <1>6 DEF FirstIn
<1> HIDE DEF ends, S
<1>10. \A i, j \in 0..k : w[i] = w[j] => i = j
  BY <1>7, <1>9, NeverTwice
<1>11. k + 1 <= Cardinality(Upward(l))
  BY <1>8, <1>9, ClimbIsUpward
<1>12. k <= MaxRecursions
  BY <1>1, <1>5, <1>11, UpwardFinite
<1> QED
  BY <1>5, <1>10, <1>12 DEF w, N

\* What a way up adds up for an appender is the number of loggers it meets
\* that hold it, as far as additivity lets it go.
LEMMA SumIsCount ==
  ASSUME TypeOK, AttachedOnce, ParentsThere, NEW l \in LoggerIds, NEW a \in AppenderIds,
         EndsAbove(l), Cardinality(Upward(l)) <= MaxRecursions + 1
  PROVE  Sums[MaxRecursions][l][a] =
           Cardinality({x \in Additive(l) : /\ loggers[x].kind = "logger"
                                            /\ a \in Elements(loggers[x].slots)})
<1> DEFINE M == MaxRecursions
           N == Len(loggers)
           w == Way(l)
           holds == {x \in LoggerIds : loggers[x].kind = "logger" /\ a \in Elements(loggers[x].slots)}
           counts(x) == IF x \in holds THEN 1 ELSE 0
           passes(x) == loggers[x].kind = "logger" /\ loggers[x].additivity
           Seen(j) == {x \in holds : \E i \in 0..N : i < j /\ x = w[i]}
           sum(j) == Sums[M - j][w[j]][a]
<1>1. N \in Nat /\ M \in Nat
  BY SizesAssumption DEF ParentsThere
<1>2. PICK k \in 0..N : /\ k <= M
                        /\ loggers[w[k]].kind # "logger"
                        /\ \A i, j \in 0..k : w[i] = w[j] => i = j
  BY EndReached
<1>3. w[0] = l /\ Climbs(l, w, N) /\ \A j \in 0..N : w[j] \in LoggerIds
  BY WayClimbs DEF Climbs
<1>4. ASSUME NEW j \in 0..N, j < N
      PROVE  /\ loggers[w[j]].kind = "logger" => w[j + 1] = loggers[w[j]].parent
             /\ loggers[w[j]].kind # "logger" => w[j + 1] = w[j]
  <2>1. j + 1 \in 0..N /\ j + 1 # 0 /\ (j + 1) - 1 = j
    BY <1>1, <1>4
  <2>2. w[j + 1] = Repeated(Onward, l, w, j + 1)
    BY <1>3, <2>1 DEF Climbs, Repeats
  <2>3. w[j + 1] = Onward[w[j]]
    BY <2>1, <2>2 DEF Repeated
  <2> QED
    BY <1>3, <2>3 DEF Onward
<1> DEFINE stops == {j \in 0..k : ~passes(w[j])}
<1>5. PICK e \in stops : \A j \in stops : e <= j
  <2>1. k \in stops /\ stops \subseteq Nat
    BY <1>1, <1>2
  <2> HIDE DEF stops
  <2> QED
    BY <2>1, Least
<1>6. /\ e \in Nat /\ e \in 0..k /\ e \in 0..N /\ e <= M /\ ~passes(w[e])
      /\ \A j \in 0..N : j < e => passes(w[j])
  <2>1. e \in 0..k /\ ~passes(w[e])
    BY <1>5
  <2>2. e \in Nat /\ e \in 0..N /\ e <= M
    BY <1>1, <1>2, <2>1
  <2>3. \A j \in 0..N : j < e => j \in 0..k /\ ~(e <= j)
    BY <1>1, <1>2, <2>1
  <2> QED
    BY <1>5, <2>1, <2>2, <2>3
<1>7. \A r \in 0..M, i \in LoggerIds :
        /\ passes(i) /\ r > 0 => Sums[r][i][a] = counts(i) + Sums[r - 1][loggers[i].parent][a]
        /\ ~passes(i) => Sums[r][i][a] = counts(i)
        /\ Sums[r][i][a] \in Nat
  <2> TAKE r \in 0..M, i \in LoggerIds
  <2>1. Sums[r][i][a] \in Nat /\ Sums[r][i][a] = Delivered(Sums, r, i, a)
    BY SumsAre
  <2>2. loggers[i].kind = "logger" => Held(loggers[i], a) = counts(i)
    BY HeldOnce
  <2>3. loggers[i].kind # "logger" => counts(i) = 0
    OBVIOUS
  <2>4. counts(i) \in Nat
    OBVIOUS
  <2> HIDE DEF counts
  <2> QED
    BY <2>1, <2>2, <2>3, <2>4 DEF Delivered
<1>8. \A j \in Nat : IsFiniteSet(Seen(j)) /\ Cardinality(Seen(j)) \in Nat
  <2>1. IsFiniteSet(LoggerIds)
    BY UpwardFinite
  <2>2. \A j \in Nat : Seen(j) \in SUBSET LoggerIds
    OBVIOUS
  <2> HIDE DEF Seen
  <2> QED
    BY <2>1, <2>2, FS_Subset, FS_CardinalityType
<1>9. ASSUME NEW j \in 0..e
      PROVE  Cardinality(Seen(j + 1)) = Cardinality(Seen(j)) + counts(w[j])
  <2>1. j \in Nat /\ j \in 0..N /\ j \in 0..k /\ j + 1 \in Nat
    BY <1>1, <1>6
  <2>2. w[j] \notin Seen(j)
    <3>1. \A i \in 0..N : i < j => i \in 0..k /\ i # j
      BY <1>1, <1>2, <2>1
    <3> QED
      BY <1>2, <2>1, <3>1
  <2>3. \A i \in 0..N : i < j + 1 <=> (i < j \/ i = j)
    BY <1>1, <2>1
  <2>4. w[j] \in holds => Seen(j + 1) = Seen(j) \union {w[j]}
    <3> HIDE DEF w, holds, N
    <3> QED
      BY <2>1, <2>3
  <2>5. w[j] \notin holds => Seen(j + 1) = Seen(j)
    <3> HIDE DEF w, holds, N
    <3> QED
      BY <2>1, <2>3
  <2>6. IsFiniteSet(Seen(j)) /\ Cardinality(Seen(j)) \in Nat
    BY <1>8, <2>1
  <2> HIDE DEF Seen, holds
  <2>7. w[j] \in holds => Cardinality(Seen(j) \union {w[j]}) = Cardinality(Seen(j)) + 1
    BY <2>2, <2>6, FS_AddElement
  <2>8. CASE w[j] \in holds
    <3>1. counts(w[j]) = 1 /\ Seen(j + 1) = Seen(j) \union {w[j]}
      BY <2>4, <2>8
    <3> HIDE DEF counts, w
    <3> QED
      BY <2>7, <2>8, <3>1
  <2>9. CASE w[j] \notin holds
    <3>1. counts(w[j]) = 0 /\ Seen(j + 1) = Seen(j)
      BY <2>5, <2>9
    <3> HIDE DEF counts, w
    <3> QED
      BY <2>6, <3>1
  <2> QED
    BY <2>8, <2>9
<1> DEFINE T == {j \in 0..e : Sums[M][l][a] = Cardinality(Seen(j)) + sum(j)}
<1>10. 0 \in T
  <2>1. Seen(0) = {}
    BY <1>1
  <2>2. Cardinality(Seen(0)) = 0
    BY <2>1, FS_EmptySet
  <2>3. M - 0 = M /\ M \in 0..M /\ 0 \in 0..e
    BY <1>1, <1>6
  <2>4. Sums[M][l][a] \in Nat
    BY <1>7, <2>3
  <2>5. sum(0) = Sums[M][l][a]
    BY <1>3, <2>3
  <2> HIDE DEF Seen, M, sum
  <2> QED
    BY <2>2, <2>3, <2>4, <2>5
<1>11. ASSUME NEW j \in 0..e, j \in T, j < e PROVE j + 1 \in T
  <2>1. /\ j \in 0..N /\ j < N /\ j + 1 \in 0..e /\ j + 1 \in 0..N
        /\ M - j \in 0..M /\ M - j > 0 /\ (M - j) - 1 = M - (j + 1) /\ M - (j + 1) \in 0..M
    BY <1>1, <1>6, <1>11
  <2>2. passes(w[j]) /\ w[j] \in LoggerIds /\ w[j + 1] \in LoggerIds
    BY <1>3, <1>6, <1>11, <2>1
  <2>3. w[j + 1] = loggers[w[j]].parent
    BY <1>4, <2>1, <2>2
  <2> HIDE DEF w, passes, counts
  <2>4. sum(j) = counts(w[j]) + Sums[(M - j) - 1][loggers[w[j]].parent][a]
    BY <1>7, <2>1, <2>2
  <2>5. sum(j) = counts(w[j]) + sum(j + 1)
    BY <2>1, <2>3, <2>4
  <2>6. sum(j + 1) \in Nat
    BY <1>7, <2>1, <2>2
  <2>7. counts(w[j]) \in Nat
    BY DEF counts
  <2>8. Cardinality(Seen(j + 1)) = Cardinality(Seen(j)) + counts(w[j])
    BY <1>9
  <2>9. Cardinality(Seen(j)) \in Nat
    <3>1. j \in Nat
      BY <1>6
    <3> HIDE DEF Seen
    <3> QED
      BY <1>8, <3>1
  <2>10. Sums[M][l][a] = Cardinality(Seen(j)) + sum(j)
    BY <1>11
  <2> HIDE DEF Seen, sum, M
  <2> QED
    BY <2>1, <2>5, <2>6, <2>7, <2>8, <2>9, <2>10
<1>12. e \in T
  <2>1. e \in 0..e
    BY <1>6
  <2> HIDE DEF T
  <2> QED
    BY <1>6, <1>10, <1>11, <2>1, Climb
<1>13. Sums[M][l][a] = Cardinality(Seen(e + 1))
  <2>1. e \in 0..e /\ M - e \in 0..M /\ w[e] \in LoggerIds
    BY <1>1, <1>3, <1>6
  <2> HIDE DEF passes, counts
  <2>2. sum(e) = counts(w[e])
    BY <1>6, <1>7, <2>1
  <2>3. Cardinality(Seen(e + 1)) = Cardinality(Seen(e)) + counts(w[e])
    BY <1>9, <2>1
  <2> HIDE DEF Seen, sum, w, M
  <2> QED
    BY <1>12, <2>2, <2>3
<1>14. loggers[w[e]].kind # "logger" => \A r \in 0..N : r >= e => w[r] = w[e]
  <2> SUFFICES ASSUME loggers[w[e]].kind # "logger"
               PROVE  \A r \in 0..N : r >= e => w[r] = w[e]
    OBVIOUS
  <2> DEFINE R == {r \in 0..N : r >= e => w[r] = w[e]}
  <2> HIDE DEF w, N
  <2>1. 0 \in R
    <3>1. 0 \in 0..N /\ (0 >= e => e = 0)
      BY <1>1, <1>6
    <3> QED
      BY <3>1
  <2>2. ASSUME NEW r \in 0..N, r \in R, r < N PROVE r + 1 \in R
    <3>1. r + 1 \in 0..N
      BY <1>1, <2>2
    <3>2. r + 1 >= e => r >= e \/ r + 1 = e
      BY <1>1, <1>6
    <3>3. r >= e => w[r + 1] = w[e]
      BY <1>4, <2>2
    <3> QED
      BY <3>1, <3>2, <3>3
  <2>3. \A r \in 0..N : r \in R
    <3> HIDE DEF R
    <3> QED
      BY <1>1, <2>1, <2>2, Climb
  <2> QED
    BY <2>3
<1> DEFINE far == {r \in 0..N : \A j \in 0..(r - 1) : loggers[w[j]].additivity}
<1>15. Additive(l) = {w[r] : r \in far}
  BY DEF Additive, Above
<1>16. ASSUME NEW x PROVE x \in Seen(e + 1) => x \in holds /\ x \in {w[r] : r \in far}
  <2> SUFFICES ASSUME x \in holds, NEW i \in 0..N, i < e + 1, x = w[i] PROVE i \in far
    OBVIOUS
  <2>1. \A j \in 0..(i - 1) : j \in 0..N /\ j < e
    BY <1>1, <1>6
  <2> HIDE DEF w, N
  <2> QED
    BY <1>6, <2>1
<1>17. ASSUME NEW x, x \in holds, NEW r \in far, x = w[r] PROVE x \in Seen(e + 1)
  <2>1. r \in 0..N
    OBVIOUS
  <2>2. CASE r < e + 1
    BY <1>17, <2>1, <2>2
  <2>3. CASE ~(r < e + 1)
    <3>1. e \in 0..(r - 1) /\ r >= e
      BY <1>1, <1>6, <2>1, <2>3
    <3>2. loggers[w[e]].additivity
      BY <3>1
    <3>3. loggers[w[e]].kind # "logger"
      BY <1>6, <3>2
    <3>4. w[r] = w[e]
      BY <1>14, <2>1, <3>1, <3>3
    <3> QED
      BY <1>17, <3>3, <3>4
  <2> QED
    BY <2>2, <2>3
<1>18. {w[r] : r \in far} \subseteq LoggerIds
  BY <1>3
<1>19. {x \in Additive(l) : loggers[x].kind = "logger" /\ a \in Elements(loggers[x].slots)} = Seen(e + 1)
  <2>1. {x \in Additive(l) : loggers[x].kind = "logger" /\ a \in Elements(loggers[x].slots)}
          = {x \in {w[r] : r \in far} : x \in holds}
    BY <1>15, <1>18
  <2>2. \A x : x \in Seen(e + 1) <=> x \in {w[r] : r \in far} /\ x \in holds
    <3> HIDE DEF Seen, holds, far, w
    <3> QED
      BY <1>16, <1>17
  <2> HIDE DEF Seen, holds, far, w
  <2> QED
    BY <2>1, <2>2
<1> QED
  BY <1>13, <1>19 DEF M

\* A message reaches an appender once for every ordinary logger that holds it on
\* the way up as far as additivity lets it go, for any parents that programs set
\* as long as the way up ends, and however often a configuration attaches the
\* same appender.  What the root or a custom logger holds adds nothing.
THEOREM DeliveredOncePerLoggerCorrect == Spec => []DeliveredOncePerLogger
<1>1. TypeOK /\ AttachedOnce /\ PredefinedKinds => DeliveredOncePerLogger
  <2> SUFFICES ASSUME TypeOK, AttachedOnce, PredefinedKinds, NEW l \in LoggerIds, EndsAbove(l),
                      Cardinality(Upward(l)) <= MaxRecursions + 1, NEW a \in AppenderIds
               PROVE  Deliveries(l)[a] =
                        Cardinality({x \in Additive(l) : /\ loggers[x].kind = "logger"
                                                         /\ a \in Elements(loggers[x].slots)})
    BY DEF DeliveredOncePerLogger
  <2>1. ParentsThere
    BY ParentsAreThere
  <2>2. Deliveries(l) = Sums[MaxRecursions][l]
    BY <2>1, SumsAre
  <2> QED
    BY <2>1, <2>2, SumIsCount
<1>2. IInv => TypeOK /\ AttachedOnce
  BY DEF IInv
<1> QED
  BY <1>1, <1>2, InitInv, NextInv, InitKinds, NextKinds, PTL DEF Spec
=============================================================================
