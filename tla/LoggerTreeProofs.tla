--------------------------- MODULE LoggerTreeProofs ---------------------------
(***************************************************************************)
(* Proofs about LoggerTree: for any names, classes, levels, sizes and      *)
(* bounds, every reference that a logger holds to an appender is counted   *)
(* once, and no appender takes two slots of one logger.                    *)
(***************************************************************************)
EXTENDS LoggerTree, FiniteSetTheorems, SequenceTheorems, WellFoundedInduction, TLAPS

\* The account can only be kept if appenders are where the slots say and no
\* count falls below zero, so the three are proved together.
IInv == TypeOK /\ RefcountExact /\ AttachedOnce

-----------------------------------------------------------------------------
(* Sets of naturals *)

\* A set of naturals that is not empty has a least element.
LEMMA Least ==
  ASSUME NEW S, S \subseteq Nat, S # {}
  PROVE  \E x \in S : \A y \in S : x <= y
<1> DEFINE less == OpToRel(<, Nat)
<1>1. \E x \in S : \A y \in S : <<y, x>> \notin less
  BY WFMin, NatLessThanWellFounded, Zenon
<1>2. \A x, y \in Nat : y < x => <<y, x>> \in less
  BY DEF OpToRel
<1> HIDE DEF less
<1>3. PICK x \in S : \A y \in S : <<y, x>> \notin less
  BY <1>1
<1>4. ASSUME NEW y \in S PROVE x <= y
  <2>1. x \in Nat /\ y \in Nat /\ ~(y < x)
    BY <1>2, <1>3
  <2> QED
    BY <2>1
<1> QED
  BY <1>4

\* A set of naturals with a bound that is not empty has a greatest element.
LEMMA Greatest ==
  ASSUME NEW S, S # {}, NEW n \in Nat, S \subseteq 0..n
  PROVE  \E x \in S : \A y \in S : y <= x
<1> DEFINE T == {k \in 0..n : n - k \in S}
<1>1. \A y \in S : n - y \in T
  OBVIOUS
<1>2. T # {}
  BY <1>1
<1>3. PICK k \in T : \A j \in T : k <= j
  BY <1>2, Least, T \subseteq Nat
<1>4. n - k \in S
  BY <1>3
<1>5. ASSUME NEW y \in S PROVE y <= n - k
  BY <1>1, <1>3
<1> QED
  BY <1>4, <1>5

-----------------------------------------------------------------------------
(* Loggers that are found and loggers that are created *)

\* A search answers with a place of the list or 0.
LEMMA LookupType ==
  ASSUME NEW ls, NEW len \in Nat, DOMAIN ls = 1..len, NEW n
  PROVE  Lookup(ls, n) \in 0..len
<1> DEFINE named == {i \in DOMAIN ls : ls[i].name = n}
<1>1. CASE named = {}
  BY <1>1 DEF Lookup
<1>2. CASE named # {}
  <2>0. named \subseteq Nat
    OBVIOUS
  <2> HIDE DEF named
  <2>1. \E i \in named : \A j \in named : i <= j
    BY <1>2, <2>0, Least
  <2> USE DEF named
  <2> QED
    BY <1>2, <2>1 DEF Lookup
<1> QED
  BY <1>1, <1>2

\* A name that is cut is a name.
LEMMA StoredType ==
  ASSUME NEW n \in Seq(NameParts) \ {<< >>}
  PROVE  Stored(n) \in Seq(NameParts) \ {<< >>}
<1> DEFINE h == NameSize \div 2
<1>1. CASE Fits(n)
  BY <1>1 DEF Stored
<1>2. CASE ~Fits(n)
  <2>1. h \in 1..Len(n)
    BY <1>2, SizesAssumption, LenProperties DEF Fits
  <2>2. Prefix(n, h) \in Seq(NameParts) /\ Len(Prefix(n, h)) = h
    BY <2>1, SubSeqProperties, LenProperties DEF Prefix
  <2>5. "" \in NameParts
    BY DEF NameParts
  <2>3. /\ Append(Prefix(n, h), "") \in Seq(NameParts)
        /\ Append(Prefix(n, h), "") # << >>
    <3> DEFINE p == Prefix(n, h)
               e == ""
    <3>1. p \in Seq(NameParts) /\ e \in NameParts
      BY <2>2, <2>5
    <3> HIDE DEF p, e
    <3>2. Append(p, e) \in Seq(NameParts) /\ Append(p, e) # << >>
      BY <3>1, AppendProperties
    <3> QED
      BY <3>2 DEF p, e
  <2>4. Prefix(n, h) # << >>
    BY <2>1, <2>2
  <2> QED
    BY <1>2, <2>2, <2>3, <2>4 DEF Stored
<1> QED
  BY <1>1, <1>2

\* The recursion over the prefixes of a name ends inside the name.
LEMMA AncestorType ==
  ASSUME NEW ls, NEW n \in Seq(NameParts) \ {<< >>}
  PROVE  /\ Ancestor(ls, n) \in 0..(Len(n) - 1)
         /\ Ancestor(ls, n) # 0 => FoundAt(ls, n, Ancestor(ls, n)) # 0
<1> DEFINE found == {k \in 1..(Len(n) - 1) : FoundAt(ls, n, k) # 0}
<1>1. Len(n) \in Nat /\ Len(n) > 0
  BY LenProperties, EmptySeq
<1>2. CASE found = {}
  BY <1>1, <1>2 DEF Ancestor
<1>3. CASE found # {}
  <2>1. found \subseteq 0..Len(n)
    BY <1>1
  <2>2. \E k \in found : \A j \in found : j <= k
    BY <1>1, <1>3, <2>1, Greatest
  <2>3. Ancestor(ls, n) \in found
    BY <1>3, <2>2 DEF Ancestor
  <2> QED
    BY <1>1, <2>3
<1> QED
  BY <1>2, <1>3

\* What init_logger and set_logger_name make is a logger with empty slots.
LEMMA LoggerIsTyped ==
  ASSUME NEW n \in Seq(NameParts) \ {<< >>}, NEW parent \in Nat
  PROVE  LET lg == Logger(n, "logger", INHERIT_LEVEL, TRUE, parent) IN
         lg \in LoggerType /\ lg.slots = Empty /\ lg.parent = parent
<1>1. Stored(n) \in Seq(NameParts) \ {<< >>}
  BY StoredType
<1>2. Empty \in [Slots -> Nat]
  BY DEF Empty
<1> QED
  BY <1>1, <1>2 DEF Logger, LoggerType, INHERIT_LEVEL

\* A logger with another parent is a logger with the same slots.
LEMMA ParentIsTyped ==
  ASSUME NEW lg \in LoggerType, NEW p \in Nat
  PROVE  /\ [lg EXCEPT !.parent = p] \in LoggerType
         /\ [lg EXCEPT !.parent = p].slots = lg.slots
         /\ [lg EXCEPT !.parent = p].parent = p
BY DEF LoggerType

\* The recursion leaves the loggers of the list as they are; each new logger
\* has empty slots and the next one as its parent.
LEMMA JoinedExtends ==
  ASSUME NEW ls \in Seq(LoggerType), NEW n \in Seq(NameParts) \ {<< >>},
         NEW k \in 1..Len(n)
  PROVE  /\ Joined(ls, n, k) \in Seq(LoggerType)
         /\ Len(Joined(ls, n, k)) = Len(ls) + Len(n) - k + 1
         /\ \A i \in 1..Len(ls) : Joined(ls, n, k)[i] = ls[i]
         /\ \A i \in (Len(ls) + 1)..Len(Joined(ls, n, k)) :
              /\ Joined(ls, n, k)[i].slots = Empty
              /\ Joined(ls, n, k)[i].parent = i + 1
<1> DEFINE m == Len(n) - k + 1
           new(i) == Logger(Prefix(n, Len(n) - i + 1), "logger", INHERIT_LEVEL, TRUE,
                            Len(ls) + i + 1)
           added == [i \in 1..m |-> new(i)]
<1>1. Len(n) \in Nat /\ Len(ls) \in Nat /\ m \in Nat /\ k \in Nat /\ k > 0
  BY LenProperties
<1>2. ASSUME NEW i \in 1..m
      PROVE  new(i) \in LoggerType /\ new(i).slots = Empty /\ new(i).parent = Len(ls) + i + 1
  <2> DEFINE j == Len(n) - i + 1
  <2>1. j \in 1..Len(n)
    BY <1>1
  <2>2. Prefix(n, j) \in Seq(NameParts) /\ Len(Prefix(n, j)) = j
    BY <1>1, <2>1, SubSeqProperties, ElementOfSeq DEF Prefix
  <2>3. Prefix(n, j) # << >>
    BY <2>1, <2>2
  <2>4. Len(ls) + i + 1 \in Nat
    BY <1>1
  <2> QED
    BY <2>2, <2>3, <2>4, LoggerIsTyped
<1> HIDE DEF new, m
<1>3. added \in Seq(LoggerType) /\ Len(added) = m /\ \A i \in 1..m : added[i] = new(i)
  BY <1>1, <1>2, LenProperties, SeqDef
<1>4. Joined(ls, n, k) = ls \o added
  BY DEF Joined, new, m
<1> HIDE DEF added
<1>5. /\ ls \o added \in Seq(LoggerType)
      /\ Len(ls \o added) = Len(ls) + m
      /\ \A i \in 1..Len(ls) + m :
           (ls \o added)[i] = IF i <= Len(ls) THEN ls[i] ELSE added[i - Len(ls)]
  BY <1>3, ConcatProperties
<1>6. ASSUME NEW i \in (Len(ls) + 1)..(Len(ls) + m)
      PROVE  (ls \o added)[i].slots = Empty /\ (ls \o added)[i].parent = i + 1
  <2>1. i - Len(ls) \in 1..m /\ i \in 1..Len(ls) + m /\ ~(i <= Len(ls))
    BY <1>1
  <2>2. (ls \o added)[i] = new(i - Len(ls))
    BY <1>3, <1>5, <2>1
  <2>3. Len(ls) + (i - Len(ls)) + 1 = i + 1
    BY <1>1
  <2> QED
    BY <1>2, <2>1, <2>2, <2>3
<1>7. \A i \in 1..Len(ls) : (ls \o added)[i] = ls[i]
  BY <1>1, <1>5
<1> QED
  BY <1>1, <1>4, <1>5, <1>6, <1>7 DEF m

\* l4sc_get_logger leaves the loggers of the list as they are and adds
\* loggers with parents in the list and empty slots; what it returns is one of
\* the list.
LEMMA WithLoggerExtends ==
  ASSUME NEW ls \in Seq(LoggerType), Len(ls) > 0,
         NEW n \in Seq(NameParts) \ {<< >>}
  PROVE  /\ WithLogger(ls, n) \in Seq(LoggerType)
         /\ Len(WithLogger(ls, n)) >= Len(ls)
         /\ \A i \in 1..Len(ls) : WithLogger(ls, n)[i] = ls[i]
         /\ \A i \in (Len(ls) + 1)..Len(WithLogger(ls, n)) :
              /\ WithLogger(ls, n)[i].slots = Empty
              /\ WithLogger(ls, n)[i].parent \in 1..Len(WithLogger(ls, n))
         /\ LoggerNamed(ls, n) \in 1..Len(WithLogger(ls, n))
<1> DEFINE k == Ancestor(ls, n)
           new == Joined(ls, n, k + 1)
           parent == IF k = 0 THEN Root ELSE FoundAt(ls, n, k)
<1>1. Len(ls) \in Nat /\ DOMAIN ls = 1..Len(ls) /\ Len(n) \in Nat /\ Len(n) > 0
  BY LenProperties, EmptySeq
<1>2. Lookup(ls, n) \in 0..Len(ls)
  BY <1>1, LookupType
<1>3. CASE Lookup(ls, n) # 0
  BY <1>1, <1>2, <1>3 DEF WithLogger, LoggerNamed
<1>4. CASE Lookup(ls, n) = 0
  <2>1. k \in 0..(Len(n) - 1) /\ (k # 0 => FoundAt(ls, n, k) # 0)
    BY AncestorType
  <2>2. k + 1 \in 1..Len(n)
    BY <1>1, <2>1
  <2>3. /\ new \in Seq(LoggerType)
        /\ Len(new) = Len(ls) + Len(n) - (k + 1) + 1
        /\ \A i \in 1..Len(ls) : new[i] = ls[i]
        /\ \A i \in (Len(ls) + 1)..Len(new) : new[i].slots = Empty /\ new[i].parent = i + 1
    BY <2>2, JoinedExtends
  <2>4. WithLogger(ls, n) = [new EXCEPT ![Len(new)].parent = parent]
    BY <1>4 DEF WithLogger
  <2>5. FoundAt(ls, n, k) \in 0..Len(new)
    <3>1. DOMAIN new = 1..Len(new) /\ Len(new) \in Nat
      BY <2>3, LenProperties
    <3> QED
      BY <3>1, LookupType DEF FoundAt
  <2> HIDE DEF new, k
  <2>6. Len(new) \in Nat /\ Len(new) > Len(ls)
    BY <1>1, <2>1, <2>3
  <2>7. parent \in 1..Len(new)
    BY <1>1, <2>1, <2>5, <2>6 DEF Root
  <2> HIDE DEF parent
  <2> DEFINE last == [new[Len(new)] EXCEPT !.parent = parent]
  <2>8. last \in LoggerType /\ last.slots = new[Len(new)].slots /\ last.parent = parent
    <3>1. new[Len(new)] \in LoggerType
      BY <2>3, <2>6, ElementOfSeq
    <3>2. parent \in Nat
      BY <2>6, <2>7
    <3> QED
      BY <3>1, <3>2, ParentIsTyped DEF last
  <2>9. WithLogger(ls, n) = [new EXCEPT ![Len(new)] = last]
    BY <2>4
  <2> HIDE DEF last
  <2>10. /\ [new EXCEPT ![Len(new)] = last] \in Seq(LoggerType)
         /\ Len([new EXCEPT ![Len(new)] = last]) = Len(new)
         /\ \A i \in 1..Len(new) :
              [new EXCEPT ![Len(new)] = last][i] = IF i = Len(new) THEN last ELSE new[i]
    BY <2>3, <2>6, <2>8, ExceptSeq
  <2>11. LoggerNamed(ls, n) = Len(ls) + 1
    BY <1>4 DEF LoggerNamed
  <2>12. \A i \in 1..Len(ls) : WithLogger(ls, n)[i] = ls[i]
    BY <1>1, <2>3, <2>6, <2>9, <2>10
  <2>13. ASSUME NEW i \in (Len(ls) + 1)..Len(new)
         PROVE  WithLogger(ls, n)[i].slots = Empty /\ WithLogger(ls, n)[i].parent \in 1..Len(new)
    <3>1. CASE i = Len(new)
      BY <1>1, <2>3, <2>6, <2>7, <2>8, <2>9, <2>10, <3>1
    <3>2. CASE i # Len(new)
      BY <1>1, <2>3, <2>6, <2>9, <2>10, <3>2
    <3> QED
      BY <3>1, <3>2
  <2>14. Len(WithLogger(ls, n)) = Len(new) /\ WithLogger(ls, n) \in Seq(LoggerType)
    BY <2>9, <2>10
  <2>15. LoggerNamed(ls, n) \in 1..Len(new) /\ Len(new) >= Len(ls)
    BY <1>1, <2>6, <2>11
  <2> QED
    BY <2>12, <2>13, <2>14, <2>15
<1> QED
  BY <1>2, <1>3, <1>4

-----------------------------------------------------------------------------
(* The registry *)

\* l4sc_get_appender finds an appender of the list or none.
LEMMA FindAppenderType ==
  ASSUME Len(appenders) \in Nat, NEW n
  PROVE  FindAppender(n) \in 0..Len(appenders)
<1> DEFINE named == {a \in AppenderIds : appenders[a].name = n}
<1>1. CASE named = {}
  BY <1>1 DEF FindAppender
<1>2. CASE named # {}
  <2>1. named \subseteq 0..Len(appenders)
    BY DEF AppenderIds
  <2> HIDE DEF named
  <2>2. \E a \in named : \A b \in named : b <= a
    BY <1>2, <2>1, Greatest
  <2> USE DEF named
  <2>3. FindAppender(n) \in named
    BY <1>2, <2>2 DEF FindAppender
  <2> QED
    BY <2>1, <2>3
<1> QED
  BY <1>1, <1>2

\* Whatever class a configuration asks for, the appender gets one that exists.
LEMMA ClassOfType ==
  ASSUME RegistryTypeOK, NEW k \in Kinds
  PROVE  ClassOf(k) \in Classes
<1>1. CASE k.tail = File
  BY <1>1 DEF ClassOf, Classes
<1>2. CASE IsExtraClass(k)
  <2>1. Elements(extra) \subseteq ExtraClasses
    BY ElementOfSeq, LenProperties DEF Elements, RegistryTypeOK
  <2> QED
    BY <1>2, <2>1 DEF ClassOf, Classes, IsExtraClass
<1>3. CASE IsClassInUse(k)
  <2>1. PICK a \in AppenderIds : appenders[a].class = k.tail
    BY <1>3 DEF IsClassInUse
  <2>2. appenders[a] \in Appender
    BY ElementOfSeq DEF AppenderIds, RegistryTypeOK
  <2> QED
    BY <1>3, <2>1, <2>2 DEF ClassOf, Appender
<1>4. CASE ~(k.tail = File \/ IsExtraClass(k) \/ IsClassInUse(k))
  BY <1>4 DEF ClassOf, Classes
<1> QED
  BY <1>1, <1>2, <1>3, <1>4

\* An appender that is closed for good keeps its class and its references.
LEMMA ObsoleteIsTyped ==
  ASSUME NEW a \in Appender
  PROVE  /\ [a EXCEPT !.name = Obsolete, !.open = FALSE] \in Appender
         /\ [a EXCEPT !.name = Obsolete, !.open = FALSE].refc = a.refc
BY DEF Appender

\* Appenders that open their files stay what they are.
LEMMA OpenStep ==
  ASSUME RegistryTypeOK, NEW S, OpenOnAppend(S), UNCHANGED extra
  PROVE  /\ RegistryTypeOK' /\ Len(appenders') = Len(appenders)
         /\ \A a \in AppenderIds : appenders'[a].refc = appenders[a].refc
<1>1. /\ appenders \in Seq(Appender) /\ Len(appenders) \in Nat
      /\ \A a \in AppenderIds : appenders[a] \in Appender
  BY ElementOfSeq, LenProperties DEF AppenderIds, RegistryTypeOK
<1> DEFINE new(a) == [appenders[a] EXCEPT !.open = @ \/ (a \in S /\ appenders[a].class # Sysout)]
<1>2. ASSUME NEW a \in AppenderIds
      PROVE  new(a) \in Appender /\ new(a).refc = appenders[a].refc
  BY <1>1 DEF Appender
<1>3. appenders' = [a \in 1..Len(appenders) |-> new(a)]
  BY DEF OpenOnAppend, AppenderIds
<1> HIDE DEF new
<1>4. appenders' \in Seq(Appender) /\ Len(appenders') = Len(appenders)
  BY <1>1, <1>2, <1>3, SeqDef, LenProperties DEF AppenderIds
<1> QED
  BY <1>2, <1>3, <1>4 DEF RegistryTypeOK, AppenderIds

\* A step of the registry keeps the types, the number and the reference counts
\* of the appenders; a new one starts with the reference of the registry.
LEMMA RegistryStep ==
  ASSUME RegistryTypeOK, RegistryNext
  PROVE  /\ RegistryTypeOK'
         /\ Len(appenders') >= Len(appenders)
         /\ \A a \in AppenderIds : appenders'[a].refc = appenders[a].refc
         /\ \A a \in AppenderIds' : a > Len(appenders) => appenders'[a].refc = 1
<1>1. /\ appenders \in Seq(Appender) /\ Len(appenders) \in Nat
      /\ DOMAIN appenders = AppenderIds
      /\ \A a \in AppenderIds : appenders[a] \in Appender
  BY ElementOfSeq, LenProperties DEF AppenderIds, RegistryTypeOK
<1>2. ASSUME NEW c \in ExtraClasses, RegisterExtraClass(c)
      PROVE  RegistryTypeOK' /\ appenders' = appenders
  <2>1. Append(extra, c) \in Seq(ExtraClasses) /\ Len(Append(extra, c)) = Len(extra) + 1
    BY AppendProperties DEF RegistryTypeOK
  <2>2. Len(extra) \in Nat
    BY LenProperties DEF RegistryTypeOK
  <2> QED
    BY <1>2, <2>1, <2>2, MaxExtraClassesAssumption DEF RegisterExtraClass, RegistryTypeOK
<1>3. ASSUME NEW n \in AppenderNames, NEW k \in Kinds, GetAppender(n, k)
      PROVE  /\ RegistryTypeOK'
             /\ Len(appenders') = Len(appenders) + 1
             /\ \A a \in AppenderIds : appenders'[a].refc = appenders[a].refc
             /\ appenders'[Len(appenders) + 1].refc = 1
  <2> DEFINE f == FindAppender(n)
             closed == [appenders[f] EXCEPT !.name = Obsolete, !.open = FALSE]
             rest == IF f = 0 THEN appenders ELSE [appenders EXCEPT ![f] = closed]
             new == NewAppender(n, ClassOf(k))
  <2>1. f \in 0..Len(appenders)
    BY <1>1, FindAppenderType
  <2>2. new \in Appender /\ new.refc = 1
    BY ClassOfType, KeptNameAssumption DEF NewAppender, Appender
  <2>3. ASSUME f # 0
        PROVE  closed \in Appender /\ closed.refc = appenders[f].refc
    <3>1. f \in AppenderIds
      BY <1>1, <2>1, <2>3 DEF AppenderIds
    <3> QED
      BY <1>1, <3>1, ObsoleteIsTyped
  <2>4. appenders' = Append(rest, new)
    BY <1>3 DEF GetAppender
  <2> HIDE DEF f, closed, new
  <2>5. /\ rest \in Seq(Appender) /\ Len(rest) = Len(appenders)
        /\ \A a \in AppenderIds : rest[a].refc = appenders[a].refc
    <3>1. CASE f = 0
      BY <1>1, <3>1
    <3>2. CASE f # 0
      <4>1. f \in 1..Len(appenders)
        BY <1>1, <2>1, <3>2
      <4> QED
        BY <1>1, <2>3, <3>2, <4>1, ExceptSeq DEF AppenderIds
    <3> QED
      BY <3>1, <3>2
  <2> HIDE DEF rest
  <2>6. /\ Append(rest, new) \in Seq(Appender)
        /\ Len(Append(rest, new)) = Len(appenders) + 1
        /\ \A a \in AppenderIds : Append(rest, new)[a] = rest[a]
        /\ Append(rest, new)[Len(appenders) + 1] = new
    BY <2>2, <2>5, AppendProperties DEF AppenderIds
  <2>7. UNCHANGED extra
    BY <1>3 DEF GetAppender
  <2> QED
    BY <2>2, <2>4, <2>5, <2>6, <2>7 DEF RegistryTypeOK
<1>4. ASSUME NEW a \in AppenderIds, OpenOnAppend({a}), UNCHANGED extra
      PROVE  /\ RegistryTypeOK' /\ Len(appenders') = Len(appenders)
             /\ \A b \in AppenderIds : appenders'[b].refc = appenders[b].refc
  BY <1>4, OpenStep
<1>5. ASSUME CloseAppenders
      PROVE  /\ RegistryTypeOK' /\ Len(appenders') = Len(appenders)
             /\ \A a \in AppenderIds : appenders'[a].refc = appenders[a].refc
  <2> DEFINE new(a) == [appenders[a] EXCEPT !.open = FALSE]
  <2>1. ASSUME NEW a \in AppenderIds
        PROVE  new(a) \in Appender /\ new(a).refc = appenders[a].refc
    BY <1>1 DEF Appender
  <2>2. appenders' = [a \in 1..Len(appenders) |-> new(a)] /\ UNCHANGED extra
    BY <1>5 DEF CloseAppenders, AppenderIds
  <2> HIDE DEF new
  <2>3. appenders' \in Seq(Appender) /\ Len(appenders') = Len(appenders)
    BY <1>1, <2>1, <2>2, SeqDef, LenProperties DEF AppenderIds
  <2> QED
    BY <2>1, <2>2, <2>3 DEF RegistryTypeOK, AppenderIds
<1>6. CASE \E c \in ExtraClasses : RegisterExtraClass(c)
  BY <1>1, <1>2, <1>6 DEF AppenderIds
<1>7. CASE \E n \in AppenderNames, k \in Kinds : GetAppender(n, k)
  <2>1. PICK n \in AppenderNames, k \in Kinds : GetAppender(n, k)
    BY <1>7
  <2>2. \A a \in AppenderIds' : a > Len(appenders) => a = Len(appenders) + 1
    BY <1>1, <1>3, <2>1 DEF AppenderIds
  <2> QED
    BY <1>1, <1>3, <2>1, <2>2
<1>8. CASE \E a \in AppenderIds : OpenOnAppend({a}) /\ UNCHANGED extra
  BY <1>1, <1>4, <1>8 DEF AppenderIds
<1>9. CASE CloseAppenders
  BY <1>1, <1>5, <1>9 DEF AppenderIds
<1> QED
  BY <1>6, <1>7, <1>8, <1>9 DEF RegistryNext

-----------------------------------------------------------------------------
(* Slots and references *)

\* What the types say of a slot.
LEMMA SlotsAreTyped ==
  ASSUME TypeOK
  PROVE  /\ Len(loggers) \in Nat /\ Len(appenders) \in Nat
         /\ DOMAIN loggers = LoggerIds /\ DOMAIN appenders = AppenderIds
         /\ \A l \in LoggerIds : loggers[l] \in LoggerType
         /\ \A l \in LoggerIds : loggers[l].slots \in [Slots -> {0} \union AppenderIds]
         /\ \A a \in AppenderIds : appenders[a] \in Appender
<1>1. /\ Len(loggers) \in Nat /\ DOMAIN loggers = LoggerIds
      /\ \A l \in LoggerIds : loggers[l] \in LoggerType
  BY ElementOfSeq, LenProperties DEF LoggerIds, TypeOK
<1>2. /\ Len(appenders) \in Nat /\ DOMAIN appenders = AppenderIds
      /\ \A a \in AppenderIds : appenders[a] \in Appender
  BY ElementOfSeq, LenProperties DEF AppenderIds, TypeOK, RegistryTypeOK
<1>3. ASSUME NEW l \in LoggerIds
      PROVE  loggers[l].slots \in [Slots -> {0} \union AppenderIds]
  <2>1. loggers[l].slots \in [Slots -> Nat]
    BY <1>1 DEF LoggerType
  <2>2. \A i \in Slots : loggers[l].slots[i] \in {0} \union AppenderIds
    BY DEF TypeOK
  <2> QED
    BY <2>1, <2>2
<1> QED
  BY <1>1, <1>2, <1>3

\* The attachments of an appender can be counted.
LEMMA AttachmentsFinite ==
  ASSUME TypeOK, NEW a
  PROVE  IsFiniteSet(Attachments(a)) /\ Cardinality(Attachments(a)) \in Nat
<1>1. IsFiniteSet(LoggerIds)
  BY SlotsAreTyped, FS_Interval DEF LoggerIds
<1>2. IsFiniteSet(Slots)
  BY SizesAssumption, FS_Interval DEF Slots
<1>3. IsFiniteSet(LoggerIds \X Slots)
  BY <1>1, <1>2, FS_Product
<1>4. Attachments(a) \subseteq LoggerIds \X Slots
  BY DEF Attachments
<1> QED
  BY <1>3, <1>4, FS_Subset, FS_CardinalityType

\* Clearing the slots C of the logger l takes as many attachments from an
\* appender as there are slots in C that hold it.
LEMMA SweepCount ==
  ASSUME TypeOK, NEW l \in LoggerIds, NEW C \in SUBSET Slots, NEW a
  PROVE  LET D == {i \in C : loggers[l].slots[i] = a}
             left == Attachments(a) \ {<<l, i>> : i \in D} IN
         /\ Cardinality(D) \in Nat
         /\ IsFiniteSet(left) /\ Cardinality(left) \in Nat
         /\ Cardinality(left) = Cardinality(Attachments(a)) - Cardinality(D)
<1> DEFINE D == {i \in C : loggers[l].slots[i] = a}
           gone == {<<l, i>> : i \in D}
           f == [i \in D |-> <<l, i>>]
<1>1. IsFiniteSet(D)
  <2>1. IsFiniteSet(Slots)
    BY SizesAssumption, FS_Interval DEF Slots
  <2>2. D \in SUBSET Slots
    OBVIOUS
  <2> QED
    BY <2>1, <2>2, FS_Subset
<1>2. gone \subseteq Attachments(a)
  BY DEF Attachments
<1>3. f \in Bijection(D, gone)
  BY DEF Bijection, Injection, Surjection, IsInjective
<1>4. IsFiniteSet(gone) /\ Cardinality(gone) = Cardinality(D) /\ Cardinality(D) \in Nat
  <2>1. ExistsBijection(D, gone)
    BY <1>3 DEF ExistsBijection
  <2> QED
    BY <1>1, <2>1, FS_Bijection, FS_CardinalityType
<1>5. Attachments(a) \cap gone = gone
  BY <1>2
<1> HIDE DEF D, gone
<1>6. /\ IsFiniteSet(Attachments(a) \ gone)
      /\ Cardinality(Attachments(a) \ gone) = Cardinality(Attachments(a)) - Cardinality(D)
  <2> DEFINE A == Attachments(a)
  <2>1. IsFiniteSet(A) /\ A \cap gone = gone
    BY <1>5, AttachmentsFinite
  <2> HIDE DEF A
  <2>2. IsFiniteSet(A \ gone) /\ Cardinality(A \ gone) = Cardinality(A) - Cardinality(A \cap gone)
    BY <2>1, FS_Difference, Zenon
  <2> QED
    BY <1>4, <2>1, <2>2 DEF A
<1>7. Cardinality(Attachments(a) \ gone) \in Nat
  BY <1>6, FS_CardinalityType
<1> QED
  BY <1>4, <1>6, <1>7 DEF D, gone

\* Loggers and appenders that are added, with empty slots and one reference,
\* leave the account as it is.
LEMMA KeptSlots ==
  ASSUME IInv,
         Len(loggers') \in Nat, Len(loggers') >= Len(loggers),
         \A l \in LoggerIds : loggers'[l].slots = loggers[l].slots,
         \A l \in LoggerIds' : l > Len(loggers) => loggers'[l].slots = Empty,
         Len(appenders') \in Nat, Len(appenders') >= Len(appenders),
         \A a \in AppenderIds : appenders'[a].refc = appenders[a].refc,
         \A a \in AppenderIds' : a > Len(appenders) => appenders'[a].refc = 1
  PROVE  /\ \A l \in LoggerIds' : \A i \in Slots : loggers'[l].slots[i] \in {0} \union AppenderIds
         /\ RefcountExact' /\ AttachedOnce'
<1>1. TypeOK /\ RefcountExact /\ AttachedOnce
  BY DEF IInv
<1>2. Len(loggers) \in Nat /\ Len(appenders) \in Nat
  BY <1>1, SlotsAreTyped
<1>3. \A l \in LoggerIds' : l \in LoggerIds \/ l > Len(loggers)
  BY <1>2 DEF LoggerIds
<1>4. \A l \in LoggerIds : l \in LoggerIds'
  BY <1>2 DEF LoggerIds
<1>5. \A i \in Slots : Empty[i] = 0
  BY DEF Empty
<1>6. ASSUME NEW l \in LoggerIds', NEW i \in Slots
      PROVE  /\ loggers'[l].slots[i] \in {0} \union AppenderIds
             /\ loggers'[l].slots[i] # 0 => l \in LoggerIds
  BY <1>1, <1>3, <1>5, SlotsAreTyped
<1>7. ASSUME NEW a, a # 0
      PROVE  Attachments(a)' = Attachments(a)
  BY <1>3, <1>4, <1>5, <1>7 DEF Attachments
<1>8. RefcountExact'
  <2> SUFFICES ASSUME NEW a \in AppenderIds'
               PROVE  appenders'[a].refc = 1 + Cardinality(Attachments(a)')
    BY DEF RefcountExact
  <2>1. a # 0
    BY DEF AppenderIds
  <2>2. Attachments(a)' = Attachments(a)
    BY <1>7, <2>1
  <2>3. CASE a \in AppenderIds
    BY <1>1, <2>2, <2>3 DEF RefcountExact
  <2>4. CASE a \notin AppenderIds
    <3>1. a > Len(appenders)
      BY <1>2, <2>4 DEF AppenderIds
    <3>2. Attachments(a) = {}
      BY <1>1, <2>1, <2>4, SlotsAreTyped DEF Attachments
    <3> QED
      BY <2>2, <3>1, <3>2, FS_EmptySet
  <2> QED
    BY <2>3, <2>4
<1>9. AttachedOnce'
  BY <1>1, <1>3, <1>5 DEF AttachedOnce
<1> QED
  BY <1>6, <1>8, <1>9

\* The logger l gives up the appenders in its slots C and, if "attach", takes
\* the appender a, which no other slot of it holds, into a free slot.
SlotStep(l, C, attach, a, first) ==
  LET swept == Without(loggers[l].slots, C)
      released == Release(loggers[l].slots, C) IN
  /\ appenders' = IF attach THEN [released EXCEPT ![a].refc = @ + 1] ELSE released
  /\ loggers' = [loggers EXCEPT ![l].slots =
                   IF attach THEN [swept EXCEPT ![first] = a] ELSE swept]
  /\ UNCHANGED <<extra, adopted>>
  /\ attach => /\ a \in AppenderIds /\ first \in Slots /\ swept[first] = 0
               /\ \A i \in Slots : swept[i] # a

\* The slots and counts after such a step.
SlotEffect(l, C, attach, a, first) ==
  /\ \A b \in AppenderIds :
       appenders'[b] = [appenders[b] EXCEPT !.refc =
         @ - Cardinality({i \in C : loggers[l].slots[i] = b})
           + (IF attach /\ b = a THEN 1 ELSE 0)]
  /\ appenders' = [b \in AppenderIds |-> appenders'[b]]
  /\ loggers' = [loggers EXCEPT ![l] = loggers'[l]]
  /\ \A m \in LoggerIds \ {l} : loggers'[m] = loggers[m]
  /\ \A i \in Slots : loggers'[l].slots[i] =
       IF attach /\ i = first THEN a ELSE IF i \in C THEN 0 ELSE loggers[l].slots[i]
  /\ loggers'[l] = [loggers[l] EXCEPT !.slots = loggers'[l].slots]
  /\ loggers'[l].slots = [i \in Slots |-> loggers'[l].slots[i]]

\* What the step assigns has this effect.
LEMMA SlotStepEffect ==
  ASSUME IInv, NEW l \in LoggerIds, NEW C \in SUBSET Slots,
         NEW attach \in BOOLEAN, NEW a, NEW first, SlotStep(l, C, attach, a, first)
  PROVE  SlotEffect(l, C, attach, a, first)
<1> DEFINE swept == Without(loggers[l].slots, C)
           released == Release(loggers[l].slots, C)
           new == IF attach THEN [swept EXCEPT ![first] = a] ELSE swept
<1>1. DOMAIN loggers = LoggerIds /\ loggers[l] \in LoggerType
      /\ \A b \in AppenderIds : appenders[b] \in Appender
  BY SlotsAreTyped DEF IInv
<1>2. swept = [i \in Slots |-> IF i \in C THEN 0 ELSE loggers[l].slots[i]]
  BY DEF Without
<1>3. \A b \in AppenderIds : released[b] =
        [appenders[b] EXCEPT !.refc = @ - Cardinality({i \in C : loggers[l].slots[i] = b})]
  BY DEF Release
<1>4. DOMAIN released = AppenderIds
  BY DEF Release
<1>5. appenders' = IF attach THEN [released EXCEPT ![a].refc = @ + 1] ELSE released
  BY DEF SlotStep
<1>6. loggers' = [loggers EXCEPT ![l].slots = new]
  BY DEF SlotStep
<1>7. DOMAIN new = Slots /\ \A i \in Slots : new[i] =
        IF attach /\ i = first THEN a ELSE IF i \in C THEN 0 ELSE loggers[l].slots[i]
  BY <1>2
<1>12. released = [b \in AppenderIds |-> released[b]]
  BY DEF Release
<1>13. new = [i \in Slots |-> new[i]]
  BY <1>2
<1> HIDE DEF new, released, swept
<1>8. loggers'[l].slots = new /\ loggers'[l] = [loggers[l] EXCEPT !.slots = new]
  BY <1>1, <1>6 DEF LoggerType
<1>9. ASSUME NEW b \in AppenderIds
      PROVE  appenders'[b] = [appenders[b] EXCEPT !.refc =
                @ - Cardinality({i \in C : loggers[l].slots[i] = b})
                  + (IF attach /\ b = a THEN 1 ELSE 0)]
  <2> DEFINE d == Cardinality({i \in C : loggers[l].slots[i] = b})
  <2>1. d \in Nat
    BY SweepCount DEF IInv
  <2>2. released[b] = [appenders[b] EXCEPT !.refc = @ - d]
    BY <1>3
  <2> HIDE DEF d
  <2>3. appenders[b].refc - d \in Int /\ released[b].refc = appenders[b].refc - d
    BY <1>1, <2>1, <2>2 DEF Appender
  <2>4. CASE attach /\ b = a
    BY <1>1, <1>4, <1>5, <2>1, <2>2, <2>3, <2>4 DEF Appender, d
  <2>5. CASE ~(attach /\ b = a)
    BY <1>1, <1>4, <1>5, <2>1, <2>2, <2>3, <2>5 DEF Appender, d
  <2> QED
    BY <2>4, <2>5
<1>10. appenders' = [b \in AppenderIds |-> appenders'[b]]
  BY <1>4, <1>5, <1>12
<1>11. loggers' = [loggers EXCEPT ![l] = loggers'[l]] /\ \A m \in LoggerIds \ {l} : loggers'[m] = loggers[m]
  BY <1>1, <1>6
<1> QED
  BY <1>7, <1>8, <1>9, <1>10, <1>11, <1>13 DEF SlotEffect

\* Such a step keeps the account: what an appender loses in references it
\* loses in slots.
LEMMA SlotStepInv ==
  ASSUME IInv, NEW l \in LoggerIds, NEW C \in SUBSET Slots,
         NEW attach \in BOOLEAN, NEW a, NEW first, SlotStep(l, C, attach, a, first)
  PROVE  IInv'
<1>0. SlotEffect(l, C, attach, a, first)
  BY SlotStepEffect
<1> DEFINE held(b) == {i \in C : loggers[l].slots[i] = b}
           left(b) == Attachments(b) \ {<<l, i>> : i \in held(b)}
           old == loggers[l].slots
           new == loggers'[l].slots
<1>1. TypeOK /\ RefcountExact /\ AttachedOnce
  BY DEF IInv
<1>2. attach => /\ a \in AppenderIds /\ first \in Slots
                /\ \A i \in Slots : (i \in C \/ old[i] # a)
                /\ first \in C \/ old[first] = 0
  BY DEF SlotStep, Without
<1>3. \A i \in Slots : new[i] = IF attach /\ i = first THEN a ELSE IF i \in C THEN 0 ELSE old[i]
  BY <1>0 DEF SlotEffect
<1>4. \A m \in LoggerIds \ {l} : loggers'[m] = loggers[m]
  BY <1>0 DEF SlotEffect
<1>5. old \in [Slots -> {0} \union AppenderIds]
  BY <1>1, SlotsAreTyped
<1>6. \A b \in AppenderIds : b # 0 /\ b \in Nat
  BY <1>1, SlotsAreTyped DEF AppenderIds
<1>7. new \in [Slots -> {0} \union AppenderIds]
  <2>1. new = [i \in Slots |-> new[i]]
    BY <1>0 DEF SlotEffect
  <2>2. \A i \in Slots : new[i] \in {0} \union AppenderIds
    BY <1>2, <1>3, <1>5
  <2> HIDE DEF new
  <2> QED
    BY <2>1, <2>2
<1>8. loggers' \in Seq(LoggerType) /\ Len(loggers') = Len(loggers)
      /\ loggers'[l].parent = loggers[l].parent
  <2>1. loggers'[l] = [loggers[l] EXCEPT !.slots = new] /\ loggers' = [loggers EXCEPT ![l] = loggers'[l]]
    BY <1>0 DEF SlotEffect
  <2>2. new \in [Slots -> Nat]
    BY <1>6, <1>7
  <2>3. loggers[l] \in LoggerType /\ loggers \in Seq(LoggerType) /\ l \in 1..Len(loggers)
    BY <1>1, SlotsAreTyped DEF TypeOK, LoggerIds
  <2> HIDE DEF new
  <2>4. loggers'[l] \in LoggerType /\ loggers'[l].parent = loggers[l].parent
    BY <2>1, <2>2, <2>3 DEF LoggerType
  <2> QED
    BY <2>1, <2>3, <2>4, ExceptSeq
<1>9. LoggerIds' = LoggerIds
  BY <1>8 DEF LoggerIds
<1>10. ASSUME NEW b \in AppenderIds
       PROVE  Attachments(b)' = left(b) \union (IF attach /\ b = a THEN {<<l, first>>} ELSE {})
  <2>1. b # 0
    BY <1>6
  <2>2. ASSUME NEW m \in LoggerIds, NEW i \in Slots
        PROVE  loggers'[m].slots[i] = b <=>
                 \/ loggers[m].slots[i] = b /\ ~(m = l /\ i \in C)
                 \/ attach /\ b = a /\ m = l /\ i = first
    <3>1. CASE m # l
      BY <1>4, <3>1
    <3>2. CASE m = l
      BY <1>2, <1>3, <2>1, <3>2
    <3> QED
      BY <3>1, <3>2
  <2> HIDE DEF new, old
  <2> QED
    BY <1>2, <1>9, <2>2 DEF Attachments
<1>11. ASSUME NEW b \in AppenderIds
       PROVE  appenders'[b] \in Appender /\ appenders'[b].refc = 1 + Cardinality(Attachments(b)')
  <2> DEFINE d == Cardinality(held(b))
             one == IF attach /\ b = a THEN 1 ELSE 0
             c == Cardinality(left(b))
  <2>1. /\ d \in Nat /\ IsFiniteSet(left(b)) /\ c \in Nat
        /\ c = Cardinality(Attachments(b)) - d
    BY <1>1, SweepCount, ZenonT(60)
  <2>2. appenders'[b] = [appenders[b] EXCEPT !.refc = @ - d + one]
    BY <1>0 DEF SlotEffect
  <2>3. appenders[b] \in Appender /\ appenders[b].refc = 1 + Cardinality(Attachments(b))
    BY <1>1, SlotsAreTyped DEF RefcountExact
  <2>4. Cardinality(Attachments(b)) \in Nat
    BY <1>1, AttachmentsFinite
  <2>5. Cardinality(Attachments(b)') = c + one
    <3>1. CASE attach /\ b = a
      <4>1. <<l, first>> \notin left(b)
        BY <1>2, <1>6, <3>1 DEF Attachments
      <4>2. Attachments(b)' = left(b) \union {<<l, first>>}
        BY <1>10, <3>1
      <4> HIDE DEF left
      <4> QED
        BY <2>1, <3>1, <4>1, <4>2, FS_AddElement, SMTT(30)
    <3>2. CASE ~(attach /\ b = a)
      <4>1. Attachments(b)' = left(b)
        BY <1>10, <3>2
      <4> QED
        BY <2>1, <3>2, <4>1
    <3> QED
      BY <3>1, <3>2
  <2>6. one \in Nat
    OBVIOUS
  <2> HIDE DEF d, one, c
  <2>7. appenders[b].refc - d + one = 1 + (c + one) /\ 1 + (c + one) \in Nat
    BY <2>1, <2>3, <2>4, <2>6
  <2>8. appenders'[b] = [appenders[b] EXCEPT !.refc = 1 + (c + one)]
    BY <2>2, <2>7
  <2> QED
    BY <2>3, <2>5, <2>7, <2>8 DEF Appender
<1>12. appenders' \in Seq(Appender) /\ Len(appenders') = Len(appenders)
  <2>1. appenders' = [b \in 1..Len(appenders) |-> appenders'[b]]
    BY <1>0 DEF SlotEffect, AppenderIds
  <2>2. appenders' \in [1..Len(appenders) -> Appender] /\ Len(appenders) \in Nat
    BY <1>1, <1>11, <2>1, SlotsAreTyped DEF AppenderIds
  <2> QED
    BY <2>2, SeqDef, LenProperties
<1>13. AppenderIds' = AppenderIds
  BY <1>12 DEF AppenderIds
<1>14. TypeOK'
  <2>1. UNCHANGED <<extra, adopted>>
    BY DEF SlotStep
  <2>2. RegistryTypeOK'
    BY <1>1, <1>12, <2>1 DEF TypeOK, RegistryTypeOK
  <2>3. ASSUME NEW m \in LoggerIds
        PROVE  /\ loggers'[m].parent = loggers[m].parent
               /\ \A i \in Slots : loggers'[m].slots[i] \in {0} \union AppenderIds
    <3>1. CASE m = l
      BY <1>7, <1>8, <3>1
    <3>2. CASE m # l
      BY <1>1, <1>4, <3>2 DEF TypeOK
    <3> QED
      BY <3>1, <3>2
  <2> QED
    BY <1>1, <1>8, <1>9, <1>13, <2>1, <2>2, <2>3 DEF TypeOK
<1>15. RefcountExact'
  BY <1>11, <1>13 DEF RefcountExact
<1>16. AttachedOnce'
  <2> SUFFICES ASSUME NEW m \in LoggerIds, NEW i \in Slots, NEW j \in Slots, i # j,
                      loggers'[m].slots[i] # 0
               PROVE  loggers'[m].slots[i] # loggers'[m].slots[j]
    BY <1>9 DEF AttachedOnce
  <2>1. CASE m # l
    BY <1>1, <1>4, <2>1 DEF AttachedOnce
  <2>2. CASE m = l
    <3>1. old[i] = 0 \/ old[i] # old[j]
      BY <1>1, <2>2 DEF AttachedOnce
    <3> HIDE DEF new, old
    <3>2. new[i] # 0
      BY <2>2 DEF new
    <3>3. new[i] # new[j]
      BY <1>2, <1>3, <1>6, <3>1, <3>2
    <3> QED
      BY <2>2, <3>3 DEF new
  <2> QED
    BY <2>1, <2>2
<1> QED
  BY <1>14, <1>15, <1>16 DEF IInv

-----------------------------------------------------------------------------
(* The inductive invariant *)

\* The two predefined loggers hold nothing, and there is no appender.
LEMMA InitInv == Init => IInv
<1> SUFFICES ASSUME Init PROVE IInv
  OBVIOUS
<1> DEFINE l1 == Logger(<<"rootlogger">>, "root", ERROR_LEVEL, FALSE, 0)
           l2 == Logger(<<"l4sclog">>, "root", WARN_LEVEL, FALSE, Root)
<1>1. Empty \in [Slots -> Nat] /\ \A i \in Slots : Empty[i] = 0
  BY DEF Empty
<1>2. ASSUME NEW n \in {"rootlogger", "l4sclog"}
      PROVE  Stored(<<n>>) \in Seq(NameParts) \ {<< >>} /\ <<n>> \in Seq(NameParts) \ {<< >>}
  <2>1. n \in NameParts
    BY DEF NameParts
  <2>2. <<n>> \in Seq(NameParts) \ {<< >>}
    BY <2>1
  <2> QED
    BY <2>2, StoredType
<1>3. l1 \in LoggerType /\ l1.slots = Empty /\ l1.parent = 0
  BY <1>1, <1>2 DEF Logger, LoggerType, ERROR_LEVEL
<1>4. l2 \in LoggerType /\ l2.slots = Empty /\ l2.parent = 1
  BY <1>1, <1>2 DEF Logger, LoggerType, WARN_LEVEL, Root
<1>5. loggers = <<l1, l2>> /\ appenders = << >> /\ extra = << >> /\ adopted = {}
  BY DEF Init, RegistryInit
<1> HIDE DEF l1, l2
<1>6. loggers \in Seq(LoggerType) /\ LoggerIds = {1, 2} /\ AppenderIds = {}
  BY <1>3, <1>4, <1>5 DEF LoggerIds, AppenderIds
<1>7. RegistryTypeOK
  BY <1>5, MaxExtraClassesAssumption DEF RegistryTypeOK
<1>8. TypeOK
  BY <1>1, <1>3, <1>4, <1>5, <1>6, <1>7 DEF TypeOK, Root
<1>9. RefcountExact
  BY <1>6 DEF RefcountExact
<1>10. AttachedOnce
  BY <1>1, <1>3, <1>4, <1>5, <1>6 DEF AttachedOnce
<1> QED
  BY <1>8, <1>9, <1>10 DEF IInv

\* A step of the loggers alone that keeps slots and parents in the list.
LEMMA ListStep ==
  ASSUME IInv, UNCHANGED registry,
         loggers' \in Seq(LoggerType), Len(loggers') >= Len(loggers),
         \A l \in LoggerIds :
           /\ loggers'[l].slots = loggers[l].slots
           /\ loggers'[l].parent = loggers[l].parent \/ loggers'[l].parent \in LoggerIds',
         \A l \in LoggerIds' : l > Len(loggers) =>
           loggers'[l].slots = Empty /\ loggers'[l].parent \in LoggerIds',
         adopted' \subseteq LoggerIds'
  PROVE  IInv'
<1>1. TypeOK /\ Len(loggers) \in Nat /\ Len(appenders) \in Nat /\ Len(loggers') \in Nat
  BY SlotsAreTyped, LenProperties DEF IInv
<1>2. UNCHANGED <<appenders, extra>> /\ AppenderIds' = AppenderIds
  BY DEF registry, AppenderIds
<1>3. \A a \in AppenderIds' : ~(a > Len(appenders))
  BY <1>1, <1>2 DEF AppenderIds
<1>4. /\ \A l \in LoggerIds' : \A i \in Slots : loggers'[l].slots[i] \in {0} \union AppenderIds
      /\ RefcountExact' /\ AttachedOnce'
  BY <1>1, <1>2, <1>3, KeptSlots
<1>5. RegistryTypeOK'
  BY <1>1, <1>2 DEF TypeOK, RegistryTypeOK
<1>6. \A l \in LoggerIds : l \in LoggerIds'
  BY <1>1 DEF LoggerIds
<1>7. ASSUME NEW l \in LoggerIds'
      PROVE  loggers'[l].parent \in LoggerIds' \/ (l = Root /\ loggers'[l].parent = 0)
  <2>1. CASE l \in LoggerIds
    BY <1>1, <1>6, <2>1 DEF TypeOK
  <2>2. CASE l \notin LoggerIds
    <3>1. l > Len(loggers)
      BY <1>1, <2>2 DEF LoggerIds
    <3> QED
      BY <3>1
  <2> QED
    BY <2>1, <2>2
<1>8. TypeOK'
  BY <1>1, <1>2, <1>4, <1>5, <1>6, <1>7 DEF TypeOK
<1> QED
  BY <1>4, <1>8 DEF IInv

\* A step that changes the record of one logger, but not its slots, after
\* others may have been created.
LEMMA OneLoggerStep ==
  ASSUME IInv, UNCHANGED registry,
         NEW ls \in Seq(LoggerType), Len(ls) >= Len(loggers),
         \A i \in LoggerIds : ls[i] = loggers[i],
         \A i \in (Len(loggers) + 1)..Len(ls) : ls[i].slots = Empty /\ ls[i].parent \in 1..Len(ls),
         NEW l \in 1..Len(ls), NEW new \in LoggerType,
         new.slots = ls[l].slots, new.parent = ls[l].parent \/ new.parent \in 1..Len(ls),
         loggers' = [ls EXCEPT ![l] = new],
         adopted' \subseteq adopted \union {l}
  PROVE  IInv'
<1>1. /\ loggers' \in Seq(LoggerType) /\ Len(loggers') = Len(ls)
      /\ \A i \in 1..Len(ls) : loggers'[i] = IF i = l THEN new ELSE ls[i]
  BY ExceptSeq
<1>2. TypeOK /\ Len(loggers) \in Nat /\ Len(ls) \in Nat
  BY SlotsAreTyped, LenProperties DEF IInv
<1>3. LoggerIds' = 1..Len(ls) /\ \A i \in LoggerIds : i \in 1..Len(ls)
  BY <1>1, <1>2 DEF LoggerIds
<1>4. ASSUME NEW i \in LoggerIds
      PROVE  /\ loggers'[i].slots = loggers[i].slots
             /\ loggers'[i].parent = loggers[i].parent \/ loggers'[i].parent \in LoggerIds'
  BY <1>1, <1>3
<1>5. ASSUME NEW i \in LoggerIds', i > Len(loggers)
      PROVE  loggers'[i].slots = Empty /\ loggers'[i].parent \in LoggerIds'
  <2>1. i \in (Len(loggers) + 1)..Len(ls)
    BY <1>2, <1>3, <1>5
  <2> QED
    BY <1>1, <1>3, <2>1
<1>6. adopted' \subseteq LoggerIds'
  BY <1>2, <1>3 DEF TypeOK
<1> QED
  BY <1>1, <1>4, <1>5, <1>6, ListStep

\* A step of the appenders alone that keeps their references.
LEMMA AppendersStep ==
  ASSUME IInv, UNCHANGED <<loggers, adopted>>, RegistryTypeOK',
         Len(appenders') >= Len(appenders),
         \A a \in AppenderIds : appenders'[a].refc = appenders[a].refc,
         \A a \in AppenderIds' : a > Len(appenders) => appenders'[a].refc = 1
  PROVE  IInv'
<1>1. TypeOK /\ Len(loggers) \in Nat /\ Len(appenders) \in Nat /\ Len(appenders') \in Nat
  BY SlotsAreTyped, LenProperties DEF IInv, RegistryTypeOK
<1>2. LoggerIds' = LoggerIds /\ loggers' = loggers /\ \A l \in LoggerIds' : ~(l > Len(loggers))
  BY <1>1 DEF LoggerIds
<1>3. /\ \A l \in LoggerIds' : \A i \in Slots : loggers'[l].slots[i] \in {0} \union AppenderIds
      /\ RefcountExact' /\ AttachedOnce'
  BY <1>1, <1>2, KeptSlots
<1>4. \A a \in AppenderIds : a \in AppenderIds'
  BY <1>1 DEF AppenderIds
<1>5. TypeOK'
  BY <1>1, <1>2, <1>3, <1>4 DEF TypeOK
<1> QED
  BY <1>3, <1>5 DEF IInv

\* The names of subloggers are names.
LEMMA SubNameType ==
  ASSUME NEW n \in Seq(NameParts) \ {<< >>}, NEW part \in Parts
  PROVE  SubName(n, part) \in Seq(NameParts) \ {<< >>}
<1>1. part \in NameParts
  BY DEF NameParts
<1>2. Len(n) \in Nat /\ Len(n) > 0
  BY LenProperties, EmptySeq
<1>3. Front(n) \in Seq(NameParts)
  BY <1>2, SubSeqProperties, ElementOfSeq DEF Front
<1>4. ASSUME NEW m \in Seq(NameParts)
      PROVE  Append(m, part) \in Seq(NameParts) \ {<< >>}
  BY <1>1, AppendProperties
<1> QED
  BY <1>3, <1>4 DEF SubName

\* Names that are asked for are names.
LEMMA AskedNameType ==
  ASSUME NEW n \in LoggerNames \union CustomNames
  PROVE  n \in Seq(NameParts) \ {<< >>}
<1>1. n \in Seq(NameParts \ {""}) /\ n # << >>
  BY LoggerNamesAssumption
<1> QED
  BY <1>1, SeqMonotonic

\* l4sc_get_logger keeps the invariant.
LEMMA GetLoggerInv ==
  ASSUME IInv, NEW n \in LoggerNames, GetLogger(n)
  PROVE  IInv'
<1>1. loggers \in Seq(LoggerType) /\ Len(loggers) > 0 /\ Len(loggers) \in Nat /\ adopted \subseteq LoggerIds
  BY SlotsAreTyped DEF IInv, TypeOK, LoggerIds
<1>2. loggers' = WithLogger(loggers, n) /\ UNCHANGED registry /\ adopted' = adopted
  BY DEF GetLogger
<1>3. n \in Seq(NameParts) \ {<< >>}
  BY AskedNameType
<1>4. /\ loggers' \in Seq(LoggerType) /\ Len(loggers') >= Len(loggers)
      /\ \A i \in 1..Len(loggers) : loggers'[i] = loggers[i]
      /\ \A i \in (Len(loggers) + 1)..Len(loggers') :
           loggers'[i].slots = Empty /\ loggers'[i].parent \in 1..Len(loggers')
  BY <1>1, <1>2, <1>3, WithLoggerExtends
<1>5. Len(loggers') \in Nat
  BY <1>4, LenProperties
<1>6. \A l \in LoggerIds : loggers'[l] = loggers[l] /\ l \in LoggerIds'
  BY <1>1, <1>4, <1>5 DEF LoggerIds
<1>7. ASSUME NEW l \in LoggerIds', l > Len(loggers)
      PROVE  loggers'[l].slots = Empty /\ loggers'[l].parent \in LoggerIds'
  <2>1. l \in (Len(loggers) + 1)..Len(loggers')
    BY <1>1, <1>5, <1>7 DEF LoggerIds
  <2> QED
    BY <1>4, <2>1 DEF LoggerIds
<1> QED
  BY <1>1, <1>2, <1>4, <1>6, <1>7, ListStep

\* The loggers that l4sc_get_logger(n) leaves, and the one it returns.
LEMMA NamedLogger ==
  ASSUME IInv, NEW n \in Seq(NameParts) \ {<< >>}
  PROVE  LET ls == WithLogger(loggers, n)
             l == LoggerNamed(loggers, n) IN
         /\ ls \in Seq(LoggerType) /\ Len(ls) \in Nat /\ Len(ls) >= Len(loggers)
         /\ \A i \in LoggerIds : ls[i] = loggers[i]
         /\ \A i \in (Len(loggers) + 1)..Len(ls) : ls[i].slots = Empty /\ ls[i].parent \in 1..Len(ls)
         /\ l \in 1..Len(ls) /\ ls[l] \in LoggerType
<1>1. loggers \in Seq(LoggerType) /\ Len(loggers) > 0
  BY SlotsAreTyped DEF IInv, TypeOK, LoggerIds
<1> QED
  BY <1>1, WithLoggerExtends, LenProperties, ElementOfSeq DEF LoggerIds

\* get_sublogger keeps the invariant.
LEMMA GetSubloggerInv ==
  ASSUME IInv, NEW p \in LoggerIds, NEW part \in Parts, GetSublogger(p, part)
  PROVE  IInv'
<1> DEFINE n == SubName(loggers[p].name, part)
           ls == WithLogger(loggers, n)
           l == LoggerNamed(loggers, n)
           new == [ls[l] EXCEPT !.parent = p]
<1>1. n \in Seq(NameParts) \ {<< >>}
  <2>1. loggers[p].name \in Seq(NameParts) \ {<< >>}
    BY SlotsAreTyped DEF IInv, LoggerType
  <2> QED
    BY <2>1, SubNameType
<1>2. loggers' = [ls EXCEPT ![l].parent = p] /\ adopted' = adopted \union {l} /\ UNCHANGED registry
  BY DEF GetSublogger
<1> HIDE DEF n
<1>3. /\ ls \in Seq(LoggerType) /\ Len(ls) \in Nat /\ Len(ls) >= Len(loggers)
      /\ \A i \in LoggerIds : ls[i] = loggers[i]
      /\ \A i \in (Len(loggers) + 1)..Len(ls) : ls[i].slots = Empty /\ ls[i].parent \in 1..Len(ls)
      /\ l \in 1..Len(ls) /\ ls[l] \in LoggerType
  BY <1>1, NamedLogger
<1> HIDE DEF ls, l
<1>4. p \in Nat /\ p \in 1..Len(ls)
  BY <1>3, SlotsAreTyped DEF IInv, LoggerIds
<1>5. new \in LoggerType /\ new.slots = ls[l].slots /\ new.parent = p
  BY <1>3, <1>4, ParentIsTyped
<1>6. loggers' = [ls EXCEPT ![l] = new]
  BY <1>2
<1> HIDE DEF new
<1> QED
  BY <1>2, <1>3, <1>4, <1>5, <1>6, OneLoggerStep

\* l4sc_insert_custom_logger keeps the invariant.
LEMMA InsertCustomLoggerInv ==
  ASSUME IInv, NEW n \in CustomNames, InsertCustomLogger(n)
  PROVE  IInv'
<1> DEFINE ls == WithLogger(loggers, n)
           l == LoggerNamed(loggers, n)
           new == [ls[l] EXCEPT !.kind = "custom"]
<1>1. n \in Seq(NameParts) \ {<< >>}
  BY AskedNameType
<1>2. loggers' = [ls EXCEPT ![l].kind = "custom"] /\ adopted' = adopted /\ UNCHANGED registry
  BY DEF InsertCustomLogger
<1>3. /\ ls \in Seq(LoggerType) /\ Len(ls) \in Nat /\ Len(ls) >= Len(loggers)
      /\ \A i \in LoggerIds : ls[i] = loggers[i]
      /\ \A i \in (Len(loggers) + 1)..Len(ls) : ls[i].slots = Empty /\ ls[i].parent \in 1..Len(ls)
      /\ l \in 1..Len(ls) /\ ls[l] \in LoggerType
  BY <1>1, NamedLogger
<1> HIDE DEF ls, l
<1>4. new \in LoggerType /\ new.slots = ls[l].slots /\ new.parent = ls[l].parent
  BY <1>3 DEF LoggerType
<1>5. loggers' = [ls EXCEPT ![l] = new]
  BY <1>2
<1> HIDE DEF new
<1> QED
  BY <1>2, <1>3, <1>4, <1>5, OneLoggerStep

\* Setting an option of a logger that is in the list.
LEMMA OptionInv ==
  ASSUME IInv, UNCHANGED registry, NEW l \in LoggerIds, NEW new \in LoggerType,
         new.slots = loggers[l].slots,
         new.parent = loggers[l].parent \/ new.parent \in LoggerIds,
         loggers' = [loggers EXCEPT ![l] = new],
         adopted' \subseteq adopted \union {l}
  PROVE  IInv'
<1>1. loggers \in Seq(LoggerType) /\ Len(loggers) \in Nat
  BY SlotsAreTyped DEF IInv, TypeOK
<1>2. \A i \in (Len(loggers) + 1)..Len(loggers) :
        loggers[i].slots = Empty /\ loggers[i].parent \in 1..Len(loggers)
  BY <1>1
<1>3. /\ Len(loggers) >= Len(loggers) /\ \A i \in LoggerIds : loggers[i] = loggers[i]
      /\ l \in 1..Len(loggers)
      /\ new.parent = loggers[l].parent \/ new.parent \in 1..Len(loggers)
  BY <1>1 DEF LoggerIds
<1> QED
  BY <1>1, <1>2, <1>3, OneLoggerStep, Zenon

\* l4sc_set_logger_appender sweeps the obsolete appenders and attaches one;
\* l4sc_set_logger_appender(l, NULL) gives up all appenders.
LEMMA SetAppenderStep ==
  ASSUME NEW l \in LoggerIds, NEW a \in AppenderIds, SetAppender(l, a)
  PROVE  \E C \in SUBSET Slots, attach \in BOOLEAN, first \in Nat : SlotStep(l, C, attach, a, first)
<1> DEFINE slots == loggers[l].slots
           stale == {i \in Slots : slots[i] # 0 /\ IsObsolete(slots[i])}
           swept == Without(slots, stale)
           free == {i \in Slots : swept[i] = 0}
           chosen == CHOOSE i \in free : \A j \in free : i <= j
           attach == free # {} /\ \A i \in Slots : swept[i] # a
           first == IF attach THEN chosen ELSE 0
<1>1. attach => chosen \in free
  <2>1. free \subseteq Nat
    BY DEF Slots
  <2> HIDE DEF free
  <2>2. free # {} => \E i \in free : \A j \in free : i <= j
    BY <2>1, Least
  <2> QED
    BY <2>2
<1>2. attach \in BOOLEAN /\ stale \in SUBSET Slots
  OBVIOUS
<1>3. attach => first \in Slots /\ swept[first] = 0 /\ \A i \in Slots : swept[i] # a
  BY <1>1
<1>4. first \in Nat
  <2>1. first \in Slots \union {0}
    BY <1>1
  <2> HIDE DEF first
  <2> QED
    BY <2>1 DEF Slots
<1>5. SlotStep(l, stale, attach, a, first)
  <2>1. /\ appenders' = IF attach THEN [Release(slots, stale) EXCEPT ![a].refc = @ + 1]
                                  ELSE Release(slots, stale)
        /\ loggers' = [loggers EXCEPT ![l].slots =
                         IF attach THEN [swept EXCEPT ![first] = a] ELSE swept]
        /\ UNCHANGED <<extra, adopted>>
    BY DEF SetAppender
  <2> HIDE DEF stale, attach, first
  <2> QED
    BY <1>3, <2>1, SMTT(30) DEF SlotStep
<1> HIDE DEF stale, attach, first
<1> QED
  BY <1>2, <1>4, <1>5

\* Releasing all appenders of a logger clears its used slots and nothing else.
LEMMA RemoveAppendersStep ==
  ASSUME NEW l \in LoggerIds, RemoveAppenders(l)
  PROVE  \E C \in SUBSET Slots : SlotStep(l, C, FALSE, 0, 0)
<1> DEFINE used == {i \in Slots : loggers[l].slots[i] # 0}
<1>1. SlotStep(l, used, FALSE, 0, 0)
  BY DEF SlotStep, RemoveAppenders
<1>2. used \in SUBSET Slots
  OBVIOUS
<1> HIDE DEF used
<1> QED
  BY <1>1, <1>2

\* Every step of the loggers and of the registry keeps the invariant.
LEMMA NextInv == IInv /\ [Next]_vars => IInv'
<1> SUFFICES ASSUME IInv, [Next]_vars PROVE IInv'
  OBVIOUS
<1>1. /\ TypeOK /\ RegistryTypeOK /\ Len(appenders) \in Nat
      /\ \A l \in LoggerIds : loggers[l] \in LoggerType
  BY SlotsAreTyped DEF IInv, TypeOK
<1>2. CASE RegistryNext /\ UNCHANGED <<loggers, adopted>>
  BY <1>1, <1>2, RegistryStep, AppendersStep
<1>3. CASE \E n \in LoggerNames : GetLogger(n)
  BY <1>3, GetLoggerInv
<1>4. CASE \E n \in CustomNames : InsertCustomLogger(n)
  BY <1>4, InsertCustomLoggerInv
<1>5. ASSUME NEW l \in LoggerIds, NEW part \in Parts, GetSublogger(l, part)
      PROVE  IInv'
  BY <1>5, GetSubloggerInv
<1>6. ASSUME NEW l \in LoggerIds, NEW p \in LoggerIds, SetParent(l, p)
      PROVE  IInv'
  <2> DEFINE new == [loggers[l] EXCEPT !.parent = p]
  <2>1. new \in LoggerType /\ new.slots = loggers[l].slots /\ new.parent = p
    BY <1>1, ParentIsTyped DEF LoggerIds
  <2>2. loggers' = [loggers EXCEPT ![l] = new] /\ adopted' = adopted \union {l} /\ UNCHANGED registry
    BY <1>6 DEF SetParent
  <2> HIDE DEF new
  <2> QED
    BY <2>1, <2>2, OptionInv
<1>7. ASSUME NEW l \in LoggerIds, NEW level \in Levels, SetLevel(l, level)
      PROVE  IInv'
  <2> DEFINE new == [loggers[l] EXCEPT !.level = level]
  <2>1. new \in LoggerType /\ new.slots = loggers[l].slots /\ new.parent = loggers[l].parent
    BY <1>1, LevelsAssumption DEF LoggerType
  <2>2. loggers' = [loggers EXCEPT ![l] = new] /\ adopted' = adopted /\ UNCHANGED registry
    BY <1>7 DEF SetLevel
  <2> HIDE DEF new
  <2> QED
    BY <2>1, <2>2, OptionInv
<1>8. ASSUME NEW l \in LoggerIds, NEW additivity \in Additivities, SetAdditivity(l, additivity)
      PROVE  IInv'
  <2> DEFINE new == [loggers[l] EXCEPT !.additivity = additivity]
  <2>1. new \in LoggerType /\ new.slots = loggers[l].slots /\ new.parent = loggers[l].parent
    BY <1>1, LevelsAssumption DEF LoggerType
  <2>2. loggers' = [loggers EXCEPT ![l] = new] /\ adopted' = adopted /\ UNCHANGED registry
    BY <1>8 DEF SetAdditivity
  <2> HIDE DEF new
  <2> QED
    BY <2>1, <2>2, OptionInv
<1>9. ASSUME NEW l \in LoggerIds, NEW a \in AppenderIds, SetAppender(l, a)
      PROVE  IInv'
  BY <1>9, SetAppenderStep, SlotStepInv
<1>10. ASSUME NEW l \in LoggerIds, RemoveAppenders(l)
       PROVE  IInv'
  BY <1>10, RemoveAppendersStep, SlotStepInv
<1>11. ASSUME NEW l \in LoggerIds, Log(l)
       PROVE  IInv'
  <2> DEFINE S == {a \in AppenderIds : Deliveries(l)[a] > 0}
  <2>1. OpenOnAppend(S) /\ UNCHANGED extra /\ UNCHANGED <<loggers, adopted>>
    BY <1>11 DEF Log
  <2> HIDE DEF S
  <2>2. /\ RegistryTypeOK' /\ Len(appenders') = Len(appenders)
        /\ \A a \in AppenderIds : appenders'[a].refc = appenders[a].refc
    BY <1>1, <2>1, OpenStep
  <2>3. Len(appenders') >= Len(appenders) /\ \A a \in AppenderIds' : ~(a > Len(appenders))
    BY <1>1, <2>2 DEF AppenderIds
  <2> QED
    BY <2>1, <2>2, <2>3, AppendersStep
<1>12. CASE UNCHANGED vars
  <2>1. UNCHANGED <<appenders, extra, loggers, adopted>>
    BY <1>12 DEF vars, registry
  <2>2. TypeOK'
    BY <1>1, <2>1 DEF TypeOK, RegistryTypeOK, LoggerIds, AppenderIds
  <2>3. RefcountExact' /\ AttachedOnce'
    BY <2>1 DEF IInv, RefcountExact, AttachedOnce, Attachments, LoggerIds, AppenderIds
  <2> QED
    BY <2>2, <2>3 DEF IInv
<1> QED
  BY <1>2, <1>3, <1>4, <1>5, <1>6, <1>7, <1>8, <1>9, <1>10, <1>11, <1>12 DEF Next

-----------------------------------------------------------------------------
(* Theorems *)

\* Every parent is a logger of the list and every slot holds an appender of
\* the registry, through any sequence of calls.
THEOREM LoggerTypeCorrect == Spec => []TypeOK
<1>1. IInv => TypeOK
  BY DEF IInv
<1> QED
  BY <1>1, InitInv, NextInv, PTL DEF Spec

\* The counts that set_logger_appender and remove_logger_appender keep by hand
\* are exact: one for the registry and one for every slot.
THEOREM RefcountsExact == Spec => []RefcountExact
<1>1. IInv => RefcountExact
  BY DEF IInv
<1> QED
  BY <1>1, InitInv, NextInv, PTL DEF Spec

\* A logger passes a message to each of its appenders once.
THEOREM AppendersAttachedOnce == Spec => []AttachedOnce
<1>1. IInv => AttachedOnce
  BY DEF IInv
<1> QED
  BY <1>1, InitInv, NextInv, PTL DEF Spec

\* The registry alone keeps the types, the table of extra classes its bound.
THEOREM RegistryTypeCorrect == RegistrySpec => []RegistryTypeOK
<1>1. RegistryInit => RegistryTypeOK
  BY MaxExtraClassesAssumption DEF RegistryInit, RegistryTypeOK
<1>2. RegistryTypeOK /\ [RegistryNext]_registry => RegistryTypeOK'
  BY RegistryStep DEF registry, RegistryTypeOK
<1> QED
  BY <1>1, <1>2, PTL DEF RegistrySpec
=============================================================================
