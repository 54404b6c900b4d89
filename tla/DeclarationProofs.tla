------------------------- MODULE DeclarationProofs --------------------------
(***************************************************************************)
(* Proofs that what is configured is what a text declares, for any texts.  *)
(* The configurator goes by what is current when it comes to a tag, what a *)
(* text declares is defined by the elements around a tag.  The lemmas are  *)
(* about elements, their depth and their ends; from them follows what is   *)
(* current at every tag, and from that and the invariant of                *)
(* ConfiguratorProofs what the loggers and options are in the end.         *)
(***************************************************************************)
EXTENDS ConfiguratorProofs

-----------------------------------------------------------------------------
(* Elements of XML *)

\* How many numbers up to i are in S.
UpTo(S, i) == {j \in 1..i : j \in S}
Count(S, i) == Cardinality(UpTo(S, i))

\* The next number adds one, or none.
LEMMA CountStep ==
  ASSUME NEW S, NEW i \in Nat
  PROVE  /\ Count(S, i) \in Nat
         /\ Count(S, i + 1) = Count(S, i) + (IF i + 1 \in S THEN 1 ELSE 0)
<1>1. IsFiniteSet(UpTo(S, i))
  <2>1. IsFiniteSet(1..i) /\ UpTo(S, i) \in SUBSET (1..i)
    BY FS_Interval DEF UpTo
  <2> QED
    BY <2>1, FS_Subset
<1>2. Count(S, i) \in Nat
  BY <1>1, FS_CardinalityType DEF Count
<1>3. CASE i + 1 \in S
  <2>1. UpTo(S, i + 1) = UpTo(S, i) \union {i + 1} /\ i + 1 \notin UpTo(S, i)
    BY <1>3 DEF UpTo
  <2> QED
    BY <1>1, <1>2, <1>3, <2>1, FS_AddElement DEF Count
<1>4. CASE i + 1 \notin S
  <2>1. UpTo(S, i + 1) = UpTo(S, i)
    BY <1>4 DEF UpTo
  <2> QED
    BY <1>2, <1>4, <2>1 DEF Count
<1> QED
  BY <1>3, <1>4

\* A tag is one level deeper than the one before if that opens an element, one
\* level higher if that ends one.
LEMMA DepthStep ==
  ASSUME NEW t, NEW i \in Nat \ {0}
  PROVE  /\ Depth(t, i) \in Int
         /\ Depth(t, i + 1) = Depth(t, i) + (IF Opens(t, i) THEN 1 ELSE 0) - (IF Ends(t, i) THEN 1 ELSE 0)
<1> DEFINE O == {j \in Nat : Opens(t, j)}
           E == {j \in Nat : Ends(t, j)}
<1>1. i - 1 \in Nat /\ (i - 1) + 1 = i /\ (i + 1) - 1 = i
  OBVIOUS
<1>2. ASSUME NEW n \in Nat \ {0} PROVE Depth(t, n) = Count(O, n - 1) - Count(E, n - 1)
  <2>1. {j \in 1..(n - 1) : Opens(t, j)} = UpTo(O, n - 1)
    BY DEF UpTo
  <2>2. {j \in 1..(n - 1) : Ends(t, j)} = UpTo(E, n - 1)
    BY DEF UpTo
  <2> QED
    BY <2>1, <2>2 DEF Depth, Count
<1>3. (i \in O <=> Opens(t, i)) /\ (i \in E <=> Ends(t, i))
  OBVIOUS
<1> HIDE DEF O, E
<1>4. /\ Count(O, i - 1) \in Nat
      /\ Count(O, i) = Count(O, i - 1) + (IF i \in O THEN 1 ELSE 0)
  BY <1>1, CountStep
<1>5. /\ Count(E, i - 1) \in Nat
      /\ Count(E, i) = Count(E, i - 1) + (IF i \in E THEN 1 ELSE 0)
  BY <1>1, CountStep
<1>6. Depth(t, i) = Count(O, i - 1) - Count(E, i - 1) /\ Depth(t, i + 1) = Count(O, i) - Count(E, i)
  <2>1. i + 1 \in Nat \ {0}
    OBVIOUS
  <2> QED
    BY <1>1, <1>2, <2>1
<1> QED
  BY <1>3, <1>4, <1>5, <1>6

\* Tag k stands in the element that tag j opens; its own end does too.
In(t, j, k) ==
  /\ j \in Items(t) /\ k \in Items(t) /\ j < k /\ Opens(t, j)
  /\ \A x \in (j + 1)..k : Depth(t, x) > Depth(t, j)

\* The items of a text of XML.
Xml(t) == t.form = "xml" /\ t.items \in Seq(Tag \union Comment)

\* The element around a tag opens before it, one level higher, and has the tag
\* in it.
LEMMA EnclosingHolds ==
  ASSUME NEW t, Xml(t), NEW i \in Items(t), Enclosing(t, i) # 0
  PROVE  /\ In(t, Enclosing(t, i), i)
         /\ Depth(t, Enclosing(t, i)) = Depth(t, i) - 1
<1> DEFINE outer == {j \in 1..(i - 1) : Opens(t, j) /\ Depth(t, j) = Depth(t, i) - 1}
           m == Enclosing(t, i)
<1>1. Items(t) = 1..Len(t.items) /\ Len(t.items) \in Nat /\ i \in Nat \ {0} /\ i - 1 \in Nat
  BY DEF Items, Xml
<1>2. m \in outer /\ \A k \in outer : k <= m
  <2>1. outer # {} /\ m = CHOOSE j \in outer : \A k \in outer : k <= j
    BY DEF Enclosing
  <2>2. \E j \in outer : \A k \in outer : k <= j
    <3>1. outer \subseteq 0..(i - 1)
      BY <1>1
    <3> HIDE DEF outer
    <3> QED
      BY <1>1, <2>1, <3>1, Greatest
  <2> QED
    BY <2>1, <2>2
<1>3. m \in Items(t) /\ m < i /\ Opens(t, m) /\ Depth(t, m) = Depth(t, i) - 1 /\ m \in Nat \ {0}
  BY <1>1, <1>2
<1>4. ASSUME NEW x \in (m + 1)..i, ~(Depth(t, x) > Depth(t, m)) PROVE FALSE
  <2> DEFINE low == {y \in (m + 1)..i : ~(Depth(t, y) > Depth(t, m))}
  <2>1. low # {} /\ low \subseteq 0..i
    BY <1>1, <1>3, <1>4
  <2>2. PICK k \in low : \A y \in low : y <= k
    <3> HIDE DEF low
    <3> QED
      BY <1>1, <2>1, Greatest
  <2>3. k \in (m + 1)..i /\ ~(Depth(t, k) > Depth(t, m)) /\ k \in Nat \ {0}
    BY <1>3, <2>2
  <2>4. Depth(t, i) \in Int /\ Depth(t, m) \in Int /\ Depth(t, k) \in Int
    BY <1>1, <1>3, <2>3, DepthStep
  <2>5. k # i
    BY <1>3, <2>3, <2>4
  <2>6. k + 1 \in (m + 1)..i /\ k + 1 \notin low
    BY <1>1, <1>3, <2>2, <2>3, <2>5
  <2>7. Depth(t, k + 1) > Depth(t, m)
    BY <2>6
  <2>8. Opens(t, k) /\ Depth(t, k) = Depth(t, m)
    BY <2>3, <2>4, <2>7, DepthStep
  <2>9. k \in outer
    BY <1>1, <1>3, <2>3, <2>5, <2>8
  <2> QED
    BY <1>2, <1>3, <2>3, <2>9
<1> QED
  BY <1>3, <1>4 DEF In

\* What stands in an element has that element around it or another that stands
\* in it.
LEMMA InEncloses ==
  ASSUME NEW t, Xml(t), NEW j, NEW i, In(t, j, i)
  PROVE  /\ Enclosing(t, i) # 0
         /\ Enclosing(t, i) = j \/ In(t, j, Enclosing(t, i))
<1> DEFINE outer == {k \in 1..(i - 1) : Opens(t, k) /\ Depth(t, k) = Depth(t, i) - 1}
           low == {k \in j..(i - 1) : Depth(t, k) < Depth(t, i)}
           m == Enclosing(t, i)
<1>1. /\ Items(t) = 1..Len(t.items) /\ Len(t.items) \in Nat /\ i \in Nat \ {0} /\ i - 1 \in Nat
      /\ j \in Nat \ {0} /\ j < i /\ j \in Items(t) /\ i \in Items(t)
  BY DEF Items, Xml, In
<1>2. Depth(t, i) > Depth(t, j)
  BY <1>1 DEF In
<1>3. Depth(t, i) \in Int /\ Depth(t, j) \in Int
  BY <1>1, DepthStep
<1>4. j \in low /\ low \subseteq 0..(i - 1)
  BY <1>1, <1>2, <1>3
<1>5. PICK k \in low : \A y \in low : y <= k
  <2> HIDE DEF low
  <2> QED
    BY <1>1, <1>4, Greatest
<1>6. k \in j..(i - 1) /\ Depth(t, k) < Depth(t, i) /\ k \in Nat \ {0} /\ k + 1 \in Nat \ {0}
  BY <1>1, <1>5
<1>7. Depth(t, k) \in Int /\ Depth(t, k + 1) \in Int
  BY <1>6, DepthStep
<1>8. ~(Depth(t, k + 1) < Depth(t, i))
  <2>1. CASE k + 1 = i
    BY <2>1, <1>3
  <2>2. CASE k + 1 # i
    <3>1. k + 1 \in j..(i - 1) /\ k + 1 \notin low
      BY <1>1, <1>5, <1>6, <2>2
    <3> QED
      BY <3>1
  <2> QED
    BY <2>1, <2>2
<1>9. Opens(t, k) /\ Depth(t, k) = Depth(t, i) - 1
  BY <1>3, <1>6, <1>7, <1>8, DepthStep
<1>10. k \in outer
  BY <1>1, <1>6, <1>9
<1>11. m \in outer /\ k <= m
  <2>1. m = CHOOSE x \in outer : \A y \in outer : y <= x
    BY <1>10 DEF Enclosing
  <2>2. \E x \in outer : \A y \in outer : y <= x
    <3>1. outer \subseteq 0..(i - 1) /\ outer # {}
      BY <1>1, <1>10
    <3> HIDE DEF outer
    <3> QED
      BY <1>1, <3>1, Greatest
  <2>3. m \in outer /\ \A y \in outer : y <= m
    BY <2>1, <2>2
  <2> QED
    BY <1>10, <2>3
<1>12. m \in 1..(i - 1) /\ j <= m
  BY <1>1, <1>6, <1>11
<1>13. CASE m # j
  <2>1. \A x \in (j + 1)..m : x \in (j + 1)..i
    BY <1>1, <1>12
  <2> QED
    BY <1>1, <1>12, <1>13, <2>1 DEF In
<1> QED
  BY <1>1, <1>12, <1>13

\* Where the end of an element has not been passed, one is in the element.
LEMMA StillOpen ==
  ASSUME NEW t, Xml(t), Conforming(t), NEW j \in Items(t), NEW i \in Items(t), j < i, Opens(t, j),
         \A k \in (j + 1)..i : ~(Ends(t, k) /\ t.items[k].kind = t.items[j].kind)
  PROVE  In(t, j, i)
<1>1. Items(t) = 1..Len(t.items) /\ Len(t.items) \in Nat
  BY DEF Items, Xml
<1>2. PICK e \in Items(t) : EndOf(t, j, e)
  BY DEF Conforming, Xml, Opens, Is
<1>3. e \notin (j + 1)..i
  BY <1>2 DEF EndOf
<1>4. i < e
  BY <1>1, <1>2, <1>3 DEF EndOf
<1>5. \A x \in (j + 1)..i : x \in (j + 1)..e
  BY <1>1, <1>4
<1> QED
  BY <1>2, <1>5 DEF In, EndOf

\* The end of an element has the start of that element around it.
LEMMA EndMatches ==
  ASSUME NEW t, Xml(t), Conforming(t), NEW i \in Items(t), Ends(t, i), Enclosing(t, i) # 0
  PROVE  t.items[Enclosing(t, i)].kind = t.items[i].kind
<1> DEFINE m == Enclosing(t, i)
<1>1. Items(t) = 1..Len(t.items) /\ Len(t.items) \in Nat
  BY DEF Items, Xml
<1>2. In(t, m, i) /\ Depth(t, m) = Depth(t, i) - 1
  BY EnclosingHolds
<1>3. m \in Items(t) /\ m < i /\ Opens(t, m) /\ \A x \in (m + 1)..i : Depth(t, x) > Depth(t, m)
  BY <1>2 DEF In
<1>4. PICK e \in Items(t) : EndOf(t, m, e)
  BY <1>3 DEF Conforming, Xml, Opens, Is
<1> HIDE DEF m
<1>5. /\ m < e /\ Ends(t, e) /\ t.items[e].kind = t.items[m].kind /\ Depth(t, e) = Depth(t, m) + 1
      /\ \A k \in (m + 1)..e : Depth(t, k) > Depth(t, m)
  BY <1>4 DEF EndOf
<1>6. \A k \in Items(t) : Ends(t, k) => Depth(t, k) \in Int /\ Depth(t, k + 1) = Depth(t, k) - 1
  <2> SUFFICES ASSUME NEW k \in Items(t), Ends(t, k)
               PROVE  Depth(t, k) \in Int /\ Depth(t, k + 1) = Depth(t, k) - 1
    OBVIOUS
  <2>1. ~Opens(t, k) /\ k \in Nat \ {0}
    BY <1>1 DEF Ends, Opens
  <2>2. /\ Depth(t, k) \in Int
        /\ Depth(t, k + 1) = Depth(t, k) + (IF Opens(t, k) THEN 1 ELSE 0) - (IF Ends(t, k) THEN 1 ELSE 0)
    BY <2>1, DepthStep
  <2> QED
    BY <2>1, <2>2
<1>7. Depth(t, m) \in Int
  BY <1>1, <1>3, DepthStep
<1>8. ~(e < i)
  <2> SUFFICES ASSUME e < i PROVE FALSE
    OBVIOUS
  <2>1. e + 1 \in (m + 1)..i
    BY <1>1, <1>3, <1>5
  <2> QED
    BY <1>3, <1>4, <1>5, <1>6, <1>7, <2>1
<1>9. ~(i < e)
  <2> SUFFICES ASSUME i < e PROVE FALSE
    OBVIOUS
  <2>1. i + 1 \in (m + 1)..e
    BY <1>1, <1>3, <1>4, <1>5
  <2> QED
    BY <1>2, <1>3, <1>5, <1>6, <1>7, <2>1
<1>10. e = i
  BY <1>1, <1>4, <1>8, <1>9
<1> QED
  BY <1>5, <1>10 DEF m

\* The kinds of a tag.
LEMMA TagKind ==
  ASSUME NEW t, Xml(t), NEW i \in Items(t), ~Is(t, i, "comment")
  PROVE  /\ t.items[i] \in Tag
         /\ t.items[i].kind \in {"logger", "appender", "ref", "level", "layout", "param", "root"}
<1>1. t.items[i] \in Tag \union Comment
  BY DEF Items, Xml
<1>2. t.items[i] \notin Comment
  BY DEF Is, Comment
<1>3. t.items[i] \in Tag
  BY <1>1, <1>2
<1> QED
  BY <1>3 DEF Tag

\* A tag in an element stands in one that may hold it: in that element or in
\* another that does.
LEMMA HeldBy ==
  ASSUME NEW t, Xml(t), Conforming(t), NEW j, NEW k, In(t, j, k), ~Ends(t, k), ~Is(t, k, "comment")
  PROVE  LET m == Enclosing(t, k) IN
         /\ m \in Items(t) /\ Opens(t, m) /\ m < k /\ (m = j \/ In(t, j, m))
         /\ ~Is(t, m, "comment") /\ ~Ends(t, m) /\ t.items[m].kind # "nothing"
         /\ t.items[m].kind \in HoldersOf(t.items[k].kind)
<1> DEFINE m == Enclosing(t, k)
<1>1. k \in Items(t)
  BY DEF In
<1>2. m # 0 /\ (m = j \/ In(t, j, m))
  BY InEncloses
<1>3. In(t, m, k)
  BY <1>1, <1>2, EnclosingHolds
<1>4. m \in Items(t) /\ Opens(t, m) /\ m < k
  BY <1>3 DEF In
<1>5. ~Is(t, m, "comment") /\ ~Ends(t, m)
  BY <1>4 DEF Opens, Ends, Is
<1>6. Holder(t, k) = t.items[m].kind
  BY <1>2 DEF Holder
<1>7. Holder(t, k) \in HoldersOf(t.items[k].kind)
  BY <1>1 DEF Conforming, Xml
<1>8. t.items[m].kind # "nothing"
  BY <1>4, <1>5, TagKind
<1> QED
  BY <1>2, <1>4, <1>5, <1>6, <1>7, <1>8

\* The end of an element ends the one around it, which is that element or
\* another in it.
LEMMA EndHeldBy ==
  ASSUME NEW t, Xml(t), Conforming(t), NEW j, NEW k, In(t, j, k), Ends(t, k)
  PROVE  LET m == Enclosing(t, k) IN
         /\ m \in Items(t) /\ Opens(t, m) /\ (m = j \/ In(t, j, m))
         /\ ~Is(t, m, "comment") /\ ~Ends(t, m) /\ t.items[m].kind = t.items[k].kind
<1> DEFINE m == Enclosing(t, k)
<1>1. k \in Items(t)
  BY DEF In
<1>2. m # 0 /\ (m = j \/ In(t, j, m))
  BY InEncloses
<1>3. In(t, m, k)
  BY <1>1, <1>2, EnclosingHolds
<1>4. m \in Items(t) /\ Opens(t, m)
  BY <1>3 DEF In
<1>5. ~Is(t, m, "comment") /\ ~Ends(t, m)
  BY <1>4 DEF Opens, Ends, Is
<1>6. t.items[m].kind = t.items[k].kind
  BY <1>1, <1>2, EndMatches
<1> QED
  BY <1>2, <1>4, <1>5, <1>6

\* Loggers and appenders, and what may hold them, stand in no logger, appender
\* or layout.
Outer == {"logger", "appender", "root"}
Inner == {"logger", "appender", "layout"}
\* Of those, one that stands in one of these is the tag that ends it.
LEMMA NoneInside ==
  ASSUME NEW t, Xml(t), Conforming(t), NEW j, NEW k, In(t, j, k),
         t.items[j].kind \in Inner, t.items[k].kind \in Outer
  PROVE  Ends(t, k) /\ Enclosing(t, k) = j
<1> DEFINE B == {x \in Items(t) : In(t, j, x) /\ t.items[x].kind \in Outer /\ ~Ends(t, x)}
<1>1. Items(t) = 1..Len(t.items) /\ Len(t.items) \in Nat /\ k \in Items(t)
  BY DEF Items, Xml, In
<1>2. B = {}
  <2> SUFFICES ASSUME B # {} PROVE FALSE
    OBVIOUS
  <2>1. PICK x \in B : \A y \in B : x <= y
    <3>1. B \subseteq Nat
      BY <1>1
    <3> HIDE DEF B
    <3> QED
      BY <3>1, Least
  <2>2. x \in Items(t) /\ In(t, j, x) /\ t.items[x].kind \in Outer /\ ~Ends(t, x)
    BY <2>1
  <2>3. ~Is(t, x, "comment")
    BY <2>2 DEF Is, Outer
  <2> DEFINE m == Enclosing(t, x)
  <2>4. /\ m \in Items(t) /\ m < x /\ (m = j \/ In(t, j, m)) /\ ~Ends(t, m) /\ t.items[m].kind # "nothing"
        /\ t.items[m].kind \in HoldersOf(t.items[x].kind)
    BY <2>2, <2>3, HeldBy
  <2>5. t.items[m].kind = "root"
    BY <2>2, <2>4 DEF HoldersOf, Outer
  <2>6. m # j
    BY <2>5 DEF Inner
  <2>7. m \in B
    BY <2>4, <2>5, <2>6 DEF Outer
  <2> QED
    BY <1>1, <2>1, <2>2, <2>4, <2>7
<1>3. Ends(t, k)
  BY <1>1, <1>2
<1> DEFINE m == Enclosing(t, k)
<1>4. m \in Items(t) /\ (m = j \/ In(t, j, m)) /\ ~Ends(t, m) /\ t.items[m].kind \in Outer
  BY <1>3, EndHeldBy
<1> QED
  BY <1>2, <1>3, <1>4

\* A layout stands in no other and in no logger.
LEMMA NoLayoutInside ==
  ASSUME NEW t, Xml(t), Conforming(t), NEW j, NEW k, In(t, j, k),
         t.items[j].kind \in {"logger", "layout"}, t.items[k].kind = "layout"
  PROVE  Ends(t, k) /\ Enclosing(t, k) = j
<1>1. ASSUME NEW x, In(t, j, x), t.items[x].kind = "layout", ~Ends(t, x) PROVE FALSE
  <2> DEFINE m == Enclosing(t, x)
  <2>1. ~Is(t, x, "comment")
    BY <1>1 DEF Is
  <2>2. (m = j \/ In(t, j, m)) /\ ~Ends(t, m) /\ t.items[m].kind \in HoldersOf("layout")
    BY <1>1, <2>1, HeldBy
  <2>3. t.items[m].kind = "appender"
    BY <2>2 DEF HoldersOf
  <2> QED
    BY <2>2, <2>3, NoneInside DEF Inner, Outer
<1>2. Ends(t, k)
  BY <1>1
<1> DEFINE m == Enclosing(t, k)
<1>3. (m = j \/ In(t, j, m)) /\ ~Ends(t, m) /\ t.items[m].kind = "layout"
  BY <1>2, EndHeldBy
<1> QED
  BY <1>1, <1>2, <1>3

\* Where no reference stands directly in an appender, none stands in it at all.
LEMMA NoRefInside ==
  ASSUME NEW t, Xml(t), Conforming(t), NEW j, NEW k, In(t, j, k),
         \A i \in Items(t) : Is(t, i, "ref") => Holder(t, i) # "appender",
         t.items[j].kind = "appender", t.items[k].kind = "ref"
  PROVE  FALSE
<1>1. ASSUME NEW x, In(t, j, x), t.items[x].kind = "ref", ~Ends(t, x) PROVE FALSE
  <2> DEFINE m == Enclosing(t, x)
  <2>1. ~Is(t, x, "comment") /\ x \in Items(t)
    BY <1>1 DEF Is, In
  <2>2. (m = j \/ In(t, j, m)) /\ ~Ends(t, m) /\ t.items[m].kind \in HoldersOf("ref")
    BY <1>1, <2>1, HeldBy
  <2>3. m # 0 /\ t.items[m].kind = Holder(t, x)
    BY <1>1, InEncloses DEF Holder
  <2>4. t.items[m].kind \in {"root", "logger"}
    BY <1>1, <2>1, <2>2, <2>3 DEF HoldersOf, Is
  <2> QED
    BY <2>2, <2>4, NoneInside DEF Inner, Outer
<1>2. Ends(t, k)
  BY <1>1
<1> DEFINE m == Enclosing(t, k)
<1>3. (m = j \/ In(t, j, m)) /\ ~Ends(t, m) /\ t.items[m].kind = "ref"
  BY <1>2, EndHeldBy
<1> QED
  BY <1>1, <1>3

\* Two elements around a tag stand one in the other.
LEMMA Nested ==
  ASSUME NEW t, Xml(t), NEW i, NEW j, NEW k, In(t, j, i), In(t, k, i), j # k
  PROVE  In(t, j, k) \/ In(t, k, j)
<1>1. /\ Items(t) = 1..Len(t.items) /\ Len(t.items) \in Nat /\ i \in Items(t)
      /\ j \in Items(t) /\ k \in Items(t) /\ j < i /\ k < i
  BY DEF Items, Xml, In
<1>2. CASE j < k
  <2>1. \A x \in (j + 1)..k : x \in (j + 1)..i
    BY <1>1
  <2> QED
    BY <1>1, <1>2, <2>1 DEF In
<1>3. CASE k < j
  <2>1. \A x \in (k + 1)..j : x \in (k + 1)..i
    BY <1>1
  <2> QED
    BY <1>1, <1>3, <2>1 DEF In
<1> QED
  BY <1>1, <1>2, <1>3

-----------------------------------------------------------------------------
(* What is read of the elements *)

\* The tags that are read of t, where they stand in it.
Follows(t, p) == Xml(t) /\ Seen(t) \in Seq(Tag) /\ Reads(t.items, Seen(t), Len(t.items), p)

\* The tags of an orderly text are read in the order in which they stand.
LEMMA OrderlyFollows ==
  ASSUME NEW t \in Texts, IsTag(t), Orderly(t)
  PROVE  Xml(t) /\ \E p : Follows(t, p)
<1>1. Xml(t)
  BY TextsAssumption DEF IsTag, Xml
<1>2. Seen(t) \in Seq(Tag)
  BY SeenItems DEF IsTag
<1>3. \E p : Reads(t.items, Seen(t), Len(t.items), p)
  BY SeenInOrder DEF InOrder
<1> QED
  BY <1>1, <1>2, <1>3 DEF Follows

\* What is read is what stands there, and no tag outside a comment is left out.
LEMMA PlacesOf ==
  ASSUME NEW t, NEW p, Follows(t, p)
  PROVE  /\ DOMAIN Seen(t) = 1..Len(Seen(t)) /\ Len(Seen(t)) \in Nat
         /\ \A x \in DOMAIN Seen(t) :
              /\ p[x] \in Items(t) /\ p[x] \in Nat \ {0} /\ t.items[p[x]] = Item(t, x) /\ Item(t, x) \in Tag
              /\ ~Is(t, p[x], "comment") /\ (Ends(t, p[x]) <=> EndTag(t, x))
              /\ Opens(t, p[x]) <=> Item(t, x).shape = "start"
         /\ \A x, y \in DOMAIN Seen(t) : (x < y <=> p[x] < p[y]) /\ (x = y <=> p[x] = p[y])
         /\ \A i \in Items(t) : Is(t, i, "comment") \/ \E x \in DOMAIN Seen(t) : p[x] = i
<1> DEFINE D == DOMAIN Seen(t)
<1>1. D = 1..Len(Seen(t)) /\ Len(Seen(t)) \in Nat /\ Items(t) = 1..Len(t.items) /\ Len(t.items) \in Nat
  BY DEF Follows, Xml, Items
<1>2. /\ p \in [D -> 1..Len(t.items)] /\ \A x \in D : t.items[p[x]] = Seen(t)[x]
      /\ \A x, y \in D : x < y => p[x] < p[y]
      /\ \A i \in 1..Len(t.items) : t.items[i].kind = "comment" \/ \E x \in D : p[x] = i
  BY DEF Follows, Reads
<1>3. ASSUME NEW x \in D
      PROVE  /\ p[x] \in Items(t) /\ p[x] \in Nat \ {0} /\ t.items[p[x]] = Item(t, x) /\ Item(t, x) \in Tag
             /\ ~Is(t, p[x], "comment") /\ (Ends(t, p[x]) <=> EndTag(t, x))
             /\ Opens(t, p[x]) <=> Item(t, x).shape = "start"
  <2>1. p[x] \in Items(t) /\ p[x] \in Nat \ {0} /\ t.items[p[x]] = Item(t, x)
    BY <1>1, <1>2 DEF Item
  <2>2. Item(t, x) \in Tag
    BY <1>1 DEF Follows, Item
  <2>3. Item(t, x).kind # "comment"
    BY <2>2 DEF Tag
  <2>4. t.form = "xml"
    BY DEF Follows, Xml
  <2> QED
    BY <2>1, <2>2, <2>3, <2>4 DEF Is, Ends, EndTag, Opens, IsTag
<1>4. ASSUME NEW x \in D, NEW y \in D PROVE (x < y <=> p[x] < p[y]) /\ (x = y <=> p[x] = p[y])
  <2>1. x \in Nat /\ y \in Nat /\ p[x] \in Nat /\ p[y] \in Nat
    BY <1>1, <1>2
  <2>2. (x < y => p[x] < p[y]) /\ (y < x => p[y] < p[x])
    BY <1>2
  <2> QED
    BY <2>1, <2>2
<1>5. \A i \in Items(t) : Is(t, i, "comment") \/ \E x \in D : p[x] = i
  BY <1>1, <1>2 DEF Is
<1> HIDE DEF D
<1> QED
  BY <1>1, <1>3, <1>4, <1>5 DEF D

\* A tag behind a start whose end has not been read stands in that element.
LEMMA ReadIn ==
  ASSUME NEW t, NEW p, Follows(t, p), Conforming(t), NEW x \in DOMAIN Seen(t), NEW y \in DOMAIN Seen(t),
         y < x, Item(t, y).shape = "start",
         \A z \in (y + 1)..x : Item(t, z).kind = Item(t, y).kind => Item(t, z).shape # "end"
  PROVE  In(t, p[y], p[x])
<1>1. /\ DOMAIN Seen(t) = 1..Len(Seen(t)) /\ Len(Seen(t)) \in Nat
      /\ p[x] \in Items(t) /\ p[y] \in Items(t) /\ p[y] < p[x] /\ Opens(t, p[y])
      /\ t.items[p[y]] = Item(t, y) /\ p[x] \in Nat /\ p[y] \in Nat
  BY PlacesOf
<1>2. Xml(t) /\ Items(t) = 1..Len(t.items) /\ Len(t.items) \in Nat
  BY DEF Follows, Xml, Items
<1>3. ASSUME NEW k \in (p[y] + 1)..p[x], Ends(t, k), t.items[k].kind = t.items[p[y]].kind PROVE FALSE
  <2>1. k \in Items(t) /\ ~Is(t, k, "comment")
    BY <1>1, <1>2, <1>3 DEF Ends, Is
  <2>2. PICK z \in DOMAIN Seen(t) : p[z] = k
    BY <2>1, PlacesOf
  <2>3. p[y] < p[z] /\ ~(p[x] < p[z])
    BY <1>1, <2>2
  <2>4. y < z /\ ~(x < z)
    BY <2>3, PlacesOf
  <2>5. z \in (y + 1)..x
    BY <1>1, <2>4
  <2>6. t.items[k] = Item(t, z) /\ EndTag(t, z)
    BY <1>3, <2>2, PlacesOf
  <2> QED
    BY <1>1, <1>3, <2>5, <2>6 DEF EndTag
<1> QED
  BY <1>1, <1>2, <1>3, StillOpen

\* What is read between the start of an element and a tag in it is in it too.
LEMMA BetweenIn ==
  ASSUME NEW t, NEW p, Follows(t, p), NEW x \in DOMAIN Seen(t), NEW y \in DOMAIN Seen(t),
         In(t, p[y], p[x]), NEW z \in (y + 1)..x
  PROVE  /\ z \in DOMAIN Seen(t) /\ In(t, p[y], p[z]) /\ p[z] \in Items(t) /\ (z # x => p[z] < p[x])
<1>1. /\ DOMAIN Seen(t) = 1..Len(Seen(t)) /\ Len(Seen(t)) \in Nat
      /\ p[x] \in Nat /\ p[y] \in Nat
  BY PlacesOf
<1>2. z \in DOMAIN Seen(t) /\ y < z /\ ~(x < z) /\ (z # x => z < x)
  BY <1>1
<1>3. p[z] \in Items(t) /\ p[z] \in Nat /\ p[y] < p[z] /\ ~(p[x] < p[z]) /\ (z # x => p[z] < p[x])
  BY <1>2, PlacesOf
<1>4. \A k \in (p[y] + 1)..p[z] : k \in (p[y] + 1)..p[x]
  BY <1>1, <1>3
<1> QED
  BY <1>2, <1>3, <1>4 DEF In

\* A tag behind the end of an element is not in it.
LEMMA PastEnd ==
  ASSUME NEW t, Xml(t), NEW j, NEW k \in Items(t), NEW i, In(t, j, i), k < i, Ends(t, k), Enclosing(t, k) = j
  PROVE  FALSE
<1>1. /\ Items(t) = 1..Len(t.items) /\ Len(t.items) \in Nat /\ i \in Nat /\ j \in Nat \ {0} /\ k \in Nat \ {0}
  BY DEF Items, Xml, In
<1>2. In(t, j, k) /\ Depth(t, j) = Depth(t, k) - 1
  BY <1>1, EnclosingHolds
<1>3. ~Opens(t, k) /\ j < k
  BY <1>2 DEF Ends, Opens, In
<1>4. /\ Depth(t, k) \in Int
      /\ Depth(t, k + 1) = Depth(t, k) + (IF Opens(t, k) THEN 1 ELSE 0) - (IF Ends(t, k) THEN 1 ELSE 0)
  BY <1>1, DepthStep
<1>5. k + 1 \in (j + 1)..i
  BY <1>1, <1>3
<1>6. Depth(t, k + 1) > Depth(t, j)
  BY <1>5 DEF In
<1> QED
  BY <1>2, <1>3, <1>4, <1>6

\* The logger that is open is the one in which a tag stands.
LEMMA LoggerOpenIn ==
  ASSUME NEW t, NEW p, Follows(t, p), Conforming(t), NEW x \in DOMAIN Seen(t), Item(t, x).kind # "logger", NEW y
  PROVE  LoggerOpen(t, x, y) <=>
           y \in DOMAIN Seen(t) /\ Item(t, y).kind = "logger" /\ In(t, p[y], p[x])
<1>1. DOMAIN Seen(t) = 1..Len(Seen(t)) /\ Len(Seen(t)) \in Nat /\ x \in 1..Len(Seen(t)) /\ Xml(t)
  BY PlacesOf DEF Follows
<1>2. ASSUME LoggerOpen(t, x, y)
      PROVE  y \in DOMAIN Seen(t) /\ Item(t, y).kind = "logger" /\ In(t, p[y], p[x])
  <2>1. /\ y \in 1..x /\ Item(t, y).kind = "logger" /\ Item(t, y).shape = "start"
        /\ \A z \in (y + 1)..x : Item(t, z).kind # "logger"
    BY <1>2 DEF LoggerOpen
  <2>2. y # x
    BY <2>1
  <2>3. y \in DOMAIN Seen(t) /\ y < x
    BY <1>1, <2>1, <2>2
  <2> QED
    BY <2>1, <2>3, ReadIn
<1>3. ASSUME y \in DOMAIN Seen(t), Item(t, y).kind = "logger", In(t, p[y], p[x])
      PROVE  LoggerOpen(t, x, y)
  <2>1. p[y] < p[x] /\ Opens(t, p[y])
    BY <1>3 DEF In
  <2>2. y < x /\ Item(t, y).shape = "start" /\ t.items[p[y]] = Item(t, y)
    BY <1>3, <2>1, PlacesOf
  <2>3. ASSUME NEW z \in (y + 1)..x, Item(t, z).kind = "logger" PROVE FALSE
    <3>1. z \in DOMAIN Seen(t) /\ In(t, p[y], p[z]) /\ p[z] \in Items(t) /\ p[z] < p[x]
      BY <1>3, <2>3, BetweenIn
    <3>2. t.items[p[z]].kind = "logger" /\ t.items[p[y]].kind = "logger"
      BY <1>3, <2>2, <2>3, <3>1, PlacesOf
    <3>3. Ends(t, p[z]) /\ Enclosing(t, p[z]) = p[y]
      BY <1>1, <3>1, <3>2, NoneInside DEF Inner, Outer
    <3> QED
      BY <1>1, <1>3, <3>1, <3>3, PastEnd
  <2>4. y \in 1..x
    BY <1>1, <1>3, <2>2
  <2> QED
    BY <1>3, <2>2, <2>3, <2>4 DEF LoggerOpen
<1> QED
  BY <1>2, <1>3

\* What stands directly in a logger has no appender and no layout around it.
LEMMA OnlyLogger ==
  ASSUME NEW t, Xml(t), Conforming(t), NEW i, NEW j, In(t, j, i), t.items[j].kind = "logger",
         NEW k, In(t, k, i), t.items[k].kind \in {"appender", "layout"}
  PROVE  FALSE
<1>1. ~Ends(t, j) /\ ~Ends(t, k)
  BY DEF In, Opens, Ends
<1>2. In(t, j, k) \/ In(t, k, j)
  BY Nested
<1>3. CASE In(t, k, j)
  BY <1>1, <1>3, NoneInside DEF Inner, Outer
<1>4. CASE In(t, j, k)
  BY <1>1, <1>4, NoneInside, NoLayoutInside DEF Inner, Outer
<1> QED
  BY <1>2, <1>3, <1>4

\* An appender that is open has the tag in it.
LEMMA AppenderOpenIn ==
  ASSUME NEW t, NEW p, Follows(t, p), Conforming(t), NEW x \in DOMAIN Seen(t), Item(t, x).kind # "appender",
         AppenderOpen(t, x)
  PROVE  \E y \in DOMAIN Seen(t) : Item(t, y).kind = "appender" /\ In(t, p[y], p[x])
<1>1. DOMAIN Seen(t) = 1..Len(Seen(t)) /\ Len(Seen(t)) \in Nat /\ x \in 1..Len(Seen(t))
  BY PlacesOf
<1>2. PICK y \in 1..x : /\ Item(t, y).kind = "appender" /\ Item(t, y).shape = "start"
                        /\ \A k \in (y + 1)..x : AppenderTag(Item(t, k)) => Item(t, k).shape = "start"
  BY DEF AppenderOpen
<1>3. y \in DOMAIN Seen(t) /\ y < x
  <2>1. y # x
    BY <1>2
  <2> QED
    BY <1>1, <2>1
<1>4. \A z \in (y + 1)..x : Item(t, z).kind = Item(t, y).kind => Item(t, z).shape # "end"
  BY <1>2 DEF AppenderTag
<1>5. In(t, p[y], p[x])
  BY <1>2, <1>3, <1>4, ReadIn
<1> QED
  BY <1>2, <1>3, <1>5

\* So have layouts.
LEMMA LayoutOpenIn ==
  ASSUME NEW t, NEW p, Follows(t, p), Conforming(t), NEW x \in DOMAIN Seen(t), Item(t, x).kind # "layout",
         LayoutOpen(t, x)
  PROVE  \E y \in DOMAIN Seen(t) : Item(t, y).kind = "layout" /\ In(t, p[y], p[x])
<1>1. DOMAIN Seen(t) = 1..Len(Seen(t)) /\ Len(Seen(t)) \in Nat /\ x \in 1..Len(Seen(t))
  BY PlacesOf
<1>2. PICK y \in 1..x : /\ Item(t, y).kind = "layout" /\ Item(t, y).shape = "start"
                        /\ \A k \in (y + 1)..x : Item(t, k).kind = "layout" => Item(t, k).shape = "start"
  BY DEF LayoutOpen
<1>3. y \in DOMAIN Seen(t) /\ y < x
  <2>1. y # x
    BY <1>2
  <2> QED
    BY <1>1, <2>1
<1>4. \A z \in (y + 1)..x : Item(t, z).kind = Item(t, y).kind => Item(t, z).shape # "end"
  BY <1>2
<1>5. In(t, p[y], p[x])
  BY <1>2, <1>3, <1>4, ReadIn
<1> QED
  BY <1>2, <1>3, <1>5

-----------------------------------------------------------------------------
(* Configured as declared *)

\* What a text declares for n is what its items say, the item at x being the
\* one at p[x] of the text.
Declares(t, source, n, p) ==
  /\ n \in LoggerNames
  /\ \A x \in DOMAIN Seen(t) : p[x] \in Nat
  /\ \A x, y \in DOMAIN Seen(t) : x < y <=> p[x] < p[y]
  /\ \A x \in DOMAIN Seen(t), v \in Levels : SetsLevel(t, x, n, v) => <<p[x], v>> \in LevelsOf(t, n)
  /\ \A s \in LevelsOf(t, n) : \E x \in DOMAIN Seen(t), v \in Levels : s = <<p[x], v>> /\ SetsLevel(t, x, n, v)
  /\ \A r \in RefsOf(t, n, source) : \E x \in DOMAIN Seen(t) : Attaches(t, source, x, n, r)
  /\ \A r, k : k \in ClassesOf(t, r) =>
       \E x \in DOMAIN Seen(t) : Defines(t, x, r, k) /\ r \in AppenderNames /\ k \in Kinds

\* Lines are read as they stand, and each speaks for itself.
LEMMA LinesDeclare ==
  ASSUME NEW t \in Texts, ~IsTag(t), NEW n \in LoggersOf(t), NEW source
  PROVE  \E p : Declares(t, source, n, p)
<1>1. /\ Seen(t) = t.items /\ DOMAIN Seen(t) = 1..Len(Seen(t)) /\ Items(t) = DOMAIN Seen(t)
      /\ t.form = "property"
  BY SeenItems, TextsAssumption DEF IsTag, Seen, Items
<1>2. \A i \in Items(t) : t.items[i] = Item(t, i) /\ Item(t, i) \in Line /\ ~Ends(t, i) /\ ~EndTag(t, i)
  BY <1>1, ItemType DEF Item, Ends, EndTag, IsTag
<1>3. n \in LoggerNames
  <2>1. PICK i \in Items(t) : Item(t, i).kind = "logger" /\ n = Item(t, i).name
    BY <1>2 DEF LoggersOf, Is
  <2> QED
    BY <1>2, <2>1 DEF Line
<1>4. \A i, v : <<i, v>> \in LevelsOf(t, n) <=> i \in Items(t) /\ SetsLevel(t, i, n, v)
  BY <1>1, <1>2 DEF LevelsOf, SetsLevel, Is, IsTag
<1>5. \A i \in Items(t) : \A v : SetsLevel(t, i, n, v) => v \in Levels
  BY <1>1, <1>2 DEF SetsLevel, Line, IsTag
<1>6. ASSUME NEW s \in LevelsOf(t, n)
      PROVE  \E x \in Items(t), v \in Levels : s = <<x, v>> /\ SetsLevel(t, x, n, v)
  <2>1. PICK i, v : s = <<i, v>>
    BY <1>1 DEF LevelsOf
  <2> QED
    BY <1>4, <1>5, <2>1
<1>7. ASSUME NEW r \in RefsOf(t, n, source) PROVE \E x \in Items(t) : Attaches(t, source, x, n, r)
  <2>1. PICK i \in Items(t) :
          /\ Item(t, i).kind = "logger" /\ Item(t, i).name = n
          /\ r \in Elements(RefsFrom(Item(t, i), source))
    BY <1>1, <1>2 DEF RefsOf, RefsFrom, Is
  <2>2. \E x \in DOMAIN RefsFrom(Item(t, i), source) : RefsFrom(Item(t, i), source)[x] = r
    BY <2>1 DEF Elements
  <2> QED
    BY <2>1, <2>2 DEF Attaches
<1>8. ASSUME NEW r, NEW k \in ClassesOf(t, r)
      PROVE  \E x \in Items(t) : Defines(t, x, r, k) /\ r \in AppenderNames /\ k \in Kinds
  <2>1. PICK i \in Items(t) : Item(t, i).kind = "appender" /\ Item(t, i).name = r /\ Item(t, i).class = k
    BY <1>2 DEF ClassesOf, Is
  <2>2. r \in AppenderNames /\ k \in Kinds
    BY <1>2, <2>1 DEF Line
  <2> QED
    BY <1>2, <2>1, <2>2 DEF Defines
<1> DEFINE p == [x \in Items(t) |-> x]
<1>9. \A x \in Items(t) : p[x] = x /\ p[x] \in Nat
  BY <1>1
<1> HIDE DEF p
<1>10. Declares(t, source, n, p)
  BY <1>1, <1>3, <1>4, <1>6, <1>7, <1>8, <1>9 DEF Declares
<1> QED
  BY <1>10

\* Of what logger a tag speaks that does not name one itself.
LEMMA SpeaksOf ==
  ASSUME NEW t, NEW p, Follows(t, p), NEW x \in DOMAIN Seen(t), Item(t, x).kind \in {"level", "ref"}, NEW n
  PROVE  Speaks(t, p[x], n) <=>
           \E y \in DOMAIN Seen(t) : /\ p[y] = Enclosing(t, p[x]) /\ In(t, p[y], p[x])
                                     /\ Item(t, y).kind = "logger" /\ Item(t, y).name = n
<1>1. Xml(t) /\ p[x] \in Items(t) /\ t.items[p[x]] = Item(t, x) /\ t.form # "property"
  BY PlacesOf DEF Follows, Xml
<1> DEFINE m == Enclosing(t, p[x])
<1>2. Speaks(t, p[x], n) <=> m # 0 /\ t.items[m].kind = "logger" /\ t.items[m].name = n
  BY <1>1 DEF Speaks, Subject, Is
<1>3. ASSUME m # 0 PROVE In(t, m, p[x]) /\ \E y \in DOMAIN Seen(t) : p[y] = m
  <2>1. In(t, m, p[x])
    BY <1>1, <1>3, EnclosingHolds
  <2>2. m \in Items(t) /\ ~Is(t, m, "comment")
    BY <2>1 DEF In, Opens, Is
  <2> QED
    BY <2>1, <2>2, PlacesOf
<1>4. \A y \in DOMAIN Seen(t) : t.items[p[y]] = Item(t, y) /\ p[y] \in Nat \ {0}
  BY PlacesOf
<1> HIDE DEF m
<1>5. ASSUME Speaks(t, p[x], n)
      PROVE  \E y \in DOMAIN Seen(t) : /\ p[y] = m /\ In(t, p[y], p[x])
                                       /\ Item(t, y).kind = "logger" /\ Item(t, y).name = n
  BY <1>2, <1>3, <1>4, <1>5
<1>6. ASSUME NEW y \in DOMAIN Seen(t), p[y] = m, Item(t, y).kind = "logger", Item(t, y).name = n
      PROVE  Speaks(t, p[x], n)
  BY <1>2, <1>4, <1>6
<1> QED
  BY <1>5, <1>6 DEF m

\* A level in a logger stands directly in it: whatever else could hold a level
\* cannot stand in a logger.
LEMMA LevelInLogger ==
  ASSUME NEW t, Xml(t), Conforming(t), NEW i, NEW j, In(t, j, i), t.items[j].kind = "logger",
         t.items[i].kind = "level", ~Ends(t, i)
  PROVE  Enclosing(t, i) = j
<1> DEFINE m == Enclosing(t, i)
<1>1. ~Is(t, i, "comment")
  BY DEF Is
<1>2. /\ m = j \/ In(t, j, m)
      /\ ~Ends(t, m) /\ t.items[m].kind # "nothing" /\ t.items[m].kind \in HoldersOf("level")
  BY <1>1, HeldBy
<1>3. t.items[m].kind \in Outer \union {"layout"}
  BY <1>2 DEF HoldersOf, Outer
<1>4. t.items[j].kind \in Inner
  BY DEF Inner
<1> HIDE DEF m
<1>5. ~(In(t, j, m) /\ t.items[m].kind \in Outer)
  BY <1>2, <1>4, NoneInside
<1>6. ~(In(t, j, m) /\ t.items[m].kind = "layout")
  BY <1>2, NoLayoutInside
<1> QED
  BY <1>2, <1>3, <1>5, <1>6 DEF m

\* The levels that are set are those of the tags directly in the logger.
LEMMA LevelOfTag ==
  ASSUME NEW t, NEW p, Follows(t, p), Conforming(t), NEW x \in DOMAIN Seen(t), NEW n, NEW v,
         Item(t, x).kind = "level", ~EndTag(t, x)
  PROVE  SetsLevel(t, x, n, v) <=> Speaks(t, p[x], n) /\ Item(t, x).value = v
<1>1. /\ DOMAIN Seen(t) = 1..Len(Seen(t)) /\ Len(Seen(t)) \in Nat /\ x \in 1..Len(Seen(t))
      /\ t.items[p[x]] = Item(t, x) /\ ~Ends(t, p[x]) /\ IsTag(t) /\ Xml(t)
  BY PlacesOf DEF Follows, Xml, IsTag
<1>2. \A y \in DOMAIN Seen(t) : t.items[p[y]] = Item(t, y)
  BY PlacesOf
<1>3. ASSUME SetsLevel(t, x, n, v) PROVE Speaks(t, p[x], n) /\ Item(t, x).value = v
  <2>1. PICK y \in 1..x : LoggerOpen(t, x, y) /\ Item(t, y).name = n
    BY <1>1, <1>3 DEF SetsLevel
  <2>2. y \in DOMAIN Seen(t) /\ Item(t, y).kind = "logger" /\ In(t, p[y], p[x])
    BY <2>1, LoggerOpenIn
  <2>3. Enclosing(t, p[x]) = p[y]
    BY <1>1, <1>2, <2>2, LevelInLogger
  <2> QED
    BY <1>1, <1>3, <2>1, <2>2, <2>3, SpeaksOf DEF SetsLevel
<1>4. ASSUME Speaks(t, p[x], n), Item(t, x).value = v PROVE SetsLevel(t, x, n, v)
  <2>0. \E y \in DOMAIN Seen(t) : /\ p[y] = Enclosing(t, p[x]) /\ In(t, p[y], p[x])
                                   /\ Item(t, y).kind = "logger" /\ Item(t, y).name = n
    BY <1>4, SpeaksOf
  <2>1. PICK y \in DOMAIN Seen(t) : In(t, p[y], p[x]) /\ Item(t, y).kind = "logger" /\ Item(t, y).name = n
    BY <2>0
  <2>2. LoggerOpen(t, x, y)
    BY <2>1, LoggerOpenIn
  <2>3. y \in 1..x
    BY <2>2 DEF LoggerOpen
  <2>4. ~AppenderOpen(t, x)
    BY <1>1, <1>2, <2>1, AppenderOpenIn, OnlyLogger
  <2>5. ~LayoutOpen(t, x)
    BY <1>1, <1>2, <2>1, LayoutOpenIn, OnlyLogger
  <2> QED
    BY <1>1, <1>4, <2>1, <2>2, <2>3, <2>4, <2>5 DEF SetsLevel
<1> QED
  BY <1>3, <1>4

\* Tags speak of the logger that is open where they stand.
LEMMA TagsDeclare ==
  ASSUME NEW t \in Texts, IsTag(t), Orderly(t), Conforming(t), NEW n \in LoggersOf(t), NEW source
  PROVE  \E p : Declares(t, source, n, p)
<1>1. PICK p : Follows(t, p)
  BY OrderlyFollows
<1>2. Xml(t) /\ t.form # "property"
  BY <1>1 DEF Follows, Xml, IsTag
<1> DEFINE D == DOMAIN Seen(t)
<1>3. /\ D = 1..Len(Seen(t)) /\ Len(Seen(t)) \in Nat
      /\ \A x \in D : /\ p[x] \in Items(t) /\ p[x] \in Nat /\ t.items[p[x]] = Item(t, x) /\ Item(t, x) \in Tag
                      /\ Ends(t, p[x]) <=> EndTag(t, x)
      /\ \A x, y \in D : (x < y <=> p[x] < p[y]) /\ (x = y <=> p[x] = p[y])
      /\ \A i \in Items(t) : Is(t, i, "comment") \/ \E x \in D : p[x] = i
  BY <1>1, PlacesOf
<1>4. n \in LoggerNames
  <2>1. PICK i \in Items(t) : Is(t, i, "logger") /\ ~Ends(t, i) /\ n = t.items[i].name
    BY DEF LoggersOf
  <2>2. PICK x \in D : p[x] = i
    BY <1>3, <2>1 DEF Is
  <2>3. Item(t, x) \in Tag /\ Item(t, x).kind = "logger" /\ Item(t, x).shape # "end" /\ n = Item(t, x).name
    BY <1>3, <2>1, <2>2 DEF Is, EndTag
  <2> QED
    BY <2>3 DEF Tag
<1>5. ASSUME NEW x \in D, NEW v, SetsLevel(t, x, n, v) PROVE <<p[x], v>> \in LevelsOf(t, n)
  <2>1. Item(t, x).kind = "level" /\ ~EndTag(t, x)
    BY <1>5 DEF SetsLevel
  <2>2. Speaks(t, p[x], n) /\ Item(t, x).value = v
    BY <1>1, <1>5, <2>1, LevelOfTag
  <2>3. p[x] \in Items(t) /\ Is(t, p[x], "level") /\ ~Ends(t, p[x]) /\ t.items[p[x]].value = v
    BY <1>3, <2>1, <2>2 DEF Is
  <2> QED
    BY <1>2, <2>2, <2>3 DEF LevelsOf
<1>6. ASSUME NEW s \in LevelsOf(t, n)
      PROVE  \E x \in D, v \in Levels : s = <<p[x], v>> /\ SetsLevel(t, x, n, v)
  <2>1. PICK i \in Items(t) : /\ Is(t, i, "level") /\ ~Ends(t, i) /\ Speaks(t, i, n)
                              /\ s = <<i, t.items[i].value>>
    BY <1>2 DEF LevelsOf
  <2>2. PICK x \in D : p[x] = i
    BY <1>3, <2>1 DEF Is
  <2>3. /\ Item(t, x).kind = "level" /\ ~EndTag(t, x) /\ Item(t, x) \in Tag
        /\ s = <<p[x], Item(t, x).value>> /\ Speaks(t, p[x], n)
    BY <1>3, <2>1, <2>2 DEF Is
  <2>4. Item(t, x).value \in Levels
    <3>1. Item(t, x).shape # "end"
      BY <2>3 DEF EndTag
    <3> QED
      BY <2>3, <3>1 DEF Tag
  <2>5. SetsLevel(t, x, n, Item(t, x).value)
    BY <1>1, <2>3, LevelOfTag
  <2> QED
    BY <2>3, <2>4, <2>5
<1>7. ASSUME NEW r \in RefsOf(t, n, source) PROVE \E x \in D : Attaches(t, source, x, n, r)
  <2>1. PICK i \in Items(t) : /\ Is(t, i, "ref") /\ ~Ends(t, i) /\ Speaks(t, i, n)
                              /\ r = t.items[i].name
    BY <1>2 DEF RefsOf
  <2>2. PICK x \in D : p[x] = i
    BY <1>3, <2>1 DEF Is
  <2>3. /\ Item(t, x).kind = "ref" /\ ~EndTag(t, x) /\ Item(t, x).name = r
        /\ Speaks(t, p[x], n)
    BY <1>3, <2>1, <2>2 DEF Is
  <2>4. PICK y \in D : In(t, p[y], p[x]) /\ Item(t, y).kind = "logger" /\ Item(t, y).name = n
    BY <1>1, <2>3, SpeaksOf
  <2>5. LoggerOpen(t, x, y)
    BY <1>1, <2>3, <2>4, LoggerOpenIn
  <2>6. y \in 1..x
    BY <2>5 DEF LoggerOpen
  <2> QED
    BY <2>3, <2>4, <2>5, <2>6 DEF Attaches
<1>8. ASSUME NEW r, NEW k \in ClassesOf(t, r)
      PROVE  \E x \in D : Defines(t, x, r, k) /\ r \in AppenderNames /\ k \in Kinds
  <2>1. PICK i \in Items(t) : /\ Is(t, i, "appender") /\ ~Ends(t, i) /\ t.items[i].name = r
                              /\ t.items[i].class = k
    BY DEF ClassesOf
  <2>2. PICK x \in D : p[x] = i
    BY <1>3, <2>1 DEF Is
  <2>3. /\ Item(t, x).kind = "appender" /\ ~EndTag(t, x) /\ Item(t, x).name = r
        /\ Item(t, x).class = k /\ Item(t, x) \in Tag
    BY <1>3, <2>1, <2>2 DEF Is
  <2>4. r \in AppenderNames /\ k \in Kinds
    <3>1. Item(t, x).shape # "end"
      BY <2>3 DEF EndTag, IsTag
    <3> QED
      BY <2>3, <3>1 DEF Tag
  <2> QED
    BY <2>3, <2>4 DEF Defines
<1> HIDE DEF D
<1>9. Declares(t, source, n, p)
  BY <1>3, <1>4, <1>5, <1>6, <1>7, <1>8 DEF Declares, D
<1> QED
  BY <1>9

\* After a text has been configured every logger that it speaks of has the last
\* level the text gives it, and every appender that the text names for it and
\* defines, with the class it defines, unless its slots are all taken; whatever
\* was configured before, and in whatever order the lines stand.
THEOREM TextsAsDeclared ==
  ASSUME NamesFit
  PROVE  ConfiguratorSpec => []ConfiguredAsDeclared
<1>1. ConfiguratorInv => ConfiguredAsDeclared
  <2> SUFFICES ASSUME ConfiguratorInv, job = Idle, done # << >>, ~LastCall.failed,
                      Conforming(LastText), Orderly(LastText), NEW n \in LoggersOf(LastText)
               PROVE  LET t == LastText
                          l == Lookup(loggers, n)
                          slots == Elements(loggers[l].slots) IN
                      /\ \A s \in LevelsOf(t, n) :
                           (\A r \in LevelsOf(t, n) : r[1] <= s[1]) => loggers[l].level = s[2]
                      /\ \A r \in RefsOf(t, n, LastSource) :
                           LET a == FindAppender(r) IN
                           ClassesOf(t, r) # {} =>
                             /\ a # 0
                             /\ a \in slots \/ 0 \notin slots
                             /\ \A k \in ClassesOf(t, r) : appenders[a].class = ClassOf(k)
    BY DEF ConfiguredAsDeclared, Resting, LastText, LastSource
  <2>1. Live /\ IInv /\ HistoryInv /\ TextInv
    BY DEF ConfiguratorInv, DoneInv, Live
  <2>2. LastText \in Texts /\ Positions = 1..Len(Seen(LastText)) /\ Positions = DOMAIN Seen(LastText)
    BY <2>1, PlaceType DEF Positions
  <2>3. PICK p : Declares(LastText, LastSource, n, p)
    BY <2>2, LinesDeclare, TagsDeclare
  <2>4. \A i, o : Made(i, o) /\ EverMade(i, o)
    BY DEF Made, EverMade
  <2>5. \A i, r : EverMadeRef(i, r)
    BY DEF MadeRef, EverMadeRef
  <2>6. n \in LoggerNames
    BY <2>3 DEF Declares
  <2>7. ASSUME NEW s \in LevelsOf(LastText, n), \A r \in LevelsOf(LastText, n) : r[1] <= s[1]
        PROVE  loggers[Lookup(loggers, n)].level = s[2]
    <3>1. PICK i \in Positions, v \in Levels : s = <<p[i], v>> /\ SetsLevel(LastText, i, n, v)
      BY <2>2, <2>3 DEF Declares
    <3>2. ASSUME NEW j \in Positions, NEW w \in Levels, SetsLevel(LastText, j, n, w)
          PROVE  j <= i
      <4>1. <<p[j], w>> \in LevelsOf(LastText, n)
        BY <2>2, <2>3, <3>2 DEF Declares
      <4>2. p[j] <= p[i]
        BY <2>7, <3>1, <4>1
      <4>3. ~(i < j)
        <5>1. (i < j <=> p[i] < p[j]) /\ p[i] \in Nat /\ p[j] \in Nat
          BY <2>2, <2>3 DEF Declares
        <5> QED
          BY <4>2, <5>1
      <4> QED
        BY <2>2, <4>3
    <3>3. loggers[Lookup(loggers, n)].level = v
      BY <2>1, <2>4, <2>6, <3>1, <3>2 DEF TextInv, LevelsInv
    <3> QED
      BY <3>1, <3>3
  <2>8. ASSUME NEW r \in RefsOf(LastText, n, LastSource), ClassesOf(LastText, r) # {}
         PROVE  LET a == FindAppender(r)
                    slots == Elements(loggers[Lookup(loggers, n)].slots) IN
                /\ a # 0
                /\ a \in slots \/ 0 \notin slots
                /\ \A k \in ClassesOf(LastText, r) : appenders[a].class = ClassOf(k)
    <3>1. PICK i \in Positions : Attaches(LastText, LastSource, i, n, r)
      BY <2>2, <2>3 DEF Declares
    <3>2. \A k \in ClassesOf(LastText, r) :
            \E j \in Positions : Defines(LastText, j, r, k) /\ r \in AppenderNames /\ k \in Kinds
      BY <2>2, <2>3 DEF Declares
    <3>3. \A k \in ClassesOf(LastText, r) :
            r \in AppenderNames /\ FindAppender(r) # 0 /\ appenders[FindAppender(r)].class = ClassOf(k)
      BY <2>1, <2>4, <3>2 DEF TextInv, DefinedInv
    <3>4. r \in AppenderNames /\ FindAppender(r) # 0
      BY <2>8, <3>3
    <3>5. Holds(Lookup(loggers, n), FindAppender(r))
      BY <2>1, <2>5, <2>6, <3>1, <3>4 DEF TextInv, AttachedInv
    <3>6. loggers[Lookup(loggers, n)].slots \in [Slots -> {0} \union AppenderIds]
      <4>1. Lookup(loggers, n) # 0
        BY <3>5 DEF Holds
      <4> QED
        BY <2>1, <4>1, LookupIsLogger, SlotsAreTyped DEF IInv
    <3>7. \/ FindAppender(r) \in Elements(loggers[Lookup(loggers, n)].slots)
          \/ 0 \notin Elements(loggers[Lookup(loggers, n)].slots)
      BY <3>5, <3>6 DEF Holds, Elements
    <3> QED
      BY <3>3, <3>4, <3>7
  <2> QED
    BY <2>7, <2>8
<1> QED
  BY <1>1, ConfiguratorKeepsInv, PTL

-----------------------------------------------------------------------------
(* Options and the elements they stand in *)

\* What is current at a tag.
TargetAt(t, i) ==
  IF LayoutOpen(t, i) THEN "layout"
  ELSE IF AppenderOpen(t, i) THEN "appender"
  ELSE IF \E j \in 1..i : LoggerOpen(t, i, j) THEN "logger" ELSE "nothing"

\* An option is set by a level or a param, for what is current there.
PlacedAt(t, q) ==
  /\ q[1] \in DOMAIN Seen(t) /\ Item(t, q[1]).kind \in {"level", "param"} /\ ~EndTag(t, q[1])
  /\ q[2][1] = TargetAt(t, q[1])
PlacedInv == (done # << >> /\ IsTag(LastText)) => \A q \in placed : PlacedAt(LastText, q)

\* A call that sets an option sets it for what is current.
LEMMA PlacedNow ==
  ASSUME ConfiguratorInv, NEW op \in {"level", "param"}, Takes(op), IsTag(LastText)
  PROVE  PlacedAt(LastText, <<job.at, Target>>)
<1>1. CallsInv /\ HistoryInv /\ ShapeInv /\ CurrentInv
  BY DEF ConfiguratorInv, DoneInv
<1>2. PICK i : AtCall(op, i)
  BY <1>1, CallStands
<1>3. /\ i \in Positions /\ job.at = i /\ job.todo[1].op = op
      /\ AsksFor(LastText, LastSource, i, job.todo[1])
      /\ Item(LastText, i) \in Tag
      /\ Item(LastText, i).kind # "logger" => LoggerCurrent(i)
      /\ ~AppenderTag(Item(LastText, i)) => AppenderCurrent(i)
      /\ Item(LastText, i).kind # "layout" => LayoutCurrent(i)
  BY <1>2 DEF AtCall
<1>4. Item(LastText, i).kind \in {"level", "param"} /\ ~EndTag(LastText, i)
  <2>1. CASE op = "level"
    BY <1>3, <2>1 DEF AsksFor, Wants
  <2>2. CASE op = "param"
    BY <1>3, <2>2 DEF AsksFor, Tag
  <2> QED
    BY <2>1, <2>2
<1>5. LoggerCurrent(i) /\ AppenderCurrent(i) /\ LayoutCurrent(i)
  BY <1>3, <1>4 DEF AppenderTag
<1>6. /\ cur.layout # 0 <=> LayoutOpen(LastText, i)
      /\ cur.appender # 0 <=> AppenderOpen(LastText, i)
      /\ cur.logger # 0 <=> \E j \in 1..i : LoggerOpen(LastText, i, j)
  BY <1>5 DEF LoggerCurrent, AppenderCurrent, LayoutCurrent
<1>7. Target[1] = TargetAt(LastText, i)
  BY <1>6 DEF Target, TargetAt
<1> QED
  BY <1>3, <1>4, <1>7 DEF PlacedAt, Positions

\* Every option stays where it was set, until a text is read again.
LEMMA NextPlaced ==
  ASSUME ConfiguratorInv, PlacedInv, [ConfiguratorNext]_all
  PROVE  PlacedInv'
<1> SUFFICES ASSUME done' # << >>, IsTag(LastText'), NEW q \in placed' PROVE PlacedAt(LastText', q)
  BY DEF PlacedInv, IsTag, PlacedAt, TargetAt, Seen, Item, EndTag, LayoutOpen, AppenderOpen, LoggerOpen
<1>a. ASSUME done' = done PROVE LastText' = LastText /\ done # << >> /\ IsTag(LastText)
  BY <1>a, SameCall DEF IsTag
<1>b. ASSUME done' = done, q \in placed PROVE PlacedAt(LastText', q)
  BY <1>a, <1>b DEF PlacedInv
<1>c. ASSUME NEW op \in {"level", "param"}, Takes(op), placed' = placed \union {<<job.at, Target>>}
      PROVE  PlacedAt(LastText', q)
  <2>1. done' = done
    BY <1>c DEF Takes
  <2>2. CASE q \in placed
    BY <1>b, <2>1, <2>2
  <2>3. CASE q = <<job.at, Target>>
    <3>1. LastText' = LastText /\ IsTag(LastText)
      BY <1>a, <2>1
    <3>2. PlacedAt(LastText, <<job.at, Target>>)
      BY <1>c, <3>1, PlacedNow
    <3> QED
      BY <2>3, <3>1, <3>2
  <2> QED
    BY <1>c, <2>2, <2>3
<1>1. CASE UNCHANGED all
  BY <1>1, <1>b DEF all, configuring
<1>2. CASE \E t \in Texts, source \in {"string", "file"} : Begin(t, source)
  BY <1>2 DEF Begin
<1>3. CASE Unreadable \/ SecondPass
  BY <1>3 DEF Unreadable, SecondPass
<1>4. CASE Quiet /\ ~SecondPass /\ ~CallParam
  BY <1>4, <1>b DEF Quiet, Close, ReadItem, Finish, CallFind, CallLayout, CallEnd, Register, Takes
<1>5. CASE CallParam
  BY <1>5, <1>c DEF CallParam
<1>6. CASE CallLevel
  BY <1>6, <1>c DEF CallLevel
<1>7. CASE CallLogger \/ CallAdditivity \/ CallRef \/ CallAppender
  BY <1>7, <1>b DEF CallLogger, CallAdditivity, CallRef, CallAppender, Takes
<1> QED
  BY <1>1, <1>2, <1>3, <1>4, <1>5, <1>6, <1>7, StepKinds

\* What an XML text sets options for is what is current at their tags.
LEMMA OptionsAreCurrent ==
  ASSUME NamesFit
  PROVE  ConfiguratorSpec => [](ConfiguratorInv /\ PlacedInv)
<1>1. ConfiguratorInit => ConfiguratorInv
  BY InitConfigurator
<1>2. ConfiguratorInit => PlacedInv
  BY DEF ConfiguratorInit, PlacedInv
<1>3. ConfiguratorInv /\ [ConfiguratorNext]_all => ConfiguratorInv'
  BY NextConfigurator
<1>4. ConfiguratorInv /\ PlacedInv /\ [ConfiguratorNext]_all => PlacedInv'
  BY NextPlaced
<1> QED
  BY <1>1, <1>2, <1>3, <1>4, PTL DEF ConfiguratorSpec

\* A text without comments is read tag by tag.
LEMMA TagByTag ==
  ASSUME NEW t \in Texts, IsTag(t), \A i \in Items(t) : ~Is(t, i, "comment")
  PROVE  \E p : Follows(t, p) /\ \A x \in DOMAIN Seen(t) : p[x] = x
<1>1. Xml(t) /\ Seen(t) = Visible(t.items)
  BY TextsAssumption DEF IsTag, Xml, Seen
<1>2. Seen(t) \in Seq(Tag)
  BY SeenItems DEF IsTag
<1>3. \A i \in DOMAIN t.items : t.items[i].kind = "comment" => Len(t.items[i].inside) <= 1
  BY DEF Items, Is
<1>4. InOrder(t.items, Seen(t), Len(t.items))
  BY <1>1, <1>3, VisibleInOrder DEF Xml
<1>5. PICK p : Follows(t, p)
  BY <1>1, <1>2, <1>4 DEF InOrder, Follows
<1> DEFINE D == DOMAIN Seen(t)
           off == {x \in D : p[x] # x}
<1>6. /\ D = 1..Len(Seen(t)) /\ Len(Seen(t)) \in Nat
      /\ \A x \in D : p[x] \in Items(t)
      /\ \A x, y \in D : x < y <=> p[x] < p[y]
      /\ \A i \in Items(t) : \E x \in D : p[x] = i
  BY <1>5, PlacesOf
<1>7. Items(t) = 1..Len(t.items) /\ Len(t.items) \in Nat
  BY <1>1 DEF Items, Xml
<1> HIDE DEF D
<1>8. ASSUME NEW z \in D, p[z] # z PROVE FALSE
  <2>1. off # {} /\ off \subseteq Nat
    BY <1>6, <1>8
  <2>2. PICK x \in off : \A y \in off : x <= y
    <3> HIDE DEF off
    <3> QED
      BY <2>1, Least
  <2>3. x \in D /\ x \in Nat \ {0} /\ p[x] # x /\ p[x] \in Nat \ {0}
    BY <1>6, <1>7, <2>2
  <2>4. ASSUME NEW y \in D, y < x PROVE p[y] = y
    BY <1>6, <2>2, <2>3, <2>4
  <2>5. CASE p[x] < x
    <3>1. p[x] \in D
      BY <1>6, <2>3, <2>5
    <3>2. p[p[x]] = p[x]
      BY <2>4, <2>5, <3>1
    <3>3. p[p[x]] < p[x]
      BY <1>6, <2>3, <2>5, <3>1
    <3> QED
      BY <2>3, <3>2, <3>3
  <2>6. CASE x < p[x]
    <3>1. x \in Items(t)
      BY <1>6, <1>7, <2>3, <2>6
    <3>2. PICK y \in D : p[y] = x
      BY <1>6, <3>1
    <3>3. y < x
      BY <1>6, <2>3, <2>6, <3>2
    <3> QED
      BY <2>3, <2>4, <3>2, <3>3
  <2> QED
    BY <2>3, <2>5, <2>6
<1> QED
  BY <1>5, <1>8 DEF D

\* A tag in a logger, appender or layout stands directly in it, or in a layout.
LEMMA DirectlyIn ==
  ASSUME NEW t, Xml(t), Conforming(t), NEW i, NEW j, In(t, j, i), t.items[j].kind \in Inner,
         t.items[i].kind \in {"level", "param"}, ~Ends(t, i)
  PROVE  Enclosing(t, i) # 0 /\ (Enclosing(t, i) = j \/ t.items[Enclosing(t, i)].kind = "layout")
<1> DEFINE m == Enclosing(t, i)
<1>1. ~Is(t, i, "comment")
  BY DEF Is
<1>2. /\ m \in Items(t) /\ (m = j \/ In(t, j, m))
      /\ ~Ends(t, m) /\ t.items[m].kind # "nothing" /\ t.items[m].kind \in HoldersOf(t.items[i].kind)
  BY <1>1, HeldBy
<1>3. t.items[m].kind \in Outer \union {"layout"}
  BY <1>2 DEF HoldersOf, Outer
<1>4. m # 0
  BY <1>2 DEF Items, Xml
<1> HIDE DEF m
<1>5. ~(In(t, j, m) /\ t.items[m].kind \in Outer)
  BY <1>2, NoneInside
<1> QED
  BY <1>2, <1>3, <1>4, <1>5 DEF m

\* An appender around a tag is current there, if no reference stands in one.
LEMMA AppenderAround ==
  ASSUME NEW t, NEW p, Follows(t, p), Conforming(t),
         \A i \in Items(t) : Is(t, i, "ref") => Holder(t, i) # "appender",
         NEW x \in DOMAIN Seen(t), Item(t, x).kind \notin {"appender", "ref"},
         NEW y \in DOMAIN Seen(t), Item(t, y).kind = "appender", In(t, p[y], p[x])
  PROVE  AppenderOpen(t, x)
<1>1. DOMAIN Seen(t) = 1..Len(Seen(t)) /\ Len(Seen(t)) \in Nat /\ x \in 1..Len(Seen(t)) /\ Xml(t)
  BY PlacesOf DEF Follows
<1>2. p[y] < p[x] /\ Opens(t, p[y])
  BY DEF In
<1>3. y < x /\ Item(t, y).shape = "start" /\ t.items[p[y]] = Item(t, y)
  BY <1>2, PlacesOf
<1>4. ASSUME NEW z \in (y + 1)..x, AppenderTag(Item(t, z)) PROVE FALSE
  <2>1. Item(t, z).kind \in {"appender", "ref"} /\ z # x
    BY <1>4 DEF AppenderTag
  <2>2. z \in DOMAIN Seen(t) /\ In(t, p[y], p[z]) /\ p[z] \in Items(t) /\ p[z] < p[x]
    BY <2>1, BetweenIn
  <2>3. t.items[p[z]] = Item(t, z)
    BY <2>2, PlacesOf
  <2>4. CASE Item(t, z).kind = "appender"
    <3>1. Ends(t, p[z]) /\ Enclosing(t, p[z]) = p[y]
      BY <1>1, <1>3, <2>2, <2>3, <2>4, NoneInside DEF Inner, Outer
    <3> QED
      BY <1>1, <2>2, <3>1, PastEnd
  <2>5. CASE Item(t, z).kind = "ref"
    BY <1>1, <1>3, <2>2, <2>3, <2>5, NoRefInside
  <2> QED
    BY <2>1, <2>4, <2>5
<1>5. y \in 1..x
  BY <1>1, <1>3
<1> QED
  BY <1>3, <1>4, <1>5 DEF AppenderOpen

\* A layout around a tag is current there.
LEMMA LayoutAround ==
  ASSUME NEW t, NEW p, Follows(t, p), Conforming(t),
         \A i \in Items(t) : Is(t, i, "ref") => Holder(t, i) # "appender",
         NEW x \in DOMAIN Seen(t), Item(t, x).kind # "layout",
         NEW y \in DOMAIN Seen(t), Item(t, y).kind = "layout", In(t, p[y], p[x])
  PROVE  LayoutOpen(t, x)
<1>1. DOMAIN Seen(t) = 1..Len(Seen(t)) /\ Len(Seen(t)) \in Nat /\ x \in 1..Len(Seen(t)) /\ Xml(t)
  BY PlacesOf DEF Follows
<1>2. p[y] < p[x] /\ Opens(t, p[y]) /\ p[y] \in Items(t)
  BY DEF In
<1>3. y < x /\ Item(t, y).shape = "start" /\ t.items[p[y]] = Item(t, y)
  BY <1>2, PlacesOf
<1>4. ASSUME NEW z \in (y + 1)..x, Item(t, z).kind = "layout" PROVE FALSE
  <2>1. z \in DOMAIN Seen(t) /\ In(t, p[y], p[z]) /\ p[z] \in Items(t) /\ p[z] < p[x]
    BY <1>4, BetweenIn
  <2>2. t.items[p[z]] = Item(t, z)
    BY <2>1, PlacesOf
  <2>3. Ends(t, p[z]) /\ Enclosing(t, p[z]) = p[y]
    BY <1>1, <1>3, <1>4, <2>1, <2>2, NoLayoutInside
  <2> QED
    BY <1>1, <2>1, <2>3, PastEnd
<1>5. AppenderOpen(t, y)
  <2>1. Holder(t, p[y]) = "appender"
    <3>1. ~Is(t, p[y], "comment") /\ ~Ends(t, p[y]) /\ t.items[p[y]].kind = "layout"
      BY <1>2, <1>3 DEF Is, Ends, Opens
    <3>2. Holder(t, p[y]) \in HoldersOf("layout")
      BY <1>1, <1>2, <3>1 DEF Conforming, Xml
    <3> QED
      BY <3>2 DEF HoldersOf
  <2>2. Enclosing(t, p[y]) # 0 /\ t.items[Enclosing(t, p[y])].kind = "appender"
    BY <2>1 DEF Holder
  <2>3. In(t, Enclosing(t, p[y]), p[y])
    BY <1>1, <1>2, <2>2, EnclosingHolds
  <2>4. Enclosing(t, p[y]) \in Items(t) /\ ~Is(t, Enclosing(t, p[y]), "comment")
    BY <2>2, <2>3 DEF In, Is
  <2>5. PICK z \in DOMAIN Seen(t) : p[z] = Enclosing(t, p[y])
    BY <2>4, PlacesOf
  <2>6. Item(t, z).kind = "appender"
    BY <2>2, <2>5, PlacesOf
  <2> QED
    BY <2>3, <2>5, <2>6, AppenderAround
<1>6. y \in 1..x
  BY <1>1, <1>3
<1> QED
  BY <1>3, <1>4, <1>5, <1>6 DEF LayoutOpen

\* What is current at a level or param is what it stands in.
LEMMA CurrentIsAround ==
  ASSUME NEW t, NEW p, Follows(t, p), Conforming(t),
         \A i \in Items(t) : Is(t, i, "ref") => Holder(t, i) # "appender",
         NEW x \in DOMAIN Seen(t), Item(t, x).kind \in {"level", "param"}, ~EndTag(t, x)
  PROVE  TargetAt(t, x) = IF Holder(t, p[x]) = "root" THEN "nothing" ELSE Holder(t, p[x])
<1> DEFINE i == p[x]
           h == Enclosing(t, p[x])
<1>1. /\ DOMAIN Seen(t) = 1..Len(Seen(t)) /\ Len(Seen(t)) \in Nat /\ x \in 1..Len(Seen(t)) /\ Xml(t)
      /\ i \in Items(t) /\ t.items[i] = Item(t, x) /\ ~Ends(t, i) /\ ~Is(t, i, "comment")
  BY PlacesOf DEF Follows
<1>2. \A y \in DOMAIN Seen(t) : t.items[p[y]] = Item(t, y)
  BY PlacesOf
<1>3. Holder(t, i) \in {"nothing", "root", "logger", "appender", "layout"}
  BY <1>1 DEF Conforming, HoldersOf, Xml
<1>4. ASSUME NEW j, In(t, j, i), t.items[j].kind \in Inner
      PROVE  h # 0 /\ (h = j \/ t.items[h].kind = "layout")
  BY <1>1, <1>4, DirectlyIn
<1>5. ASSUME h # 0 PROVE In(t, h, i) /\ \E y \in DOMAIN Seen(t) : p[y] = h /\ Item(t, y).kind = t.items[h].kind
  <2>1. In(t, h, i)
    BY <1>1, <1>5, EnclosingHolds
  <2>2. h \in Items(t) /\ ~Is(t, h, "comment")
    BY <2>1 DEF In, Opens, Is
  <2>3. PICK y \in DOMAIN Seen(t) : p[y] = h
    BY <2>2, PlacesOf
  <2> QED
    BY <1>2, <2>1, <2>3
<1>6. Holder(t, i) = IF h = 0 THEN "nothing" ELSE t.items[h].kind
  BY DEF Holder
<1>7. ASSUME NEW y, LoggerOpen(t, x, y)
      PROVE  y \in DOMAIN Seen(t) /\ In(t, p[y], i) /\ t.items[p[y]].kind = "logger"
  BY <1>2, <1>7, LoggerOpenIn
<1>8. ASSUME AppenderOpen(t, x) PROVE \E j : In(t, j, i) /\ t.items[j].kind = "appender"
  BY <1>2, <1>8, AppenderOpenIn
<1>9. ASSUME LayoutOpen(t, x) PROVE \E j : In(t, j, i) /\ t.items[j].kind = "layout"
  BY <1>2, <1>9, LayoutOpenIn
<1>10. CASE Holder(t, i) = "layout"
  <2>1. PICK y \in DOMAIN Seen(t) : p[y] = h /\ Item(t, y).kind = "layout" /\ In(t, h, i)
    BY <1>5, <1>6, <1>10
  <2>2. LayoutOpen(t, x)
    BY <2>1, LayoutAround
  <2> QED
    BY <1>10, <2>2 DEF TargetAt
<1>11. ASSUME h = 0 \/ t.items[h].kind # "layout" PROVE ~LayoutOpen(t, x)
  BY <1>4, <1>9, <1>11 DEF Inner
<1>12. CASE Holder(t, i) = "appender"
  <2>1. PICK y \in DOMAIN Seen(t) : p[y] = h /\ Item(t, y).kind = "appender" /\ In(t, h, i)
    BY <1>5, <1>6, <1>12
  <2>2. AppenderOpen(t, x)
    BY <2>1, AppenderAround
  <2>3. ~LayoutOpen(t, x)
    BY <1>6, <1>11, <1>12
  <2> QED
    BY <1>12, <2>2, <2>3 DEF TargetAt
<1>13. ASSUME Holder(t, i) \in {"nothing", "root", "logger"} PROVE ~LayoutOpen(t, x) /\ ~AppenderOpen(t, x)
  BY <1>4, <1>6, <1>8, <1>11, <1>13 DEF Inner
<1>14. CASE Holder(t, i) = "logger"
  <2>1. PICK y \in DOMAIN Seen(t) : p[y] = h /\ Item(t, y).kind = "logger" /\ In(t, h, i)
    BY <1>5, <1>6, <1>14
  <2>2. LoggerOpen(t, x, y)
    BY <2>1, LoggerOpenIn
  <2>3. y \in 1..x
    BY <2>2 DEF LoggerOpen
  <2> QED
    BY <1>13, <1>14, <2>2, <2>3 DEF TargetAt
<1>15. CASE Holder(t, i) \in {"nothing", "root"}
  <2>1. \A y : ~LoggerOpen(t, x, y)
    BY <1>4, <1>6, <1>7, <1>15 DEF Inner
  <2> QED
    BY <1>13, <1>15, <2>1 DEF TargetAt
<1> QED
  BY <1>3, <1>10, <1>12, <1>14, <1>15

\* An option that an XML text sets is set for the element it stands in.
THEOREM OptionsToEnclosing ==
  ASSUME NamesFit
  PROVE  ConfiguratorSpec => []OptionToEnclosing
<1>1. ConfiguratorInv /\ PlacedInv => OptionToEnclosing
  <2> SUFFICES ASSUME ConfiguratorInv, PlacedInv, done # << >>, LastText.form = "xml", Conforming(LastText),
                      \A i \in Items(LastText) : ~Is(LastText, i, "comment"),
                      \A i \in Items(LastText) : Is(LastText, i, "ref") => Holder(LastText, i) # "appender",
                      NEW q \in placed
               PROVE  q[2][1] = IF Holder(LastText, q[1]) = "root" THEN "nothing" ELSE Holder(LastText, q[1])
    BY DEF OptionToEnclosing, Resting, LastText
  <2>1. IsTag(LastText) /\ LastText \in Texts
    BY PlaceType DEF IsTag, ConfiguratorInv, DoneInv
  <2>2. PICK p : Follows(LastText, p) /\ \A x \in DOMAIN Seen(LastText) : p[x] = x
    BY <2>1, TagByTag
  <2>3. PlacedAt(LastText, q)
    BY <2>1 DEF PlacedInv
  <2>4. TargetAt(LastText, q[1]) =
          IF Holder(LastText, p[q[1]]) = "root" THEN "nothing" ELSE Holder(LastText, p[q[1]])
    BY <2>2, <2>3, CurrentIsAround DEF PlacedAt
  <2> QED
    BY <2>2, <2>3, <2>4 DEF PlacedAt
<1> QED
  BY <1>1, OptionsAreCurrent, PTL
=============================================================================
