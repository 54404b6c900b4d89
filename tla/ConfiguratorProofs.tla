------------------------- MODULE ConfiguratorProofs -------------------------
(***************************************************************************)
(* Proofs about Configurator, for any texts: lines in any order, and tags  *)
(* of XML in any order too, also where they do not match.  Whatever is     *)
(* configured, the calls are such as a program may make; what they leave   *)
(* is what the text says, and the same text leaves it when it is read      *)
(* again.                                                                  *)
(***************************************************************************)
EXTENDS Configurator, NamesAndLevelsProofs

-----------------------------------------------------------------------------
(* Texts without their comments *)

\* What FlattenSeq has collected of the parts up to k.
FlatAt(parts, f, k) == IF k = 1 THEN parts[k] ELSE f[k - 1] \o parts[k]

\* FlattenSeq collects the parts one after the other.
LEMMA Flattens ==
  ASSUME NEW S, NEW parts \in Seq(Seq(S)), Len(parts) # 0
  PROVE  \E f \in [1..Len(parts) -> Seq(S)] :
           /\ \A k \in 1..Len(parts) : f[k] = FlatAt(parts, f, k)
           /\ SX!FlattenSeq(parts) = f[Len(parts)]
<1> DEFINE m == Len(parts)
           flat == CHOOSE f : f = [k \in 1..m |-> FlatAt(parts, f, k)]
           Has(n) == \E f \in [1..n -> Seq(S)] : \A k \in 1..n : f[k] = FlatAt(parts, f, k)
           T == {n \in 0..(m - 1) : Has(n + 1)}
<1>1. m \in Nat /\ m >= 1 /\ \A k \in 1..m : parts[k] \in Seq(S)
  OBVIOUS
<1>2. SX!FlattenSeq(parts) = flat[m]
  BY <1>1 DEF SX!FlattenSeq, FlatAt
<1> HIDE DEF m
<1>3. Has(1)
  <2> DEFINE f == [k \in 1..1 |-> parts[k]]
  <2>1. f \in [1..1 -> Seq(S)] /\ \A k \in 1..1 : f[k] = FlatAt(parts, f, k)
    BY <1>1 DEF FlatAt
  <2> QED
    BY <2>1
<1>4. ASSUME NEW n \in 1..m, n < m, Has(n) PROVE Has(n + 1)
  <2>1. PICK f \in [1..n -> Seq(S)] : \A k \in 1..n : f[k] = FlatAt(parts, f, k)
    BY <1>4
  <2> DEFINE g == [k \in 1..(n + 1) |-> IF k = n + 1 THEN f[n] \o parts[k] ELSE f[k]]
  <2>2. g \in [1..(n + 1) -> Seq(S)]
    <3>1. n \in 1..n /\ n + 1 \in 1..m
      BY <1>1, <1>4
    <3>2. f[n] \in Seq(S) /\ parts[n + 1] \in Seq(S)
      BY <1>1, <2>1, <3>1
    <3>3. f[n] \o parts[n + 1] \in Seq(S)
      BY <3>2, ConcatProperties
    <3>4. ASSUME NEW k \in 1..(n + 1), k # n + 1 PROVE f[k] \in Seq(S)
      BY <3>4, <1>1
    <3> QED
      BY <3>3, <3>4
  <2>3. ASSUME NEW k \in 1..(n + 1) PROVE g[k] = FlatAt(parts, g, k)
    <3>1. CASE k = n + 1
      <4>1. k - 1 = n /\ n \in 1..(n + 1) /\ n # n + 1 /\ k # 1
        BY <3>1, <1>1
      <4>2. g[n] = f[n] /\ g[k] = f[n] \o parts[k]
        BY <3>1, <4>1
      <4> HIDE DEF g
      <4> QED
        BY <4>1, <4>2 DEF FlatAt
    <3>2. CASE k # n + 1
      <4>1. k \in 1..n /\ (k # 1 => k - 1 \in 1..(n + 1) /\ k - 1 # n + 1)
        BY <3>2, <1>1
      <4>2. g[k] = f[k] /\ (k # 1 => g[k - 1] = f[k - 1])
        BY <3>2, <4>1
      <4>3. f[k] = FlatAt(parts, f, k)
        BY <2>1, <4>1
      <4> HIDE DEF g
      <4> QED
        BY <4>2, <4>3 DEF FlatAt
    <3> QED
      BY <3>1, <3>2
  <2> HIDE DEF g
  <2> QED
    BY <2>2, <2>3
<1> HIDE DEF Has
<1>5. 0 \in T
  <2>1. 0 \in 0..(m - 1) /\ 0 + 1 = 1
    BY <1>1
  <2> QED
    BY <1>3, <2>1
<1>6. \A n \in 0..(m - 1) : n \in T /\ n < m - 1 => n + 1 \in T
  <2> TAKE n \in 0..(m - 1)
  <2> HAVE n \in T /\ n < m - 1
  <2>1. n + 1 \in 1..m /\ n + 1 < m /\ n + 1 \in 0..(m - 1)
    BY <1>1
  <2>2. Has(n + 1)
    OBVIOUS
  <2>3. Has((n + 1) + 1)
    BY <1>4, <2>1, <2>2
  <2> QED
    BY <2>1, <2>3
<1>7. m - 1 \in T
  <2> HIDE DEF T
  <2>1. m - 1 \in Nat /\ m - 1 \in 0..(m - 1)
    BY <1>1
  <2> QED
    BY <1>5, <1>6, <2>1, Climb
<1>8. Has(m)
  <2>1. (m - 1) + 1 = m
    BY <1>1
  <2> QED
    BY <1>7, <2>1
<1>9. PICK f \in [1..m -> Seq(S)] : \A k \in 1..m : f[k] = FlatAt(parts, f, k)
  BY <1>8 DEF Has
<1>10. f = [k \in 1..m |-> FlatAt(parts, f, k)]
  <2>1. f = [k \in 1..m |-> f[k]]
    OBVIOUS
  <2> QED
    BY <1>9, <2>1
<1>11. flat = [k \in 1..m |-> FlatAt(parts, flat, k)]
  BY <1>10, Zenon
<1> HIDE DEF flat
<1>12. \A k \in 1..m : flat[k] = FlatAt(parts, flat, k)
  <2> HIDE DEF FlatAt
  <2> QED
    BY <1>11, Zenon
<1> DEFINE U == {n \in 0..(m - 1) : flat[n + 1] = f[n + 1]}
<1>13. 0 \in U
  <2>1. 0 \in 0..(m - 1) /\ 0 + 1 = 1 /\ 1 \in 1..m
    BY <1>1
  <2>2. flat[1] = parts[1] /\ f[1] = parts[1]
    BY <1>9, <1>12, <2>1 DEF FlatAt
  <2> QED
    BY <2>1, <2>2
<1>14. \A n \in 0..(m - 1) : n \in U /\ n < m - 1 => n + 1 \in U
  <2> TAKE n \in 0..(m - 1)
  <2> HAVE n \in U /\ n < m - 1
  <2> DEFINE k == (n + 1) + 1
  <2>1. k \in 1..m /\ k # 1 /\ k - 1 = n + 1 /\ n + 1 \in 0..(m - 1)
    BY <1>1
  <2>2. flat[k] = flat[k - 1] \o parts[k] /\ f[k] = f[k - 1] \o parts[k]
    <3> HIDE DEF k
    <3> QED
      BY <1>9, <1>12, <2>1 DEF FlatAt
  <2>3. flat[k] = f[k]
    BY <2>1, <2>2
  <2> QED
    BY <2>1, <2>3
<1>15. \A n \in 0..(m - 1) : n \in U
  <2> HIDE DEF U
  <2>1. m - 1 \in Nat
    BY <1>1
  <2> QED
    BY <1>13, <1>14, <2>1, Climb
<1>16. flat[m] = f[m]
  <2>1. m - 1 \in 0..(m - 1) /\ (m - 1) + 1 = m
    BY <1>1
  <2> QED
    BY <1>15, <2>1
<1> QED
  BY <1>2, <1>9, <1>16 DEF m

\* The part of a text that Visible takes for an item.
VisibleOf(item) ==
  IF item.kind # "comment" THEN <<item>>
  ELSE IF item.inside = << >> THEN << >> ELSE Tail(item.inside)
VisibleParts(items) == [i \in DOMAIN items |-> VisibleOf(items[i])]

\* What is visible of a text of XML is tags, also where a comment stands.
LEMMA PartsAreTags ==
  ASSUME NEW items \in Seq(Tag \union Comment)
  PROVE  VisibleParts(items) \in Seq(Seq(Tag)) /\ Len(VisibleParts(items)) = Len(items)
<1>1. ASSUME NEW item \in Tag \union Comment PROVE VisibleOf(item) \in Seq(Tag)
  <2>1. CASE item.kind # "comment"
    <3>1. item \in Tag
      BY <2>1 DEF Comment
    <3> HIDE DEF Tag
    <3> QED
      BY <2>1, <3>1 DEF VisibleOf
  <2>2. CASE item.kind = "comment"
    <3>1. item \in Comment
      BY <2>2 DEF Tag
    <3>2. item.inside \in Seq(Tag)
      BY <3>1 DEF Comment
    <3>3. item.inside # << >> => Tail(item.inside) \in Seq(Tag)
      BY <3>2
    <3> QED
      BY <2>2, <3>3 DEF VisibleOf
  <2> QED
    BY <2>1, <2>2
<1>2. \A i \in 1..Len(items) : VisibleParts(items)[i] \in Seq(Tag)
  BY <1>1 DEF VisibleParts
<1>3. VisibleParts(items) = [i \in 1..Len(items) |-> VisibleParts(items)[i]]
  BY DEF VisibleParts
<1> QED
  BY <1>2, <1>3

\* What Visible reads of a text of XML is tags.
LEMMA VisibleTags ==
  ASSUME NEW items \in Seq(Tag \union Comment)
  PROVE  Visible(items) \in Seq(Tag)
<1> DEFINE parts == VisibleParts(items)
<1>1. Visible(items) = SX!FlattenSeq(parts)
  BY DEF Visible, VisibleParts, VisibleOf
<1>2. parts \in Seq(Seq(Tag))
  BY PartsAreTags
<1> HIDE DEF parts
<1>3. CASE Len(parts) = 0
  <2>1. SX!FlattenSeq(parts) = << >>
    BY <1>2, <1>3 DEF SX!FlattenSeq
  <2> QED
    BY <1>1, <2>1
<1>4. CASE Len(parts) # 0
  <2>1. \E f \in [1..Len(parts) -> Seq(Tag)] : SX!FlattenSeq(parts) = f[Len(parts)]
    BY <1>2, <1>4, Flattens
  <2>2. Len(parts) \in 1..Len(parts)
    BY <1>2, <1>4
  <2> QED
    BY <1>1, <2>1, <2>2
<1> QED
  BY <1>3, <1>4

\* The elements of s are the items up to k but comments, in the order in which
\* the items stand: the element x is item p[x].
Reads(items, s, k, p) ==
  /\ p \in [DOMAIN s -> 1..k]
  /\ \A x \in DOMAIN s : items[p[x]] = s[x]
  /\ \A x, y \in DOMAIN s : x < y => p[x] < p[y]
  /\ \A i \in 1..k : items[i].kind = "comment" \/ \E x \in DOMAIN s : p[x] = i
InOrder(items, s, k) == \E p : Reads(items, s, k, p)

\* Where no comment holds more than one tag, the tags are read in the order in
\* which they stand.
LEMMA VisibleInOrder ==
  ASSUME NEW items \in Seq(Tag \union Comment),
         \A i \in DOMAIN items : items[i].kind = "comment" => Len(items[i].inside) <= 1
  PROVE  InOrder(items, Visible(items), Len(items))
<1> DEFINE parts == VisibleParts(items)
           m == Len(items)
<1>1. Visible(items) = SX!FlattenSeq(parts)
  BY DEF Visible, VisibleParts, VisibleOf
<1>2. parts \in Seq(Seq(Tag)) /\ Len(parts) = m /\ m \in Nat
  BY PartsAreTags
<1>3. ASSUME NEW k \in 1..m
      PROVE  \/ parts[k] = <<items[k]>>
             \/ parts[k] = << >> /\ items[k].kind = "comment"
  <2>1. parts[k] = VisibleOf(items[k]) /\ items[k] \in Tag \union Comment
    BY DEF VisibleParts
  <2>2. CASE items[k].kind # "comment"
    BY <2>1, <2>2 DEF VisibleOf
  <2>3. CASE items[k].kind = "comment"
    <3>1. items[k] \in Comment
      BY <2>1, <2>3 DEF Tag
    <3>2. items[k].inside \in Seq(Tag) /\ Len(items[k].inside) <= 1
      BY <2>3, <3>1 DEF Comment
    <3>3. items[k].inside # << >> => Tail(items[k].inside) = << >>
      BY <3>2
    <3> QED
      BY <2>1, <2>3, <3>3 DEF VisibleOf
  <2> QED
    BY <2>2, <2>3
<1> HIDE DEF parts
<1>4. CASE m = 0
  <2>1. SX!FlattenSeq(parts) = << >>
    BY <1>2, <1>4 DEF SX!FlattenSeq
  <2>2. DOMAIN << >> = {} /\ 1..m = {}
    BY <1>4
  <2>3. Reads(items, << >>, m, [x \in DOMAIN << >> |-> x])
    BY <2>2 DEF Reads
  <2>4. InOrder(items, << >>, m)
    BY <2>3 DEF InOrder
  <2> QED
    BY <1>1, <2>1, <2>4
<1>5. CASE m # 0
  <2>1. PICK f \in [1..m -> Seq(Tag)] :
          /\ \A k \in 1..m : f[k] = FlatAt(parts, f, k)
          /\ SX!FlattenSeq(parts) = f[m]
    BY <1>2, <1>5, Flattens, ZenonT(60)
  <2> HIDE DEF m
  <2> DEFINE U == {n \in 0..(m - 1) : InOrder(items, f[n + 1], n + 1)}
  <2>2. 0 \in U
    <3>1. 0 \in 0..(m - 1) /\ 0 + 1 = 1 /\ 1 \in 1..m
      BY <1>2, <1>5
    <3>2. f[1] = parts[1]
      BY <2>1, <3>1 DEF FlatAt
    <3>3. \/ f[1] = <<items[1]>>
          \/ f[1] = << >> /\ items[1].kind = "comment"
      BY <1>3, <3>1, <3>2
    <3>4. Reads(items, f[1], 1, [x \in DOMAIN f[1] |-> 1])
      BY <3>3 DEF Reads
    <3>5. InOrder(items, f[1], 1)
      BY <3>4 DEF InOrder
    <3> QED
      BY <3>1, <3>5
  <2>3. \A n \in 0..(m - 1) : n \in U /\ n < m - 1 => n + 1 \in U
    <3> TAKE n \in 0..(m - 1)
    <3> HAVE n \in U /\ n < m - 1
    <3> DEFINE k == (n + 1) + 1
               s == f[n + 1]
    <3>1. k \in 1..m /\ k # 1 /\ k - 1 = n + 1 /\ n + 1 \in 0..(m - 1) /\ n + 1 \in 1..m
      BY <1>2
    <3>2. f[k] = s \o parts[k]
      <4>1. f[k] = FlatAt(parts, f, k)
        BY <2>1, <3>1
      <4> HIDE DEF k
      <4> QED
        BY <3>1, <4>1 DEF FlatAt
    <3>3. s \in Seq(Tag) /\ InOrder(items, s, k - 1) /\ Len(s) \in Nat
      BY <2>1, <3>1
    <3>4. \/ parts[k] = <<items[k]>>
          \/ parts[k] = << >> /\ items[k].kind = "comment"
      BY <1>3, <3>1
    <3> HIDE DEF k, s
    <3>5. PICK p : Reads(items, s, k - 1, p)
      BY <3>3 DEF InOrder
    <3>6. /\ p \in [DOMAIN s -> 1..(k - 1)] /\ \A x \in DOMAIN s : items[p[x]] = s[x]
          /\ \A x, y \in DOMAIN s : x < y => p[x] < p[y]
          /\ \A i \in 1..(k - 1) : items[i].kind = "comment" \/ \E x \in DOMAIN s : p[x] = i
      BY <3>5 DEF Reads
    <3>7. k \in Nat /\ k \in 1..k /\ 1..k = 1..(k - 1) \union {k} /\ \A i \in 1..(k - 1) : i \in 1..k /\ i < k
      BY <3>1
    <3>8. DOMAIN s = 1..Len(s)
      BY <3>3
    <3>9. CASE parts[k] = << >> /\ items[k].kind = "comment"
      <4>1. f[k] = s
        BY <3>2, <3>3, <3>9
      <4>2. Reads(items, s, k, p)
        BY <3>6, <3>7, <3>9 DEF Reads
      <4>3. InOrder(items, f[k], k)
        BY <4>1, <4>2 DEF InOrder
      <4> QED
        BY <4>3, <3>1 DEF k
    <3>10. CASE parts[k] = <<items[k]>>
      <4> DEFINE last == Len(s) + 1
                 q == [x \in 1..last |-> IF x = last THEN k ELSE p[x]]
      <4>1. DOMAIN f[k] = 1..last
        <5>1. Len(f[k]) = last
          BY <3>2, <3>3, <3>10
        <5>2. f[k] \in Seq(Tag)
          BY <2>1, <3>1
        <5> QED
          BY <5>1, <5>2
      <4>2. f[k][last] = items[k] /\ \A x \in 1..Len(s) : f[k][x] = s[x]
        BY <3>2, <3>3, <3>10
      <4>3. last \in 1..last /\ \A x \in 1..last : x = last \/ (x \in 1..Len(s) /\ x # last /\ x < last)
        <5>1. \A l \in Nat : /\ l + 1 \in 1..(l + 1)
                             /\ \A x \in 1..(l + 1) : x = l + 1 \/ (x \in 1..l /\ x # l + 1 /\ x < l + 1)
          OBVIOUS
        <5> QED
          BY <3>3, <5>1
      <4>4. q[last] = k /\ \A x \in 1..Len(s) : q[x] = p[x] /\ q[x] \in 1..(k - 1) /\ x \in 1..last
        <5>1. \A x \in 1..Len(s) : x \in 1..last /\ x # last
          BY <3>3
        <5>2. \A x \in 1..Len(s) : p[x] \in 1..(k - 1)
          BY <3>6, <3>8
        <5> QED
          BY <4>3, <5>1, <5>2
      <4>5. q \in [1..last -> 1..k]
        BY <3>7, <4>3, <4>4
      <4>6. \A x \in 1..last : items[q[x]] = f[k][x]
        BY <3>6, <3>8, <4>2, <4>3, <4>4
      <4>7. ASSUME NEW x \in 1..last, NEW y \in 1..last, x < y PROVE q[x] < q[y]
        <5>1. x \in 1..Len(s)
          BY <3>3, <4>7
        <5>2. CASE y = last
          BY <3>7, <4>4, <5>1, <5>2
        <5>3. CASE y # last
          BY <3>6, <3>8, <4>3, <4>4, <4>7, <5>1, <5>3
        <5> QED
          BY <5>2, <5>3
      <4>8. \A i \in 1..k : items[i].kind = "comment" \/ \E x \in 1..last : q[x] = i
        BY <3>6, <3>7, <3>8, <4>3, <4>4
      <4> HIDE DEF q, last
      <4>9. Reads(items, f[k], k, q)
        BY <4>1, <4>5, <4>6, <4>7, <4>8 DEF Reads
      <4>10. InOrder(items, f[k], k)
        BY <4>9 DEF InOrder
      <4> QED
        BY <4>10, <3>1 DEF k
    <3> QED
      BY <3>4, <3>9, <3>10
  <2>4. \A n \in 0..(m - 1) : n \in U
    <3> HIDE DEF U
    <3>1. m - 1 \in Nat
      BY <1>2, <1>5
    <3> QED
      BY <2>2, <2>3, <3>1, Climb
  <2>5. InOrder(items, f[m], m)
    <3>1. m - 1 \in 0..(m - 1) /\ (m - 1) + 1 = m
      BY <1>2, <1>5
    <3> QED
      BY <2>4, <3>1
  <2> QED
    BY <1>1, <2>1, <2>5 DEF m
<1> QED
  BY <1>4, <1>5

-----------------------------------------------------------------------------
(* The calls of the API that an item becomes *)

ApiCall ==
  [op : {"register"}, name : ExtraClasses]
    \union [op : {"logger"}, name : LoggerNames]
    \union [op : {"level"}, value : Levels]
    \union [op : {"additivity"}, value : Additivities]
    \union [op : {"ref", "find"}, name : AppenderNames]
    \union [op : {"appender"}, name : AppenderNames, class : Kinds]
    \union [op : {"layout", "param"}]
    \union [op : {"end"}, of : {"logger", "appender", "layout"}]

\* Calls that may be made: the additivity is set for the logger of the call
\* before.
Proper(todo) ==
  /\ todo \in Seq(ApiCall)
  /\ \A i \in 2..Len(todo) : todo[i].op = "additivity" => todo[i - 1].op = "logger"

\* Calls that may be made whatever was called before.
SelfContained(todo) == Proper(todo) /\ (todo # << >> => todo[1].op # "additivity")

\* The names of appenders that a line attaches.
LEMMA RefsType ==
  ASSUME NEW item \in Line, item.kind = "logger"
  PROVE  Refs(item) \in Seq(AppenderNames) /\ Len(Refs(item)) \in Nat
<1>1. item.refs \in Seq(AppenderNames) /\ item.fit \in Nat /\ item.fit <= Len(item.refs)
  BY DEF Line
<1>2. SubSeq(item.refs, 1, item.fit) \in Seq(AppenderNames)
  BY <1>1, SubSeqProperties
<1> QED
  BY <1>1, <1>2 DEF Refs

\* Two sequences of one element.
LEMMA Joined2 ==
  ASSUME NEW S, NEW c \in S, NEW d \in S
  PROVE  <<c>> \o <<d>> = <<c, d>>
<1>1. <<c>> \in Seq(S) /\ <<d>> \in Seq(S) /\ Len(<<c>>) = 1 /\ Len(<<d>>) = 1
  OBVIOUS
<1>2. Len(<<c>> \o <<d>>) = 2 /\ <<c>> \o <<d>> \in Seq(S)
  BY <1>1
<1>3. (<<c>> \o <<d>>)[1] = c /\ (<<c>> \o <<d>>)[2] = d
  BY <1>1
<1>4. <<c, d>> \in Seq(S) /\ Len(<<c, d>>) = 2 /\ <<c, d>>[1] = c /\ <<c, d>>[2] = d
  OBVIOUS
<1>5. \A i \in 1..2 : i = 1 \/ i = 2
  OBVIOUS
<1> QED
  BY <1>2, <1>3, <1>4, <1>5, SeqEqual

\* One call.
LEMMA OneCall ==
  ASSUME NEW c \in ApiCall, c.op # "additivity"
  PROVE  SelfContained(<<c>>)
<1>1. <<c>> \in Seq(ApiCall) /\ Len(<<c>>) = 1 /\ <<c>>[1] = c
  OBVIOUS
<1>2. \A i \in 2..Len(<<c>>) : FALSE
  BY <1>1
<1> QED
  BY <1>1, <1>2 DEF SelfContained, Proper

\* Two calls, of which the second may set what the first asked for.
LEMMA TwoCalls ==
  ASSUME NEW c \in ApiCall, NEW d \in ApiCall, c.op # "additivity",
         d.op = "additivity" => c.op = "logger"
  PROVE  SelfContained(<<c, d>>)
<1>1. <<c, d>> \in Seq(ApiCall) /\ Len(<<c, d>>) = 2 /\ <<c, d>>[1] = c /\ <<c, d>>[2] = d
  OBVIOUS
<1>2. \A i \in 2..Len(<<c, d>>) : <<c, d>>[i] = d /\ <<c, d>>[i - 1] = c
  <2> TAKE i \in 2..Len(<<c, d>>)
  <2>1. i = 2 /\ i - 1 = 1
    BY <1>1
  <2> QED
    BY <1>1, <2>1
<1> QED
  BY <1>1, <1>2 DEF SelfContained, Proper

\* Calls of the start of a tag and then of its end.
LEMMA BothProper ==
  ASSUME NEW s, NEW e, SelfContained(s), SelfContained(e)
  PROVE  SelfContained(s \o e)
<1>1. s \in Seq(ApiCall) /\ e \in Seq(ApiCall) /\ Len(s) \in Nat /\ Len(e) \in Nat
  BY DEF SelfContained, Proper
<1>2. s \o e \in Seq(ApiCall) /\ Len(s \o e) = Len(s) + Len(e)
  BY <1>1
<1>3. /\ \A i \in 1..Len(s) : (s \o e)[i] = s[i]
      /\ \A i \in (Len(s) + 1)..(Len(s) + Len(e)) : (s \o e)[i] = e[i - Len(s)]
  BY <1>1
<1>4. ASSUME NEW i \in 2..(Len(s) + Len(e)), (s \o e)[i].op = "additivity"
      PROVE  (s \o e)[i - 1].op = "logger"
  <2>1. CASE i <= Len(s)
    <3>1. i \in 2..Len(s) /\ i \in 1..Len(s) /\ i - 1 \in 1..Len(s)
      BY <1>1, <2>1
    <3> QED
      BY <1>3, <1>4, <3>1 DEF SelfContained, Proper
  <2>2. CASE i = Len(s) + 1
    <3>1. i - Len(s) = 1 /\ i \in (Len(s) + 1)..(Len(s) + Len(e)) /\ e # << >>
      BY <1>1, <2>2
    <3> QED
      BY <1>3, <1>4, <3>1 DEF SelfContained
  <2>3. CASE i > Len(s) + 1
    <3>1. /\ i \in (Len(s) + 1)..(Len(s) + Len(e)) /\ i - 1 \in (Len(s) + 1)..(Len(s) + Len(e))
          /\ i - Len(s) \in 2..Len(e) /\ (i - 1) - Len(s) = (i - Len(s)) - 1
      BY <1>1, <2>3
    <3>2. (s \o e)[i] = e[i - Len(s)] /\ (s \o e)[i - 1] = e[(i - Len(s)) - 1]
      BY <1>3, <3>1
    <3> QED
      BY <1>4, <3>1, <3>2 DEF SelfContained, Proper
  <2> QED
    BY <1>1, <2>1, <2>2, <2>3
<1>5. s \o e # << >> => (s \o e)[1].op # "additivity"
  <2>1. CASE s = << >>
    <3>1. s \o e = e
      BY <1>1, <2>1
    <3> QED
      BY <3>1 DEF SelfContained
  <2>2. CASE s # << >>
    <3>1. 1 \in 1..Len(s)
      BY <1>1, <2>2
    <3> QED
      BY <1>3, <2>2, <3>1 DEF SelfContained
  <2> QED
    BY <2>1, <2>2
<1> QED
  BY <1>2, <1>4, <1>5 DEF SelfContained, Proper

\* A line becomes calls that need none before.
LEMMA LineCallsProper ==
  ASSUME NEW item \in Line
  PROVE  SelfContained(LineCalls(item))
<1>1. CASE item.kind = "logger"
  <2> DEFINE refs == Refs(item)
             c == Name("logger", item.name)
             d == [op |-> "level", value |-> item.level]
             first == <<c, d>>
             more == [i \in DOMAIN refs |-> Name("ref", refs[i])]
  <2>1. item.name \in LoggerNames /\ item.level \in Levels
    BY <1>1 DEF Line
  <2>2. refs \in Seq(AppenderNames) /\ Len(refs) \in Nat
    BY <1>1, RefsType
  <2>3. SelfContained(first)
    <3>1. c \in ApiCall /\ d \in ApiCall /\ c.op = "logger" /\ d.op = "level"
      BY <2>1 DEF ApiCall, Name
    <3> HIDE DEF c, d
    <3> QED
      BY <3>1, TwoCalls
  <2>4. SelfContained(more)
    <3> HIDE DEF refs
    <3>1. DOMAIN refs = 1..Len(refs)
      BY <2>2
    <3>2. \A i \in DOMAIN refs : Name("ref", refs[i]) \in ApiCall /\ Name("ref", refs[i]).op = "ref"
      BY <2>2 DEF ApiCall, Name
    <3>3. more \in Seq(ApiCall) /\ DOMAIN more = 1..Len(more)
      BY <2>2, <3>1, <3>2
    <3>4. \A i \in 1..Len(more) : more[i].op = "ref"
      BY <3>2, <3>3
    <3> HIDE DEF more
    <3>5. more # << >> => 1 \in 1..Len(more)
      BY <3>3
    <3>6. \A i \in 2..Len(more) : i \in 1..Len(more)
      BY <3>3
    <3> QED
      BY <3>3, <3>4, <3>5, <3>6 DEF SelfContained, Proper
  <2>5. LineCalls(item) = first \o more
    BY <1>1 DEF LineCalls
  <2> HIDE DEF first, more
  <2> QED
    BY <2>3, <2>4, <2>5, BothProper
<1>2. CASE item.kind = "additivity"
  <2> DEFINE c == Name("logger", item.name)
             d == [op |-> "additivity", value |-> item.value]
  <2>1. item.name \in LoggerNames /\ item.value \in Additivities
    BY <1>2 DEF Line
  <2>2. c \in ApiCall /\ d \in ApiCall /\ c.op = "logger" /\ d.op = "additivity"
    BY <2>1 DEF ApiCall, Name
  <2>3. LineCalls(item) = <<c, d>>
    BY <1>2 DEF LineCalls
  <2> HIDE DEF c, d
  <2> QED
    BY <2>2, <2>3, TwoCalls
<1>3. CASE item.kind = "appender"
  <2> DEFINE c == [op |-> "appender", name |-> item.name, class |-> item.class]
  <2>1. item.name \in AppenderNames /\ item.class \in Kinds
    BY <1>3 DEF Line
  <2>2. c \in ApiCall /\ c.op = "appender"
    BY <2>1 DEF ApiCall
  <2>3. LineCalls(item) = <<c>>
    BY <1>3 DEF LineCalls
  <2> HIDE DEF c
  <2> QED
    BY <2>2, <2>3, OneCall
<1>4. CASE item.kind = "option"
  <2> DEFINE c == Name("find", item.name)
             d == Call("layout")
             e == Call("param")
  <2>1. item.name \in AppenderNames
    BY <1>4 DEF Line
  <2>2. /\ c \in ApiCall /\ d \in ApiCall /\ e \in ApiCall
        /\ c.op = "find" /\ d.op = "layout" /\ e.op = "param"
    BY <2>1 DEF ApiCall, Name, Call
  <2>0. item.of = "appender" \/ item.of = "layout"
    BY <1>4 DEF Line
  <2>3. LineCalls(item) = <<c, e>> \/ LineCalls(item) = <<c, d, e>>
    BY <1>4, <2>0 DEF LineCalls
  <2> HIDE DEF c, d, e
  <2>4. SelfContained(<<c, e>>) /\ SelfContained(<<c, d>>) /\ SelfContained(<<e>>)
    BY <2>2, OneCall, TwoCalls
  <2>5. <<c, d, e>> = <<c, d>> \o <<e>>
    BY <2>2
  <2>6. SelfContained(<<c, d, e>>)
    BY <2>4, <2>5, BothProper
  <2> QED
    BY <2>3, <2>4, <2>6
<1>5. CASE item.kind = "ignored"
  <2>1. LineCalls(item) = << >>
    BY <1>5 DEF LineCalls
  <2> QED
    BY <2>1 DEF SelfContained, Proper
<1>6. item.kind \in {"logger", "additivity", "appender", "option", "ignored"}
  BY DEF Line
<1> QED
  BY <1>1, <1>2, <1>3, <1>4, <1>5, <1>6

\* A tag becomes calls that need none before.
LEMMA TagCallsProper ==
  ASSUME NEW tag \in Tag
  PROVE  SelfContained(TagCalls(tag))
<1>1. SelfContained(<< >>)
  BY DEF SelfContained, Proper
<1>2. SelfContained(EndCalls(tag))
  <2>1. ASSUME NEW what \in {"logger", "appender", "layout"} PROVE SelfContained(<<End(what)>>)
    <3>1. End(what) \in ApiCall /\ End(what).op = "end"
      BY DEF ApiCall, End
    <3> QED
      BY <3>1, OneCall
  <2>2. EndCalls(tag) \in {<< >>, <<End("logger")>>, <<End("appender")>>, <<End("layout")>>}
    BY DEF EndCalls
  <2> QED
    BY <1>1, <2>1, <2>2
<1>3. ASSUME tag.shape # "end" PROVE SelfContained(StartCalls(tag))
  <2>1. CASE tag.kind = "logger"
    <3> DEFINE c == Name("logger", tag.name)
               d == [op |-> "additivity", value |-> FALSE]
    <3>1. tag.name \in LoggerNames /\ tag.additive \in {TRUE} \union Additivities
      BY <1>3, <2>1 DEF Tag
    <3>2. c \in ApiCall /\ c.op = "logger"
      BY <3>1 DEF ApiCall, Name
    <3>3. CASE tag.additive
      <4>1. StartCalls(tag) = <<c>> \o << >>
        BY <2>1, <3>3 DEF StartCalls
      <4> HIDE DEF c
      <4> QED
        BY <1>1, <3>2, <4>1, OneCall, BothProper
    <3>4. CASE ~tag.additive
      <4>1. FALSE \in Additivities
        BY <3>1, <3>4, LevelsAssumption
      <4>2. d \in ApiCall /\ d.op = "additivity"
        BY <4>1 DEF ApiCall
      <4>3. StartCalls(tag) = <<c>> \o <<d>>
        BY <2>1, <3>4 DEF StartCalls
      <4> HIDE DEF c, d
      <4>4. <<c>> \o <<d>> = <<c, d>>
        BY <3>2, <4>2, Joined2
      <4> QED
        BY <3>2, <4>2, <4>3, <4>4, TwoCalls
    <3> QED
      BY <3>3, <3>4
  <2>2. CASE tag.kind = "appender"
    <3> DEFINE c == [op |-> "appender", name |-> tag.name, class |-> tag.class]
    <3>1. tag.name \in AppenderNames /\ tag.class \in Kinds
      BY <1>3, <2>2 DEF Tag
    <3>2. c \in ApiCall /\ c.op = "appender"
      BY <3>1 DEF ApiCall
    <3>3. StartCalls(tag) = <<c>>
      BY <2>2 DEF StartCalls
    <3> HIDE DEF c
    <3> QED
      BY <3>2, <3>3, OneCall
  <2>3. CASE tag.kind = "ref"
    <3> DEFINE c == Name("ref", tag.name)
    <3>1. tag.name \in AppenderNames
      BY <1>3, <2>3 DEF Tag
    <3>2. c \in ApiCall /\ c.op = "ref"
      BY <3>1 DEF ApiCall, Name
    <3>3. StartCalls(tag) = <<c>>
      BY <2>3 DEF StartCalls
    <3> HIDE DEF c
    <3> QED
      BY <3>2, <3>3, OneCall
  <2>4. CASE tag.kind = "level"
    <3> DEFINE c == [op |-> "level", value |-> tag.value]
    <3>1. tag.value \in Levels
      BY <1>3, <2>4 DEF Tag
    <3>2. c \in ApiCall /\ c.op = "level"
      BY <3>1 DEF ApiCall
    <3>3. StartCalls(tag) = <<c>>
      BY <2>4 DEF StartCalls
    <3> HIDE DEF c
    <3> QED
      BY <3>2, <3>3, OneCall
  <2>5. CASE tag.kind \in {"layout", "param"}
    <3> DEFINE c == Call(tag.kind)
    <3>2. c \in ApiCall /\ c.op \in {"layout", "param"}
      BY <2>5 DEF ApiCall, Call
    <3>3. StartCalls(tag) = <<c>>
      BY <2>5 DEF StartCalls
    <3> HIDE DEF c
    <3> QED
      BY <3>2, <3>3, OneCall
  <2>6. CASE tag.kind \notin {"logger", "appender", "ref", "level", "layout", "param"}
    <3>1. StartCalls(tag) = << >>
      BY <2>6 DEF StartCalls
    <3> QED
      BY <1>1, <3>1
  <2> QED
    BY <2>1, <2>2, <2>3, <2>4, <2>5, <2>6
<1> DEFINE s == IF tag.shape = "end" THEN << >> ELSE StartCalls(tag)
           e == IF tag.shape = "start" THEN << >> ELSE EndCalls(tag)
<1>4. SelfContained(s) /\ SelfContained(e)
  BY <1>1, <1>2, <1>3
<1>5. TagCalls(tag) = s \o e
  BY DEF TagCalls
<1> HIDE DEF s, e
<1> QED
  BY <1>4, <1>5, BothProper

\* What is left of the calls when the first is made.
LEMMA TailProper ==
  ASSUME NEW todo, Proper(todo), todo # << >>
  PROVE  /\ Proper(Tail(todo)) /\ Head(todo) \in ApiCall /\ Head(todo) = todo[1]
         /\ Len(Tail(todo)) = Len(todo) - 1 /\ Len(todo) \in Nat \ {0}
         /\ (Tail(todo) # << >> /\ Head(Tail(todo)).op = "additivity") => Head(todo).op = "logger"
<1>1. todo \in Seq(ApiCall) /\ Len(todo) \in Nat /\ Len(todo) >= 1
  BY DEF Proper
<1>2. /\ Tail(todo) \in Seq(ApiCall) /\ Len(Tail(todo)) = Len(todo) - 1
      /\ Head(todo) \in ApiCall /\ Head(todo) = todo[1]
      /\ \A i \in 1..(Len(todo) - 1) : Tail(todo)[i] = todo[i + 1]
  BY <1>1
<1>3. ASSUME NEW i \in 2..(Len(todo) - 1), Tail(todo)[i].op = "additivity"
      PROVE  Tail(todo)[i - 1].op = "logger"
  <2>1. i + 1 \in 2..Len(todo) /\ i \in 1..(Len(todo) - 1) /\ i - 1 \in 1..(Len(todo) - 1)
        /\ (i - 1) + 1 = (i + 1) - 1
    BY <1>1
  <2>2. Tail(todo)[i] = todo[i + 1] /\ Tail(todo)[i - 1] = todo[(i + 1) - 1]
    BY <1>2, <2>1
  <2> QED
    BY <1>3, <2>1, <2>2 DEF Proper
<1>4. ASSUME Tail(todo) # << >>, Head(Tail(todo)).op = "additivity"
      PROVE  Head(todo).op = "logger"
  <2>1. 1 \in 1..(Len(todo) - 1) /\ 1 + 1 = 2 /\ 2 \in 2..Len(todo) /\ 2 - 1 = 1
    BY <1>1, <1>2, <1>4
  <2>2. Head(Tail(todo)) = todo[2]
    BY <1>2, <1>4, <2>1
  <2> QED
    BY <1>2, <1>4, <2>1, <2>2 DEF Proper
<1> QED
  BY <1>1, <1>2, <1>3, <1>4 DEF Proper

-----------------------------------------------------------------------------
(* A configurator calls the API and does nothing else *)

JobType ==
  [text : Texts \union {Idle.text}, source : {"string", "file"}, pass : Nat \ {0}, at : Nat,
   todo : Seq(ApiCall), begun : BOOLEAN]

\* The calls to make are proper ones; what is current is a logger of the list
\* and an appender of the registry; an additivity is set for a logger.
CallsInv ==
  /\ job = Idle \/ (job \in JobType /\ job.text \in Texts)
  /\ Proper(job.todo)
  /\ cur \in [logger : {0} \union LoggerIds, appender : {0} \union AppenderIds,
              layout : {0} \union AppenderIds]
  /\ (job.todo # << >> /\ job.todo[1].op = "additivity") => cur.logger # 0

\* Texts become items that become calls.
LEMMA SeenItems ==
  ASSUME NEW t \in Texts
  PROVE  /\ t.form \in {"property", "xml"}
         /\ Seen(t) \in Seq(IF t.form = "xml" THEN Tag ELSE Line)
<1>1. CASE t.form = "property" /\ t.items \in Seq(Line)
  BY <1>1 DEF Seen
<1>2. CASE t.form = "xml" /\ t.items \in Seq(Tag \union Comment)
  BY <1>2, VisibleTags DEF Seen
<1> QED
  BY <1>1, <1>2, TextsAssumption

\* The calls of the item behind the first at ones.
LEMMA ItemCallsProper ==
  ASSUME NEW t \in Texts, NEW at \in Nat, at < Len(Seen(t))
  PROVE  LET item == Seen(t)[at + 1] IN
         SelfContained(IF t.form = "xml" THEN TagCalls(item) ELSE LineCalls(item))
<1> DEFINE item == Seen(t)[at + 1]
<1>1. at + 1 \in 1..Len(Seen(t))
  BY SeenItems
<1>2. CASE t.form = "xml"
  <2>1. Seen(t) \in Seq(Tag)
    BY <1>2, SeenItems
  <2>2. item \in Tag
    BY <1>1, <2>1
  <2> HIDE DEF item
  <2>3. SelfContained(TagCalls(item))
    BY <2>2, TagCallsProper
  <2> QED
    BY <1>2, <2>3 DEF item
<1>3. CASE t.form # "xml"
  <2>1. Seen(t) \in Seq(Line)
    BY <1>3, SeenItems
  <2>2. item \in Line
    BY <1>1, <2>1
  <2> HIDE DEF item
  <2>3. SelfContained(LineCalls(item))
    BY <2>2, LineCallsProper
  <2> QED
    BY <1>3, <2>3 DEF item
<1> QED
  BY <1>2, <1>3

\* The classes that are registered first.
LEMMA PassedProper ==
  LET todo == [i \in DOMAIN ClassesPassed |-> Name("register", ClassesPassed[i])] IN
  SelfContained(todo)
<1> DEFINE todo == [i \in DOMAIN ClassesPassed |-> Name("register", ClassesPassed[i])]
<1>1. DOMAIN ClassesPassed = 1..Len(ClassesPassed) /\ Len(ClassesPassed) \in Nat
  BY PassedAssumption
<1>2. \A i \in DOMAIN ClassesPassed :
        /\ Name("register", ClassesPassed[i]) \in ApiCall
        /\ Name("register", ClassesPassed[i]).op = "register"
  BY <1>1, PassedAssumption DEF ApiCall, Name
<1>3. todo \in Seq(ApiCall) /\ Len(todo) \in Nat
  BY <1>1, <1>2
<1>4. \A i \in 1..Len(todo) : todo[i].op = "register"
  BY <1>1, <1>2
<1> HIDE DEF todo
<1>5. /\ \A i \in 2..Len(todo) : i \in 1..Len(todo)
      /\ todo # << >> => 1 \in 1..Len(todo)
  BY <1>3
<1>6. SelfContained(todo)
  BY <1>3, <1>4, <1>5 DEF SelfContained, Proper
<1> QED
  BY <1>6 DEF todo

\* The lists of loggers and appenders only grow.
LEMMA ListsGrow ==
  ASSUME IInv, [Next]_vars
  PROVE  /\ Len(loggers') \in Nat /\ Len(loggers') >= Len(loggers) /\ Len(loggers) \in Nat
         /\ Len(appenders') \in Nat /\ Len(appenders') >= Len(appenders) /\ Len(appenders) \in Nat
         /\ LoggerIds \subseteq LoggerIds' /\ AppenderIds \subseteq AppenderIds'
<1>1. RegistryTypeOK /\ Len(appenders) \in Nat /\ Len(loggers) \in Nat
  BY SlotsAreTyped DEF IInv, TypeOK, RegistryTypeOK
<1>2. Len(loggers') \in Nat /\ Len(loggers') >= Len(loggers)
  BY NextNamesStep DEF NamesStep
<1>3. SameAppenders \/ \E n \in AppenderNames, k \in Kinds : Created(n, k)
  BY <1>1, LoggersKeepNames, RegistryNames
<1>4. Len(appenders') \in Nat /\ Len(appenders') >= Len(appenders)
  BY <1>1, <1>3 DEF SameAppenders, Created
<1> QED
  BY <1>1, <1>2, <1>4 DEF LoggerIds, AppenderIds

\* What is current stays there.
LEMMA CurrentStays ==
  ASSUME IInv, [Next]_vars,
         NEW c \in [logger : {0} \union LoggerIds, appender : {0} \union AppenderIds,
                    layout : {0} \union AppenderIds]
  PROVE  c \in [logger : {0} \union LoggerIds', appender : {0} \union AppenderIds',
                layout : {0} \union AppenderIds']
BY ListsGrow

\* The types that a call of the API has, by its name.
LEMMA CallType ==
  ASSUME NEW c \in ApiCall
  PROVE  /\ c.op = "register" => c.name \in ExtraClasses
         /\ c.op = "logger" => c.name \in LoggerNames
         /\ c.op = "level" => c.value \in Levels
         /\ c.op = "additivity" => c.value \in Additivities
         /\ c.op \in {"ref", "find"} => c.name \in AppenderNames
         /\ c.op = "appender" => c.name \in AppenderNames /\ c.class \in Kinds
         /\ c.op = "end" => c.of \in {"logger", "appender", "layout"}
BY DEF ApiCall

\* A step that makes the first of the calls: what is left are proper calls.
LEMMA TakesProper ==
  ASSUME NEW op, CallsInv, Takes(op)
  PROVE  /\ job.todo # << >> /\ job.todo[1] \in ApiCall /\ job.todo[1].op = op
         /\ Head(job.todo) = job.todo[1]
         /\ job' \in JobType /\ job'.text \in Texts /\ Proper(job'.todo)
         /\ job'.todo = Tail(job.todo) /\ job'.text = job.text /\ job'.source = job.source
         /\ job'.pass = job.pass /\ job'.at = job.at /\ job'.begun = job.begun
         /\ (job'.todo # << >> /\ job'.todo[1].op = "additivity") => op = "logger"
<1>1. job.todo # << >> /\ Head(job.todo).op = op /\ job' = [job EXCEPT !.todo = Tail(@)]
  BY DEF Takes
<1>2. job \in JobType /\ job.text \in Texts
  BY <1>1 DEF CallsInv, Idle
<1>3. /\ Proper(Tail(job.todo)) /\ Head(job.todo) \in ApiCall /\ Head(job.todo) = job.todo[1]
      /\ (Tail(job.todo) # << >> /\ Head(Tail(job.todo)).op = "additivity") => Head(job.todo).op = "logger"
  BY <1>1, TailProper DEF CallsInv
<1>4. Tail(job.todo) \in Seq(ApiCall)
  BY <1>3 DEF Proper
<1>5. Tail(job.todo) # << >> => Head(Tail(job.todo)) = Tail(job.todo)[1]
  BY <1>4
<1>6. /\ job'.todo = Tail(job.todo) /\ job'.text = job.text /\ job'.source = job.source
      /\ job'.pass = job.pass /\ job'.at = job.at /\ job'.begun = job.begun
      /\ job' \in JobType
  BY <1>1, <1>2, <1>4 DEF JobType
<1> QED
  BY <1>1, <1>2, <1>3, <1>5, <1>6

\* What a search for an appender finds is in the registry.
LEMMA FoundAppender ==
  ASSUME IInv, NEW n
  PROVE  FindAppender(n) \in {0} \union AppenderIds /\ Len(appenders) \in Nat
<1>1. Len(appenders) \in Nat
  BY SlotsAreTyped DEF IInv
<1> QED
  BY <1>1, FindAppenderFinds

\* A configurator that is invoked, and every step of it, is a call of the API
\* or none.
LEMMA ConfiguratorStep ==
  ASSUME IInv, CallsInv, [ConfiguratorNext]_all
  PROVE  [Next]_vars
<1>1. CASE UNCHANGED vars
  BY <1>1
<1>2. CASE UNCHANGED all
  BY <1>2 DEF all, vars
<1>3. CASE \E t \in Texts, source \in {"string", "file"} : Begin(t, source)
  BY <1>1, <1>3 DEF Begin
<1>4. CASE Close
  BY <1>4 DEF Close, Next, RegistryNext
<1>5. CASE Unreadable \/ ReadItem \/ SecondPass \/ Finish \/ CallFind \/ CallLayout \/ CallParam \/ CallEnd
  BY <1>1, <1>5 DEF Unreadable, ReadItem, SecondPass, Finish, CallFind, CallLayout, CallParam, CallEnd
<1>6. CASE Register
  <2>1. job.todo[1].name \in ExtraClasses /\ Head(job.todo) = job.todo[1]
    BY <1>6, TakesProper, CallType DEF Register
  <2>2. RegisterExtraClass(job.todo[1].name) /\ UNCHANGED <<loggers, adopted>>
    BY <1>6, <2>1 DEF Register
  <2> QED
    BY <2>1, <2>2 DEF Next, RegistryNext
<1>7. CASE CallLogger
  <2>1. job.todo[1].name \in LoggerNames /\ Head(job.todo) = job.todo[1]
    BY <1>7, TakesProper, CallType DEF CallLogger
  <2>2. GetLogger(job.todo[1].name)
    BY <1>7, <2>1 DEF CallLogger
  <2> QED
    BY <2>1, <2>2 DEF Next
<1>8. CASE CallLevel
  <2>1. job.todo[1].value \in Levels /\ Head(job.todo) = job.todo[1]
    BY <1>8, TakesProper, CallType DEF CallLevel
  <2>2. CASE Target[1] = "logger"
    <3>1. Target[2] = cur.logger /\ cur.logger # 0
      BY <2>2 DEF Target
    <3>2. cur.logger \in LoggerIds
      BY <3>1 DEF CallsInv
    <3>3. SetLevel(cur.logger, job.todo[1].value)
      BY <1>8, <2>1, <2>2, <3>1 DEF CallLevel
    <3> QED
      BY <2>1, <3>2, <3>3 DEF Next
  <2>3. CASE Target[1] # "logger"
    BY <1>1, <1>8, <2>3 DEF CallLevel
  <2> QED
    BY <2>2, <2>3
<1>9. CASE CallAdditivity
  <2>1. job.todo # << >> /\ job.todo[1].op = "additivity" /\ Head(job.todo) = job.todo[1]
        /\ job.todo[1].value \in Additivities
    BY <1>9, TakesProper, CallType DEF CallAdditivity
  <2>2. cur.logger \in LoggerIds
    BY <2>1 DEF CallsInv
  <2>3. SetAdditivity(cur.logger, job.todo[1].value)
    BY <1>9, <2>1 DEF CallAdditivity
  <2> QED
    BY <2>1, <2>2, <2>3 DEF Next
<1>10. CASE CallRef
  <2> DEFINE a == FindAppender(Head(job.todo).name)
  <2>1. a \in {0} \union AppenderIds
    BY FoundAppender
  <2>2. cur.logger \in {0} \union LoggerIds
    BY DEF CallsInv
  <2>3. IF a # 0 /\ cur.logger # 0 THEN SetAppender(cur.logger, a) ELSE UNCHANGED vars
    BY <1>10 DEF CallRef
  <2> HIDE DEF a
  <2> QED
    BY <1>1, <2>1, <2>2, <2>3 DEF Next
<1>11. CASE CallAppender
  <2>1. job.todo[1].name \in AppenderNames /\ job.todo[1].class \in Kinds /\ Head(job.todo) = job.todo[1]
    BY <1>11, TakesProper, CallType DEF CallAppender
  <2>2. UNCHANGED vars \/ (GetAppender(job.todo[1].name, job.todo[1].class) /\ UNCHANGED <<loggers, adopted>>)
    BY <1>11, <2>1 DEF CallAppender
  <2> QED
    BY <1>1, <2>1, <2>2 DEF Next, RegistryNext
<1> QED
  BY <1>2, <1>3, <1>4, <1>5, <1>6, <1>7, <1>8, <1>9, <1>10, <1>11 DEF ConfiguratorNext

\* No call is left when the configurator starts.
LEMMA InitCallsInv == ConfiguratorInit => CallsInv
<1> SUFFICES ASSUME ConfiguratorInit PROVE CallsInv
  OBVIOUS
<1>1. job = Idle /\ cur = NoneCurrent /\ job.todo = << >>
  BY DEF ConfiguratorInit, Idle
<1>2. Proper(job.todo)
  BY <1>1 DEF Proper
<1> QED
  BY <1>1, <1>2 DEF CallsInv, NoneCurrent

\* What is current is in the lists, or nothing is.
CurrentType == [logger : {0} \union LoggerIds, appender : {0} \union AppenderIds,
                layout : {0} \union AppenderIds]

\* Every step of the configurator leaves calls that may be made.
LEMMA NextCallsInv ==
  ASSUME IInv, IInv', CallsInv, [ConfiguratorNext]_all
  PROVE  CallsInv'
<1>0. [Next]_vars
  BY ConfiguratorStep
<1>1. cur \in CurrentType /\ \A c : c \in CurrentType => c \in CurrentType'
  BY <1>0, CurrentStays DEF CallsInv, CurrentType
<1>2. NoneCurrent \in CurrentType'
  BY DEF NoneCurrent, CurrentType
<1>3. CASE UNCHANGED all
  BY <1>3 DEF all, vars, registry, configuring, CallsInv, LoggerIds, AppenderIds
<1>4. CASE \E t \in Texts, source \in {"string", "file"} : Begin(t, source)
  <2> DEFINE todo == [i \in DOMAIN ClassesPassed |-> Name("register", ClassesPassed[i])]
  <2>1. PICK t \in Texts, source \in {"string", "file"} :
          job' = [text |-> t, source |-> source, pass |-> 1, at |-> 0, begun |-> FALSE, todo |-> todo]
          /\ cur' = cur
    BY <1>4 DEF Begin
  <2>2. SelfContained(todo)
    BY PassedProper
  <2> HIDE DEF todo
  <2>3. todo \in Seq(ApiCall)
    BY <2>2 DEF SelfContained, Proper
  <2>4. job' \in JobType /\ job'.text \in Texts /\ job'.todo = todo
    BY <2>1, <2>3 DEF JobType
  <2> QED
    BY <1>1, <2>1, <2>2, <2>4 DEF CallsInv, CurrentType, SelfContained
<1>5. CASE Close \/ SecondPass
  <2>1. job # Idle /\ job.todo = << >>
    BY <1>5 DEF Close, SecondPass, Ready
  <2>2. job \in JobType /\ job.text \in Texts
    BY <2>1 DEF CallsInv
  <2>3. job' \in JobType /\ job'.text = job.text /\ job'.todo = job.todo
    <3>1. CASE Close
      <4>1. job' = [job EXCEPT !.begun = TRUE]
        BY <3>1 DEF Close
      <4> QED
        BY <2>2, <4>1, TRUE \in BOOLEAN DEF JobType
    <3>2. CASE SecondPass
      <4>1. job' = [job EXCEPT !.pass = @ + 1, !.at = 0]
        BY <3>2 DEF SecondPass
      <4>2. job.pass + 1 \in Nat \ {0} /\ 0 \in Nat
        BY <2>2 DEF JobType
      <4> QED
        BY <2>2, <4>1, <4>2 DEF JobType
    <3> QED
      BY <1>5, <3>1, <3>2
  <2>4. cur' \in CurrentType'
    BY <1>1, <1>2, <1>5 DEF Close, SecondPass
  <2> QED
    BY <2>1, <2>2, <2>3, <2>4 DEF CallsInv, CurrentType
<1>6. CASE Unreadable \/ Finish
  <2>1. job' = Idle /\ cur' = NoneCurrent /\ job'.todo = << >>
    BY <1>6 DEF Unreadable, Finish, Idle
  <2>2. Proper(job'.todo)
    BY <2>1 DEF Proper
  <2> QED
    BY <1>2, <2>1, <2>2 DEF CallsInv, CurrentType
<1>7. CASE ReadItem
  <2> DEFINE item == Seen(job.text)[job.at + 1]
             todo == IF job.text.form = "xml" THEN TagCalls(item) ELSE LineCalls(item)
  <2>1. job # Idle /\ job.at < Len(Seen(job.text))
    BY <1>7 DEF ReadItem, Ready
  <2>2. job \in JobType /\ job.text \in Texts /\ job.at \in Nat
    BY <2>1 DEF CallsInv, JobType
  <2>3. SelfContained(todo)
    BY <2>1, <2>2, ItemCallsProper
  <2>4. job' = [job EXCEPT !.at = @ + 1, !.todo = todo]
    BY <1>7 DEF ReadItem
  <2>5. cur' = cur \/ cur' = NoneCurrent
    BY <1>7 DEF ReadItem
  <2> HIDE DEF todo
  <2>6. todo \in Seq(ApiCall) /\ Proper(todo) /\ (todo # << >> => todo[1].op # "additivity")
    BY <2>3 DEF SelfContained, Proper
  <2>7. job' \in JobType /\ job'.text = job.text /\ job'.todo = todo
    <3>1. job.at + 1 \in Nat
      BY <2>2
    <3> QED
      BY <2>2, <2>4, <2>6, <3>1 DEF JobType
  <2>8. cur' \in CurrentType'
    BY <1>1, <1>2, <2>5
  <2> QED
    BY <2>2, <2>6, <2>7, <2>8 DEF CallsInv, CurrentType
<1>8. ASSUME NEW op, Takes(op), cur' \in CurrentType', op = "logger" => cur'.logger # 0
      PROVE  CallsInv'
  BY <1>8, TakesProper DEF CallsInv, CurrentType
<1>9. CASE Register \/ CallLevel \/ CallAdditivity \/ CallRef \/ CallParam
  <2>1. cur' = cur
    BY <1>9 DEF Register, CallLevel, CallAdditivity, CallRef, CallParam
  <2>2. \E op : Takes(op) /\ op # "logger"
    <3>1. Takes("register") \/ Takes("level") \/ Takes("additivity") \/ Takes("ref") \/ Takes("param")
      BY <1>9 DEF Register, CallLevel, CallAdditivity, CallRef, CallParam
    <3> QED
      BY <3>1
  <2> QED
    BY <1>1, <1>8, <2>1, <2>2
<1>10. CASE CallLogger
  <2>1. /\ Takes("logger") /\ GetLogger(Head(job.todo).name)
        /\ cur' = [cur EXCEPT !.logger = LoggerNamed(loggers, Head(job.todo).name)]
    BY <1>10 DEF CallLogger
  <2>2. Head(job.todo) \in ApiCall /\ Head(job.todo).op = "logger"
    BY <2>1, TakesProper
  <2> DEFINE n == Head(job.todo).name
  <2>3. n \in LoggerNames
    BY <2>2, CallType
  <2>4. n \in Seq(NameParts) \ {<< >>}
    BY <2>3, AskedNameType
  <2>5. loggers' = WithLogger(loggers, n)
    BY <2>1 DEF GetLogger
  <2> HIDE DEF n
  <2>6. LoggerNamed(loggers, n) \in 1..Len(loggers')
    BY <2>4, <2>5, NamedLogger
  <2>7. cur' \in CurrentType' /\ cur'.logger # 0
    BY <1>1, <2>1, <2>6 DEF CurrentType, LoggerIds, n
  <2> QED
    BY <1>8, <2>1, <2>7
<1>11. CASE CallAppender
  <2> DEFINE n == Head(job.todo).name
             k == Head(job.todo).class
             a == FindAppender(n)
             same == a # 0 /\ appenders[a].class = ClassOf(k)
  <2>1. /\ Takes("appender")
        /\ IF same THEN UNCHANGED vars ELSE GetAppender(n, k)
        /\ cur' = [cur EXCEPT !.appender = IF same THEN a ELSE Len(appenders) + 1]
    BY <1>11 DEF CallAppender
  <2>2. Head(job.todo) \in ApiCall /\ Head(job.todo).op = "appender"
    BY <2>1, TakesProper
  <2>3. n \in AppenderNames /\ k \in Kinds
    BY <2>2, CallType
  <2>4. a \in {0} \union AppenderIds /\ Len(appenders) \in Nat
    BY FoundAppender
  <2>5. ~same => Len(appenders) + 1 \in AppenderIds'
    <3>1. SUFFICES ASSUME ~same PROVE Len(appenders) + 1 \in AppenderIds'
      OBVIOUS
    <3>2. GetAppender(n, k) /\ RegistryTypeOK
      BY <2>1, <3>1 DEF IInv, TypeOK
    <3>3. Len(appenders') = Len(appenders) + 1
      BY <2>3, <3>2, GetAppenderCreates DEF Created
    <3> QED
      BY <2>4, <3>3 DEF AppenderIds
  <2>6. same => a \in AppenderIds
    BY <2>4
  <2>7. AppenderIds \subseteq AppenderIds'
    BY <1>0, ListsGrow
  <2> HIDE DEF same, a
  <2>8. cur' \in CurrentType'
    BY <1>1, <2>1, <2>5, <2>6, <2>7 DEF CurrentType
  <2> QED
    BY <1>8, <2>1, <2>8
<1>12. CASE CallFind
  <2>1. /\ job.todo # << >> /\ cur' = [cur EXCEPT !.appender = FindAppender(Head(job.todo).name)]
        /\ job' = [job EXCEPT !.todo = IF FindAppender(Head(job.todo).name) = 0 THEN << >> ELSE Tail(@)]
        /\ Head(job.todo).op = "find" /\ UNCHANGED vars
    BY <1>12 DEF CallFind
  <2>2. FindAppender(Head(job.todo).name) \in {0} \union AppenderIds
    BY FoundAppender
  <2> DEFINE a == FindAppender(Head(job.todo).name)
  <2>3. AppenderIds \subseteq AppenderIds'
    BY <1>0, ListsGrow
  <2>4. cur' \in CurrentType'
    BY <1>1, <2>1, <2>2, <2>3 DEF CurrentType
  <2>5. CASE a = 0
    <3>1. job \in JobType /\ job.text \in Texts
      BY <2>1 DEF CallsInv, Idle
    <3>2. job' = [job EXCEPT !.todo = << >>] /\ << >> \in Seq(ApiCall) /\ Proper(<< >>)
      BY <2>1, <2>5 DEF Proper
    <3>3. job' \in JobType /\ job'.text = job.text /\ job'.todo = << >>
      BY <3>1, <3>2 DEF JobType
    <3> QED
      BY <2>4, <3>1, <3>2, <3>3 DEF CallsInv, CurrentType
  <2>6. CASE a # 0
    <3>1. Takes("find")
      BY <1>12, <2>6 DEF CallFind, Takes
    <3> QED
      BY <1>8, <2>4, <3>1
  <2> QED
    BY <2>5, <2>6
<1>13. CASE CallLayout
  <2>1. Takes("layout") /\ cur' = IF cur.appender # 0 THEN [cur EXCEPT !.layout = cur.appender] ELSE cur
    BY <1>13 DEF CallLayout
  <2>2. cur' \in CurrentType
    BY <1>1, <2>1 DEF CurrentType
  <2> QED
    BY <1>1, <1>8, <2>1, <2>2
<1>14. CASE CallEnd
  <2>1. Takes("end") /\ cur' = [cur EXCEPT ![Head(job.todo).of] = 0]
    BY <1>14 DEF CallEnd
  <2>2. Head(job.todo).of \in {"logger", "appender", "layout"}
    BY <2>1, TakesProper, CallType
  <2>3. cur' \in CurrentType
    BY <1>1, <2>1, <2>2 DEF CurrentType
  <2> QED
    BY <1>1, <1>8, <2>1, <2>3
<1> QED
  BY <1>3, <1>4, <1>5, <1>6, <1>7, <1>9, <1>10, <1>11, <1>12, <1>13, <1>14 DEF ConfiguratorNext

\* Whatever texts are configured and in whatever order their lines or tags
\* stand, also where the tags of XML do not match: a configurator makes calls
\* of the API as any program may, so all that is proved of LoggerTree for any
\* sequence of calls holds of configurations.
THEOREM ConfiguratorImplementsLoggerTree == ConfiguratorSpec => Spec
<1>1. ConfiguratorInit => Init /\ IInv /\ CallsInv
  BY InitInv, InitCallsInv DEF ConfiguratorInit
<1>2. IInv /\ CallsInv /\ [ConfiguratorNext]_all => [Next]_vars /\ IInv' /\ CallsInv'
  BY ConfiguratorStep, NextInv, NextCallsInv
<1> QED
  BY <1>1, <1>2, PTL DEF ConfiguratorSpec, Spec

-----------------------------------------------------------------------------
(* What the items of a text say *)

LastText == LastCall.text
LastSource == LastCall.source
Item(t, i) == Seen(t)[i]
IsTag(t) == t.form = "xml"
EndTag(t, i) == IsTag(t) /\ Item(t, i).shape = "end"

\* The names that a line attaches, as Refs has them.
RefsFrom(item, source) ==
  IF source = "file" THEN SubSeq(item.refs, 1, item.fit) ELSE item.refs

\* Item j is the start of the logger that is open behind the tag i.
LoggerOpen(t, i, j) ==
  /\ j \in 1..i /\ Item(t, j).kind = "logger" /\ Item(t, j).shape = "start"
  /\ \A k \in (j + 1)..i : Item(t, k).kind # "logger"

\* Tags after which an appender is current or not, whatever was before.
AppenderTag(tag) == tag.kind = "appender" \/ (tag.kind = "ref" /\ tag.shape # "start")

\* An appender is current behind the tag i.
AppenderOpen(t, i) ==
  \E j \in 1..i : /\ Item(t, j).kind = "appender" /\ Item(t, j).shape = "start"
                  /\ \A k \in (j + 1)..i : AppenderTag(Item(t, k)) => Item(t, k).shape = "start"

\* A layout is current behind the tag i.
LayoutOpen(t, i) ==
  \E j \in 1..i : /\ Item(t, j).kind = "layout" /\ Item(t, j).shape = "start"
                  /\ AppenderOpen(t, j)
                  /\ \A k \in (j + 1)..i : Item(t, k).kind = "layout" => Item(t, k).shape = "start"

\* Item i asks for the logger n, defines the appender n, sets a level or an
\* additivity of n or attaches the appender r to n.
Names(t, i, n) ==
  Item(t, i).kind \in {"logger", "additivity"} /\ ~EndTag(t, i) /\ Item(t, i).name = n
Defines(t, i, n, k) ==
  Item(t, i).kind = "appender" /\ ~EndTag(t, i) /\ Item(t, i).name = n /\ Item(t, i).class = k
SetsLevel(t, i, n, v) ==
  IF IsTag(t)
    THEN /\ Item(t, i).kind = "level" /\ ~EndTag(t, i) /\ Item(t, i).value = v
         /\ \E j \in 1..i : LoggerOpen(t, i, j) /\ Item(t, j).name = n
         /\ ~AppenderOpen(t, i) /\ ~LayoutOpen(t, i)
    ELSE Item(t, i).kind = "logger" /\ Item(t, i).name = n /\ Item(t, i).level = v
SetsAdditivity(t, i, n, v) ==
  IF IsTag(t)
    THEN Item(t, i).kind = "logger" /\ ~EndTag(t, i) /\ Item(t, i).name = n /\ ~Item(t, i).additive /\ ~v
    ELSE Item(t, i).kind = "additivity" /\ Item(t, i).name = n /\ Item(t, i).value = v
Attaches(t, source, i, n, r) ==
  IF IsTag(t)
    THEN /\ Item(t, i).kind = "ref" /\ ~EndTag(t, i) /\ Item(t, i).name = r
         /\ \E j \in 1..i : LoggerOpen(t, i, j) /\ Item(t, j).name = n
    ELSE /\ Item(t, i).kind = "logger" /\ Item(t, i).name = n
         /\ \E x \in DOMAIN RefsFrom(Item(t, i), source) : RefsFrom(Item(t, i), source)[x] = r

-----------------------------------------------------------------------------
(* How far a call of a configurator has come *)

\* The calls that item i has.
Ended(tag) == tag.kind \in {"logger", "appender", "ref", "layout"} /\ tag.shape # "start"
Wants(t, i, op) ==
  LET item == Item(t, i) IN
  IF IsTag(t)
    THEN \/ op \in {"logger", "appender", "level", "layout"} /\ item.kind = op /\ ~EndTag(t, i)
         \/ op = "additivity" /\ item.kind = "logger" /\ ~EndTag(t, i) /\ ~item.additive
         \/ op = "end" /\ Ended(item)
    ELSE \/ op = "logger" /\ item.kind \in {"logger", "additivity"}
         \/ op = "level" /\ item.kind = "logger"
         \/ op \in {"additivity", "appender"} /\ item.kind = op
         \/ op = "layout" /\ item.kind = "option" /\ item.of # "appender"
WantsRef(t, source, i, r) ==
  LET item == Item(t, i) IN
  IF IsTag(t)
    THEN item.kind = "ref" /\ ~EndTag(t, i) /\ item.name = r
    ELSE item.kind = "logger" /\ \E x \in DOMAIN RefsFrom(item, source) : RefsFrom(item, source)[x] = r

\* c is a call of item i.
AsksFor(t, source, i, c) ==
  LET item == Item(t, i) IN
  /\ c.op \in {"logger", "appender", "level", "additivity", "layout", "end"} => Wants(t, i, c.op)
  /\ c.op = "logger" => c.name = item.name
  /\ c.op = "appender" => c.name = item.name /\ c.class = item.class
  /\ c.op = "level" => c.value = IF IsTag(t) THEN item.value ELSE item.level
  /\ c.op = "additivity" => c.value = IF IsTag(t) THEN FALSE ELSE item.value
  /\ c.op = "ref" => WantsRef(t, source, i, c.name)
  /\ c.op = "end" => c.of = IF item.kind = "ref" THEN "appender" ELSE item.kind
  /\ c.op = "find" => ~IsTag(t) /\ item.kind = "option"
  /\ c.op = "param" => item.kind \in {"param", "option"} /\ ~EndTag(t, i)
  /\ c.op # "register"

\* Calls that may be left of those of item i: the logger is asked for first,
\* what ends an element comes last.
RestOf(t, source, i, todo) ==
  /\ \A x \in DOMAIN todo : AsksFor(t, source, i, todo[x])
  /\ \A x \in 2..Len(todo) : todo[x].op # "logger"
  /\ \A x, y \in DOMAIN todo :
       (todo[x].op \in {"level", "additivity", "layout"} /\ todo[y].op = todo[x].op) => x = y
  /\ \A x \in 1..(Len(todo) - 1) : todo[x].op # "end"
  /\ (IsTag(t) /\ Ended(Item(t, i)) /\ todo # << >>) => todo[Len(todo)].op = "end"

\* No call of item i is missing.
AllOf(t, source, i, todo) ==
  /\ \A op \in {"logger", "appender", "level", "additivity", "layout", "end"} :
       Wants(t, i, op) => \E x \in DOMAIN todo : todo[x].op = op
  /\ Wants(t, i, "logger") => todo[1].op = "logger"
  /\ \A r \in AppenderNames :
       WantsRef(t, source, i, r) => \E x \in DOMAIN todo : todo[x].op = "ref" /\ todo[x].name = r

Pending(op) == \E x \in DOMAIN job.todo : job.todo[x].op = op
PendingRef(r) == \E x \in DOMAIN job.todo : job.todo[x].op = "ref" /\ job.todo[x].name = r

\* The call of item i has been made in this pass, or the text is read.
Made(i, op) == job = Idle \/ i < job.at \/ (i = job.at /\ ~Pending(op))
MadeRef(i, r) == job = Idle \/ i < job.at \/ (i = job.at /\ ~PendingRef(r))

\* The call under way repeats the one before.
Repetition ==
  /\ Len(done) > 1
  /\ done[Len(done) - 1].text = LastText /\ done[Len(done) - 1].source = LastSource
  /\ ~done[Len(done) - 1].failed

\* The call has been made in this pass or in one before.
EverMade(i, op) == Repetition \/ job.pass = 2 \/ Made(i, op)
EverMadeRef(i, r) ==
  Repetition \/ ((IsTag(LastText) \/ job.pass = 2 \/ job = Idle) /\ MadeRef(i, r))

Live == done # << >> /\ ~LastCall.failed /\ Orderly(LastText)
Positions == DOMAIN Seen(LastText)

-----------------------------------------------------------------------------
(* The invariant *)

\* The calls of the configurator that are remembered were calls.
History(found) ==
  [text : Texts, source : {"string", "file"}, found : found, failed : BOOLEAN]
Remembered(calls) == calls \in Seq(History({calls[i].found : i \in DOMAIN calls}))
HistoryInv == Remembered(done)

\* What is left of the calls is of the item that was read.
ShapeInv ==
  job # Idle =>
    /\ done # << >> /\ job.text = LastText /\ job.source = LastSource /\ ~LastCall.failed
    /\ job.at <= Len(Seen(LastText)) /\ job.pass \in {1, 2} /\ (job.pass = 2 => ~IsTag(LastText))
    /\ ~job.begun => /\ job.at = 0 /\ job.pass = 1
                     /\ \A x \in DOMAIN job.todo :
                          job.todo[x].op = "register" /\ job.todo[x].name \in Elements(ClassesPassed)
    /\ job.begun => IF job.at = 0 THEN job.todo = << >> ELSE RestOf(LastText, LastSource, job.at, job.todo)

\* Once the classes are registered they are, or the table is full.
InTable(c) == c \in Elements(extra) \/ Len(extra) >= MaxExtraClasses
RegisteredInv ==
  done # << >> => \A x \in DOMAIN ClassesPassed :
    \/ InTable(ClassesPassed[x])
    \/ /\ job # Idle /\ Len(done) = 1 /\ ~job.begun
       /\ \E y \in DOMAIN job.todo : job.todo[y].name = ClassesPassed[x]

\* The logger of an item that asks for one is current until the calls of the
\* item are made; a line has nothing else that is current.
OwnInv ==
  (job # Idle /\ job.at > 0 /\ job.todo # << >>) =>
    LET item == Item(LastText, job.at) IN
    /\ (item.kind \in {"logger", "additivity"} /\ ~EndTag(LastText, job.at) /\ job.todo[1].op # "logger") =>
         cur.logger # 0 /\ cur.logger = Lookup(loggers, item.name)
    /\ (~IsTag(LastText) /\ item.kind \in {"logger", "additivity"}) => cur.appender = 0 /\ cur.layout = 0

\* What is current in a text of XML.
LoggerCurrent(i) ==
  /\ \A j \in 1..i : LoggerOpen(LastText, i, j) =>
       cur.logger # 0 /\ cur.logger = Lookup(loggers, Item(LastText, j).name)
  /\ (\A j \in 1..i : ~LoggerOpen(LastText, i, j)) => cur.logger = 0
AppenderCurrent(i) == cur.appender # 0 <=> AppenderOpen(LastText, i)
LayoutCurrent(i) == cur.layout # 0 <=> LayoutOpen(LastText, i)
TagInv ==
  (job # Idle /\ IsTag(LastText) /\ job.at > 0) =>
    LET tag == Item(LastText, job.at)
        at == job.at
        rest == job.todo = << >> IN
    /\ (rest \/ tag.kind # "logger") => LoggerCurrent(at)
    /\ (rest \/ ~AppenderTag(tag)) => AppenderCurrent(at)
    /\ (rest \/ tag.kind # "layout") => LayoutCurrent(at)
    /\ (~rest /\ tag.kind = "layout" /\ tag.shape = "start") => LayoutCurrent(at - 1)
CurrentInv ==
  /\ (job = Idle \/ job.at = 0) => cur = NoneCurrent
  /\ OwnInv /\ TagInv

\* The loggers that were asked for are in the list.
NamedInv ==
  Live => \A i \in Positions, n \in LoggerNames :
    (Names(LastText, i, n) /\ EverMade(i, "logger")) => Lookup(loggers, n) # 0

\* The appenders that were defined have the class of the definition.
DefinedInv ==
  Live => \A i \in Positions, n \in AppenderNames, k \in Kinds :
    (Defines(LastText, i, n, k) /\ EverMade(i, "appender")) =>
      FindAppender(n) # 0 /\ appenders[FindAppender(n)].class = ClassOf(k)

\* A logger has an appender in a slot or all its slots are taken, and no slot
\* holds what is obsolete.
Holds(l, a) ==
  LET slots == loggers[l].slots IN
  /\ l # 0
  /\ \A s \in Slots : slots[s] # 0 => ~IsObsolete(slots[s])
  /\ (\E s \in Slots : slots[s] = a) \/ (\A s \in Slots : slots[s] # 0)
AttachedInv ==
  Live => \A i \in Positions, n \in LoggerNames, r \in AppenderNames :
    (Attaches(LastText, LastSource, i, n, r) /\ EverMadeRef(i, r) /\ FindAppender(r) # 0) =>
      Holds(Lookup(loggers, n), FindAppender(r))

\* The last level and additivity that were set so far count.
LevelsInv ==
  Live => \A i \in Positions, n \in LoggerNames, v \in Levels :
    (/\ SetsLevel(LastText, i, n, v) /\ Made(i, "level")
     /\ \A j \in Positions, w \in Levels : (SetsLevel(LastText, j, n, w) /\ Made(j, "level")) => j <= i)
    => Lookup(loggers, n) # 0 /\ loggers[Lookup(loggers, n)].level = v
AdditivityInv ==
  Live => \A i \in Positions, n \in LoggerNames, v \in Additivities :
    (/\ SetsAdditivity(LastText, i, n, v) /\ Made(i, "additivity")
     /\ \A j \in Positions, w \in Additivities :
          (SetsAdditivity(LastText, j, n, w) /\ Made(j, "additivity")) => j <= i)
    => Lookup(loggers, n) # 0 /\ loggers[Lookup(loggers, n)].additivity = v

\* A repetition changes no more than levels and additivities that the text
\* sets, and what it found is what the text sets last.
Before == LastCall.found[1]
Plain(lg) == [lg EXCEPT !.level = 0, !.additivity = FALSE]
RepeatInv ==
  (Live /\ Repetition) =>
    /\ LastCall.found = <<Before, Contents[2]>>
    /\ Before \in Seq(LoggerType) /\ Len(Before) = Len(loggers)
    /\ \A l \in LoggerIds : Plain(loggers[l]) = Plain(Before[l])
    /\ \A l \in LoggerIds :
         \/ loggers[l].level = Before[l].level
         \/ \E i \in Positions, n \in LoggerNames, v \in Levels :
              SetsLevel(LastText, i, n, v) /\ l = Lookup(loggers, n)
    /\ \A l \in LoggerIds :
         \/ loggers[l].additivity = Before[l].additivity
         \/ \E i \in Positions, n \in LoggerNames, v \in Additivities :
              SetsAdditivity(LastText, i, n, v) /\ l = Lookup(loggers, n)
    /\ \A i \in Positions, n \in LoggerNames, v \in Levels :
         (/\ SetsLevel(LastText, i, n, v)
          /\ \A j \in Positions, w \in Levels : SetsLevel(LastText, j, n, w) => j <= i)
         => Before[Lookup(loggers, n)].level = v
    /\ \A i \in Positions, n \in LoggerNames, v \in Additivities :
         (/\ SetsAdditivity(LastText, i, n, v)
          /\ \A j \in Positions, w \in Additivities : SetsAdditivity(LastText, j, n, w) => j <= i)
         => Before[Lookup(loggers, n)].additivity = v

\* Until an item is read the loggers and appenders are those that were found;
\* so they are when nothing was read, and after a repetition.
FoundInv ==
  done # << >> =>
    /\ (job # Idle /\ job.at = 0 /\ job.pass = 1) => Contents = LastCall.found
    /\ (job = Idle /\ (LastCall.failed \/ (Live /\ Repetition))) => Contents = LastCall.found

DoneInv == HistoryInv /\ ShapeInv /\ RegisteredInv /\ CurrentInv /\ FoundInv
TextInv == NamedInv /\ DefinedInv /\ AttachedInv /\ LevelsInv /\ AdditivityInv /\ RepeatInv

\* Items are lines or tags.
LEMMA ItemType ==
  ASSUME NEW t \in Texts, NEW i \in 1..Len(Seen(t))
  PROVE  /\ IsTag(t) => Item(t, i) \in Tag
         /\ ~IsTag(t) => Item(t, i) \in Line
         /\ Len(Seen(t)) \in Nat /\ DOMAIN Seen(t) = 1..Len(Seen(t))
<1>1. CASE IsTag(t)
  <2>1. Seen(t) \in Seq(Tag)
    BY <1>1, SeenItems DEF IsTag
  <2> QED
    BY <1>1, <2>1 DEF Item
<1>2. CASE ~IsTag(t)
  <2>1. Seen(t) \in Seq(Line)
    BY <1>2, SeenItems DEF IsTag
  <2> QED
    BY <1>2, <2>1 DEF Item
<1> QED
  BY <1>1, <1>2

\* Calls in their order: the logger first, no setting twice, an end last.
Ordered(todo) ==
  /\ \A x \in 2..Len(todo) : todo[x].op # "logger"
  /\ \A x, y \in DOMAIN todo :
       (todo[x].op \in {"level", "additivity", "layout"} /\ todo[y].op = todo[x].op) => x = y
  /\ \A x \in 1..(Len(todo) - 1) : todo[x].op # "end"

\* Calls of the start of a tag, of its end, and both joined.
StartPart(s) ==
  /\ s \in Seq(ApiCall) /\ Len(s) \in 0..2
  /\ Len(s) > 0 => s[1].op # "end"
  /\ Len(s) = 2 => s[1].op = "logger" /\ s[2].op = "additivity"
EndPart(e) ==
  /\ e \in Seq(ApiCall) /\ Len(e) \in 0..1
  /\ Len(e) = 1 => e[1].op = "end"
BothParts(s, e, c) ==
  /\ c \in Seq(ApiCall) /\ Len(c) = Len(s) + Len(e) /\ DOMAIN c = 1..Len(c)
  /\ \A x \in 1..Len(s) : c[x] = s[x]
  /\ Len(e) = 1 => c[Len(c)] = e[1]
  /\ \A x \in DOMAIN c : (x \in 1..Len(s) /\ c[x] = s[x]) \/ (Len(e) = 1 /\ c[x] = e[1])
  /\ Ordered(c)

\* The calls of a tag are in order.
LEMMA StartThenEnd ==
  ASSUME NEW s, NEW e, StartPart(s), EndPart(e)
  PROVE  BothParts(s, e, s \o e)
<1> SUFFICES ASSUME NEW c, c = s \o e PROVE BothParts(s, e, c)
  OBVIOUS
<1>0. /\ s \in Seq(ApiCall) /\ Len(s) \in 0..2
      /\ Len(s) > 0 => s[1].op # "end"
      /\ Len(s) = 2 => s[1].op = "logger" /\ s[2].op = "additivity"
      /\ e \in Seq(ApiCall) /\ Len(e) \in 0..1
      /\ Len(e) = 1 => e[1].op = "end"
  BY DEF StartPart, EndPart
<1>1. c \in Seq(ApiCall) /\ Len(c) = Len(s) + Len(e) /\ DOMAIN c = 1..Len(c)
  BY <1>0
<1>2. /\ \A x \in 1..Len(s) : c[x] = s[x]
      /\ Len(e) = 1 => c[Len(s) + 1] = e[1]
  BY <1>0
<1>b. /\ Len(s) = 0 \/ Len(s) = 1 \/ Len(s) = 2
      /\ Len(e) = 0 \/ Len(e) = 1
  BY <1>0
<1>c. Len(c) = Len(s) + Len(e) /\ Len(s) \in Nat /\ Len(e) \in Nat
  BY <1>0, <1>1
<1>g. Len(s) = 0 => Len(c) = Len(e)
  BY <1>c
<1>h. Len(s) = 1 => Len(c) = Len(e) + 1
  BY <1>c
<1>i. Len(s) = 2 => Len(c) = Len(e) + 2
  BY <1>c
<1>d. /\ Len(s) = 0 => Len(c) = Len(e)
      /\ Len(s) = 1 => Len(c) = Len(e) + 1
      /\ Len(s) = 2 => Len(c) = Len(e) + 2
  BY <1>g, <1>h, <1>i
<1>f. DOMAIN c = 1..Len(c)
  BY <1>1
<1>3. \A x \in DOMAIN c : (x \in 1..Len(s) /\ c[x] = s[x]) \/ (Len(e) = 1 /\ c[x] = e[1])
  <2> TAKE x \in DOMAIN c
  <2>1. CASE x \in 1..Len(s)
    BY <1>2, <2>1
  <2>2. CASE x \notin 1..Len(s)
    <3>1. x = Len(s) + 1 /\ Len(e) = 1
      BY <1>b, <1>d, <1>f, <2>2
    <3> QED
      BY <1>2, <3>1
  <2> QED
    BY <2>1, <2>2
<1>4. Ordered(c)
  <2>1. CASE Len(s) = 0
    <3>1. Len(c) = 0 \/ Len(c) = 1
      BY <1>b, <1>d, <2>1
    <3>2. \A x \in DOMAIN c : x = 1
      BY <1>f, <3>1
    <3>3. /\ \A x \in 2..Len(c) : FALSE
          /\ \A x \in 1..(Len(c) - 1) : FALSE
      BY <3>1
    <3> QED
      BY <3>2, <3>3 DEF Ordered
  <2>2. CASE Len(s) = 1
    <3>0. (Len(c) = 1 /\ Len(e) = 0) \/ (Len(c) = 2 /\ Len(e) = 1)
      BY <1>b, <1>d, <2>2
    <3>1. c[1] = s[1] /\ s[1].op # "end"
      <4>1. 1 \in 1..Len(s) /\ Len(s) > 0
        BY <2>2
      <4> QED
        BY <1>0, <1>1, <1>2, <4>1
    <3>2. Len(c) = 2 => c[2].op = "end"
      <4>1. Len(s) + 1 = 2
        BY <2>2
      <4> QED
        BY <1>0, <1>1, <1>2, <3>0, <4>1
    <3>3. \A x \in DOMAIN c : x = 1 \/ (x = 2 /\ Len(c) = 2)
      BY <1>f, <3>0
    <3>4. /\ \A x \in 2..Len(c) : x = 2 /\ Len(c) = 2
          /\ \A x \in 1..(Len(c) - 1) : x = 1
      BY <3>0
    <3>5. \A x, y \in DOMAIN c :
            (c[x].op \in {"level", "additivity", "layout"} /\ c[y].op = c[x].op) => x = y
      BY <3>2, <3>3
    <3> QED
      BY <3>1, <3>2, <3>4, <3>5 DEF Ordered
  <2>3. CASE Len(s) = 2
    <3>0. (Len(c) = 2 /\ Len(e) = 0) \/ (Len(c) = 3 /\ Len(e) = 1)
      BY <1>b, <1>d, <2>3
    <3>1. c[1].op = "logger" /\ c[2].op = "additivity"
      <4>1. 1 \in 1..Len(s) /\ 2 \in 1..Len(s)
        BY <2>3
      <4> QED
        BY <1>0, <1>1, <1>2, <2>3, <4>1
    <3>2. Len(c) = 3 => c[3].op = "end"
      <4>1. Len(s) + 1 = 3
        BY <2>3
      <4> QED
        BY <1>0, <1>1, <1>2, <3>0, <4>1
    <3>3. \A x \in DOMAIN c : x = 1 \/ x = 2 \/ (x = 3 /\ Len(c) = 3)
      BY <1>f, <3>0
    <3>4. /\ \A x \in 2..Len(c) : x = 2 \/ (x = 3 /\ Len(c) = 3)
          /\ \A x \in 1..(Len(c) - 1) : x = 1 \/ x = 2
      BY <3>0
    <3>5. \A x, y \in DOMAIN c :
            (c[x].op \in {"level", "additivity", "layout"} /\ c[y].op = c[x].op) => x = y
      BY <3>1, <3>2, <3>3
    <3> QED
      BY <3>1, <3>2, <3>4, <3>5 DEF Ordered
  <2> QED
    BY <1>b, <2>1, <2>2, <2>3
<1>5. Len(e) = 1 => c[Len(c)] = e[1]
  BY <1>1, <1>2
<1> QED
  BY <1>1, <1>2, <1>3, <1>4, <1>5 DEF BothParts

\* The calls of a tag that starts an element are those it wants.
Starts(t, source, i, s) ==
  /\ StartPart(s)
  /\ \A x \in 1..Len(s) : AsksFor(t, source, i, s[x])
  /\ \A op \in {"logger", "appender", "level", "additivity", "layout"} :
       Wants(t, i, op) => \E x \in 1..Len(s) : s[x].op = op
  /\ Wants(t, i, "logger") => Len(s) > 0 /\ s[1].op = "logger"
  /\ \A r \in AppenderNames :
       WantsRef(t, source, i, r) => \E x \in 1..Len(s) : s[x].op = "ref" /\ s[x].name = r

\* A single call, when it is the one that the tag wants.
LEMMA StartsOne ==
  ASSUME NEW t, NEW source, NEW i, NEW c \in ApiCall, c.op # "end",
         AsksFor(t, source, i, c),
         \A op \in {"logger", "appender", "level", "additivity", "layout"} :
           Wants(t, i, op) => c.op = op,
         \A r \in AppenderNames : WantsRef(t, source, i, r) => c.op = "ref" /\ c.name = r
  PROVE  Starts(t, source, i, <<c>>)
<1> DEFINE s == <<c>>
<1>1. s \in Seq(ApiCall) /\ Len(s) = 1 /\ s[1] = c
  OBVIOUS
<1> HIDE DEF s
<1>2. \A x \in 1..Len(s) : s[x] = c
  BY <1>1
<1>3. 1 \in 1..Len(s)
  BY <1>1
<1>4. Starts(t, source, i, s)
  BY <1>1, <1>2, <1>3 DEF Starts, StartPart
<1> QED
  BY <1>4 DEF s

\* No call, when the tag wants none.
LEMMA StartsNone ==
  ASSUME NEW t, NEW source, NEW i,
         \A op \in {"logger", "appender", "level", "additivity", "layout"} : ~Wants(t, i, op),
         \A r \in AppenderNames : ~WantsRef(t, source, i, r)
  PROVE  Starts(t, source, i, << >>)
<1> DEFINE s == << >>
<1>1. s \in Seq(ApiCall) /\ Len(s) = 0
  OBVIOUS
<1> HIDE DEF s
<1>2. \A x \in 1..Len(s) : FALSE
  BY <1>1
<1>4. Starts(t, source, i, s)
  BY <1>1, <1>2 DEF Starts, StartPart
<1> QED
  BY <1>4 DEF s

\* The calls of the start of a tag.
LEMMA StartCallsStart ==
  ASSUME NEW t \in Texts, IsTag(t), NEW i \in 1..Len(Seen(t)), NEW source, ~EndTag(t, i)
  PROVE  Starts(t, source, i, StartCalls(Item(t, i)))
<1> DEFINE tag == Item(t, i)
<1>1. tag \in Tag /\ tag.shape # "end"
  BY ItemType DEF EndTag
<1>2. tag.kind \in {"logger", "appender", "ref", "level", "layout", "param", "root"}
  BY <1>1 DEF Tag
<1>3. /\ \A op : Wants(t, i, op) <=>
            \/ op \in {"logger", "appender", "level", "layout"} /\ tag.kind = op
            \/ op = "additivity" /\ tag.kind = "logger" /\ ~tag.additive
            \/ op = "end" /\ Ended(tag)
      /\ \A r : WantsRef(t, source, i, r) <=> tag.kind = "ref" /\ tag.name = r
  BY DEF Wants, WantsRef
<1>4. CASE tag.kind = "logger"
  <2> DEFINE c == Name("logger", tag.name)
             d == [op |-> "additivity", value |-> FALSE]
  <2>1. tag.name \in LoggerNames /\ tag.additive \in {TRUE} \union Additivities
    BY <1>1, <1>4 DEF Tag, Shapes
  <2>2. c \in ApiCall /\ c.op = "logger" /\ c.name = tag.name
    BY <2>1 DEF ApiCall, Name
  <2>3. d.op = "additivity" /\ d.value = FALSE
    OBVIOUS
  <2>4. AsksFor(t, source, i, c)
    <3> HIDE DEF c
    <3> QED
      BY <1>3, <1>4, <2>2 DEF AsksFor
  <2>5. CASE tag.additive
    <3>1. StartCalls(tag) = <<c>> \o << >>
      BY <1>4, <2>5 DEF StartCalls
    <3> HIDE DEF c
    <3>2. StartCalls(tag) = <<c>>
      BY <3>1, <2>2
    <3>3. \A op \in {"logger", "appender", "level", "additivity", "layout"} : Wants(t, i, op) => c.op = op
      BY <1>3, <1>4, <2>2, <2>5
    <3>4. \A r : ~WantsRef(t, source, i, r)
      BY <1>3, <1>4
    <3>5. Starts(t, source, i, <<c>>)
      BY <2>2, <2>4, <3>3, <3>4, StartsOne
    <3> QED
      BY <3>2, <3>5
  <2>6. CASE ~tag.additive
    <3>1. d \in ApiCall
      BY <2>1, <2>6, LevelsAssumption DEF ApiCall
    <3>2. StartCalls(tag) = <<c>> \o <<d>>
      BY <1>4, <2>6 DEF StartCalls
    <3>3. AsksFor(t, source, i, d)
      <4> HIDE DEF d
      <4> QED
        BY <1>3, <1>4, <2>3, <2>6 DEF AsksFor
    <3> HIDE DEF c, d
    <3> DEFINE s == <<c, d>>
    <3>4. StartCalls(tag) = s
      BY <2>2, <3>1, <3>2, Joined2
    <3>5. s \in Seq(ApiCall) /\ Len(s) = 2 /\ s[1] = c /\ s[2] = d
      BY <2>2, <3>1
    <3> HIDE DEF s
    <3>6. \A x \in 1..Len(s) : s[x] = c \/ s[x] = d
      BY <3>5
    <3>7. 1 \in 1..Len(s) /\ 2 \in 1..Len(s)
      BY <3>5
    <3>8. /\ \A op \in {"logger", "appender", "level", "additivity", "layout"} :
               Wants(t, i, op) => op = "logger" \/ op = "additivity"
          /\ \A r : ~WantsRef(t, source, i, r)
      BY <1>3, <1>4
    <3>9. Starts(t, source, i, s)
      BY <2>2, <2>3, <2>4, <3>3, <3>5, <3>6, <3>7, <3>8 DEF Starts, StartPart
    <3> QED
      BY <3>4, <3>9
  <2> QED
    BY <2>5, <2>6
<1>a. ASSUME NEW c \in ApiCall, StartCalls(tag) = <<c>>, tag.kind # "logger",
             c.op = tag.kind,
             tag.kind = "appender" => c.name = tag.name /\ c.class = tag.class,
             tag.kind = "ref" => c.name = tag.name,
             tag.kind = "level" => c.value = tag.value,
             tag.kind # "root"
      PROVE  Starts(t, source, i, StartCalls(tag))
  <2>1. AsksFor(t, source, i, c)
    BY <1>2, <1>3, <1>a DEF AsksFor
  <2>2. /\ \A op \in {"logger", "appender", "level", "additivity", "layout"} : Wants(t, i, op) => c.op = op
        /\ \A r \in AppenderNames : WantsRef(t, source, i, r) => c.op = "ref" /\ c.name = r
        /\ c.op # "end"
    BY <1>2, <1>3, <1>a
  <2>3. Starts(t, source, i, <<c>>)
    BY <2>1, <2>2, StartsOne
  <2> QED
    BY <1>a, <2>3
<1>5. CASE tag.kind = "appender"
  <2> DEFINE c == [op |-> "appender", name |-> tag.name, class |-> tag.class]
  <2>1. tag.name \in AppenderNames /\ tag.class \in Kinds
    BY <1>1, <1>5 DEF Tag, Shapes
  <2>2. c \in ApiCall /\ c.op = "appender" /\ c.name = tag.name /\ c.class = tag.class
    BY <2>1 DEF ApiCall
  <2>3. StartCalls(tag) = <<c>>
    BY <1>5 DEF StartCalls
  <2> HIDE DEF c
  <2> QED
    BY <1>5, <1>a, <2>2, <2>3
<1>6. CASE tag.kind = "ref"
  <2> DEFINE c == Name("ref", tag.name)
  <2>1. tag.name \in AppenderNames
    BY <1>1, <1>6 DEF Tag, Shapes
  <2>2. c \in ApiCall /\ c.op = "ref" /\ c.name = tag.name
    BY <2>1 DEF ApiCall, Name
  <2>3. StartCalls(tag) = <<c>>
    BY <1>6 DEF StartCalls
  <2> HIDE DEF c
  <2> QED
    BY <1>6, <1>a, <2>2, <2>3
<1>7. CASE tag.kind = "level"
  <2> DEFINE c == [op |-> "level", value |-> tag.value]
  <2>1. tag.value \in Levels
    BY <1>1, <1>7 DEF Tag, Shapes
  <2>2. c \in ApiCall /\ c.op = "level" /\ c.value = tag.value
    BY <2>1 DEF ApiCall
  <2>3. StartCalls(tag) = <<c>>
    BY <1>7 DEF StartCalls
  <2> HIDE DEF c
  <2> QED
    BY <1>7, <1>a, <2>2, <2>3
<1>8. CASE tag.kind \in {"layout", "param"}
  <2> DEFINE c == Call(tag.kind)
  <2>2. c \in ApiCall /\ c.op = tag.kind
    BY <1>8 DEF ApiCall, Call
  <2>3. StartCalls(tag) = <<c>>
    BY <1>8 DEF StartCalls
  <2> HIDE DEF c
  <2> QED
    BY <1>8, <1>a, <2>2, <2>3
<1>9. CASE tag.kind = "root"
  <2>1. StartCalls(tag) = << >>
    BY <1>9 DEF StartCalls
  <2>2. /\ \A op \in {"logger", "appender", "level", "additivity", "layout"} : ~Wants(t, i, op)
        /\ \A r \in AppenderNames : ~WantsRef(t, source, i, r)
    BY <1>3, <1>9
  <2> QED
    BY <2>1, <2>2, StartsNone
<1> QED
  BY <1>2, <1>4, <1>5, <1>6, <1>7, <1>8, <1>9

\* The calls of a tag are those that it wants, in order.
LEMMA TagCallsOfItem ==
  ASSUME NEW t \in Texts, IsTag(t), NEW i \in 1..Len(Seen(t)), NEW source
  PROVE  /\ RestOf(t, source, i, TagCalls(Item(t, i)))
         /\ AllOf(t, source, i, TagCalls(Item(t, i)))
<1> DEFINE tag == Item(t, i)
           s == IF tag.shape = "end" THEN << >> ELSE StartCalls(tag)
           e == IF tag.shape = "start" THEN << >> ELSE EndCalls(tag)
           c == TagCalls(tag)
           x0 == End(IF tag.kind = "ref" THEN "appender" ELSE tag.kind)
<1>1. tag \in Tag /\ tag.shape \in {"start", "empty", "end"}
  BY ItemType DEF Tag, Shapes
<1>2. tag.kind \in {"logger", "appender", "ref", "level", "layout", "param", "root"}
  BY <1>1 DEF Tag
<1>3. Starts(t, source, i, s)
  <2>1. CASE tag.shape = "end"
    <3>1. EndTag(t, i)
      BY <2>1 DEF EndTag
    <3>2. /\ \A op \in {"logger", "appender", "level", "additivity", "layout"} : ~Wants(t, i, op)
          /\ \A r \in AppenderNames : ~WantsRef(t, source, i, r)
      BY <3>1 DEF Wants, WantsRef
    <3> QED
      BY <2>1, <3>2, StartsNone
  <2>2. CASE tag.shape # "end"
    <3>1. ~EndTag(t, i)
      BY <2>2 DEF EndTag
    <3> QED
      BY <2>2, <3>1, StartCallsStart
  <2> QED
    BY <2>1, <2>2
<1>4. x0.op = "end" /\ x0.of = IF tag.kind = "ref" THEN "appender" ELSE tag.kind
  BY DEF End
<1>5. (Ended(tag) /\ e = <<x0>> /\ x0 \in ApiCall) \/ (~Ended(tag) /\ e = << >>)
  <2>1. CASE Ended(tag)
    <3>1. EndCalls(tag) = <<x0>>
      BY <2>1, <1>2 DEF EndCalls, Ended
    <3>2. x0 \in ApiCall
      BY <2>1, <1>2 DEF ApiCall, End, Ended
    <3>3. tag.shape # "start"
      BY <2>1 DEF Ended
    <3> QED
      BY <2>1, <3>1, <3>2, <3>3
  <2>2. CASE ~Ended(tag)
    <3>1. tag.shape = "start" \/ EndCalls(tag) = << >>
      BY <2>2, <1>2 DEF EndCalls, Ended
    <3> QED
      BY <2>2, <3>1
  <2> QED
    BY <2>1, <2>2
<1>6. c = s \o e
  BY DEF TagCalls
<1>7. AsksFor(t, source, i, x0) \/ ~Ended(tag)
  <2>1. CASE Ended(tag)
    <3>1. Wants(t, i, "end")
      BY <2>1 DEF Wants
    <3> HIDE DEF x0
    <3> QED
      BY <1>4, <3>1 DEF AsksFor
  <2> QED
    BY <2>1
<1> HIDE DEF s, e, c, x0
<1>8. /\ e \in Seq(ApiCall) /\ Len(e) \in 0..1
      /\ Len(e) = 1 => e[1] = x0
      /\ Len(e) = 1 <=> Ended(tag)
  <2>1. CASE Ended(tag)
    <3>1. e = <<x0>> /\ x0 \in ApiCall
      BY <1>5, <2>1
    <3>2. e \in Seq(ApiCall) /\ Len(e) = 1 /\ e[1] = x0
      BY <3>1
    <3> QED
      BY <2>1, <3>2
  <2>2. CASE ~Ended(tag)
    <3>1. e = << >>
      BY <1>5, <2>2
    <3>2. e \in Seq(ApiCall) /\ Len(e) = 0
      BY <3>1
    <3> QED
      BY <2>2, <3>2
  <2> QED
    BY <2>1, <2>2
<1>9. StartPart(s) /\ s \in Seq(ApiCall) /\ Len(s) \in 0..2
  BY <1>3 DEF Starts, StartPart
<1>a. BothParts(s, e, c)
  <2>1. EndPart(e)
    BY <1>4, <1>8 DEF EndPart
  <2> QED
    BY <1>6, <1>9, <2>1, StartThenEnd
<1>10. /\ Len(c) = Len(s) + Len(e) /\ DOMAIN c = 1..Len(c)
       /\ \A x \in 1..Len(s) : c[x] = s[x]
       /\ Len(e) = 1 => c[Len(c)] = e[1]
       /\ \A x \in DOMAIN c : (x \in 1..Len(s) /\ c[x] = s[x]) \/ (Len(e) = 1 /\ c[x] = e[1])
       /\ Ordered(c)
  BY <1>a DEF BothParts
<1>11. \A x \in DOMAIN c : AsksFor(t, source, i, c[x])
  <2>1. \A x \in 1..Len(s) : AsksFor(t, source, i, s[x])
    BY <1>3 DEF Starts
  <2> QED
    BY <1>7, <1>8, <1>10, <2>1
<1>12. (IsTag(t) /\ Ended(tag) /\ c # << >>) => c[Len(c)].op = "end"
  BY <1>4, <1>8, <1>10
<1>13. RestOf(t, source, i, c)
  BY <1>10, <1>11, <1>12 DEF RestOf, Ordered
<1>14. \A x \in 1..Len(s) : x \in DOMAIN c /\ c[x] = s[x]
  BY <1>8, <1>9, <1>10
<1>15. ASSUME NEW op \in {"logger", "appender", "level", "additivity", "layout", "end"}, Wants(t, i, op)
       PROVE  \E x \in DOMAIN c : c[x].op = op
  <2>1. CASE op # "end"
    <3>1. PICK x \in 1..Len(s) : s[x].op = op
      BY <1>3, <1>15, <2>1 DEF Starts
    <3> QED
      BY <1>14, <3>1
  <2>2. CASE op = "end"
    <3>1. Ended(tag)
      BY <1>2, <1>15, <2>2 DEF Wants
    <3>2. Len(c) \in DOMAIN c
      BY <1>8, <1>9, <1>10, <3>1
    <3> QED
      BY <1>4, <1>8, <1>10, <2>2, <3>1, <3>2
  <2> QED
    BY <2>1, <2>2
<1>16. Wants(t, i, "logger") => c[1].op = "logger"
  <2>1. Wants(t, i, "logger") => Len(s) > 0 /\ s[1].op = "logger"
    BY <1>3 DEF Starts
  <2>2. Len(s) > 0 => 1 \in 1..Len(s)
    BY <1>9
  <2> QED
    BY <1>14, <2>1, <2>2
<1>17. ASSUME NEW r \in AppenderNames, WantsRef(t, source, i, r)
       PROVE  \E x \in DOMAIN c : c[x].op = "ref" /\ c[x].name = r
  <2>1. PICK x \in 1..Len(s) : s[x].op = "ref" /\ s[x].name = r
    BY <1>3, <1>17 DEF Starts
  <2> QED
    BY <1>14, <2>1
<1>18. AllOf(t, source, i, c)
  BY <1>15, <1>16, <1>17 DEF AllOf
<1> QED
  BY <1>13, <1>18 DEF c

\* The calls of a line are those that it wants, in order.
LEMMA LineCallsOfItem ==
  ASSUME NEW t \in Texts, ~IsTag(t), NEW i \in 1..Len(Seen(t))
  PROVE  /\ RestOf(t, job.source, i, LineCalls(Item(t, i)))
         /\ AllOf(t, job.source, i, LineCalls(Item(t, i)))
<1> DEFINE item == Item(t, i)
           c == LineCalls(item)
           source == job.source
<1>1. item \in Line
  BY ItemType
<1>2. item.kind \in {"logger", "additivity", "appender", "option", "ignored"}
  BY <1>1 DEF Line
<1>3. /\ \A op : Wants(t, i, op) <=>
            \/ op = "logger" /\ item.kind \in {"logger", "additivity"}
            \/ op = "level" /\ item.kind = "logger"
            \/ op \in {"additivity", "appender"} /\ item.kind = op
            \/ op = "layout" /\ item.kind = "option" /\ item.of # "appender"
      /\ \A r : WantsRef(t, source, i, r) <=>
            item.kind = "logger" /\ \E x \in DOMAIN RefsFrom(item, source) : RefsFrom(item, source)[x] = r
  BY DEF Wants, WantsRef
<1>4. RefsFrom(item, source) = Refs(item)
  BY DEF RefsFrom, Refs
<1>5. CASE item.kind = "logger"
  <2> DEFINE a == Name("logger", item.name)
             b == [op |-> "level", value |-> item.level]
             r == [x \in DOMAIN Refs(item) |-> Name("ref", Refs(item)[x])]
             m == Len(Refs(item))
  <2>1. item.name \in LoggerNames /\ item.level \in Levels
    BY <1>1, <1>5 DEF Line
  <2>2. Refs(item) \in Seq(AppenderNames) /\ m \in Nat /\ DOMAIN Refs(item) = 1..m
    BY <1>1, <1>5, RefsType
  <2>3. a \in ApiCall /\ b \in ApiCall
    BY <2>1 DEF ApiCall, Name
  <2>4. a.op = "logger" /\ a.name = item.name /\ b.op = "level" /\ b.value = item.level
    BY DEF Name
  <2>5. \A x \in 1..m : Name("ref", Refs(item)[x]) \in ApiCall
    BY <2>2 DEF ApiCall, Name
  <2>6. r \in Seq(ApiCall) /\ Len(r) = m
    BY <2>2, <2>5
  <2>7. \A x \in 1..m : r[x].op = "ref" /\ r[x].name = Refs(item)[x]
    BY <2>2 DEF Name
  <2>8. c = <<a, b>> \o r
    BY <1>5 DEF LineCalls
  <2> HIDE DEF a, b, r, c, m
  <2>9. <<a, b>> \in Seq(ApiCall) /\ Len(<<a, b>>) = 2 /\ <<a, b>>[1] = a /\ <<a, b>>[2] = b
    BY <2>3
  <2>10. Len(c) = m + 2 /\ DOMAIN c = 1..(m + 2) /\ c[1] = a /\ c[2] = b
    BY <2>6, <2>8, <2>9, <2>2
  <2>11. \A x \in 1..m : c[x + 2] = r[x]
    BY <2>6, <2>8, <2>9, <2>2
  <2>12. \A x \in DOMAIN c : x = 1 \/ x = 2 \/ (x - 2 \in 1..m /\ c[x] = r[x - 2])
    <3> TAKE x \in DOMAIN c
    <3>1. x = 1 \/ x = 2 \/ (x - 2 \in 1..m /\ (x - 2) + 2 = x)
      BY <2>2, <2>10
    <3> QED
      BY <2>11, <3>1
  <2>13. AsksFor(t, source, i, a) /\ AsksFor(t, source, i, b)
    BY <1>3, <1>5, <2>4 DEF AsksFor, IsTag
  <2>14. ASSUME NEW x \in 1..m PROVE AsksFor(t, source, i, r[x])
    <3>1. WantsRef(t, source, i, r[x].name)
      BY <1>3, <1>4, <1>5, <2>2, <2>7
    <3> QED
      BY <2>7, <3>1 DEF AsksFor
  <2>15. \A x \in DOMAIN c : AsksFor(t, source, i, c[x])
    BY <2>10, <2>12, <2>13, <2>14
  <2>16. \A x \in DOMAIN c : x # 1 /\ x # 2 => c[x].op = "ref"
    BY <2>7, <2>12
  <2>17. Ordered(c)
    <3>1. \A x \in 2..Len(c) : x \in DOMAIN c /\ x # 1
      BY <2>2, <2>10
    <3>2. \A x \in 1..(Len(c) - 1) : x \in DOMAIN c
      BY <2>2, <2>10
    <3>3. \A x \in DOMAIN c : c[x].op \in {"level", "additivity", "layout"} => x = 2
      BY <2>4, <2>10, <2>16
    <3>4. \A x \in DOMAIN c : c[x].op # "end" /\ (c[x].op = "logger" => x = 1)
      BY <2>4, <2>10, <2>16
    <3> QED
      BY <3>1, <3>2, <3>3, <3>4 DEF Ordered
  <2>18. RestOf(t, source, i, c)
    BY <2>15, <2>17 DEF RestOf, Ordered
  <2>19. 1 \in DOMAIN c /\ 2 \in DOMAIN c
    BY <2>2, <2>10
  <2>20. \A op : Wants(t, i, op) => op \in {"logger", "level"}
    BY <1>3, <1>5
  <2>21. ASSUME NEW n \in AppenderNames, WantsRef(t, source, i, n)
         PROVE  \E x \in DOMAIN c : c[x].op = "ref" /\ c[x].name = n
    <3>1. PICK x \in 1..m : Refs(item)[x] = n
      BY <1>3, <1>4, <2>2, <2>21
    <3>2. x + 2 \in DOMAIN c /\ c[x + 2] = r[x]
      BY <2>2, <2>10, <2>11
    <3> QED
      BY <2>7, <3>1, <3>2
  <2>22. AllOf(t, source, i, c)
    BY <2>4, <2>10, <2>19, <2>20, <2>21 DEF AllOf
  <2> QED
    BY <2>18, <2>22 DEF c
<1>6. CASE item.kind = "additivity"
  <2> DEFINE a == Name("logger", item.name)
             b == [op |-> "additivity", value |-> item.value]
  <2>1. a.op = "logger" /\ a.name = item.name /\ b.op = "additivity" /\ b.value = item.value
    BY DEF Name
  <2>2. a \in ApiCall /\ b \in ApiCall
    BY <1>1, <1>6 DEF Line, ApiCall, Name
  <2>3. c = <<a, b>>
    BY <1>6 DEF LineCalls
  <2> HIDE DEF a, b, c
  <2>4. Len(c) = 2 /\ DOMAIN c = {1, 2} /\ c[1] = a /\ c[2] = b
    BY <2>2, <2>3
  <2>5. AsksFor(t, source, i, a) /\ AsksFor(t, source, i, b)
    BY <1>3, <1>6, <2>1 DEF AsksFor, IsTag
  <2>6. /\ \A x \in 2..Len(c) : x = 2
        /\ \A x \in 1..(Len(c) - 1) : x = 1
    BY <2>4
  <2>7. RestOf(t, source, i, c)
    BY <2>1, <2>4, <2>5, <2>6 DEF RestOf
  <2>8. \A op : Wants(t, i, op) => op \in {"logger", "additivity"}
    BY <1>3, <1>6
  <2>9. \A n : ~WantsRef(t, source, i, n)
    BY <1>3, <1>6
  <2>10. AllOf(t, source, i, c)
    BY <2>1, <2>4, <2>8, <2>9 DEF AllOf
  <2> QED
    BY <2>7, <2>10 DEF c
<1>7. CASE item.kind = "appender"
  <2> DEFINE a == [op |-> "appender", name |-> item.name, class |-> item.class]
  <2>1. a.op = "appender" /\ a.name = item.name /\ a.class = item.class
    OBVIOUS
  <2>3. c = <<a>>
    BY <1>7 DEF LineCalls
  <2> HIDE DEF a, c
  <2>4. Len(c) = 1 /\ DOMAIN c = {1} /\ c[1] = a
    BY <2>3
  <2>5. AsksFor(t, source, i, a)
    BY <1>3, <1>7, <2>1 DEF AsksFor
  <2>6. /\ \A x \in 2..Len(c) : FALSE
        /\ \A x \in 1..(Len(c) - 1) : FALSE
    BY <2>4
  <2>7. RestOf(t, source, i, c)
    BY <2>1, <2>4, <2>5, <2>6 DEF RestOf
  <2>8. \A op : Wants(t, i, op) => op = "appender"
    BY <1>3, <1>7
  <2>9. \A n : ~WantsRef(t, source, i, n)
    BY <1>3, <1>7
  <2>10. AllOf(t, source, i, c)
    BY <2>1, <2>4, <2>8, <2>9 DEF AllOf
  <2> QED
    BY <2>7, <2>10 DEF c
<1>8. CASE item.kind = "option"
  <2> DEFINE a == Name("find", item.name)
             b == Call("layout")
             d == Call("param")
  <2>1. a.op = "find" /\ b.op = "layout" /\ d.op = "param"
    BY DEF Name, Call
  <2>2. /\ item.of = "appender" => c = <<a, d>>
        /\ item.of # "appender" => c = <<a, b, d>>
    <3>1. item.of = "appender" \/ item.of = "layout"
      BY <1>1, <1>8 DEF Line
    <3>2. CASE item.of = "appender"
      BY <1>8, <3>2 DEF LineCalls
    <3>3. CASE item.of = "layout"
      BY <1>8, <3>3 DEF LineCalls
    <3> QED
      BY <3>1, <3>2, <3>3
  <2> HIDE DEF a, b, d, c
  <2>3. /\ item.of = "appender" => Len(c) = 2 /\ DOMAIN c = {1, 2} /\ c[1] = a /\ c[2] = d
        /\ item.of # "appender" => Len(c) = 3 /\ DOMAIN c = {1, 2, 3} /\ c[1] = a /\ c[2] = b /\ c[3] = d
    BY <2>2
  <2>4. \A n : ~WantsRef(t, source, i, n)
    BY <1>3, <1>8
  <2>5. \A op : Wants(t, i, op) <=> op = "layout" /\ item.of # "appender"
    BY <1>3, <1>8
  <2>6. AsksFor(t, source, i, a) /\ AsksFor(t, source, i, d) /\ (item.of # "appender" => AsksFor(t, source, i, b))
    BY <1>8, <2>1, <2>5 DEF AsksFor, EndTag
  <2>7. \A x \in DOMAIN c : x \in {1, 2, 3} /\ AsksFor(t, source, i, c[x])
    BY <2>3, <2>6
  <2>8. DOMAIN c = 1..Len(c) /\ Len(c) \in {2, 3}
    BY <2>3
  <2>9. Ordered(c)
    <3>1. \A x \in DOMAIN c : c[x].op \in {"level", "additivity", "layout"} => x = 2
      BY <2>1, <2>3
    <3>2. \A x \in DOMAIN c : c[x].op \notin {"logger", "end"}
      BY <2>1, <2>3
    <3>3. /\ \A x \in 2..Len(c) : x \in DOMAIN c
          /\ \A x \in 1..(Len(c) - 1) : x \in DOMAIN c
      BY <2>8
    <3>4. \A x \in 2..Len(c) : c[x].op # "logger"
      BY <3>2, <3>3
    <3>5. \A x \in 1..(Len(c) - 1) : c[x].op # "end"
      BY <3>2, <3>3
    <3> QED
      BY <3>1, <3>4, <3>5 DEF Ordered
  <2>10. RestOf(t, source, i, c)
    BY <2>7, <2>9 DEF RestOf, Ordered
  <2>11. AllOf(t, source, i, c)
    BY <2>1, <2>3, <2>4, <2>5 DEF AllOf
  <2> QED
    BY <2>10, <2>11 DEF c
<1>9. CASE item.kind = "ignored"
  <2>1. c = << >>
    BY <1>9 DEF LineCalls
  <2> HIDE DEF c
  <2>2. Len(c) = 0 /\ DOMAIN c = {}
    BY <2>1
  <2>3. (\A op : ~Wants(t, i, op)) /\ \A n : ~WantsRef(t, source, i, n)
    BY <1>3, <1>9
  <2>4. /\ \A x \in 2..Len(c) : FALSE
        /\ \A x \in 1..(Len(c) - 1) : FALSE
    BY <2>2
  <2>5. RestOf(t, source, i, c)
    BY <2>1, <2>2, <2>4 DEF RestOf
  <2>6. AllOf(t, source, i, c)
    BY <2>3 DEF AllOf
  <2> QED
    BY <2>5, <2>6 DEF c
<1> QED
  BY <1>2, <1>5, <1>6, <1>7, <1>8, <1>9

-----------------------------------------------------------------------------
(* The history of calls *)

\* What the last call was is known when there was one.
LEMMA LastCallType ==
  ASSUME HistoryInv, done # << >>
  PROVE  /\ Len(done) \in Nat \ {0} /\ DOMAIN done = 1..Len(done)
         /\ LastText \in Texts /\ LastSource \in {"string", "file"}
         /\ LastCall.failed \in BOOLEAN
<1> DEFINE F == {done[i].found : i \in DOMAIN done}
<1>1. done \in Seq(History(F))
  BY DEF HistoryInv, Remembered
<1> HIDE DEF F
<1>2. Len(done) \in Nat \ {0} /\ DOMAIN done = 1..Len(done) /\ LastCall \in History(F)
  BY <1>1 DEF LastCall
<1> QED
  BY <1>2 DEF History, LastText, LastSource

\* A history is one of the calls whose findings it has.
LEMMA HistoryIs ==
  ASSUME NEW F, NEW d \in Seq(History(F))
  PROVE  Remembered(d)
<1> DEFINE G == {d[i].found : i \in DOMAIN d}
<1>1. \A i \in DOMAIN d : d[i] \in History(F) /\ d[i].found \in G
  OBVIOUS
<1> HIDE DEF G
<1>2. \A i \in DOMAIN d : d[i] \in History(G)
  BY <1>1 DEF History
<1>3. Len(d) \in Nat /\ d = [i \in 1..Len(d) |-> d[i]] /\ DOMAIN d = 1..Len(d)
  OBVIOUS
<1>4. d \in Seq(History(G))
  BY <1>2, <1>3
<1> QED
  BY <1>4 DEF G, Remembered

\* A call joins the history.
LEMMA HistoryGrows ==
  ASSUME HistoryInv, NEW t \in Texts, NEW source \in {"string", "file"}, NEW found,
         done' = Append(done, [text |-> t, source |-> source, found |-> found, failed |-> FALSE])
  PROVE  /\ HistoryInv' /\ Len(done') = Len(done) + 1 /\ Len(done) \in Nat
         /\ \A i \in 1..Len(done) : done'[i] = done[i]
         /\ done' # << >>
         /\ LastText' = t /\ LastSource' = source /\ LastCall.found' = found /\ ~LastCall.failed'
         /\ done = << >> <=> Len(done) = 0
<1> DEFINE c == [text |-> t, source |-> source, found |-> found, failed |-> FALSE]
           F == {done[i].found : i \in DOMAIN done} \union {found}
<1>1. \A d : d \in History({done[i].found : i \in DOMAIN done}) => d \in History(F)
  BY DEF History
<1>2. done \in Seq(History({done[i].found : i \in DOMAIN done}))
  BY DEF HistoryInv, Remembered
<1>3. done \in Seq(History(F))
  BY <1>1, <1>2
<1>4. c \in History(F) /\ c.text = t /\ c.source = source /\ c.found = found /\ c.failed = FALSE
  BY DEF History
<1>5. done' = Append(done, c)
  OBVIOUS
<1> HIDE DEF F, c
<1>6. /\ done' \in Seq(History(F)) /\ Len(done') = Len(done) + 1 /\ Len(done) \in Nat
      /\ \A i \in 1..Len(done) : done'[i] = done[i]
      /\ done'[Len(done) + 1] = c
      /\ done = << >> <=> Len(done) = 0
  BY <1>3, <1>4, <1>5
<1>7. HistoryInv'
  BY <1>6, HistoryIs DEF HistoryInv
<1>8. done' # << >>
  BY <1>6
<1>9. LastCall' = c
  BY <1>6 DEF LastCall
<1> QED
  BY <1>4, <1>6, <1>7, <1>8, <1>9 DEF LastText, LastSource

\* The last call has failed.
LEMMA HistoryFails ==
  ASSUME HistoryInv, done # << >>, done' = [done EXCEPT ![Len(done)].failed = TRUE]
  PROVE  /\ HistoryInv' /\ Len(done') = Len(done) /\ done' # << >>
         /\ LastText' = LastText /\ LastSource' = LastSource /\ LastCall.found' = LastCall.found
         /\ LastCall.failed'
<1> DEFINE F == {done[i].found : i \in DOMAIN done}
           c == [LastCall EXCEPT !.failed = TRUE]
<1>1. done \in Seq(History(F))
  BY DEF HistoryInv, Remembered
<1> HIDE DEF F
<1>2. Len(done) \in Nat \ {0} /\ DOMAIN done = 1..Len(done) /\ LastCall \in History(F)
  BY <1>1 DEF LastCall
<1>3. c \in History(F) /\ c.failed = TRUE /\ c.text = LastCall.text /\ c.source = LastCall.source
      /\ c.found = LastCall.found
  BY <1>2 DEF History
<1>4. done' = [done EXCEPT ![Len(done)] = c]
  BY DEF LastCall
<1> HIDE DEF c
<1>5. done' \in Seq(History(F)) /\ Len(done') = Len(done) /\ done'[Len(done)] = c
  <2>1. Len(done) \in 1..Len(done)
    BY <1>2
  <2> DEFINE n == Len(done)
  <2>2. n \in 1..Len(done) /\ done' = [done EXCEPT ![n] = c]
    BY <1>4, <2>1
  <2> HIDE DEF n
  <2> DEFINE new == [done EXCEPT ![n] = c]
  <2>3. new \in Seq(History(F)) /\ Len(new) = Len(done) /\ new[n] = c
    <3>1. n \in 1..Len(done) /\ c \in History(F) /\ done \in Seq(History(F))
      BY <1>1, <1>3, <2>2
    <3> QED
      BY ONLY <3>1, ExceptSeq
  <2>4. done' = new
    BY <2>2
  <2> HIDE DEF new
  <2> QED
    BY <2>3, <2>4 DEF n
<1>6. HistoryInv'
  BY <1>5, HistoryIs DEF HistoryInv
<1>7. LastCall' = c
  BY <1>5 DEF LastCall
<1>8. done' # << >>
  BY <1>2, <1>5
<1> QED
  BY <1>3, <1>5, <1>6, <1>7, <1>8 DEF LastText, LastSource

-----------------------------------------------------------------------------
(* The calls that are left *)

\* What is left of the calls of an item when the first is made.
LEMMA TailRest ==
  ASSUME NEW t, NEW source, NEW i, NEW todo \in Seq(ApiCall), todo # << >>,
         RestOf(t, source, i, todo)
  PROVE  /\ RestOf(t, source, i, Tail(todo)) /\ AsksFor(t, source, i, todo[1])
         /\ todo[1].op = "end" => Tail(todo) = << >>
         /\ (IsTag(t) /\ Ended(Item(t, i)) /\ todo[1].op # "end") => Tail(todo) # << >>
         /\ todo[1].op \in {"logger", "level", "additivity", "layout"} =>
              \A x \in DOMAIN Tail(todo) : Tail(todo)[x].op # todo[1].op
<1> DEFINE rest == Tail(todo)
<1>1. /\ rest \in Seq(ApiCall) /\ Len(rest) = Len(todo) - 1 /\ Len(todo) \in Nat \ {0}
      /\ DOMAIN rest = 1..(Len(todo) - 1) /\ DOMAIN todo = 1..Len(todo)
      /\ \A x \in 1..(Len(todo) - 1) : rest[x] = todo[x + 1]
  OBVIOUS
<1>2. \A x \in 1..(Len(todo) - 1) : x + 1 \in 1..Len(todo) /\ x + 1 \in 2..Len(todo)
  BY <1>1
<1>e. rest = << >> <=> Len(todo) = 1
  BY <1>1
<1> HIDE DEF rest
<1>3. \A x \in DOMAIN rest : AsksFor(t, source, i, rest[x])
  BY <1>1, <1>2 DEF RestOf
<1>4. \A x \in DOMAIN rest : rest[x].op # "logger"
  BY <1>1, <1>2 DEF RestOf
<1>5. \A x \in 2..Len(rest) : rest[x].op # "logger"
  BY <1>1, <1>4
<1>6. ASSUME NEW x \in DOMAIN rest, NEW y \in DOMAIN rest,
             rest[x].op \in {"level", "additivity", "layout"}, rest[y].op = rest[x].op
      PROVE  x = y
  <2>1. x + 1 = y + 1
    BY <1>1, <1>2, <1>6, SMTT(30) DEF RestOf
  <2> QED
    BY <1>1, <2>1
<1>7. \A x \in 1..(Len(rest) - 1) : rest[x].op # "end"
  <2> TAKE x \in 1..(Len(rest) - 1)
  <2>1. x \in 1..(Len(todo) - 1) /\ x + 1 \in 1..(Len(todo) - 1)
    BY <1>1
  <2> QED
    BY <1>1, <2>1 DEF RestOf
<1>8. (IsTag(t) /\ Ended(Item(t, i)) /\ rest # << >>) => rest[Len(rest)].op = "end"
  <2>1. rest # << >> => Len(rest) \in 1..(Len(todo) - 1) /\ Len(rest) + 1 = Len(todo)
    BY <1>1, <1>e
  <2> QED
    BY <1>1, <2>1 DEF RestOf
<1>9. RestOf(t, source, i, rest)
  BY <1>3, <1>5, <1>6, <1>7, <1>8 DEF RestOf
<1>10. AsksFor(t, source, i, todo[1]) /\ 1 \in DOMAIN todo
  <2>1. 1 \in DOMAIN todo
    BY <1>1
  <2> QED
    BY <2>1 DEF RestOf
<1>11. todo[1].op = "end" => rest = << >>
  <2>1. rest # << >> => 1 \in 1..(Len(todo) - 1)
    BY <1>1, <1>e
  <2> QED
    BY <2>1 DEF RestOf
<1>12. (IsTag(t) /\ Ended(Item(t, i)) /\ todo[1].op # "end") => rest # << >>
  BY <1>e DEF RestOf
<1>13. ASSUME todo[1].op \in {"logger", "level", "additivity", "layout"}, NEW x \in DOMAIN rest
       PROVE  rest[x].op # todo[1].op
  <2>1. rest[x] = todo[x + 1] /\ x + 1 \in DOMAIN todo /\ x + 1 # 1
    BY <1>1, <1>2
  <2>2. todo[1].op # "logger" => rest[x].op # todo[1].op
    BY <1>10, <1>13, <2>1 DEF RestOf
  <2> QED
    BY <1>4, <2>2
<1> QED
  BY <1>9, <1>10, <1>11, <1>12, <1>13 DEF rest

\* Before a text is read nothing is left.
LEMMA NothingLeft ==
  ASSUME NEW t, NEW source, NEW i
  PROVE  RestOf(t, source, i, << >>)
<1> DEFINE todo == << >>
<1>1. Len(todo) = 0 /\ DOMAIN todo = {} /\ todo = << >>
  OBVIOUS
<1> HIDE DEF todo
<1>2. \A x \in 2..Len(todo) : FALSE
  BY <1>1
<1>3. \A x \in 1..(Len(todo) - 1) : FALSE
  BY <1>1
<1>4. RestOf(t, source, i, todo)
  BY <1>1, <1>2, <1>3 DEF RestOf
<1> QED
  BY <1>1, <1>4

-----------------------------------------------------------------------------
(* Orderly texts *)

\* What is read of an orderly text is in it, in the same order.
LEMMA SeenInOrder ==
  ASSUME NEW t \in Texts, Orderly(t)
  PROVE  InOrder(t.items, Seen(t), Len(t.items)) /\ Len(t.items) \in Nat /\ Items(t) = 1..Len(t.items)
<1>1. CASE t.form = "property" /\ t.items \in Seq(Line)
  <2>1. Seen(t) = t.items
    BY <1>1 DEF Seen
  <2>2. Len(t.items) \in Nat /\ DOMAIN t.items = 1..Len(t.items)
    BY <1>1
  <2>3. Reads(t.items, t.items, Len(t.items), [x \in DOMAIN t.items |-> x])
    BY <2>2 DEF Reads
  <2> QED
    BY <2>1, <2>2, <2>3 DEF InOrder, Items
<1>2. CASE t.form = "xml" /\ t.items \in Seq(Tag \union Comment)
  <2>1. Len(t.items) \in Nat /\ DOMAIN t.items = 1..Len(t.items)
    BY <1>2
  <2>2. \A i \in DOMAIN t.items : t.items[i].kind = "comment" => Len(t.items[i].inside) <= 1
    BY <1>2 DEF Orderly, Items, Is
  <2>3. InOrder(t.items, Visible(t.items), Len(t.items))
    BY <1>2, <2>2, VisibleInOrder
  <2> QED
    BY <1>2, <2>1, <2>3 DEF Seen, Items
<1> QED
  BY <1>1, <1>2, TextsAssumption

\* A set with one element at most has no two.
LEMMA OneAtMost ==
  ASSUME NEW S, IsFiniteSet(S), Cardinality(S) <= 1, NEW x \in S, NEW y \in S
  PROVE  x = y
<1> SUFFICES ASSUME x # y PROVE FALSE
  OBVIOUS
<1>1. IsFiniteSet({x, y}) /\ Cardinality({x, y}) = 2
  <2>1. IsFiniteSet({x}) /\ Cardinality({x}) = 1 /\ y \notin {x}
    BY FS_Singleton
  <2>2. IsFiniteSet({x} \union {y}) /\ Cardinality({x} \union {y}) = 1 + 1
    BY <2>1, FS_AddElement
  <2>3. {x, y} = {x} \union {y}
    OBVIOUS
  <2> QED
    BY <2>2, <2>3
<1>2. Cardinality({x, y}) <= Cardinality(S) /\ Cardinality(S) \in Nat
  BY <1>1, FS_Subset, FS_CardinalityType, {x, y} \subseteq S
<1> QED
  BY <1>1, <1>2

\* In an orderly text an appender has one class, and references stand behind
\* all appenders.
LEMMA OrderlySeen ==
  ASSUME NEW t \in Texts, Orderly(t), NEW i \in 1..Len(Seen(t)), NEW j \in 1..Len(Seen(t))
  PROVE  /\ \A n \in AppenderNames, k \in Kinds, m \in Kinds :
              (Defines(t, i, n, k) /\ Defines(t, j, n, m)) => k = m
         /\ (IsTag(t) /\ Item(t, i).kind = "ref" /\ Item(t, j).kind = "appender" /\ ~EndTag(t, j)) => j < i
<1>0. /\ InOrder(t.items, Seen(t), Len(t.items)) /\ Len(t.items) \in Nat /\ Items(t) = 1..Len(t.items)
      /\ DOMAIN Seen(t) = 1..Len(Seen(t)) /\ Len(Seen(t)) \in Nat
  BY SeenInOrder, ItemType
<1>1. ASSUME NEW n \in AppenderNames, NEW k \in Kinds, NEW h \in 1..Len(Seen(t)), Defines(t, h, n, k)
      PROVE  k \in ClassesOf(t, n)
  <2>1. PICK x \in 1..Len(t.items) : t.items[x] = Seen(t)[h]
    BY <1>0 DEF InOrder, Reads
  <2>2. Is(t, x, "appender") /\ ~Ends(t, x) /\ t.items[x].name = n /\ t.items[x].class = k
    BY <1>1, <2>1 DEF Defines, Is, Ends, EndTag, Item, IsTag
  <2> QED
    BY <1>0, <2>2 DEF ClassesOf
<1>2. ASSUME NEW n \in AppenderNames, NEW k \in Kinds, NEW m \in Kinds,
             Defines(t, i, n, k), Defines(t, j, n, m)
      PROVE  k = m
  <2>1. k \in ClassesOf(t, n) /\ m \in ClassesOf(t, n)
    BY <1>1, <1>2
  <2>2. IsFiniteSet(ClassesOf(t, n))
    <3> DEFINE S == {x \in Items(t) : Is(t, x, "appender") /\ ~Ends(t, x) /\ t.items[x].name = n}
    <3>1. IsFiniteSet(S)
      BY <1>0, FS_Interval, FS_Subset, S \subseteq 1..Len(t.items), 1 \in Int, Len(t.items) \in Int
    <3>2. ClassesOf(t, n) = {t.items[x].class : x \in S}
      BY DEF ClassesOf
    <3> HIDE DEF S
    <3> DEFINE f == [x \in S |-> t.items[x].class]
               T == ClassesOf(t, n)
    <3>3. f \in Surjection(S, T)
      BY <3>2 DEF Surjection
    <3> HIDE DEF f, T
    <3>4. IsFiniteSet(T)
      BY <3>1, <3>3, FS_Surjection
    <3> QED
      BY <3>4 DEF T
  <2>3. Cardinality(ClassesOf(t, n)) <= 1
    BY DEF Orderly
  <2> QED
    BY <2>1, <2>2, <2>3, OneAtMost
<1>3. ASSUME IsTag(t), Item(t, i).kind = "ref", Item(t, j).kind = "appender", ~EndTag(t, j)
      PROVE  j < i
  <2>1. i # j
    BY <1>3
  <2>2. ASSUME i < j PROVE FALSE
    <3>1. PICK x \in 1..Len(t.items), y \in 1..Len(t.items) :
            x < y /\ t.items[x] = Seen(t)[i] /\ t.items[y] = Seen(t)[j]
      BY <1>0, <2>2 DEF InOrder, Reads
    <3>2. Is(t, x, "ref") /\ Is(t, y, "appender") /\ ~Ends(t, y) /\ y \in (x + 1)..Len(t.items)
      BY <1>0, <1>3, <3>1 DEF Is, Ends, EndTag, Item, IsTag
    <3>3. t.form = "xml"
      BY <1>3 DEF IsTag
    <3> QED
      BY <1>0, <3>2, <3>3 DEF Orderly
  <2> QED
    BY <1>0, <2>1, <2>2
<1> QED
  BY <1>2, <1>3

\* What an item says it wants to call.
LEMMA SaysWants ==
  ASSUME NEW t \in Texts, NEW i \in 1..Len(Seen(t)), NEW n, NEW source
  PROVE  /\ Names(t, i, n) => Wants(t, i, "logger") /\ Item(t, i).name = n
         /\ \A k : Defines(t, i, n, k) => Wants(t, i, "appender")
         /\ \A v : SetsLevel(t, i, n, v) => Wants(t, i, "level")
         /\ \A v : SetsAdditivity(t, i, n, v) => Wants(t, i, "additivity") /\ Wants(t, i, "logger")
         /\ \A r : Attaches(t, source, i, n, r) => WantsRef(t, source, i, r)
<1>1. /\ IsTag(t) => Item(t, i).kind # "additivity"
      /\ ~EndTag(t, i) \/ IsTag(t)
  BY ItemType DEF EndTag, Tag
<1>2. Names(t, i, n) => Wants(t, i, "logger") /\ Item(t, i).name = n
  BY <1>1 DEF Names, Wants
<1>3. \A k : Defines(t, i, n, k) => Wants(t, i, "appender")
  BY DEF Defines, Wants
<1>4. \A v : SetsLevel(t, i, n, v) => Wants(t, i, "level")
  BY DEF SetsLevel, Wants
<1>5. \A v : SetsAdditivity(t, i, n, v) => Wants(t, i, "additivity") /\ Wants(t, i, "logger")
  BY DEF SetsAdditivity, Wants
<1>6. \A r : Attaches(t, source, i, n, r) => WantsRef(t, source, i, r)
  BY DEF Attaches, WantsRef
<1> QED
  BY <1>2, <1>3, <1>4, <1>5, <1>6

-----------------------------------------------------------------------------
(* How far a call of a configurator has come *)

\* Where the call under way stands.
LEMMA AtWork ==
  ASSUME CallsInv, HistoryInv, ShapeInv, job # Idle
  PROVE  /\ job \in JobType /\ job.text = LastText /\ job.source = LastSource
         /\ done # << >> /\ ~LastCall.failed
         /\ LastText \in Texts /\ LastSource \in {"string", "file"}
         /\ Len(Seen(LastText)) \in Nat /\ Positions = 1..Len(Seen(LastText))
         /\ job.at \in Nat /\ job.at <= Len(Seen(LastText)) /\ job.pass \in {1, 2}
         /\ job.todo \in Seq(ApiCall)
         /\ IsTag(LastText) <=> job.text.form = "xml"
<1>1. job \in JobType
  BY DEF CallsInv
<1>2. /\ done # << >> /\ job.text = LastText /\ job.source = LastSource /\ ~LastCall.failed
      /\ job.at <= Len(Seen(LastText)) /\ job.pass \in {1, 2}
  BY DEF ShapeInv
<1>3. LastText \in Texts /\ LastSource \in {"string", "file"}
  BY <1>2, LastCallType
<1>4. Len(Seen(LastText)) \in Nat /\ DOMAIN Seen(LastText) = 1..Len(Seen(LastText))
  <2>1. Seen(LastText) \in Seq(IF LastText.form = "xml" THEN Tag ELSE Line)
    BY <1>3, SeenItems
  <2> DEFINE S == IF LastText.form = "xml" THEN Tag ELSE Line
  <2> HIDE DEF S
  <2>2. Seen(LastText) \in Seq(S)
    BY <2>1 DEF S
  <2> QED
    BY <2>2
<1> QED
  BY <1>1, <1>2, <1>3, <1>4 DEF Positions, IsTag, JobType

\* What the last call was, and what that means, as long as no other begins.
LEMMA SameCall ==
  ASSUME done' = done
  PROVE  /\ LastText' = LastText /\ LastSource' = LastSource /\ LastCall' = LastCall
         /\ Positions' = Positions /\ Live' = Live /\ Repetition' = Repetition
         /\ HistoryInv' = HistoryInv
<1>1. LastCall' = LastCall
  BY DEF LastCall
<1>2. LastText' = LastText /\ LastSource' = LastSource
  BY <1>1 DEF LastText, LastSource
<1> QED
  BY <1>1, <1>2 DEF Positions, Live, Repetition, HistoryInv

\* A call of the API is one of the item that was read.
LEMMA CallTaken ==
  ASSUME CallsInv, HistoryInv, ShapeInv, NEW op, Takes(op), op # "register"
  PROVE  /\ job # Idle /\ job.begun /\ job.at \in Positions /\ job.at > 0
         /\ job.todo \in Seq(ApiCall) /\ job.todo # << >> /\ job.todo[1].op = op
         /\ RestOf(LastText, LastSource, job.at, job.todo)
         /\ RestOf(LastText, LastSource, job.at, job'.todo)
         /\ AsksFor(LastText, LastSource, job.at, job.todo[1])
<1>1. job.todo # << >> /\ job.todo[1].op = op /\ job'.todo = Tail(job.todo)
  BY TakesProper
<1>2. job # Idle
  BY <1>1 DEF Idle
<1>3. job.todo \in Seq(ApiCall) /\ 1 \in DOMAIN job.todo
  BY <1>1, <1>2, AtWork
<1>4. job.begun
  BY <1>1, <1>2, <1>3 DEF ShapeInv
<1>5. job.at # 0 /\ RestOf(LastText, LastSource, job.at, job.todo)
  BY <1>1, <1>2, <1>4 DEF ShapeInv
<1>6. job.at \in Positions /\ job.at > 0
  BY <1>2, <1>5, AtWork
<1> QED
  BY <1>1, <1>2, <1>3, <1>4, <1>5, <1>6, TailRest

\* The steps of a configurator that call nothing of the API, or what changes
\* no logger and no appender.
Quiet ==
  \/ Close \/ ReadItem \/ SecondPass \/ Finish
  \/ CallFind \/ CallLayout \/ CallParam \/ CallEnd \/ Register

\* At the start nothing has been called.
LEMMA InitShape == ConfiguratorInit => HistoryInv /\ ShapeInv
<1> SUFFICES ASSUME ConfiguratorInit PROVE HistoryInv /\ ShapeInv
  OBVIOUS
<1>1. job = Idle /\ done = << >>
  BY DEF ConfiguratorInit
<1>2. done \in Seq(History({}))
  BY <1>1
<1> QED
  BY <1>1, <1>2, HistoryIs DEF HistoryInv, ShapeInv

\* A call begins.
LEMMA BeginShape ==
  ASSUME HistoryInv, NEW t \in Texts, NEW source \in {"string", "file"}, Begin(t, source)
  PROVE  HistoryInv' /\ ShapeInv'
<1> DEFINE todo == [i \in DOMAIN ClassesPassed |-> Name("register", ClassesPassed[i])]
<1>1. job' = [text |-> t, source |-> source, pass |-> 1, at |-> 0, begun |-> FALSE, todo |-> todo]
  BY DEF Begin
<1>2. /\ HistoryInv' /\ done' # << >>
      /\ LastText' = t /\ LastSource' = source /\ ~LastCall.failed'
  BY HistoryGrows DEF Begin
<1>3. \A x \in DOMAIN todo : todo[x].op = "register" /\ todo[x].name \in Elements(ClassesPassed)
  BY DEF Name, Elements
<1> HIDE DEF todo
<1>4. /\ job'.text = t /\ job'.source = source /\ job'.pass = 1 /\ job'.at = 0 /\ job'.begun = FALSE
      /\ job'.todo = todo
  BY <1>1
<1>5. Len(Seen(t)) \in Nat
  BY SeenItems
<1> QED
  BY <1>2, <1>3, <1>4, <1>5 DEF ShapeInv

\* The calls that are left are of the item that was read.
LEMMA NextShape ==
  ASSUME IInv, CallsInv, CallsInv', HistoryInv, ShapeInv, [ConfiguratorNext]_all
  PROVE  HistoryInv' /\ ShapeInv'
<1>1. CASE UNCHANGED all
  BY <1>1, SameCall DEF all, configuring, ShapeInv
<1>2. CASE \E t \in Texts, source \in {"string", "file"} : Begin(t, source)
  BY <1>2, BeginShape
<1>3. CASE Unreadable
  <2>1. job' = Idle /\ done' = [done EXCEPT ![Len(done)].failed = TRUE] /\ job # Idle
    BY <1>3 DEF Unreadable, Ready
  <2>2. done # << >>
    BY <2>1 DEF ShapeInv
  <2> QED
    BY <2>1, <2>2, HistoryFails DEF ShapeInv
<1>4. CASE Finish
  <2>1. job' = Idle /\ done' = done
    BY <1>4 DEF Finish
  <2> QED
    BY <2>1, SameCall DEF ShapeInv
<1>a. ASSUME done' = done, job # Idle, NEW at, NEW todo, NEW pass,
             job'.text = job.text /\ job'.source = job.source /\ job'.pass = pass /\ job'.at = at
               /\ job'.todo = todo,
             at <= Len(Seen(LastText)), pass \in {1, 2}, pass = 2 => ~IsTag(LastText),
             ~job'.begun => /\ at = 0 /\ pass = 1
                            /\ \A x \in DOMAIN todo :
                                 todo[x].op = "register" /\ todo[x].name \in Elements(ClassesPassed),
             job'.begun => IF at = 0 THEN todo = << >> ELSE RestOf(LastText, LastSource, at, todo)
      PROVE  HistoryInv' /\ ShapeInv'
  <2>1. HistoryInv' /\ LastText' = LastText /\ LastSource' = LastSource /\ LastCall' = LastCall
    BY <1>a, SameCall
  <2> QED
    BY <1>a, <2>1, AtWork DEF ShapeInv
<1>5. CASE Close
  <2>1. job # Idle /\ job.todo = << >> /\ ~job.begun /\ job' = [job EXCEPT !.begun = TRUE] /\ done' = done
    BY <1>5 DEF Close, Ready
  <2>2. job \in JobType
    BY <2>1, AtWork
  <2>3. /\ job'.text = job.text /\ job'.source = job.source /\ job'.pass = job.pass /\ job'.at = job.at
        /\ job'.todo = job.todo /\ job'.begun
    BY <2>1, <2>2 DEF JobType
  <2>4. job.at = 0 /\ job.pass = 1 /\ job.at <= Len(Seen(LastText))
    BY <2>1 DEF ShapeInv
  <2> QED
    BY <1>a, <2>1, <2>3, <2>4
<1>6. CASE SecondPass
  <2>1. /\ job # Idle /\ job.todo = << >> /\ job.begun /\ job' = [job EXCEPT !.pass = @ + 1, !.at = 0]
        /\ done' = done /\ job.pass < Passes(job.text)
    BY <1>6 DEF SecondPass, Ready
  <2>2. job \in JobType /\ job.text = LastText /\ job.pass \in {1, 2} /\ Len(Seen(LastText)) \in Nat
    BY <2>1, AtWork
  <2>3. /\ job'.text = job.text /\ job'.source = job.source /\ job'.pass = job.pass + 1 /\ job'.at = 0
        /\ job'.todo = job.todo /\ job'.begun
    BY <2>1, <2>2 DEF JobType
  <2>4. job.pass + 1 = 2 /\ ~IsTag(LastText)
    BY <2>1, <2>2 DEF Passes, IsTag
  <2>5. 0 <= Len(Seen(LastText))
    BY <2>2
  <2> QED
    BY <1>a, <2>1, <2>3, <2>4, <2>5
<1>7. CASE ReadItem
  <2> DEFINE item == Seen(job.text)[job.at + 1]
             todo == IF job.text.form = "xml" THEN TagCalls(item) ELSE LineCalls(item)
  <2>1. /\ job # Idle /\ job.todo = << >> /\ job.begun /\ job.at < Len(Seen(job.text))
        /\ job' = [job EXCEPT !.at = @ + 1, !.todo = todo] /\ done' = done
    BY <1>7 DEF ReadItem, Ready
  <2>2. /\ job \in JobType /\ job.text = LastText /\ job.source = LastSource /\ LastText \in Texts
        /\ Len(Seen(LastText)) \in Nat /\ job.at \in Nat /\ (IsTag(LastText) <=> job.text.form = "xml")
    BY <2>1, AtWork
  <2>3. item = Item(LastText, job.at + 1) /\ job.at + 1 \in 1..Len(Seen(LastText))
    BY <2>1, <2>2 DEF Item
  <2>4. RestOf(LastText, LastSource, job.at + 1, todo)
    BY <2>2, <2>3, TagCallsOfItem, LineCallsOfItem
  <2> HIDE DEF todo
  <2>5. /\ job'.text = job.text /\ job'.source = job.source /\ job'.pass = job.pass /\ job'.at = job.at + 1
        /\ job'.todo = todo /\ job'.begun
    BY <2>1, <2>2 DEF JobType
  <2>6. job.pass \in {1, 2} /\ (job.pass = 2 => ~IsTag(LastText))
    BY <2>1 DEF ShapeInv
  <2>7. job.at + 1 <= Len(Seen(LastText)) /\ job.at + 1 # 0
    BY <2>2, <2>3
  <2> QED
    BY <1>a, <2>1, <2>4, <2>5, <2>6, <2>7
<1>8. ASSUME NEW op, Takes(op)
      PROVE  HistoryInv' /\ ShapeInv'
  <2>1. job # Idle /\ done' = done
    BY <1>8 DEF Takes, Idle
  <2>2. /\ job'.text = job.text /\ job'.source = job.source /\ job'.pass = job.pass /\ job'.at = job.at
        /\ job'.todo = Tail(job.todo) /\ job'.begun = job.begun /\ job.todo # << >> /\ job.todo[1].op = op
    BY <1>8, TakesProper
  <2>3. /\ job.at <= Len(Seen(LastText)) /\ job.pass \in {1, 2} /\ (job.pass = 2 => ~IsTag(LastText))
        /\ (~job.begun => job.at = 0 /\ job.pass = 1)
    BY <2>1 DEF ShapeInv
  <2>4. CASE op = "register"
    <3>1. ~job.begun
      <4>1. SUFFICES ASSUME job.begun PROVE FALSE
        OBVIOUS
      <4>2. job.at # 0 /\ RestOf(LastText, LastSource, job.at, job.todo)
        BY <2>1, <2>2, <4>1 DEF ShapeInv
      <4>3. job.todo \in Seq(ApiCall) /\ 1 \in DOMAIN job.todo
        BY <2>1, <2>2, AtWork
      <4>4. job.todo[1].op # "register"
        BY <4>2, <4>3 DEF RestOf, AsksFor
      <4> QED
        BY <2>2, <2>4, <4>4
    <3>2. \A x \in DOMAIN Tail(job.todo) :
            Tail(job.todo)[x].op = "register" /\ Tail(job.todo)[x].name \in Elements(ClassesPassed)
      <4>1. \A x \in DOMAIN job.todo :
              job.todo[x].op = "register" /\ job.todo[x].name \in Elements(ClassesPassed)
        BY <2>1, <3>1 DEF ShapeInv
      <4>2. job.todo \in Seq(ApiCall)
        BY <2>1, AtWork
      <4>3. \A x \in DOMAIN Tail(job.todo) : x + 1 \in DOMAIN job.todo /\ Tail(job.todo)[x] = job.todo[x + 1]
        BY <2>2, <4>2
      <4> QED
        BY <4>1, <4>3
    <3> QED
      BY <1>a, <2>1, <2>2, <2>3, <3>1, <3>2
  <2>5. CASE op # "register"
    <3>1. job.begun /\ job.at > 0 /\ job.at \in Nat /\ RestOf(LastText, LastSource, job.at, job'.todo)
      BY <1>8, <2>1, <2>5, CallTaken, AtWork
    <3>2. job.at # 0
      BY <3>1
    <3> QED
      BY <1>a, <2>1, <2>2, <2>3, <3>1, <3>2
  <2> QED
    BY <2>4, <2>5
<1>9. CASE CallFind
  <2>1. CASE job'.todo = << >>
    <3>1. /\ job # Idle /\ done' = done
          /\ job' = [job EXCEPT !.todo = IF FindAppender(Head(job.todo).name) = 0 THEN << >>
                                         ELSE Tail(job.todo)]
          /\ job.todo # << >> /\ Head(job.todo).op = "find"
      BY <1>9 DEF CallFind, Idle
    <3>2. job \in JobType /\ job.todo \in Seq(ApiCall)
      BY <3>1, AtWork
    <3>3. /\ job'.text = job.text /\ job'.source = job.source /\ job'.pass = job.pass /\ job'.at = job.at
          /\ job'.begun = job.begun
      BY <3>1, <3>2 DEF JobType
    <3>4. /\ job.at <= Len(Seen(LastText)) /\ job.pass \in {1, 2} /\ (job.pass = 2 => ~IsTag(LastText))
          /\ (~job.begun => job.at = 0 /\ job.pass = 1)
      BY <3>1 DEF ShapeInv
    <3>5. \A x \in DOMAIN << >> : FALSE
      OBVIOUS
    <3> QED
      BY <1>a, <2>1, <3>1, <3>3, <3>4, <3>5, NothingLeft
  <2>2. CASE job'.todo # << >>
    <3>1. Takes("find")
      <4>1. job \in JobType /\ job # Idle
        BY <1>9 DEF CallFind, Idle, CallsInv
      <4>2. FindAppender(Head(job.todo).name) # 0
        BY <1>9, <2>2, <4>1 DEF CallFind, JobType
      <4> QED
        BY <1>9, <4>2 DEF CallFind, Takes
    <3> QED
      BY <1>8, <3>1
  <2> QED
    BY <2>1, <2>2
<1>10. CASE Register \/ CallLogger \/ CallLevel \/ CallAdditivity \/ CallRef \/ CallAppender
              \/ CallLayout \/ CallParam \/ CallEnd
  <2>1. \E op : Takes(op)
    <3>1. Takes("register") \/ Takes("logger") \/ Takes("level") \/ Takes("additivity") \/ Takes("ref")
            \/ Takes("appender") \/ Takes("layout") \/ Takes("param") \/ Takes("end")
      BY <1>10 DEF Register, CallLogger, CallLevel, CallAdditivity, CallRef, CallAppender, CallLayout,
                   CallParam, CallEnd
    <3> QED
      BY <3>1
  <2> QED
    BY <1>8, <2>1
<1> QED
  BY <1>1, <1>2, <1>3, <1>4, <1>5, <1>6, <1>7, <1>9, <1>10 DEF ConfiguratorNext

-----------------------------------------------------------------------------
(* Which calls have been made *)

\* The calls of the API that configure something.
Settings == {"logger", "appender", "level", "additivity"}

\* What is left of calls when the first is made.
LEMMA TailHas ==
  ASSUME NEW todo \in Seq(ApiCall), todo # << >>
  PROVE  /\ \A x \in DOMAIN Tail(todo) : x + 1 \in DOMAIN todo /\ Tail(todo)[x] = todo[x + 1]
         /\ \A y \in DOMAIN todo : y = 1 \/ (y - 1 \in DOMAIN Tail(todo) /\ Tail(todo)[y - 1] = todo[y])
<1> DEFINE rest == Tail(todo)
<1>1. /\ Len(todo) \in Nat \ {0} /\ DOMAIN rest = 1..(Len(todo) - 1) /\ DOMAIN todo = 1..Len(todo)
      /\ \A x \in 1..(Len(todo) - 1) : rest[x] = todo[x + 1]
  OBVIOUS
<1> HIDE DEF rest
<1>2. \A x \in DOMAIN rest : x + 1 \in DOMAIN todo /\ rest[x] = todo[x + 1]
  BY <1>1
<1>3. ASSUME NEW y \in DOMAIN todo, y # 1
      PROVE  y - 1 \in DOMAIN rest /\ rest[y - 1] = todo[y]
  <2>1. y - 1 \in 1..(Len(todo) - 1) /\ (y - 1) + 1 = y
    BY <1>1, <1>3
  <2> QED
    BY <1>1, <2>1
<1> QED
  BY <1>2, <1>3 DEF rest

\* A call of the API is made, and no other.
LEMMA TakesMakes ==
  ASSUME CallsInv, HistoryInv, ShapeInv, NEW op, Takes(op), op # "register", NEW i \in Positions
  PROVE  /\ \A o : (o # op \/ i # job.at) =>
              (Made(i, o)' <=> Made(i, o)) /\ (EverMade(i, o)' <=> EverMade(i, o))
         /\ op \in {"logger", "level", "additivity"} => Made(job.at, op)'
         /\ \A r : (op # "ref" \/ i # job.at \/ r # job.todo[1].name) =>
              (EverMadeRef(i, r)' <=> EverMadeRef(i, r))
<1>1. /\ job # Idle /\ job.at \in Positions /\ job.todo \in Seq(ApiCall) /\ job.todo # << >>
      /\ RestOf(LastText, LastSource, job.at, job.todo) /\ job.todo[1].op = op
  BY CallTaken
<1>2. job'.at = job.at /\ job'.pass = job.pass /\ job'.todo = Tail(job.todo) /\ job' # Idle
  <2>1. job'.at = job.at /\ job'.pass = job.pass /\ job'.todo = Tail(job.todo) /\ job' \in JobType
    BY TakesProper
  <2>2. Idle.pass = 0
    BY DEF Idle
  <2> QED
    BY <2>1, <2>2 DEF JobType
<1>3. Repetition' = Repetition /\ IsTag(LastText)' = IsTag(LastText)
  <2>1. done' = done
    BY DEF Takes
  <2> QED
    BY <2>1, SameCall DEF IsTag
<1>4. ASSUME NEW o, o # op PROVE Pending(o)' <=> Pending(o)
  <2> DEFINE rest == Tail(job.todo)
  <2>1. /\ \A x \in DOMAIN rest : x + 1 \in DOMAIN job.todo /\ rest[x] = job.todo[x + 1]
        /\ \A y \in DOMAIN job.todo : y = 1 \/ (y - 1 \in DOMAIN rest /\ rest[y - 1] = job.todo[y])
    BY <1>1, TailHas
  <2>2. job'.todo = rest
    BY <1>2
  <2> HIDE DEF rest
  <2>3. ASSUME Pending(o) PROVE Pending(o)'
    <3>1. PICK y \in DOMAIN job.todo : job.todo[y].op = o
      BY <2>3 DEF Pending
    <3>2. y - 1 \in DOMAIN rest /\ rest[y - 1].op = o
      BY <1>1, <1>4, <2>1, <3>1
    <3> QED
      BY <2>2, <3>2 DEF Pending
  <2> QED
    BY <2>1, <2>2, <2>3 DEF Pending
<1>5. ASSUME NEW r, op # "ref" \/ r # job.todo[1].name PROVE PendingRef(r)' <=> PendingRef(r)
  <2> DEFINE rest == Tail(job.todo)
  <2>1. /\ \A x \in DOMAIN rest : x + 1 \in DOMAIN job.todo /\ rest[x] = job.todo[x + 1]
        /\ \A y \in DOMAIN job.todo : y = 1 \/ (y - 1 \in DOMAIN rest /\ rest[y - 1] = job.todo[y])
    BY <1>1, TailHas
  <2>2. job'.todo = rest
    BY <1>2
  <2> HIDE DEF rest
  <2>3. ASSUME PendingRef(r) PROVE PendingRef(r)'
    <3>1. PICK y \in DOMAIN job.todo : job.todo[y].op = "ref" /\ job.todo[y].name = r
      BY <2>3 DEF PendingRef
    <3>2. y - 1 \in DOMAIN rest /\ rest[y - 1].op = "ref" /\ rest[y - 1].name = r
      BY <1>1, <1>5, <2>1, <3>1
    <3> QED
      BY <2>2, <3>2 DEF PendingRef
  <2> QED
    BY <2>1, <2>2, <2>3 DEF PendingRef
<1>6. ASSUME NEW o, o # op \/ i # job.at
      PROVE  (Made(i, o)' <=> Made(i, o)) /\ (EverMade(i, o)' <=> EverMade(i, o))
  <2>1. Made(i, o)' <=> Made(i, o)
    BY <1>1, <1>2, <1>4, <1>6 DEF Made
  <2> QED
    BY <1>2, <1>3, <2>1 DEF EverMade
<1>7. ASSUME op \in {"logger", "level", "additivity"} PROVE Made(job.at, op)'
  <2>1. \A x \in DOMAIN Tail(job.todo) : Tail(job.todo)[x].op # job.todo[1].op
    BY <1>1, <1>7, TailRest
  <2>2. ~Pending(op)'
    BY <1>1, <1>2, <2>1 DEF Pending
  <2>3. Made(job.at, op)' <=> (job' = Idle \/ job.at < job'.at \/ (job.at = job'.at /\ ~Pending(op)'))
    BY <1>2 DEF Made
  <2> QED
    BY <1>2, <2>2, <2>3
<1>8. ASSUME NEW r, op # "ref" \/ i # job.at \/ r # job.todo[1].name
      PROVE  EverMadeRef(i, r)' <=> EverMadeRef(i, r)
  <2>1. MadeRef(i, r)' <=> MadeRef(i, r)
    BY <1>1, <1>2, <1>5, <1>8 DEF MadeRef
  <2> QED
    BY <1>1, <1>2, <1>3, <2>1 DEF EverMadeRef
<1> QED
  BY <1>6, <1>7, <1>8

\* A step that configures nothing leaves nothing out: what has been made behind
\* it had been before.
LEMMA QuietMakes ==
  ASSUME CallsInv, CallsInv', HistoryInv, ShapeInv, Quiet, NEW i \in Positions
  PROVE  /\ \A o \in Settings : Wants(LastText, i, o) =>
              /\ EverMade(i, o)' => EverMade(i, o)
              /\ Made(i, o)' => Made(i, o)
              /\ SecondPass \/ (Made(i, o) => Made(i, o)')
         /\ SecondPass => \A o : ~Made(i, o)'
         /\ \A r \in AppenderNames : WantsRef(LastText, LastSource, i, r) =>
              (EverMadeRef(i, r)' => EverMadeRef(i, r))
<1>0. job # Idle /\ done' = done
  BY DEF Quiet, Close, Ready, ReadItem, SecondPass, Finish, CallFind, CallLayout, CallParam, CallEnd,
         Register, Takes, Idle
<1>1. /\ job \in JobType /\ job.text = LastText /\ job.source = LastSource
      /\ LastText \in Texts /\ LastSource \in {"string", "file"}
      /\ Len(Seen(LastText)) \in Nat /\ Positions = 1..Len(Seen(LastText))
      /\ job.at \in Nat /\ job.at <= Len(Seen(LastText)) /\ job.pass \in {1, 2}
      /\ job.todo \in Seq(ApiCall)
      /\ IsTag(LastText) <=> job.text.form = "xml"
  BY <1>0, AtWork
<1>2. /\ Repetition' = Repetition /\ IsTag(LastText)' = IsTag(LastText)
      /\ LastText' = LastText /\ LastSource' = LastSource
  BY <1>0, SameCall DEF IsTag
<1>3. i \in Nat \ {0}
  BY <1>1
<1>4. job.todo = << >> => \A o, r : ~Pending(o) /\ ~PendingRef(r)
  BY DEF Pending, PendingRef
\* The steps that leave the place of the item.
<1>a. ASSUME job' # Idle, job'.at = job.at, job'.pass = job.pass, ~SecondPass,
             i = job.at => \A o \in Settings : Wants(LastText, i, o) => (Pending(o)' <=> Pending(o)),
             i = job.at => \A r \in AppenderNames : WantsRef(LastText, LastSource, i, r) =>
                             (PendingRef(r)' <=> PendingRef(r))
      PROVE  /\ \A o \in Settings : Wants(LastText, i, o) =>
                  (Made(i, o)' <=> Made(i, o)) /\ (EverMade(i, o)' => EverMade(i, o))
             /\ \A r \in AppenderNames : WantsRef(LastText, LastSource, i, r) =>
                  (EverMadeRef(i, r)' => EverMadeRef(i, r))
  <2>1. ASSUME NEW o \in Settings, Wants(LastText, i, o)
        PROVE  (Made(i, o)' <=> Made(i, o)) /\ (EverMade(i, o)' => EverMade(i, o))
    <3>1. Made(i, o)' <=> Made(i, o)
      BY <1>0, <1>a, <2>1 DEF Made
    <3> QED
      BY <1>2, <1>a, <3>1 DEF EverMade
  <2>2. ASSUME NEW r \in AppenderNames, WantsRef(LastText, LastSource, i, r), EverMadeRef(i, r)'
        PROVE  EverMadeRef(i, r)
    <3>1. MadeRef(i, r)' <=> MadeRef(i, r)
      BY <1>0, <1>a, <2>2 DEF MadeRef
    <3> QED
      BY <1>2, <1>a, <2>2, <3>1 DEF EverMadeRef
  <2> QED
    BY <2>1, <2>2
<1>5. CASE Close
  <2>1. job' = [job EXCEPT !.begun = TRUE]
    BY <1>5 DEF Close
  <2>2. job'.at = job.at /\ job'.pass = job.pass /\ job'.todo = job.todo /\ job' # Idle
    <3>1. job'.at = job.at /\ job'.pass = job.pass /\ job'.todo = job.todo
      BY <1>1, <2>1 DEF JobType
    <3> QED
      BY <1>1, <3>1 DEF Idle
  <2>3. ~SecondPass
    BY <1>5 DEF Close, SecondPass
  <2>4. \A o, r : (Pending(o)' <=> Pending(o)) /\ (PendingRef(r)' <=> PendingRef(r))
    BY <2>2 DEF Pending, PendingRef
  <2> QED
    BY <1>a, <2>2, <2>3, <2>4
<1>6. CASE SecondPass
  <2>1. /\ job' = [job EXCEPT !.pass = @ + 1, !.at = 0] /\ job.at = Len(Seen(job.text)) /\ job.todo = << >>
        /\ job.pass < Passes(job.text)
    BY <1>6 DEF SecondPass, Ready
  <2>2. job'.at = 0 /\ job'.pass = job.pass + 1 /\ job'.pass # 0
    BY <1>1, <2>1 DEF JobType
  <2>3. job' # Idle
    BY <2>2 DEF Idle
  <2>4. \A o, r : ~Made(i, o)' /\ ~MadeRef(i, r)'
    BY <1>3, <2>2, <2>3 DEF Made, MadeRef
  <2>5. \A o, r : Made(i, o) /\ MadeRef(i, r)
    BY <1>1, <1>4, <2>1 DEF Made, MadeRef
  <2>6. \A o : EverMade(i, o)
    BY <2>5 DEF EverMade
  <2>7. \A r : EverMadeRef(i, r)' => EverMadeRef(i, r)
    BY <1>2, <2>4 DEF EverMadeRef
  <2> QED
    BY <1>6, <2>4, <2>6, <2>7
<1>7. CASE Finish
  <2>1. job' = Idle /\ job.at = Len(Seen(job.text)) /\ job.todo = << >> /\ job.pass = Passes(job.text)
    BY <1>7 DEF Finish, Ready
  <2>2. \A o, r : Made(i, o) /\ MadeRef(i, r) /\ Made(i, o)'
    BY <1>1, <1>4, <2>1 DEF Made, MadeRef
  <2>3. IsTag(LastText) \/ job.pass = 2
    BY <1>1, <2>1 DEF Passes
  <2>4. \A o, r : EverMade(i, o) /\ EverMadeRef(i, r)
    BY <2>2, <2>3 DEF EverMade, EverMadeRef
  <2>5. ~SecondPass
    BY <2>1 DEF SecondPass, Passes
  <2> QED
    BY <2>2, <2>4, <2>5
<1>8. CASE ReadItem
  <2> DEFINE item == Seen(job.text)[job.at + 1]
             todo == IF job.text.form = "xml" THEN TagCalls(item) ELSE LineCalls(item)
  <2>1. /\ job.todo = << >> /\ job.at < Len(Seen(job.text))
        /\ job' = [job EXCEPT !.at = @ + 1, !.todo = todo]
    BY <1>8 DEF ReadItem, Ready
  <2>2. item = Item(LastText, job.at + 1) /\ job.at + 1 \in 1..Len(Seen(LastText))
    BY <1>1, <2>1 DEF Item
  <2>3. AllOf(LastText, LastSource, job.at + 1, todo)
    BY <1>1, <2>2, TagCallsOfItem, LineCallsOfItem
  <2> HIDE DEF todo
  <2>4. job'.at = job.at + 1 /\ job'.pass = job.pass /\ job'.todo = todo /\ job'.pass # 0
    BY <1>1, <2>1 DEF JobType
  <2>5. job' # Idle
    BY <2>4 DEF Idle
  <2>6. ASSUME NEW o \in Settings, Wants(LastText, i, o)
        PROVE  Made(i, o)' <=> Made(i, o)
    <3>1. i = job.at + 1 => Pending(o)'
      BY <2>3, <2>4, <2>6 DEF AllOf, Pending, Settings
    <3> QED
      BY <1>0, <1>1, <1>3, <1>4, <2>1, <2>4, <2>5, <3>1 DEF Made
  <2>7. ASSUME NEW r \in AppenderNames, WantsRef(LastText, LastSource, i, r)
        PROVE  MadeRef(i, r)' <=> MadeRef(i, r)
    <3>1. i = job.at + 1 => PendingRef(r)'
      BY <2>3, <2>4, <2>7 DEF AllOf, PendingRef
    <3> QED
      BY <1>0, <1>1, <1>3, <1>4, <2>1, <2>4, <2>5, <3>1 DEF MadeRef
  <2>8. ~SecondPass
    <3>1. SUFFICES ASSUME SecondPass PROVE FALSE
      OBVIOUS
    <3>2. job' = [job EXCEPT !.pass = @ + 1, !.at = 0]
      BY <3>1 DEF SecondPass
    <3>3. job'.at = 0
      BY <1>1, <3>2 DEF JobType
    <3> QED
      BY <1>1, <2>4, <3>3
  <2>9. ASSUME NEW o \in Settings, Wants(LastText, i, o), EverMade(i, o)'
        PROVE  EverMade(i, o)
    BY <1>2, <2>4, <2>6, <2>9 DEF EverMade
  <2>10. ASSUME NEW r \in AppenderNames, WantsRef(LastText, LastSource, i, r), EverMadeRef(i, r)'
         PROVE  EverMadeRef(i, r)
    BY <1>0, <1>2, <2>4, <2>5, <2>7, <2>10 DEF EverMadeRef
  <2> QED
    BY <2>6, <2>8, <2>9, <2>10
<1>9. CASE Register
  <2>1. Takes("register")
    BY <1>9 DEF Register
  <2>2. job'.at = job.at /\ job'.pass = job.pass /\ job'.todo = Tail(job.todo) /\ job.todo # << >>
        /\ job.todo[1].op = "register" /\ job'.begun = job.begun /\ job' \in JobType
    BY <2>1, TakesProper
  <2>3. ~job.begun
    <3>1. SUFFICES ASSUME job.begun PROVE FALSE
      OBVIOUS
    <3>2. RestOf(LastText, LastSource, job.at, job.todo) /\ 1 \in DOMAIN job.todo
      BY <1>0, <1>1, <2>2, <3>1 DEF ShapeInv
    <3> QED
      BY <2>2, <3>2 DEF RestOf, AsksFor
  <2>4. job.at = 0 /\ job' # Idle
    BY <1>0, <2>2, <2>3 DEF ShapeInv, JobType, Idle
  <2>5. ~SecondPass
    BY <2>2 DEF SecondPass, Ready
  <2> QED
    BY <1>3, <1>a, <2>2, <2>4, <2>5
<1>10. CASE CallLayout \/ CallParam \/ CallEnd
  <2>1. PICK op \in {"layout", "param", "end"} : Takes(op)
    BY <1>10 DEF CallLayout, CallParam, CallEnd
  <2>2. job.todo # << >> /\ ~SecondPass
    BY <2>1 DEF Takes, SecondPass, Ready
  <2>3. /\ \A o \in Settings : (Made(i, o)' <=> Made(i, o)) /\ (EverMade(i, o)' <=> EverMade(i, o))
        /\ \A r : EverMadeRef(i, r)' <=> EverMadeRef(i, r)
    BY <2>1, TakesMakes DEF Settings
  <2> QED
    BY <2>2, <2>3
<1>11. CASE CallFind
  <2>1. /\ job.todo # << >> /\ Head(job.todo).op = "find"
        /\ job' = [job EXCEPT !.todo = IF FindAppender(Head(job.todo).name) = 0 THEN << >>
                                       ELSE Tail(job.todo)]
    BY <1>11 DEF CallFind
  <2>2. job'.at = job.at /\ job'.pass = job.pass
    BY <1>1, <2>1 DEF JobType
  <2>3. job' # Idle /\ ~SecondPass
    BY <1>1, <2>1, <2>2 DEF Idle, SecondPass, Ready
  <2>4. job.todo[1].op = "find" /\ 1 \in DOMAIN job.todo
    BY <1>1, <2>1
  <2>5. ~IsTag(LastText) /\ Item(LastText, job.at).kind = "option"
    <3>1. job.begun /\ job.at # 0
      BY <1>0, <2>1, <2>4 DEF ShapeInv
    <3>2. RestOf(LastText, LastSource, job.at, job.todo)
      BY <1>0, <3>1 DEF ShapeInv
    <3> QED
      BY <2>4, <3>2 DEF RestOf, AsksFor
  <2>6. i = job.at => /\ \A o \in Settings : ~Wants(LastText, i, o)
                      /\ \A r : ~WantsRef(LastText, LastSource, i, r)
    BY <2>5 DEF Wants, WantsRef, Settings
  <2> QED
    BY <1>a, <2>2, <2>3, <2>6
<1> QED
  BY <1>5, <1>6, <1>7, <1>8, <1>9, <1>10, <1>11 DEF Quiet

-----------------------------------------------------------------------------
(* The classes that are registered *)

\* l4sc_register_extra_class keeps what the table has, and adds the class
\* unless the table is full.
LEMMA TableGrows ==
  ASSUME RegistryTypeOK, NEW c \in ExtraClasses, RegisterExtraClass(c)
  PROVE  /\ InTable(c)' /\ \A d : InTable(d) => InTable(d)'
         /\ InTable(c) => extra' = extra
<1>1. extra \in Seq(ExtraClasses) /\ Len(extra) \in Nat
  BY DEF RegistryTypeOK
<1>2. CASE c \notin Elements(extra) /\ Len(extra) < MaxExtraClasses
  <2>1. extra' = Append(extra, c)
    BY <1>2 DEF RegisterExtraClass
  <2>2. /\ Len(extra') = Len(extra) + 1 /\ DOMAIN extra' = 1..(Len(extra) + 1)
        /\ DOMAIN extra = 1..Len(extra)
        /\ \A i \in 1..Len(extra) : extra'[i] = extra[i] /\ extra'[Len(extra) + 1] = c
        /\ extra'[Len(extra) + 1] = c
    BY <1>1, <2>1
  <2>3. c \in Elements(extra')
    BY <1>1, <2>2 DEF Elements
  <2>4. \A d : d \in Elements(extra) => d \in Elements(extra')
    BY <1>1, <2>2 DEF Elements
  <2>5. Len(extra) >= MaxExtraClasses => Len(extra') >= MaxExtraClasses
    BY <1>1, <2>2, MaxExtraClassesAssumption
  <2>6. ~(Len(extra) >= MaxExtraClasses)
    BY <1>1, <1>2, MaxExtraClassesAssumption
  <2> QED
    BY <1>2, <2>3, <2>4, <2>5, <2>6 DEF InTable
<1>3. CASE ~(c \notin Elements(extra) /\ Len(extra) < MaxExtraClasses)
  <2>1. extra' = extra
    BY <1>3 DEF RegisterExtraClass
  <2>2. c \in Elements(extra) \/ Len(extra) >= MaxExtraClasses
    BY <1>1, <1>3, MaxExtraClassesAssumption, SMTT(30)
  <2> QED
    BY <2>1, <2>2 DEF InTable
<1> QED
  BY <1>2, <1>3

\* Only the registration of a class changes the table.
LEMMA TableKept ==
  ASSUME [ConfiguratorNext]_all, ~Register
  PROVE  extra' = extra
BY DEF ConfiguratorNext, all, vars, registry, Begin, Close, CloseAppenders, Unreadable, ReadItem, SecondPass,
       Finish, CallLogger, GetLogger, CallLevel, SetLevel, CallAdditivity, SetAdditivity, CallRef, SetAppender,
       CallAppender, GetAppender, CallFind, CallLayout, CallParam, CallEnd

\* What a step that registers a class registers.
LEMMA RegisterStep ==
  ASSUME IInv, CallsInv, HistoryInv, ShapeInv, Register
  PROVE  /\ job # Idle /\ job' # Idle /\ ~job.begun /\ ~job'.begun /\ done # << >> /\ done' = done
         /\ job.todo \in Seq(ApiCall) /\ job.todo # << >> /\ job'.todo = Tail(job.todo)
         /\ \A d : InTable(d) => InTable(d)'
         /\ \E c \in Elements(ClassesPassed) :
              c = job.todo[1].name /\ InTable(c)' /\ (InTable(c) => extra' = extra)
         /\ UNCHANGED <<appenders, loggers, adopted, cur>>
<1>1. Takes("register") /\ RegisterExtraClass(Head(job.todo).name) /\ UNCHANGED <<loggers, adopted, cur>>
  BY DEF Register
<1>2. /\ job.todo # << >> /\ job.todo[1] \in ApiCall /\ job.todo[1].op = "register"
      /\ Head(job.todo) = job.todo[1] /\ job'.todo = Tail(job.todo) /\ job'.begun = job.begun
      /\ job' \in JobType
  BY <1>1, TakesProper
<1>3. job # Idle /\ job' # Idle /\ done' = done
  BY <1>1, <1>2 DEF Takes, Idle, JobType
<1>4. job.todo \in Seq(ApiCall) /\ done # << >>
  BY <1>3, AtWork
<1>5. 1 \in DOMAIN job.todo
  BY <1>2, <1>4
<1>6. ~job.begun
  <2>1. SUFFICES ASSUME job.begun PROVE FALSE
    OBVIOUS
  <2>2. RestOf(LastText, LastSource, job.at, job.todo)
    BY <1>2, <1>3, <2>1 DEF ShapeInv
  <2> QED
    BY <1>2, <1>5, <2>2 DEF RestOf, AsksFor
<1>7. job.todo[1].name \in Elements(ClassesPassed)
  BY <1>3, <1>5, <1>6 DEF ShapeInv
<1>8. job.todo[1].name \in ExtraClasses /\ RegistryTypeOK
  BY <1>2, CallType DEF IInv, TypeOK
<1>9. RegisterExtraClass(job.todo[1].name)
  BY <1>1, <1>2
<1>10. UNCHANGED appenders
  BY <1>9 DEF RegisterExtraClass
<1>11. \E c \in Elements(ClassesPassed) :
         c = job.todo[1].name /\ InTable(c)' /\ (InTable(c) => extra' = extra)
  <2>1. PICK c \in ExtraClasses : c = job.todo[1].name
    BY <1>8
  <2>2. RegisterExtraClass(c) /\ RegistryTypeOK
    BY <1>8, <1>9, <2>1
  <2>3. InTable(c)' /\ (InTable(c) => extra' = extra)
    BY <2>2, TableGrows
  <2> QED
    BY <1>7, <2>1, <2>3
<1>12. \A d : InTable(d) => InTable(d)'
  <2>1. PICK c \in ExtraClasses : c = job.todo[1].name
    BY <1>8
  <2>2. RegisterExtraClass(c) /\ RegistryTypeOK
    BY <1>8, <1>9, <2>1
  <2> QED
    BY <2>2, TableGrows
<1> QED
  BY <1>1, <1>2, <1>3, <1>4, <1>6, <1>10, <1>11, <1>12

\* Once the classes are registered they are, or the table is full.
LEMMA NextRegistered ==
  ASSUME IInv, CallsInv, HistoryInv, ShapeInv, RegisteredInv, [ConfiguratorNext]_all
  PROVE  RegisteredInv'
<1>1. CASE Register
  <2>1. /\ job # Idle /\ job' # Idle /\ ~job.begun /\ ~job'.begun /\ done # << >> /\ done' = done
        /\ job.todo \in Seq(ApiCall) /\ job.todo # << >> /\ job'.todo = Tail(job.todo)
        /\ \A d : InTable(d) => InTable(d)'
        /\ \E c : c = job.todo[1].name /\ InTable(c)'
    BY <1>1, RegisterStep
  <2>a. PICK c : c = job.todo[1].name /\ InTable(c)'
    BY <2>1
  <2>2. ASSUME NEW x \in DOMAIN ClassesPassed, ~InTable(ClassesPassed[x])'
        PROVE  Len(done) = 1 /\ \E y \in DOMAIN job'.todo : job'.todo[y].name = ClassesPassed[x]
    <3>1. PICK y \in DOMAIN job.todo : job.todo[y].name = ClassesPassed[x] /\ Len(done) = 1
      BY <2>1, <2>2 DEF RegisteredInv
    <3>2. y # 1
      <4>1. y = 1 => ClassesPassed[x] = c
        BY <2>a, <3>1
      <4> QED
        BY <2>2, <2>a, <4>1
    <3>3. y - 1 \in DOMAIN Tail(job.todo) /\ Tail(job.todo)[y - 1] = job.todo[y]
      BY <2>1, <3>2, TailHas
    <3> QED
      BY <2>1, <3>1, <3>3
  <2> QED
    BY <2>1, <2>2 DEF RegisteredInv
<1>2. CASE ~Register
  <2>1. extra' = extra
    BY <1>2, TableKept
  <2>2. \A d : InTable(d) => InTable(d)'
    BY <2>1 DEF InTable
  <2>3. CASE UNCHANGED all
    BY <2>3 DEF all, vars, registry, configuring, RegisteredInv, InTable
  <2>4. CASE \E t \in Texts, source \in {"string", "file"} : Begin(t, source)
    <3>1. PICK t \in Texts, source \in {"string", "file"} : Begin(t, source)
      BY <2>4
    <3>2. CASE done # << >>
      <4>1. \A x \in DOMAIN ClassesPassed : InTable(ClassesPassed[x])
        BY <3>1, <3>2 DEF RegisteredInv, Begin
      <4> QED
        BY <2>2, <4>1 DEF RegisteredInv
    <3>3. CASE done = << >>
      <4> DEFINE todo == [i \in DOMAIN ClassesPassed |-> Name("register", ClassesPassed[i])]
      <4>1. job' = [text |-> t, source |-> source, pass |-> 1, at |-> 0, begun |-> FALSE, todo |-> todo]
        BY <3>1 DEF Begin
      <4>2. \A x \in DOMAIN ClassesPassed : x \in DOMAIN todo /\ todo[x].name = ClassesPassed[x]
        BY DEF Name
      <4> HIDE DEF todo
      <4>3. job'.todo = todo /\ ~job'.begun /\ job'.pass = 1
        BY <4>1
      <4>4. job' # Idle
        BY <4>3 DEF Idle
      <4>5. Len(done') = 1
        BY <3>1, <3>3, HistoryGrows DEF Begin
      <4> QED
        BY <4>2, <4>3, <4>4, <4>5 DEF RegisteredInv
    <3> QED
      BY <3>2, <3>3
  <2>5. CASE ConfiguratorNext /\ ~\E t \in Texts, source \in {"string", "file"} : Begin(t, source)
    <3>1. job # Idle
      BY <1>2, <2>5 DEF ConfiguratorNext, Close, Unreadable, ReadItem, SecondPass, Finish, CallFind, CallLogger,
                 CallLevel, CallAdditivity, CallRef, CallAppender, CallLayout, CallParam, CallEnd, Ready, Takes, Idle
    <3>2. job.todo \in Seq(ApiCall) /\ done # << >>
      BY <3>1, AtWork, SMTT(30)
    <3>3. job.begun \/ job.todo = << >>
      <4>1. SUFFICES ASSUME ~job.begun, job.todo # << >> PROVE FALSE
        OBVIOUS
      <4>2. 1 \in DOMAIN job.todo /\ Head(job.todo) = job.todo[1]
        BY <3>2, <4>1
      <4>3. Head(job.todo).op = "register"
        BY <3>1, <4>1, <4>2 DEF ShapeInv
      <4> QED
        BY <1>2, <2>5, <4>1, <4>3
           DEF ConfiguratorNext, Close, Unreadable, ReadItem, SecondPass, Finish, CallFind, CallLogger,
               CallLevel, CallAdditivity, CallRef, CallAppender, CallLayout, CallParam, CallEnd, Ready, Takes
    <3>4. \A x \in DOMAIN ClassesPassed : InTable(ClassesPassed[x])
      BY <3>2, <3>3 DEF RegisteredInv
    <3> QED
      BY <2>2, <3>4, SMTT(30) DEF RegisteredInv
  <2> QED
    BY <2>3, <2>4, <2>5
<1> QED
  BY <1>1, <1>2

\* When a call is repeated, its classes are registered or the table is full.
LEMMA RegisteredAgain ==
  ASSUME IInv, CallsInv, HistoryInv, ShapeInv, RegisteredInv, Register, Repetition
  PROVE  extra' = extra
<1>1. done # << >> /\ \E c \in Elements(ClassesPassed) : InTable(c) => extra' = extra
  BY RegisterStep
<1>2. Len(done) # 1
  BY <1>1, LastCallType DEF Repetition
<1>3. \A x \in DOMAIN ClassesPassed : InTable(ClassesPassed[x])
  BY <1>1, <1>2 DEF RegisteredInv
<1> QED
  BY <1>1, <1>3 DEF Elements

-----------------------------------------------------------------------------
(* What is current *)

\* A name that denotes a logger goes on to do so.
LEMMA LookupStays ==
  ASSUME IInv, CallsInv, [ConfiguratorNext]_all, NEW n, Lookup(loggers, n) # 0
  PROVE  Lookup(loggers', n) = Lookup(loggers, n)
<1>1. NamesStep
  BY ConfiguratorStep, NextNamesStep
<1> QED
  BY <1>1, LookupKept

\* l4sc_get_logger gives the logger that the name denotes then, if it fits.
LEMMA LoggerAsked ==
  ASSUME IInv, NEW n \in LoggerNames, Fits(n), GetLogger(n)
  PROVE  /\ Lookup(loggers', n) = LoggerNamed(loggers, n) /\ Lookup(loggers', n) # 0
         /\ Lookup(loggers, n) # 0 => loggers' = loggers
         /\ \A l \in LoggerIds : loggers'[l] = loggers[l]
         /\ LoggerIds \subseteq LoggerIds'
<1>1. n \in Seq(NameParts) \ {<< >>} /\ loggers' = WithLogger(loggers, n)
  BY AskedNameType DEF GetLogger
<1>2. loggers \in Seq(LoggerType) /\ Len(loggers) > 0 /\ Len(loggers) \in Nat
  BY DEF IInv, TypeOK, LoggerIds, Root
<1>3. /\ loggers' \in Seq(LoggerType) /\ Len(loggers') >= Len(loggers)
      /\ \A i \in 1..Len(loggers) : loggers'[i] = loggers[i]
      /\ LoggerNamed(loggers, n) \in 1..Len(loggers')
  BY <1>1, <1>2, WithLoggerExtends
<1>4. Len(loggers') \in Nat /\ DOMAIN loggers' = 1..Len(loggers')
  BY <1>3
<1>5. LoggerIds \subseteq LoggerIds' /\ \A l \in LoggerIds : loggers'[l] = loggers[l]
  BY <1>2, <1>3, <1>4 DEF LoggerIds
<1>6. CASE Lookup(loggers, n) # 0
  BY <1>1, <1>5, <1>6 DEF WithLogger, LoggerNamed
<1>7. CASE Lookup(loggers, n) = 0
  <2> DEFINE k == Ancestor(loggers, n)
             new == Joined(loggers, n, k + 1)
             parent == IF k = 0 THEN Root ELSE FoundAt(loggers, n, k)
             x == Len(loggers) + 1
  <2>1. k \in 0..(Len(n) - 1) /\ k + 1 \in 1..Len(n) /\ Len(n) \in Nat /\ Len(n) \in (k + 1)..Len(n)
    <3>1. k \in 0..(Len(n) - 1) /\ Len(n) \in Nat
      BY <1>1, AncestorType
    <3> HIDE DEF k
    <3> QED
      BY <3>1
  <2>2. new \in Seq(LoggerType) /\ Len(new) = Len(loggers) + Len(n) - (k + 1) + 1
    BY <1>1, <1>2, <2>1, JoinedExtends
  <2>3. new[Len(loggers) + Len(n) - Len(n) + 1].asked = Prefix(n, Len(n))
    BY <1>1, <1>2, <2>1, JoinedNames
  <2>4. Prefix(n, Len(n)) = n
    BY <1>1 DEF Prefix
  <2>5. Len(loggers) + Len(n) - Len(n) + 1 = x
    BY <1>2, <2>1
  <2>6. loggers' = [new EXCEPT ![Len(new)].parent = parent]
    BY <1>1, <1>7 DEF WithLogger
  <2>7. LoggerNamed(loggers, n) = x
    BY <1>7 DEF LoggerNamed
  <2> HIDE DEF new, parent, k
  <2>8. x \in 1..Len(new) /\ DOMAIN new = 1..Len(new) /\ new[x] \in LoggerType /\ Len(new) \in Nat
    <3>1. x \in 1..Len(new) /\ DOMAIN new = 1..Len(new) /\ Len(new) \in Nat
      BY <1>2, <2>1, <2>2
    <3> QED
      BY <2>2, <3>1, ElementOfSeq
  <2>9. loggers'[x].asked = n
    <3>1. loggers'[x].asked = new[x].asked
      BY <2>6, <2>8 DEF LoggerType
    <3> QED
      BY <2>3, <2>4, <2>5, <3>1, SMTT(30)
  <2>10. ProperlyNamed(loggers, loggers')
    BY <1>1, <1>2, WithLoggerProper
  <2>11. x \in (Len(loggers) + 1)..Len(loggers') /\ x \in 1..Len(loggers') /\ x # 0
    BY <1>2, <1>3, <1>4, <2>7
  <2>12. loggers'[x].name = n /\ \A h \in 1..Len(loggers') : loggers'[h].name = loggers'[x].name => h = x
    BY <2>9, <2>10, <2>11 DEF ProperlyNamed
  <2>13. Lookup(loggers', loggers'[x].name) = x
    BY <1>4, <2>11, <2>12, LookupOnly
  <2> QED
    BY <1>5, <1>7, <2>7, <2>11, <2>12, <2>13
<1> QED
  BY <1>6, <1>7

\* The logger that is open behind the next tag.
LEMMA LoggerOpenNext ==
  ASSUME NEW t, NEW i \in Nat, NEW j
  PROVE  LoggerOpen(t, i + 1, j) <=>
           IF Item(t, i + 1).kind = "logger" THEN j = i + 1 /\ Item(t, i + 1).shape = "start"
           ELSE LoggerOpen(t, i, j)
<1>1. i + 1 \in Nat /\ 1..(i + 1) = 1..i \union {i + 1} /\ i + 1 \notin 1..i
  OBVIOUS
<1>2. ASSUME j \in 1..i PROVE (j + 1)..(i + 1) = (j + 1)..i \union {i + 1}
  BY <1>2
<1>3. (i + 1 + 1)..(i + 1) = {}
  OBVIOUS
<1>4. CASE j \in 1..i
  <2>1. j # i + 1
    BY <1>4
  <2> QED
    BY <1>1, <1>2, <1>4, <2>1 DEF LoggerOpen
<1>5. CASE j = i + 1
  <2>1. j \notin 1..i /\ j \in 1..(i + 1)
    BY <1>1, <1>5
  <2>2. \A k \in (j + 1)..(i + 1) : FALSE
    BY <1>3, <1>5
  <2> QED
    BY <1>5, <2>1, <2>2 DEF LoggerOpen
<1>6. CASE j \notin 1..(i + 1)
  <2>1. j \notin 1..i /\ j # i + 1
    BY <1>1, <1>6
  <2> QED
    BY <1>6, <2>1 DEF LoggerOpen
<1> QED
  BY <1>1, <1>4, <1>5, <1>6

\* Whether an appender is open behind the next tag.
LEMMA AppenderOpenNext ==
  ASSUME NEW t, NEW i \in Nat
  PROVE  AppenderOpen(t, i + 1) <=>
           LET tag == Item(t, i + 1) IN
           \/ tag.kind = "appender" /\ tag.shape = "start"
           \/ AppenderOpen(t, i) /\ (AppenderTag(tag) => tag.shape = "start")
<1> DEFINE Opened(n, j) ==
      /\ Item(t, j).kind = "appender" /\ Item(t, j).shape = "start"
      /\ \A k \in (j + 1)..n : AppenderTag(Item(t, k)) => Item(t, k).shape = "start"
<1>1. 1..(i + 1) = 1..i \union {i + 1}
  OBVIOUS
<1>2. ASSUME NEW j \in 1..i PROVE (j + 1)..(i + 1) = (j + 1)..i \union {i + 1}
  BY <1>2
<1>3. (i + 1 + 1)..(i + 1) = {}
  OBVIOUS
<1>4. \A n : AppenderOpen(t, n) <=> \E j \in 1..n : Opened(n, j)
  BY DEF AppenderOpen
<1>5. ASSUME NEW j \in 1..i
      PROVE  Opened(i + 1, j) <=> Opened(i, j) /\ (AppenderTag(Item(t, i + 1)) => Item(t, i + 1).shape = "start")
  <2> HIDE DEF AppenderOpen
  <2> QED
    BY <1>2, <1>5
<1>6. Opened(i + 1, i + 1) <=> Item(t, i + 1).kind = "appender" /\ Item(t, i + 1).shape = "start"
  BY <1>3
<1> HIDE DEF Opened
<1>7. AppenderOpen(t, i + 1) <=> (\E j \in 1..i : Opened(i + 1, j)) \/ Opened(i + 1, i + 1)
  BY <1>1, <1>4
<1> QED
  BY <1>4, <1>5, <1>6, <1>7

\* Whether a layout is open behind the next tag.
LEMMA LayoutOpenNext ==
  ASSUME NEW t, NEW i \in Nat
  PROVE  LayoutOpen(t, i + 1) <=>
           LET tag == Item(t, i + 1) IN
           \/ tag.kind = "layout" /\ tag.shape = "start" /\ AppenderOpen(t, i + 1)
           \/ LayoutOpen(t, i) /\ (tag.kind = "layout" => tag.shape = "start")
<1> DEFINE Opened(n, j) ==
      /\ Item(t, j).kind = "layout" /\ Item(t, j).shape = "start" /\ AppenderOpen(t, j)
      /\ \A k \in (j + 1)..n : Item(t, k).kind = "layout" => Item(t, k).shape = "start"
<1>1. 1..(i + 1) = 1..i \union {i + 1}
  OBVIOUS
<1>2. ASSUME NEW j \in 1..i PROVE (j + 1)..(i + 1) = (j + 1)..i \union {i + 1}
  BY <1>2
<1>3. (i + 1 + 1)..(i + 1) = {}
  OBVIOUS
<1>4. \A n : LayoutOpen(t, n) <=> \E j \in 1..n : Opened(n, j)
  BY DEF LayoutOpen
<1>5. ASSUME NEW j \in 1..i
      PROVE  Opened(i + 1, j) <=> Opened(i, j) /\ (Item(t, i + 1).kind = "layout" => Item(t, i + 1).shape = "start")
  BY <1>2, <1>5
<1>6. Opened(i + 1, i + 1) <=>
        Item(t, i + 1).kind = "layout" /\ Item(t, i + 1).shape = "start" /\ AppenderOpen(t, i + 1)
  BY <1>3
<1> HIDE DEF Opened
<1>7. LayoutOpen(t, i + 1) <=> (\E j \in 1..i : Opened(i + 1, j)) \/ Opened(i + 1, i + 1)
  BY <1>1, <1>4
<1> QED
  BY <1>4, <1>5, <1>6, <1>7

\* Nothing is open before the first tag.
LEMMA NoneOpen ==
  ASSUME NEW t
  PROVE  (\A j : ~LoggerOpen(t, 0, j)) /\ ~AppenderOpen(t, 0) /\ ~LayoutOpen(t, 0)
<1>1. 1..0 = {}
  OBVIOUS
<1> QED
  BY <1>1 DEF LoggerOpen, AppenderOpen, LayoutOpen

\* What is current stays what it should be, when it is so for the tag or line
\* of the step.
LEMMA CurrentAt ==
  ASSUME NEW i \in Nat \ {0}, job'.at = i, done' = done,
         IsTag(LastText) =>
           /\ (job'.todo = << >> \/ Item(LastText, i).kind # "logger") => LoggerCurrent(i)'
           /\ (job'.todo = << >> \/ ~AppenderTag(Item(LastText, i))) => AppenderCurrent(i)'
           /\ (job'.todo = << >> \/ Item(LastText, i).kind # "layout") => LayoutCurrent(i)'
           /\ (job'.todo # << >> /\ Item(LastText, i).kind = "layout" /\ Item(LastText, i).shape = "start") =>
                LayoutCurrent(i - 1)',
         job'.todo # << >> =>
           /\ (Item(LastText, i).kind \in {"logger", "additivity"} /\ ~EndTag(LastText, i)
                 /\ job'.todo[1].op # "logger") =>
                cur'.logger # 0 /\ cur'.logger = Lookup(loggers', Item(LastText, i).name)
           /\ (~IsTag(LastText) /\ Item(LastText, i).kind \in {"logger", "additivity"}) =>
                cur'.appender = 0 /\ cur'.layout = 0
  PROVE  CurrentInv'
<1>1. LastText' = LastText
  BY SameCall
<1>2. OwnInv'
  BY <1>1 DEF OwnInv, Item, EndTag, IsTag
<1>3. TagInv'
  <2>1. IsTag(LastText)' = IsTag(LastText) /\ Item(LastText, i)' = Item(LastText, i)
    BY <1>1 DEF IsTag, Item
  <2>2. AppenderTag(Item(LastText, i))' = AppenderTag(Item(LastText, i))
    BY <2>1 DEF AppenderTag
  <2> QED
    BY <1>1, <2>1, <2>2 DEF TagInv, IsTag, Item, LoggerCurrent, AppenderCurrent, LayoutCurrent, AppenderTag
<1>4. job' # Idle /\ job'.at # 0
  BY DEF Idle
<1> QED
  BY <1>2, <1>3, <1>4 DEF CurrentInv

\* Where nothing is left of the calls, all is current that is open.
LEMMA CurrentBetween ==
  ASSUME CallsInv, HistoryInv, ShapeInv, CurrentInv, job # Idle, job.todo = << >>, IsTag(LastText)
  PROVE  LoggerCurrent(job.at) /\ AppenderCurrent(job.at) /\ LayoutCurrent(job.at)
<1>1. job.at \in Nat
  BY AtWork
<1>2. CASE job.at = 0
  <2>1. cur.logger = 0 /\ cur.appender = 0 /\ cur.layout = 0
    BY <1>2 DEF CurrentInv, NoneCurrent
  <2> QED
    BY <1>2, <2>1, NoneOpen DEF LoggerCurrent, AppenderCurrent, LayoutCurrent
<1>3. CASE job.at # 0
  BY <1>1, <1>3 DEF CurrentInv, TagInv
<1> QED
  BY <1>2, <1>3

\* What is open and current goes on to be so in a step that leaves it alone.
LEMMA CurrentGoesOn ==
  ASSUME IInv, CallsInv, [ConfiguratorNext]_all, done' = done, NEW i
  PROVE  /\ (LoggerCurrent(i) /\ cur'.logger = cur.logger) => LoggerCurrent(i)'
         /\ (AppenderCurrent(i) /\ cur'.appender = cur.appender) => AppenderCurrent(i)'
         /\ (LayoutCurrent(i) /\ cur'.layout = cur.layout) => LayoutCurrent(i)'
<1>1. LastText' = LastText
  BY SameCall
<1>2. \A j : LoggerOpen(LastText, i, j)' = LoggerOpen(LastText, i, j)
  BY <1>1 DEF LoggerOpen, Item
<1>3. AppenderOpen(LastText, i)' = AppenderOpen(LastText, i)
  BY <1>1 DEF AppenderOpen, Item, AppenderTag
<1>4. LayoutOpen(LastText, i)' = LayoutOpen(LastText, i)
  BY <1>1 DEF LayoutOpen, AppenderOpen, Item, AppenderTag
<1>5. ASSUME LoggerCurrent(i), cur'.logger = cur.logger PROVE LoggerCurrent(i)'
  <2>1. ASSUME NEW j \in 1..i, LoggerOpen(LastText, i, j)
        PROVE  cur'.logger # 0 /\ cur'.logger = Lookup(loggers', Item(LastText, j).name)
    <3>1. cur.logger # 0 /\ cur.logger = Lookup(loggers, Item(LastText, j).name)
      BY <1>5, <2>1 DEF LoggerCurrent
    <3>2. Lookup(loggers', Item(LastText, j).name) = Lookup(loggers, Item(LastText, j).name)
      BY <3>1, LookupStays
    <3> QED
      BY <1>5, <3>1, <3>2
  <2>2. (\A j \in 1..i : ~LoggerOpen(LastText, i, j)) => cur'.logger = 0
    BY <1>5 DEF LoggerCurrent
  <2>3. \A j : Item(LastText, j)' = Item(LastText, j)
    BY <1>1 DEF Item
  <2> QED
    BY <1>2, <2>1, <2>2, <2>3 DEF LoggerCurrent
<1> QED
  BY <1>3, <1>4, <1>5 DEF AppenderCurrent, LayoutCurrent

\* No call is in progress when the configurator starts.
LEMMA InitCurrent == ConfiguratorInit => CurrentInv
BY DEF ConfiguratorInit, CurrentInv, OwnInv, TagInv, NoneCurrent

\* A tag or a line is read.
LEMMA ReadCurrent ==
  ASSUME IInv, CallsInv, CallsInv', HistoryInv, ShapeInv, CurrentInv, ConfiguratorNext, ReadItem
  PROVE  CurrentInv'
<1>1. job # Idle /\ done' = done /\ job.todo = << >> /\ loggers' = loggers
  BY DEF ReadItem, Ready, vars
<1>2. /\ job \in JobType /\ job.text = LastText /\ job.source = LastSource
      /\ LastText \in Texts /\ LastSource \in {"string", "file"}
      /\ Len(Seen(LastText)) \in Nat /\ job.at \in Nat
      /\ IsTag(LastText) <=> job.text.form = "xml"
  BY <1>1, AtWork
<1>a. PICK n \in Nat : n = job.at
  BY <1>2
<1>b. PICK i \in Nat : i = n + 1
  OBVIOUS
<1> DEFINE item == Item(LastText, i)
           todo == IF job.text.form = "xml" THEN TagCalls(item) ELSE LineCalls(item)
<1>3. /\ n < Len(Seen(LastText)) /\ job' = [job EXCEPT !.at = @ + 1, !.todo = todo]
      /\ cur' = IF IsTag(LastText) THEN cur ELSE NoneCurrent
  BY <1>2, <1>a, <1>b DEF ReadItem, Item
<1>4. i \in 1..Len(Seen(LastText)) /\ i \in Nat \ {0} /\ n \in Nat /\ i - 1 = n
  BY <1>2, <1>3, <1>b
<1>5. AllOf(LastText, LastSource, i, todo)
  BY <1>2, <1>4, TagCallsOfItem, LineCallsOfItem
<1>6. job'.at = i /\ job'.todo = todo
  BY <1>2, <1>3, <1>a, <1>b DEF JobType
<1>7. IsTag(LastText) => LoggerCurrent(n) /\ AppenderCurrent(n) /\ LayoutCurrent(n)
  BY <1>1, <1>a, CurrentBetween
<1> HIDE DEF todo
<1>8. \A op \in {"logger", "appender", "layout", "end"} : Wants(LastText, i, op) => todo # << >>
  <2>1. DOMAIN << >> = {}
    OBVIOUS
  <2> QED
    BY <1>5, <2>1 DEF AllOf
<1>9. ASSUME IsTag(LastText)
      PROVE  /\ (todo = << >> \/ item.kind # "logger") => LoggerCurrent(i)'
             /\ (todo = << >> \/ ~AppenderTag(item)) => AppenderCurrent(i)'
             /\ (todo = << >> \/ item.kind # "layout") => LayoutCurrent(i)'
             /\ LayoutCurrent(i - 1)'
  <2>1. item \in Tag
    BY <1>2, <1>4, <1>9, ItemType
  <2>2. item.kind \in {"logger", "layout"} => todo # << >>
    <3>1. item.kind \in {"logger", "layout"} => Wants(LastText, i, item.kind) \/ Wants(LastText, i, "end")
      BY <1>9 DEF Wants, Ended, EndTag
    <3> QED
      BY <1>8, <3>1
  <2>3. AppenderTag(item) => todo # << >>
    <3>1. AppenderTag(item) => Wants(LastText, i, "appender") \/ Wants(LastText, i, "end")
      BY <1>9 DEF Wants, Ended, EndTag, AppenderTag
    <3> QED
      BY <1>8, <3>1
  <2>4. cur' = cur
    BY <1>3, <1>9
  <2>5. item.kind # "logger" => LoggerCurrent(i)
    <3> SUFFICES ASSUME item.kind # "logger" PROVE LoggerCurrent(i)
      OBVIOUS
    <3>1. \A j : LoggerOpen(LastText, i, j) <=> LoggerOpen(LastText, n, j)
      BY <1>b, LoggerOpenNext
    <3>2. \A j : LoggerOpen(LastText, n, j) => j \in 1..n /\ j \in 1..i
      BY <1>4 DEF LoggerOpen
    <3> HIDE DEF item
    <3> QED
      BY <1>7, <1>9, <3>1, <3>2 DEF LoggerCurrent
  <2>6. ~AppenderTag(item) => AppenderCurrent(i)
    <3> SUFFICES ASSUME ~AppenderTag(item) PROVE AppenderCurrent(i)
      OBVIOUS
    <3>1. AppenderOpen(LastText, i) <=> AppenderOpen(LastText, n)
      BY <1>b, AppenderOpenNext DEF AppenderTag
    <3> QED
      BY <1>7, <1>9, <3>1 DEF AppenderCurrent
  <2>7. item.kind # "layout" => LayoutCurrent(i)
    <3> SUFFICES ASSUME item.kind # "layout" PROVE LayoutCurrent(i)
      OBVIOUS
    <3>1. LayoutOpen(LastText, i) <=> LayoutOpen(LastText, n)
      BY <1>b, LayoutOpenNext
    <3> QED
      BY <1>7, <1>9, <3>1 DEF LayoutCurrent
  <2>8. LayoutCurrent(i - 1)
    BY <1>4, <1>7, <1>9
  <2>9. \A k : /\ LoggerCurrent(k) => LoggerCurrent(k)'
               /\ AppenderCurrent(k) => AppenderCurrent(k)'
               /\ LayoutCurrent(k) => LayoutCurrent(k)'
    BY <1>1, <2>4, CurrentGoesOn
  <2> HIDE DEF item
  <2> QED
    BY <2>2, <2>3, <2>5, <2>6, <2>7, <2>8, <2>9
<1>10. (item.kind \in {"logger", "additivity"} /\ ~EndTag(LastText, i)) => todo[1].op = "logger"
  <2>1. (item.kind \in {"logger", "additivity"} /\ ~EndTag(LastText, i)) => Wants(LastText, i, "logger")
    <3>1. CASE IsTag(LastText)
      <4>1. item \in Tag
        BY <1>2, <1>4, <3>1, ItemType
      <4>2. item.kind # "additivity"
        BY <4>1 DEF Tag
      <4> QED
        BY <3>1, <4>2 DEF Wants
    <3>2. CASE ~IsTag(LastText)
      BY <3>2 DEF Wants
    <3> QED
      BY <3>1, <3>2
  <2> QED
    BY <1>5, <2>1 DEF AllOf
<1>11. ~IsTag(LastText) => cur'.appender = 0 /\ cur'.layout = 0
  BY <1>3 DEF NoneCurrent
<1> HIDE DEF item
<1> QED
  BY <1>1, <1>4, <1>6, <1>9, <1>10, <1>11, CurrentAt DEF item

\* Where a call of the API stands, and what is current then.
AtCall(op, i) ==
  /\ i \in Nat \ {0} /\ i \in Positions /\ job # Idle /\ job'.at = i /\ job.at = i /\ done' = done
  /\ LastText \in Texts
  /\ job.todo \in Seq(ApiCall) /\ job.todo # << >> /\ job.todo[1] \in ApiCall /\ job.todo[1].op = op
  /\ Head(job.todo) = job.todo[1] /\ job'.todo = Tail(job.todo) /\ job'.todo \in Seq(ApiCall)
  /\ RestOf(LastText, LastSource, i, job'.todo) /\ AsksFor(LastText, LastSource, i, job.todo[1])
  /\ op = "end" => job'.todo = << >>
  /\ (IsTag(LastText) /\ Ended(Item(LastText, i)) /\ op # "end") => job'.todo # << >>
  /\ IsTag(LastText) => Item(LastText, i) \in Tag
  /\ ~IsTag(LastText) => Item(LastText, i) \in Line
  /\ IsTag(LastText) =>
       /\ Item(LastText, i).kind # "logger" => LoggerCurrent(i)
       /\ ~AppenderTag(Item(LastText, i)) => AppenderCurrent(i)
       /\ Item(LastText, i).kind # "layout" => LayoutCurrent(i)
       /\ (Item(LastText, i).kind = "layout" /\ Item(LastText, i).shape = "start") => LayoutCurrent(i - 1)
  /\ (Item(LastText, i).kind \in {"logger", "additivity"} /\ ~EndTag(LastText, i) /\ op # "logger") =>
       cur.logger # 0 /\ cur.logger = Lookup(loggers, Item(LastText, i).name)
  /\ (~IsTag(LastText) /\ Item(LastText, i).kind \in {"logger", "additivity"}) =>
       cur.appender = 0 /\ cur.layout = 0

\* A call stands where the configurator stands.
LEMMA CallStands ==
  ASSUME CallsInv, HistoryInv, ShapeInv, CurrentInv, NEW op, Takes(op), op # "register"
  PROVE  \E i : AtCall(op, i)
<1>1. /\ job # Idle /\ job.at \in Positions /\ job.at > 0 /\ job.todo \in Seq(ApiCall) /\ job.todo # << >>
      /\ job.todo[1].op = op
      /\ RestOf(LastText, LastSource, job.at, job.todo)
      /\ RestOf(LastText, LastSource, job.at, job'.todo)
      /\ AsksFor(LastText, LastSource, job.at, job.todo[1])
  BY CallTaken
<1>2. /\ job.todo[1] \in ApiCall /\ Head(job.todo) = job.todo[1] /\ job'.todo = Tail(job.todo)
      /\ job'.at = job.at /\ job' \in JobType
  BY TakesProper
<1>3. job.at \in Nat /\ LastText \in Texts /\ Positions = 1..Len(Seen(LastText))
  BY <1>1, AtWork
<1>4. job'.todo \in Seq(ApiCall)
  BY <1>2 DEF JobType
<1>5. done' = done
  BY DEF Takes
<1>6. PICK i : i = job.at
  OBVIOUS
<1>7. i \in Nat \ {0} /\ i \in Positions /\ job.at = i /\ job'.at = i
  BY <1>1, <1>2, <1>3, <1>6
<1>8. /\ op = "end" => Tail(job.todo) = << >>
      /\ (IsTag(LastText) /\ Ended(Item(LastText, i)) /\ op # "end") => Tail(job.todo) # << >>
  BY <1>1, <1>6, TailRest
<1>9. /\ IsTag(LastText) => Item(LastText, i) \in Tag
      /\ ~IsTag(LastText) => Item(LastText, i) \in Line
  BY <1>3, <1>7, ItemType
<1>10. IsTag(LastText) =>
       /\ Item(LastText, i).kind # "logger" => LoggerCurrent(i)
       /\ ~AppenderTag(Item(LastText, i)) => AppenderCurrent(i)
       /\ Item(LastText, i).kind # "layout" => LayoutCurrent(i)
       /\ (Item(LastText, i).kind = "layout" /\ Item(LastText, i).shape = "start") => LayoutCurrent(i - 1)
  BY <1>1, <1>6 DEF CurrentInv, TagInv
<1>11. /\ (Item(LastText, i).kind \in {"logger", "additivity"} /\ ~EndTag(LastText, i) /\ op # "logger") =>
            cur.logger # 0 /\ cur.logger = Lookup(loggers, Item(LastText, i).name)
       /\ (~IsTag(LastText) /\ Item(LastText, i).kind \in {"logger", "additivity"}) =>
            cur.appender = 0 /\ cur.layout = 0
  BY <1>1, <1>6 DEF CurrentInv, OwnInv
<1>12. RestOf(LastText, LastSource, i, job'.todo) /\ AsksFor(LastText, LastSource, i, job.todo[1])
  BY <1>1, <1>6
<1>13. AtCall(op, i)
  BY <1>1, <1>2, <1>3, <1>4, <1>5, <1>7, <1>8, <1>9, <1>10, <1>11, <1>12 DEF AtCall
<1> QED
  BY <1>13

\* A call that leaves what is current.
LEMMA SameCurrent ==
  ASSUME IInv, CallsInv, HistoryInv, ShapeInv, CurrentInv, [ConfiguratorNext]_all,
         NEW op \in {"level", "ref", "param", "additivity"}, Takes(op), cur' = cur
  PROVE  CurrentInv'
<1>1. PICK i : AtCall(op, i)
  BY CallStands
<1> DEFINE item == Item(LastText, i)
<1>2. i \in Nat \ {0} /\ job'.at = i /\ done' = done
  BY <1>1 DEF AtCall
<1>3. /\ LoggerCurrent(i) => LoggerCurrent(i)'
      /\ AppenderCurrent(i) => AppenderCurrent(i)'
      /\ LayoutCurrent(i) => LayoutCurrent(i)'
  BY <1>2, CurrentGoesOn
<1>4. ASSUME IsTag(LastText), op # "additivity"
      PROVE  item.kind \in {"level", "ref", "param"}
  <2>1. AsksFor(LastText, LastSource, i, job.todo[1]) /\ job.todo[1].op = op /\ item \in Tag
    BY <1>1, <1>4 DEF AtCall
  <2>2. CASE op = "level"
    BY <1>4, <2>1, <2>2 DEF AsksFor, Wants
  <2>3. CASE op = "ref"
    BY <1>4, <2>1, <2>3 DEF AsksFor, WantsRef
  <2>4. CASE op = "param"
    <3>1. item.kind \in {"param", "option"}
      BY <2>1, <2>4 DEF AsksFor
    <3> QED
      BY <2>1, <3>1 DEF Tag
  <2> QED
    BY <1>4, <2>2, <2>3, <2>4
<1>5. ASSUME IsTag(LastText), op = "additivity"
      PROVE  item.kind = "logger" /\ ~EndTag(LastText, i) /\ (job'.todo = << >> => item.shape = "start")
  <2>1. Wants(LastText, i, op)
    BY <1>1, <1>5 DEF AtCall, AsksFor
  <2>2. item.kind = "logger" /\ ~EndTag(LastText, i)
    BY <1>5, <2>1 DEF Wants
  <2>3. job'.todo = << >> => ~Ended(item)
    BY <1>1, <1>5 DEF AtCall
  <2> QED
    BY <2>2, <2>3 DEF Ended
<1>6. ASSUME NEW n, cur.logger # 0, cur.logger = Lookup(loggers, n)
      PROVE  cur'.logger # 0 /\ cur'.logger = Lookup(loggers', n)
  BY <1>6, LookupStays
<1>7. ASSUME IsTag(LastText)
      PROVE  /\ (job'.todo = << >> \/ item.kind # "logger") => LoggerCurrent(i)'
             /\ (job'.todo = << >> \/ ~AppenderTag(item)) => AppenderCurrent(i)'
             /\ (job'.todo = << >> \/ item.kind # "layout") => LayoutCurrent(i)'
             /\ item.kind # "layout"
  <2>0. item.kind # "layout"
    BY <1>4, <1>5, <1>7
  <2>1. LayoutCurrent(i)'
    BY <1>1, <1>3, <1>7, <2>0 DEF AtCall
  <2>2. (job'.todo = << >> \/ ~AppenderTag(item)) => AppenderCurrent(i)'
    <3>1. job'.todo = << >> => ~Ended(item)
      BY <1>1, <1>7 DEF AtCall
    <3>2. job'.todo = << >> => ~AppenderTag(item)
      BY <1>4, <1>5, <1>7, <3>1 DEF Ended, AppenderTag
    <3> QED
      BY <1>1, <1>3, <1>7, <3>2 DEF AtCall
  <2>3. CASE op # "additivity"
    <3>1. item.kind # "logger"
      BY <1>4, <1>7, <2>3
    <3>2. LoggerCurrent(i)'
      BY <1>1, <1>3, <1>7, <3>1 DEF AtCall
    <3> QED
      BY <2>0, <2>1, <2>2, <3>2
  <2>4. CASE op = "additivity"
    <3>1. ASSUME job'.todo = << >> PROVE LoggerCurrent(i)'
      <4>1. item.kind = "logger" /\ item.shape = "start"
        BY <1>5, <1>7, <2>4, <3>1
      <4>2. PICK n \in Nat : n + 1 = i
        <5>1. i - 1 \in Nat /\ (i - 1) + 1 = i
          BY <1>2
        <5> QED
          BY <5>1
      <4>3. \A j : LoggerOpen(LastText, i, j) <=> j = i
        BY <4>1, <4>2, LoggerOpenNext
      <4>4. cur'.logger # 0 /\ cur'.logger = Lookup(loggers', item.name)
        <5>1. cur.logger # 0 /\ cur.logger = Lookup(loggers, item.name)
          BY <1>1, <1>5, <1>7, <2>4 DEF AtCall
        <5> QED
          BY <1>6, <5>1
      <4>5. LastText' = LastText /\ i \in 1..i
        BY <1>2, SameCall
      <4>6. \A j : LoggerOpen(LastText, i, j)' <=> j = i
        BY <4>3, <4>5 DEF LoggerOpen, Item
      <4> QED
        BY <4>4, <4>5, <4>6 DEF LoggerCurrent, Item
    <3> QED
      BY <1>5, <1>7, <2>0, <2>1, <2>2, <2>4, <3>1
  <2> QED
    BY <2>3, <2>4
<1>8. (item.kind \in {"logger", "additivity"} /\ ~EndTag(LastText, i)) =>
        cur'.logger # 0 /\ cur'.logger = Lookup(loggers', item.name)
  <2> SUFFICES ASSUME item.kind \in {"logger", "additivity"}, ~EndTag(LastText, i)
               PROVE  cur'.logger # 0 /\ cur'.logger = Lookup(loggers', item.name)
    OBVIOUS
  <2>1. cur.logger # 0 /\ cur.logger = Lookup(loggers, item.name)
    BY <1>1 DEF AtCall
  <2> QED
    BY <1>6, <2>1
<1>9. (~IsTag(LastText) /\ item.kind \in {"logger", "additivity"}) => cur'.appender = 0 /\ cur'.layout = 0
  BY <1>1 DEF AtCall
<1> HIDE DEF item
<1> QED
  BY <1>2, <1>7, <1>8, <1>9, CurrentAt DEF item

\* Names of appenders and loggers that are kept as they are.
NamesFit ==
  /\ \A n \in AppenderNames : KeptName[n] = n
  /\ \A n \in LoggerNames : Fits(n)

\* l4sc_get_logger makes the logger current that its item names.
LEMMA LoggerCall ==
  ASSUME NamesFit, IInv, CallsInv, CallLogger, NEW i, AtCall("logger", i)
  PROVE  LET item == Item(LastText, i) IN
         /\ item.kind \in {"logger", "additivity"} /\ ~EndTag(LastText, i)
         /\ item.name \in LoggerNames /\ item.name = job.todo[1].name
         /\ cur' = [cur EXCEPT !.logger = Lookup(loggers', item.name)]
         /\ Lookup(loggers', item.name) # 0
         /\ Lookup(loggers, item.name) # 0 => loggers' = loggers
         /\ \A l \in LoggerIds : loggers'[l] = loggers[l]
         /\ LoggerIds \subseteq LoggerIds'
<1> DEFINE item == Item(LastText, i)
<1>1. /\ job.todo[1] \in ApiCall /\ job.todo[1].op = "logger" /\ Head(job.todo) = job.todo[1]
      /\ AsksFor(LastText, LastSource, i, job.todo[1])
  BY DEF AtCall
<1>2. Wants(LastText, i, "logger") /\ job.todo[1].name = item.name
  BY <1>1 DEF AsksFor
<1>3. item.kind \in {"logger", "additivity"} /\ ~EndTag(LastText, i)
  <2>1. CASE IsTag(LastText)
    BY <1>2, <2>1 DEF Wants
  <2>2. CASE ~IsTag(LastText)
    BY <1>2, <2>2 DEF Wants, EndTag
  <2> QED
    BY <2>1, <2>2
<1>4. job.todo[1].name \in LoggerNames
  BY <1>1, CallType
<1>5. PICK n \in LoggerNames : n = item.name
  BY <1>2, <1>4
<1>6. GetLogger(n) /\ cur' = [cur EXCEPT !.logger = LoggerNamed(loggers, n)] /\ Fits(n)
  BY <1>1, <1>2, <1>5 DEF CallLogger, NamesFit
<1>7. /\ Lookup(loggers', n) = LoggerNamed(loggers, n) /\ Lookup(loggers', n) # 0
      /\ Lookup(loggers, n) # 0 => loggers' = loggers
      /\ \A l \in LoggerIds : loggers'[l] = loggers[l]
      /\ LoggerIds \subseteq LoggerIds'
  BY <1>6, LoggerAsked
<1> QED
  BY <1>2, <1>3, <1>5, <1>6, <1>7

\* What is current after a logger has been asked for.
LEMMA LoggerCurrentNow ==
  ASSUME NamesFit, IInv, CallsInv, HistoryInv, ShapeInv, CurrentInv, [ConfiguratorNext]_all, CallLogger
  PROVE  CurrentInv'
<1>0. Takes("logger")
  BY DEF CallLogger
<1>1. PICK i : AtCall("logger", i)
  BY <1>0, CallStands
<1> DEFINE item == Item(LastText, i)
<1>2. i \in Nat \ {0} /\ job'.at = i /\ done' = done
  BY <1>1 DEF AtCall
<1>3. /\ item.kind \in {"logger", "additivity"} /\ ~EndTag(LastText, i)
      /\ cur' = [cur EXCEPT !.logger = Lookup(loggers', item.name)]
      /\ Lookup(loggers', item.name) # 0
  BY <1>1, LoggerCall
<1>4. /\ cur'.logger # 0 /\ cur'.logger = Lookup(loggers', item.name)
      /\ cur'.appender = cur.appender /\ cur'.layout = cur.layout
  BY <1>3 DEF CallsInv
<1>5. /\ AppenderCurrent(i) => AppenderCurrent(i)'
      /\ LayoutCurrent(i) => LayoutCurrent(i)'
  BY <1>2, <1>4, CurrentGoesOn
<1>6. ASSUME IsTag(LastText)
      PROVE  /\ item.kind = "logger"
             /\ job'.todo = << >> => LoggerCurrent(i)'
             /\ AppenderCurrent(i)' /\ LayoutCurrent(i)'
  <2>1. item \in Tag
    BY <1>1, <1>6 DEF AtCall
  <2>2. item.kind = "logger"
    BY <1>3, <2>1 DEF Tag
  <2>3. AppenderCurrent(i) /\ LayoutCurrent(i)
    BY <1>1, <1>6, <2>2 DEF AtCall, AppenderTag
  <2>4. ASSUME job'.todo = << >> PROVE LoggerCurrent(i)'
    <3>1. ~Ended(item)
      BY <1>1, <1>6, <2>4 DEF AtCall
    <3>2. item.shape = "start"
      BY <2>2, <3>1 DEF Ended
    <3>3. PICK n \in Nat : n + 1 = i
      <4>1. i - 1 \in Nat /\ (i - 1) + 1 = i
        BY <1>2
      <4> QED
        BY <4>1
    <3>4. \A j : LoggerOpen(LastText, i, j) <=> j = i
      BY <2>2, <3>2, <3>3, LoggerOpenNext
    <3>5. LastText' = LastText /\ i \in 1..i
      BY <1>2, SameCall
    <3>6. \A j : LoggerOpen(LastText, i, j)' <=> j = i
      BY <3>4, <3>5 DEF LoggerOpen, Item
    <3> QED
      BY <1>4, <3>5, <3>6 DEF LoggerCurrent, Item
  <2> QED
    BY <1>5, <2>2, <2>3, <2>4
<1>7. (~IsTag(LastText) /\ item.kind \in {"logger", "additivity"}) => cur'.appender = 0 /\ cur'.layout = 0
  BY <1>1, <1>4 DEF AtCall
<1> HIDE DEF item
<1> QED
  BY <1>2, <1>4, <1>6, <1>7, CurrentAt DEF item

\* What is current after an appender has been asked for.
LEMMA AppenderCurrentNow ==
  ASSUME IInv, CallsInv, HistoryInv, ShapeInv, CurrentInv, [ConfiguratorNext]_all, CallAppender
  PROVE  CurrentInv'
<1>0. Takes("appender")
  BY DEF CallAppender
<1>1. PICK i : AtCall("appender", i)
  BY <1>0, CallStands
<1> DEFINE item == Item(LastText, i)
<1>2. i \in Nat \ {0} /\ job'.at = i /\ done' = done
  BY <1>1 DEF AtCall
<1>3. item.kind = "appender" /\ ~EndTag(LastText, i)
  <2>1. Wants(LastText, i, "appender")
    BY <1>1 DEF AtCall, AsksFor
  <2>2. CASE IsTag(LastText)
    BY <2>1, <2>2 DEF Wants
  <2>3. CASE ~IsTag(LastText)
    BY <2>1, <2>3 DEF Wants, EndTag
  <2> QED
    BY <2>2, <2>3
<1>4. cur'.logger = cur.logger /\ cur'.layout = cur.layout /\ cur'.appender # 0
  <2> DEFINE a == FindAppender(Head(job.todo).name)
             same == a # 0 /\ appenders[a].class = ClassOf(Head(job.todo).class)
  <2>1. cur' = [cur EXCEPT !.appender = IF same THEN a ELSE Len(appenders) + 1]
    BY DEF CallAppender
  <2>2. Len(appenders) + 1 # 0
    BY FoundAppender
  <2> HIDE DEF a
  <2>3. (IF same THEN a ELSE Len(appenders) + 1) # 0
    BY <2>2
  <2> QED
    BY <2>1, <2>3 DEF CallsInv
<1>5. /\ LoggerCurrent(i) => LoggerCurrent(i)'
      /\ LayoutCurrent(i) => LayoutCurrent(i)'
  BY <1>2, <1>4, CurrentGoesOn
<1>6. ASSUME IsTag(LastText)
      PROVE  /\ LoggerCurrent(i)' /\ LayoutCurrent(i)' /\ AppenderTag(item)
             /\ job'.todo = << >> => AppenderCurrent(i)'
  <2>1. LoggerCurrent(i) /\ LayoutCurrent(i)
    BY <1>1, <1>3, <1>6 DEF AtCall
  <2>2. ASSUME job'.todo = << >> PROVE AppenderCurrent(i)'
    <3>1. ~Ended(item)
      BY <1>1, <1>6, <2>2 DEF AtCall
    <3>2. item.shape = "start"
      BY <1>3, <3>1 DEF Ended
    <3>3. PICK n \in Nat : n + 1 = i
      <4>1. i - 1 \in Nat /\ (i - 1) + 1 = i
        BY <1>2
      <4> QED
        BY <4>1
    <3>4. AppenderOpen(LastText, i)
      BY <1>3, <3>2, <3>3, AppenderOpenNext
    <3>5. LastText' = LastText
      BY <1>2, SameCall
    <3> QED
      BY <1>4, <3>4, <3>5 DEF AppenderCurrent, AppenderOpen, Item, AppenderTag
  <2> QED
    BY <1>3, <1>5, <2>1, <2>2 DEF AppenderTag
<1>7. item.kind # "layout" /\ item.kind \notin {"logger", "additivity"}
  BY <1>3
<1> HIDE DEF item
<1> QED
  BY <1>2, <1>6, <1>7, CurrentAt DEF item

\* What is current after the call of a layout.
LEMMA LayoutCurrentNow ==
  ASSUME IInv, CallsInv, HistoryInv, ShapeInv, CurrentInv, [ConfiguratorNext]_all, CallLayout
  PROVE  CurrentInv'
<1>0. Takes("layout") /\ cur' = IF cur.appender # 0 THEN [cur EXCEPT !.layout = cur.appender] ELSE cur
  BY DEF CallLayout
<1>1. PICK i : AtCall("layout", i)
  BY <1>0, CallStands
<1> DEFINE item == Item(LastText, i)
<1>2. i \in Nat \ {0} /\ job'.at = i /\ done' = done
  BY <1>1 DEF AtCall
<1>3. Wants(LastText, i, "layout")
  BY <1>1 DEF AtCall, AsksFor
<1>4. item.kind \in {"layout", "option"}
  BY <1>3 DEF Wants
<1>5. cur'.logger = cur.logger /\ cur'.appender = cur.appender
      /\ cur'.layout = IF cur.appender # 0 THEN cur.appender ELSE cur.layout
  BY <1>0 DEF CallsInv
<1>6. /\ LoggerCurrent(i) => LoggerCurrent(i)'
      /\ AppenderCurrent(i) => AppenderCurrent(i)'
  BY <1>2, <1>5, CurrentGoesOn
<1>7. ASSUME IsTag(LastText)
      PROVE  /\ item.kind = "layout" /\ LoggerCurrent(i)' /\ AppenderCurrent(i)'
             /\ item.shape = "start" => job'.todo = << >>
             /\ job'.todo = << >> => LayoutCurrent(i)'
  <2>1. item.kind = "layout" /\ ~EndTag(LastText, i)
    BY <1>3, <1>7 DEF Wants
  <2>2. LoggerCurrent(i) /\ AppenderCurrent(i)
    BY <1>1, <1>7, <2>1 DEF AtCall, AppenderTag
  <2>3. ASSUME item.shape = "start", job'.todo # << >> PROVE FALSE
    <3>1. job'.todo \in Seq(ApiCall) /\ 1 \in DOMAIN job'.todo
      <4>1. job'.todo \in Seq(ApiCall)
        BY <1>1 DEF AtCall
      <4> QED
        BY <2>3, <4>1
    <3>2. AsksFor(LastText, LastSource, i, job'.todo[1]) /\ job'.todo[1] \in ApiCall
      <4>1. RestOf(LastText, LastSource, i, job'.todo)
        BY <1>1 DEF AtCall
      <4> QED
        BY <3>1, <4>1 DEF RestOf
    <3>3. job'.todo[1].op # "layout"
      <4>1. /\ RestOf(LastText, LastSource, job.at, job.todo) /\ job.todo[1].op = "layout"
            /\ job.todo \in Seq(ApiCall) /\ job.todo # << >>
        BY <1>0, CallTaken
      <4>2. \A x \in DOMAIN Tail(job.todo) : Tail(job.todo)[x].op # job.todo[1].op
        BY <4>1, TailRest
      <4>3. job'.todo = Tail(job.todo)
        BY <1>1 DEF AtCall
      <4> QED
        BY <3>1, <4>1, <4>2, <4>3
    <3>4. PICK c \in ApiCall : c = job'.todo[1]
      BY <3>2
    <3>5. c.op \in {"register", "logger", "level", "additivity", "ref", "find", "appender", "layout", "param", "end"}
      BY DEF ApiCall
    <3>6. AsksFor(LastText, LastSource, i, c) /\ c.op # "layout"
      BY <3>2, <3>3, <3>4
    <3>7. c.op \notin {"logger", "appender", "level", "additivity", "end"}
      <4>1. \A op \in {"logger", "appender", "level", "additivity", "end"} : ~Wants(LastText, i, op)
        BY <1>7, <2>1, <2>3 DEF Wants, Ended
      <4> QED
        BY <3>6, <4>1 DEF AsksFor
    <3>8. c.op # "ref"
      BY <1>7, <2>1, <3>6 DEF AsksFor, WantsRef
    <3>9. c.op \notin {"find", "param", "register"}
      BY <1>7, <2>1, <3>6 DEF AsksFor
    <3> QED
      BY <3>5, <3>6, <3>7, <3>8, <3>9
  <2>4. ASSUME job'.todo = << >> PROVE LayoutCurrent(i)'
    <3>1. item.shape = "start"
      <4>1. ~Ended(item)
        BY <1>1, <1>7, <2>4 DEF AtCall
      <4> QED
        BY <2>1, <4>1 DEF Ended
    <3>2. PICK n \in Nat : n + 1 = i /\ i - 1 = n
      <4>1. i - 1 \in Nat /\ (i - 1) + 1 = i
        BY <1>2
      <4> QED
        BY <4>1
    <3>3. LayoutCurrent(i - 1)
      BY <1>1, <1>7, <2>1, <3>1 DEF AtCall
    <3>4. LayoutCurrent(n)
      BY <3>2, <3>3
    <3>5. LayoutOpen(LastText, i) <=> AppenderOpen(LastText, i) \/ LayoutOpen(LastText, n)
      BY <2>1, <3>1, <3>2, LayoutOpenNext
    <3>6. cur'.layout # 0 <=> LayoutOpen(LastText, i)
      BY <1>5, <2>2, <3>4, <3>5 DEF AppenderCurrent, LayoutCurrent
    <3>7. LastText' = LastText
      BY <1>2, SameCall
    <3> QED
      BY <3>6, <3>7 DEF LayoutCurrent, LayoutOpen, AppenderOpen, Item, AppenderTag
  <2> QED
    BY <1>6, <2>1, <2>2, <2>3, <2>4
<1>8. item.kind \notin {"logger", "additivity"}
  BY <1>4
<1> HIDE DEF item
<1> QED
  BY <1>2, <1>7, <1>8, CurrentAt DEF item

\* What is current after the end of an element.
LEMMA EndCurrentNow ==
  ASSUME IInv, CallsInv, HistoryInv, ShapeInv, CurrentInv, [ConfiguratorNext]_all, CallEnd
  PROVE  CurrentInv'
<1>0. Takes("end") /\ cur' = [cur EXCEPT ![Head(job.todo).of] = 0]
  BY DEF CallEnd
<1>1. PICK i : AtCall("end", i)
  BY <1>0, CallStands
<1> DEFINE item == Item(LastText, i)
<1>2. i \in Nat \ {0} /\ job'.at = i /\ done' = done /\ job'.todo = << >> /\ Head(job.todo) = job.todo[1]
  BY <1>1 DEF AtCall
<1>3. /\ Wants(LastText, i, "end")
      /\ job.todo[1].of = IF item.kind = "ref" THEN "appender" ELSE item.kind
  BY <1>1 DEF AtCall, AsksFor
<1>4. IsTag(LastText) /\ Ended(item)
  BY <1>3 DEF Wants
<1>5. item.kind \in {"logger", "appender", "ref", "layout"} /\ item.shape # "start"
  BY <1>4 DEF Ended
<1>6. PICK n \in Nat : n + 1 = i
  <2>1. i - 1 \in Nat /\ (i - 1) + 1 = i
    BY <1>2
  <2> QED
    BY <2>1
<1>7. LastText' = LastText
  BY <1>2, SameCall
<1>8. CASE item.kind = "logger"
  <2>1. cur' = [cur EXCEPT !.logger = 0]
    BY <1>0, <1>2, <1>3, <1>8
  <2>2. cur'.logger = 0 /\ cur'.appender = cur.appender /\ cur'.layout = cur.layout
    BY <2>1 DEF CallsInv
  <2>3. AppenderCurrent(i) /\ LayoutCurrent(i)
    BY <1>1, <1>4, <1>8 DEF AtCall, AppenderTag
  <2>4. AppenderCurrent(i)' /\ LayoutCurrent(i)'
    BY <1>2, <2>2, <2>3, CurrentGoesOn
  <2>5. \A j : ~LoggerOpen(LastText, i, j)
    BY <1>5, <1>6, <1>8, LoggerOpenNext
  <2>6. \A j : ~LoggerOpen(LastText, i, j)'
    BY <1>7, <2>5 DEF LoggerOpen, Item
  <2>7. LoggerCurrent(i)'
    BY <2>2, <2>6 DEF LoggerCurrent
  <2> HIDE DEF item
  <2> QED
    BY <1>2, <2>4, <2>7, CurrentAt
<1>9. CASE item.kind \in {"appender", "ref"}
  <2>1. cur' = [cur EXCEPT !.appender = 0]
    BY <1>0, <1>2, <1>3, <1>9
  <2>2. cur'.logger = cur.logger /\ cur'.appender = 0 /\ cur'.layout = cur.layout
    BY <2>1 DEF CallsInv
  <2>3. LoggerCurrent(i) /\ LayoutCurrent(i)
    BY <1>1, <1>4, <1>9 DEF AtCall
  <2>4. LoggerCurrent(i)' /\ LayoutCurrent(i)'
    BY <1>2, <2>2, <2>3, CurrentGoesOn
  <2>5. ~AppenderOpen(LastText, i)
    BY <1>5, <1>6, <1>9, AppenderOpenNext DEF AppenderTag
  <2>6. AppenderCurrent(i)'
    BY <1>7, <2>2, <2>5 DEF AppenderCurrent, AppenderOpen, Item, AppenderTag
  <2> HIDE DEF item
  <2> QED
    BY <1>2, <2>4, <2>6, CurrentAt
<1>10. CASE item.kind = "layout"
  <2>1. cur' = [cur EXCEPT !.layout = 0]
    BY <1>0, <1>2, <1>3, <1>10
  <2>2. cur'.logger = cur.logger /\ cur'.appender = cur.appender /\ cur'.layout = 0
    BY <2>1 DEF CallsInv
  <2>3. LoggerCurrent(i) /\ AppenderCurrent(i)
    BY <1>1, <1>4, <1>10 DEF AtCall, AppenderTag
  <2>4. LoggerCurrent(i)' /\ AppenderCurrent(i)'
    BY <1>2, <2>2, <2>3, CurrentGoesOn
  <2>5. ~LayoutOpen(LastText, i)
    BY <1>5, <1>6, <1>10, LayoutOpenNext
  <2>6. LayoutCurrent(i)'
    BY <1>7, <2>2, <2>5 DEF LayoutCurrent, LayoutOpen, AppenderOpen, Item, AppenderTag
  <2> HIDE DEF item
  <2> QED
    BY <1>2, <2>4, <2>6, CurrentAt
<1> QED
  BY <1>5, <1>8, <1>9, <1>10

\* What is current after an appender has been looked for.
LEMMA FindCurrentNow ==
  ASSUME CallsInv, HistoryInv, ShapeInv, CurrentInv, CallFind
  PROVE  CurrentInv'
<1>1. /\ job.todo # << >> /\ Head(job.todo).op = "find" /\ done' = done
      /\ job' = [job EXCEPT !.todo = IF FindAppender(Head(job.todo).name) = 0 THEN << >> ELSE Tail(job.todo)]
  BY DEF CallFind
<1>2. job # Idle
  BY <1>1 DEF Idle
<1>3. job \in JobType /\ job.todo \in Seq(ApiCall) /\ job.at \in Nat
  BY <1>2, AtWork
<1>4. job'.at = job.at /\ job.todo[1].op = "find" /\ 1 \in DOMAIN job.todo
  BY <1>1, <1>3 DEF JobType
<1>5. job.at # 0 /\ RestOf(LastText, LastSource, job.at, job.todo)
  BY <1>1, <1>2, <1>4 DEF ShapeInv
<1>6. PICK i \in Nat \ {0} : i = job.at
  BY <1>3, <1>5
<1>7. ~IsTag(LastText) /\ Item(LastText, i).kind = "option"
  BY <1>4, <1>5, <1>6 DEF RestOf, AsksFor
<1>8. job'.at = i
  BY <1>4, <1>6
<1>9. Item(LastText, i).kind \notin {"logger", "additivity"}
  BY <1>7
<1> QED
  BY <1>1, <1>7, <1>8, <1>9, CurrentAt

\* What is current is what is open.
LEMMA NextCurrent ==
  ASSUME NamesFit, IInv, CallsInv, CallsInv', HistoryInv, ShapeInv, CurrentInv, [ConfiguratorNext]_all
  PROVE  CurrentInv'
<1>1. CASE UNCHANGED all
  BY <1>1 DEF all, vars, registry, configuring, CurrentInv, OwnInv, TagInv, LoggerCurrent, AppenderCurrent,
              LayoutCurrent, LastText, LastCall
<1>a. ASSUME job' = Idle \/ job'.at = 0, cur' = NoneCurrent
      PROVE  CurrentInv'
  <2>1. job' # Idle => job'.at = 0
    BY <1>a
  <2> QED
    BY <1>a, <2>1 DEF CurrentInv, OwnInv, TagInv
<1>2. CASE \E t \in Texts, source \in {"string", "file"} : Begin(t, source)
  <2>1. job'.at = 0 /\ cur' = cur /\ job = Idle
    BY <1>2 DEF Begin
  <2> QED
    BY <1>a, <2>1 DEF CurrentInv
<1>3. CASE Close \/ Register
  <2>1. job # Idle
    BY <1>3 DEF Close, Ready, Register, Takes, Idle
  <2>2. ~job.begun /\ job'.at = job.at /\ cur' = cur
    <3>1. CASE Close
      <4>1. job \in JobType
        BY <2>1, AtWork
      <4>2. ~job.begun /\ job' = [job EXCEPT !.begun = TRUE] /\ cur' = cur
        BY <3>1 DEF Close
      <4> QED
        BY <4>1, <4>2 DEF JobType
    <3>2. CASE Register
      <4>1. ~job.begun /\ cur' = cur
        BY <3>2, RegisterStep
      <4>2. Takes("register")
        BY <3>2 DEF Register
      <4>3. job'.at = job.at
        BY <4>2, TakesProper
      <4> QED
        BY <4>1, <4>3
    <3> QED
      BY <1>3, <3>1, <3>2
  <2>3. job.at = 0
    BY <2>1, <2>2 DEF ShapeInv
  <2> QED
    BY <1>a, <2>2, <2>3 DEF CurrentInv
<1>4. CASE Unreadable \/ Finish
  BY <1>4, <1>a DEF Unreadable, Finish
<1>5. CASE SecondPass
  <2>1. job' = [job EXCEPT !.pass = @ + 1, !.at = 0] /\ cur' = NoneCurrent /\ job # Idle
    BY <1>5 DEF SecondPass, Ready
  <2>2. job \in JobType
    BY <2>1, AtWork
  <2>3. job'.at = 0
    BY <2>1, <2>2 DEF JobType
  <2> QED
    BY <1>a, <2>1, <2>3
<1>6. CASE ReadItem
  BY <1>6, ReadCurrent DEF ConfiguratorNext
<1>7. CASE CallLevel \/ CallAdditivity \/ CallRef \/ CallParam
  <2>1. \E op \in {"level", "ref", "param", "additivity"} : Takes(op) /\ cur' = cur
    <3>1. cur' = cur
      BY <1>7 DEF CallLevel, CallAdditivity, CallRef, CallParam
    <3>2. Takes("level") \/ Takes("ref") \/ Takes("param") \/ Takes("additivity")
      BY <1>7 DEF CallLevel, CallAdditivity, CallRef, CallParam
    <3> QED
      BY <3>1, <3>2
  <2> QED
    BY <2>1, SameCurrent
<1> QED
  BY <1>1, <1>2, <1>3, <1>4, <1>5, <1>6, <1>7, LoggerCurrentNow, AppenderCurrentNow, LayoutCurrentNow,
     EndCurrentNow, FindCurrentNow DEF ConfiguratorNext

-----------------------------------------------------------------------------
(* What has been configured *)

\* The steps of a configurator that leave what is configured, and the others.
LEMMA StepKinds ==
  ASSUME [ConfiguratorNext]_all
  PROVE  \/ UNCHANGED all
         \/ \E t \in Texts, source \in {"string", "file"} : Begin(t, source)
         \/ Unreadable \/ Quiet
         \/ CallLogger \/ CallLevel \/ CallAdditivity \/ CallRef \/ CallAppender
BY DEF ConfiguratorNext, Quiet

\* A call that begins has made nothing yet, unless it repeats the one before.
LEMMA BeginMakes ==
  ASSUME HistoryInv, NEW t \in Texts, NEW source \in {"string", "file"}, Begin(t, source)
  PROVE  /\ job = Idle /\ job' # Idle /\ UNCHANGED vars
         /\ \A i \in Nat \ {0} : \A o : ~Made(i, o)' /\ (EverMade(i, o)' <=> Repetition')
         /\ \A i \in Nat \ {0} : \A r : EverMadeRef(i, r)' <=> Repetition'
         /\ \A i, o : Made(i, o) /\ EverMade(i, o)
         /\ \A i, r : EverMadeRef(i, r)
         /\ Repetition' =>
              /\ done # << >> /\ LastText' = LastText /\ LastSource' = LastSource /\ Positions' = Positions
              /\ Live' <=> Live
<1>1. /\ job = Idle /\ UNCHANGED vars
      /\ job' = [text |-> t, source |-> source, pass |-> 1, at |-> 0, begun |-> FALSE,
                 todo |-> [i \in DOMAIN ClassesPassed |-> Name("register", ClassesPassed[i])]]
      /\ done' = Append(done, [text |-> t, source |-> source, found |-> Contents, failed |-> FALSE])
  BY DEF Begin
<1>2. job'.pass = 1 /\ job'.at = 0
  BY <1>1
<1>3. job' # Idle
  BY <1>2 DEF Idle
<1>4. /\ Len(done') = Len(done) + 1 /\ Len(done) \in Nat
      /\ \A i \in 1..Len(done) : done'[i] = done[i]
      /\ done' # << >> /\ LastText' = t /\ LastSource' = source /\ ~LastCall.failed'
      /\ done = << >> <=> Len(done) = 0
  BY <1>1, HistoryGrows
<1>5. \A i \in Nat \ {0} : \A o : ~Made(i, o)'
  BY <1>2, <1>3 DEF Made
<1>6. \A i \in Nat \ {0} : \A r : ~MadeRef(i, r)'
  BY <1>2, <1>3 DEF MadeRef
<1>7. \A i, o : Made(i, o) /\ EverMade(i, o)
  BY <1>1 DEF Made, EverMade
<1>8. \A i, r : EverMadeRef(i, r)
  BY <1>1 DEF MadeRef, EverMadeRef
<1>9. ASSUME Repetition'
      PROVE  /\ done # << >> /\ LastText' = LastText /\ LastSource' = LastSource /\ Positions' = Positions
             /\ Live' <=> Live
  <2>1. /\ Len(done') > 1 /\ done'[Len(done') - 1].text = LastText'
        /\ done'[Len(done') - 1].source = LastSource' /\ ~done'[Len(done') - 1].failed
    BY <1>9 DEF Repetition
  <2>2. Len(done') - 1 = Len(done) /\ Len(done) > 0 /\ Len(done) \in 1..Len(done)
    BY <1>4, <2>1
  <2>3. done # << >> /\ LastText' = LastText /\ LastSource' = LastSource /\ ~LastCall.failed
    BY <1>4, <2>1, <2>2 DEF LastText, LastSource, LastCall
  <2>4. Positions' = Positions
    BY <2>3 DEF Positions
  <2>5. Live' <=> Live
    BY <1>4, <2>3 DEF Live
  <2> QED
    BY <2>3, <2>4, <2>5
<1>10. ASSUME NEW i \in Nat \ {0}, NEW o PROVE EverMade(i, o)' <=> Repetition'
  BY <1>2, <1>5 DEF EverMade
<1>11. ASSUME NEW i \in Nat \ {0}, NEW r PROVE EverMadeRef(i, r)' <=> Repetition'
  BY <1>6 DEF EverMadeRef
<1> QED
  BY <1>1, <1>3, <1>5, <1>7, <1>8, <1>9, <1>10, <1>11

\* Places of a text that is configured.
LEMMA PlaceType ==
  ASSUME HistoryInv, done # << >>
  PROVE  Positions = 1..Len(Seen(LastText)) /\ Positions \subseteq Nat \ {0} /\ LastText \in Texts
<1>1. LastText \in Texts
  BY LastCallType
<1>2. Len(Seen(LastText)) \in Nat /\ DOMAIN Seen(LastText) = 1..Len(Seen(LastText))
  BY <1>1, SeenItems
<1> QED
  BY <1>1, <1>2 DEF Positions

\* A file that cannot be read configures nothing.
LEMMA UnreadableIsDead ==
  ASSUME HistoryInv, ShapeInv, Unreadable
  PROVE  ~Live' /\ HistoryInv' /\ UNCHANGED vars /\ done # << >> /\ job # Idle
<1>1. job # Idle
  BY DEF Unreadable, Ready
<1>2. done # << >>
  BY <1>1 DEF ShapeInv
<1>3. done' = [done EXCEPT ![Len(done)].failed = TRUE]
  BY DEF Unreadable
<1>4. LastCall.failed' /\ HistoryInv'
  BY <1>2, <1>3, HistoryFails
<1> QED
  BY <1>1, <1>2, <1>4 DEF Live, Unreadable

\* What a text says does not change with the steps.
LEMMA TextAgain ==
  ASSUME LastText' = LastText, LastSource' = LastSource
  PROVE  /\ \A i, n : Names(LastText, i, n)' = Names(LastText, i, n)
         /\ \A i, n, k : Defines(LastText, i, n, k)' = Defines(LastText, i, n, k)
         /\ \A i, n, v : SetsLevel(LastText, i, n, v)' = SetsLevel(LastText, i, n, v)
         /\ \A i, n, v : SetsAdditivity(LastText, i, n, v)' = SetsAdditivity(LastText, i, n, v)
         /\ \A i, n, r : Attaches(LastText, LastSource, i, n, r)' = Attaches(LastText, LastSource, i, n, r)
BY DEF Names, Defines, SetsLevel, SetsAdditivity, Attaches, EndTag, IsTag, Item, RefsFrom,
       LoggerOpen, AppenderOpen, LayoutOpen, AppenderTag

\* A step that stays with the call of the configurator stays with its text.
LEMMA SameText ==
  ASSUME done' = done
  PROVE  /\ LastText' = LastText /\ LastSource' = LastSource /\ Positions' = Positions /\ Live' = Live
         /\ \A i, n : Names(LastText, i, n)' = Names(LastText, i, n)
         /\ \A i, n, k : Defines(LastText, i, n, k)' = Defines(LastText, i, n, k)
         /\ \A i, n, v : SetsLevel(LastText, i, n, v)' = SetsLevel(LastText, i, n, v)
         /\ \A i, n, v : SetsAdditivity(LastText, i, n, v)' = SetsAdditivity(LastText, i, n, v)
         /\ \A i, n, r : Attaches(LastText, LastSource, i, n, r)' = Attaches(LastText, LastSource, i, n, r)
<1>1. /\ LastText' = LastText /\ LastSource' = LastSource /\ Positions' = Positions /\ Live' = Live
  BY SameCall
<1> QED
  BY <1>1, TextAgain

\* The loggers that were asked for are in the list.
LEMMA NextNamed ==
  ASSUME NamesFit, IInv, CallsInv, CallsInv', HistoryInv, ShapeInv, CurrentInv, NamedInv,
         [ConfiguratorNext]_all
  PROVE  NamedInv'
<1> SUFFICES ASSUME Live', NEW i \in Positions', NEW n \in LoggerNames,
                    Names(LastText, i, n)', EverMade(i, "logger")'
             PROVE  Lookup(loggers', n) # 0
  BY DEF NamedInv
<1>1. CASE UNCHANGED all
  BY <1>1 DEF all, vars, registry, configuring, NamedInv, Live, LastCall, LastText, Positions, Names, EverMade,
              Made, Repetition, LastSource, Pending, Item, EndTag, IsTag
<1>2. CASE \E t \in Texts, source \in {"string", "file"} : Begin(t, source)
  <2>1. PICK t \in Texts, source \in {"string", "file"} : Begin(t, source)
    BY <1>2
  <2>2. HistoryInv' /\ done' # << >>
    BY <2>1, BeginShape DEF Live
  <2>3. i \in Nat \ {0}
    <3>1. (HistoryInv /\ done # << >> => Positions \subseteq Nat \ {0})'
      BY PlaceType, PTL
    <3> QED
      BY <2>2, <3>1
  <2>4. Repetition' /\ EverMade(i, "logger") /\ UNCHANGED vars
    BY <2>1, <2>3, BeginMakes
  <2>5. LastText' = LastText /\ LastSource' = LastSource /\ Positions' = Positions /\ Live
    BY <2>1, <2>4, BeginMakes
  <2>6. Names(LastText, i, n)
    BY <2>5, TextAgain
  <2> QED
    BY <2>4, <2>5, <2>6 DEF NamedInv, vars
<1>3. CASE Unreadable
  BY <1>3, UnreadableIsDead
<1>a. ASSUME done' = done, EverMade(i, "logger") PROVE Lookup(loggers', n) # 0
  <2>1. Live /\ i \in Positions /\ Names(LastText, i, n)
    BY <1>a, SameText
  <2>2. Lookup(loggers, n) # 0
    BY <1>a, <2>1 DEF NamedInv
  <2> QED
    BY <2>2, LookupStays
<1>b. ASSUME done' = done PROVE i \in Positions /\ Wants(LastText, i, "logger") /\ Item(LastText, i).name = n
  <2>1. Live /\ i \in Positions /\ Names(LastText, i, n)
    BY <1>b, SameText
  <2>2. LastText \in Texts /\ i \in 1..Len(Seen(LastText))
    BY <2>1, PlaceType DEF Live
  <2> QED
    BY <2>1, <2>2, SaysWants
<1>4. CASE Quiet
  <2>1. done' = done
    BY <1>4 DEF Quiet, Close, ReadItem, SecondPass, Finish, CallFind, CallLayout, CallParam, CallEnd,
                Register, Takes
  <2>2. EverMade(i, "logger")
    BY <1>4, <1>b, <2>1, QuietMakes DEF Settings
  <2> QED
    BY <1>a, <2>1, <2>2
<1>5. CASE CallLevel \/ CallAdditivity \/ CallRef \/ CallAppender
  <2>1. PICK op \in {"level", "additivity", "ref", "appender"} : Takes(op)
    BY <1>5 DEF CallLevel, CallAdditivity, CallRef, CallAppender
  <2>2. done' = done /\ op # "register" /\ op # "logger"
    BY <2>1 DEF Takes
  <2>3. EverMade(i, "logger")
    BY <1>b, <2>1, <2>2, TakesMakes
  <2> QED
    BY <1>a, <2>2, <2>3
<1>6. CASE CallLogger
  <2>1. Takes("logger") /\ done' = done
    BY <1>6 DEF CallLogger, Takes
  <2>2. CASE i = job.at
    <3>1. PICK j : AtCall("logger", j)
      BY <2>1, CallStands
    <3>2. j = i
      BY <2>2, <3>1 DEF AtCall
    <3>3. Lookup(loggers', Item(LastText, i).name) # 0
      BY <1>6, <3>1, <3>2, LoggerCall
    <3> QED
      BY <1>b, <2>1, <3>3
  <2>3. CASE i # job.at
    <3>1. EverMade(i, "logger")
      BY <1>b, <2>1, <2>3, TakesMakes
    <3> QED
      BY <1>a, <2>1, <3>1
  <2> QED
    BY <2>2, <2>3
<1> QED
  BY <1>1, <1>2, <1>3, <1>4, <1>5, <1>6, StepKinds

\* The name denotes an appender of the class that is asked for.
Stands(n, k) == FindAppender(n) # 0 /\ appenders[FindAppender(n)].class = ClassOf(k)

\* It goes on to do so as long as the appenders are the same.
LEMMA StandsSame ==
  ASSUME RegistryTypeOK, SameAppenders, UNCHANGED extra, NEW n, NEW k \in Kinds, Stands(n, k)
  PROVE  Stands(n, k)'
<1>1. Len(appenders) \in Nat
  BY DEF RegistryTypeOK
<1>2. FindAppender(n)' = FindAppender(n)
  BY SameFinds
<1>3. ClassOf(k)' = ClassOf(k)
  BY ResolutionKept
<1>4. FindAppender(n) \in AppenderIds
  BY <1>1, FindAppenderFinds DEF Stands
<1>5. appenders'[FindAppender(n)].class = appenders[FindAppender(n)].class
  BY <1>4 DEF SameAppenders
<1> QED
  BY <1>2, <1>3, <1>5 DEF Stands

\* The last appender of a list with this name, 0 when there is none.
Youngest(as, n) ==
  LET named == {a \in 1..Len(as) : as[a].name = n} IN
  IF named = {} THEN 0 ELSE CHOOSE a \in named : \A b \in named : b <= a

\* It is found where it stands.
LEMMA YoungestFound ==
  ASSUME NEW as, Len(as) \in Nat, NEW n
  PROVE  /\ Youngest(as, n) \in {0} \union 1..Len(as)
         /\ Youngest(as, n) # 0 => as[Youngest(as, n)].name = n
         /\ \A a \in 1..Len(as) :
              (as[a].name = n /\ \A b \in 1..Len(as) : as[b].name = n => b <= a) => Youngest(as, n) = a
<1> DEFINE named == {a \in 1..Len(as) : as[a].name = n}
           f == Youngest(as, n)
<1>1. CASE named = {}
  BY <1>1 DEF Youngest
<1>2. CASE named # {}
  <2>0. f = CHOOSE a \in named : \A b \in named : b <= a
    BY <1>2 DEF Youngest
  <2>1. named \subseteq 0..Len(as) /\ named \subseteq Nat
    <3>1. named \subseteq 1..Len(as)
      OBVIOUS
    <3>2. PICK len \in Nat : len = Len(as)
      OBVIOUS
    <3>3. \A a \in 1..len : a \in 0..len /\ a \in Nat
      OBVIOUS
    <3> HIDE DEF named
    <3> QED
      BY <3>1, <3>2, <3>3
  <2> HIDE DEF named, f
  <2>2. \E a \in named : \A b \in named : b <= a
    BY <1>2, <2>1, Greatest
  <2>3. f \in named /\ \A b \in named : b <= f
    BY <2>0, <2>2
  <2>4. ASSUME NEW a \in named, \A b \in named : b <= a PROVE f = a
    <3>1. a \in Nat /\ f \in Nat
      BY <2>1, <2>3
    <3>2. a <= f /\ f <= a
      BY <2>3, <2>4
    <3> QED
      BY <3>1, <3>2
  <2> QED
    BY <2>3, <2>4 DEF named, f
<1> QED
  BY <1>1, <1>2

\* After an appender has been created, its name denotes it.
LEMMA CreatedFinds ==
  ASSUME NamesFit, RegistryTypeOK, NEW n \in AppenderNames, NEW k \in Kinds, Created(n, k),
         NEW m \in AppenderNames
  PROVE  FindAppender(m)' = IF m = n THEN Len(appenders) + 1 ELSE FindAppender(m)
<1> DEFINE f == FindAppender(m)
           g == FindAppender(m)'
           new == Len(appenders) + 1
<1>1. Len(appenders) \in Nat /\ Len(appenders') = new /\ Len(appenders') \in Nat
  BY DEF Created, RegistryTypeOK
<1>2. /\ f \in {0} \union AppenderIds
      /\ f = 0 => \A a \in AppenderIds : appenders[a].name # m
      /\ f # 0 => /\ appenders[f].name = m
                  /\ \A b \in AppenderIds : appenders[b].name = m => b <= f
  BY <1>1, FindAppenderFinds
<1>3. /\ g \in {0} \union AppenderIds'
      /\ g # 0 => appenders'[g].name = m
      /\ \A a \in AppenderIds' :
           (appenders'[a].name = m
              /\ \A b \in AppenderIds' : appenders'[b].name = m => b <= a) => g = a
  <2>1. Youngest(appenders', m) = g
    BY DEF Youngest, FindAppender, AppenderIds
  <2> HIDE DEF g
  <2> QED
    BY <1>1, <2>1, YoungestFound DEF AppenderIds
<1>4. /\ appenders'[new].name = n
      /\ \A a \in AppenderIds :
           appenders'[a].name = IF a = FindAppender(n) THEN Obsolete ELSE appenders[a].name
  BY DEF Created, NamesFit
<1>5. AppenderIds' = AppenderIds \union {new} /\ new \notin AppenderIds /\ \A a \in AppenderIds' : a <= new
  BY <1>1 DEF AppenderIds
<1>6. m # Obsolete
  BY ObsoleteAssumption
<1> HIDE DEF f, g, new
<1>7. CASE m = n
  BY <1>3, <1>4, <1>5, <1>7 DEF g, new
<1>8. CASE m # n
  <2>1. ASSUME NEW a \in AppenderIds', appenders'[a].name = m
        PROVE  a \in AppenderIds /\ appenders[a].name = m
    BY <1>4, <1>5, <1>6, <1>8, <2>1
  <2>2. CASE f = 0
    <3>1. g = 0
      BY <1>2, <1>3, <2>1, <2>2
    <3> QED
      BY <1>8, <2>2, <3>1 DEF f, g
  <2>3. CASE f # 0
    <3>1. FindAppender(n) # f
      <4>1. FindAppender(n) # 0 => appenders[FindAppender(n)].name = n
        BY <1>1, FindAppenderFinds
      <4> QED
        BY <1>2, <1>8, <2>3, <4>1
    <3>2. f \in AppenderIds' /\ appenders'[f].name = m
      BY <1>2, <1>4, <1>5, <2>3, <3>1
    <3>3. g = f
      BY <1>2, <1>3, <2>1, <2>3, <3>2
    <3> QED
      BY <1>8, <3>3 DEF f, g
  <2> QED
    BY <2>2, <2>3
<1> QED
  BY <1>7, <1>8

\* What l4sc_get_appender does for an item of the text.
LEMMA AppenderCall ==
  ASSUME IInv, CallsInv, CallAppender, NEW i, AtCall("appender", i)
  PROVE  LET n == Item(LastText, i).name
             k == Item(LastText, i).class IN
         /\ n \in AppenderNames /\ k \in Kinds /\ Defines(LastText, i, n, k)
         /\ UNCHANGED <<loggers, adopted, extra>>
         /\ (UNCHANGED vars /\ Stands(n, k)) \/ (Created(n, k) /\ ~Stands(n, k))
<1>1. /\ job.todo[1] \in ApiCall /\ job.todo[1].op = "appender" /\ Head(job.todo) = job.todo[1]
      /\ AsksFor(LastText, LastSource, i, job.todo[1])
  BY DEF AtCall
<1>2. /\ Wants(LastText, i, "appender") /\ job.todo[1].name = Item(LastText, i).name
      /\ job.todo[1].class = Item(LastText, i).class
  BY <1>1 DEF AsksFor
<1>3. PICK n \in AppenderNames, k \in Kinds : n = Item(LastText, i).name /\ k = Item(LastText, i).class
  BY <1>1, <1>2, CallType
<1>4. Defines(LastText, i, n, k)
  <2>1. CASE IsTag(LastText)
    BY <1>2, <1>3, <2>1 DEF Wants, Defines
  <2>2. CASE ~IsTag(LastText)
    BY <1>2, <1>3, <2>2 DEF Wants, Defines, EndTag
  <2> QED
    BY <2>1, <2>2
<1>5. IF Stands(n, k) THEN UNCHANGED vars ELSE GetAppender(n, k) /\ UNCHANGED <<loggers, adopted>>
  BY <1>1, <1>2, <1>3 DEF CallAppender, Stands
<1>6. RegistryTypeOK
  BY DEF IInv, TypeOK
<1>7. CASE Stands(n, k)
  BY <1>3, <1>4, <1>5, <1>7 DEF vars, registry
<1>8. CASE ~Stands(n, k)
  <2>1. Created(n, k)
    BY <1>5, <1>6, <1>8, GetAppenderCreates
  <2>2. UNCHANGED extra
    BY <1>5, <1>8 DEF GetAppender
  <2> QED
    BY <1>3, <1>4, <1>5, <1>8, <2>1, <2>2
<1> QED
  BY <1>7, <1>8

\* Attaching an appender changes no name and no class.
LEMMA RefCall ==
  ASSUME IInv, CallsInv, CallRef
  PROVE  SameAppenders /\ UNCHANGED <<extra, adopted>>
<1> DEFINE a == FindAppender(Head(job.todo).name)
<1>1. TypeOK /\ Len(appenders) \in Nat /\ \A b \in AppenderIds : appenders[b] \in Appender
  BY SlotsAreTyped DEF IInv
<1>2. a \in {0} \union AppenderIds /\ cur.logger \in {0} \union LoggerIds
  BY FoundAppender DEF CallsInv
<1>3. IF a # 0 /\ cur.logger # 0 THEN SetAppender(cur.logger, a) ELSE UNCHANGED vars
  BY DEF CallRef
<1> HIDE DEF a
<1>4. CASE a # 0 /\ cur.logger # 0
  <2>1. PICK l \in LoggerIds, b \in AppenderIds : l = cur.logger /\ b = a
    BY <1>2, <1>4
  <2>2. SetAppender(l, b)
    BY <1>3, <1>4, <2>1
  <2>3. PICK C \in SUBSET Slots, attach \in BOOLEAN, first \in Nat : SlotStep(l, C, attach, b, first)
    BY <2>2, SetAppenderStep
  <2>4. SlotEffect(l, C, attach, b, first)
    BY <2>3, SlotStepEffect
  <2>5. appenders' = [c \in 1..Len(appenders) |-> appenders'[c]]
    BY <2>4 DEF SlotEffect, AppenderIds
  <2>6. Len(appenders') = Len(appenders)
    BY <1>1, <2>5, LenProperties
  <2>7. \A c \in AppenderIds : /\ appenders'[c].name = appenders[c].name
                               /\ appenders'[c].class = appenders[c].class
    <3> TAKE c \in AppenderIds
    <3>1. appenders'[c] = [appenders[c] EXCEPT !.refc =
             @ - Cardinality({i \in C : loggers[l].slots[i] = c}) + (IF attach /\ c = b THEN 1 ELSE 0)]
      BY <2>4 DEF SlotEffect
    <3>2. PICK r : appenders'[c] = [appenders[c] EXCEPT !.refc = r]
      BY <3>1
    <3> QED
      BY <1>1, <3>2 DEF Appender
  <2>8. UNCHANGED <<extra, adopted>>
    BY <2>3 DEF SlotStep
  <2> QED
    BY <2>6, <2>7, <2>8 DEF SameAppenders
<1>5. CASE ~(a # 0 /\ cur.logger # 0)
  BY <1>3, <1>5 DEF vars, registry, SameAppenders
<1> QED
  BY <1>4, <1>5

\* A step that configures nothing keeps the appenders, and the table of classes
\* unless it registers one.
LEMMA QuietAppenders ==
  ASSUME RegistryTypeOK, Quiet
  PROVE  SameAppenders /\ (Register \/ UNCHANGED extra) /\ UNCHANGED <<loggers, adopted>>
<1>1. CASE Close
  <2>1. appenders' = [a \in 1..Len(appenders) |-> [appenders[a] EXCEPT !.open = FALSE]] /\ UNCHANGED extra
        /\ UNCHANGED <<loggers, adopted>>
    BY <1>1 DEF Close, CloseAppenders, AppenderIds
  <2>2. Len(appenders) \in Nat /\ \A a \in 1..Len(appenders) : appenders[a] \in Appender
    BY DEF RegistryTypeOK
  <2>3. Len(appenders') = Len(appenders)
    BY <2>1, <2>2, LenProperties
  <2>4. \A a \in 1..Len(appenders) : /\ appenders'[a].name = appenders[a].name
                                     /\ appenders'[a].class = appenders[a].class
    BY <2>1, <2>2 DEF Appender
  <2> QED
    BY <2>1, <2>3, <2>4 DEF SameAppenders, AppenderIds
<1>2. CASE Register
  BY <1>2 DEF Register, RegisterExtraClass, SameAppenders
<1>3. CASE ReadItem \/ SecondPass \/ Finish \/ CallFind \/ CallLayout \/ CallParam \/ CallEnd
  BY <1>3 DEF ReadItem, SecondPass, Finish, CallFind, CallLayout, CallParam, CallEnd, vars, registry, SameAppenders
<1> QED
  BY <1>1, <1>2, <1>3 DEF Quiet

\* Steps that configure nothing, and those that do, stay with the call.
LEMMA CallGoesOn ==
  ASSUME Quiet \/ CallLogger \/ CallLevel \/ CallAdditivity \/ CallRef \/ CallAppender
  PROVE  done' = done
BY DEF Quiet, Close, ReadItem, SecondPass, Finish, CallFind, CallLayout, CallParam, CallEnd, Register, Takes,
       CallLogger, CallLevel, CallAdditivity, CallRef, CallAppender

\* Places that a step leaves are places.
LEMMA PlacesNext ==
  ASSUME HistoryInv', Live', NEW i \in Positions'
  PROVE  i \in Nat \ {0}
<1>1. (HistoryInv /\ done # << >> => Positions \subseteq Nat \ {0})'
  BY PlaceType, PTL
<1>2. done' # << >>
  BY DEF Live
<1> QED
  BY <1>1, <1>2

\* What has been defined in a call that begins was defined in the one before.
LEMMA SameEverything ==
  ASSUME UNCHANGED all
  PROVE  /\ done' = done /\ job' = job /\ cur' = cur /\ appenders' = appenders /\ loggers' = loggers
         /\ extra' = extra
         /\ \A i, o : Made(i, o)' = Made(i, o) /\ EverMade(i, o)' = EverMade(i, o)
         /\ \A i, r : EverMadeRef(i, r)' = EverMadeRef(i, r)
         /\ \A n : FindAppender(n)' = FindAppender(n)
         /\ \A n : Lookup(loggers, n)' = Lookup(loggers, n)
         /\ \A n, k : Stands(n, k)' = Stands(n, k)
BY DEF all, vars, registry, configuring, Made, EverMade, EverMadeRef, MadeRef, Pending, PendingRef, Repetition,
       LastText, LastSource, LastCall, IsTag, FindAppender, AppenderIds, Stands, ClassOf, IsExtraClass,
       IsClassInUse

\* The appenders that were defined stand.
LEMMA NextDefined ==
  ASSUME NamesFit, IInv, CallsInv, CallsInv', HistoryInv, HistoryInv', ShapeInv, RegisteredInv, CurrentInv,
         DefinedInv, [ConfiguratorNext]_all
  PROVE  DefinedInv'
<1> SUFFICES ASSUME Live', NEW i \in Positions', NEW n \in AppenderNames, NEW k \in Kinds,
                    Defines(LastText, i, n, k)', EverMade(i, "appender")'
             PROVE  Stands(n, k)'
  BY DEF DefinedInv, Stands
<1>0. RegistryTypeOK
  BY DEF IInv, TypeOK
<1>t. (done' = done) => /\ Live /\ i \in Positions /\ Defines(LastText, i, n, k)
                        /\ Wants(LastText, i, "appender") /\ LastText \in Texts
                        /\ i \in 1..Len(Seen(LastText))
  <2> SUFFICES ASSUME done' = done
               PROVE  /\ Live /\ i \in Positions /\ Defines(LastText, i, n, k)
                      /\ Wants(LastText, i, "appender") /\ LastText \in Texts
                      /\ i \in 1..Len(Seen(LastText))
    OBVIOUS
  <2>1. Live /\ i \in Positions /\ Defines(LastText, i, n, k)
    BY SameText
  <2>2. LastText \in Texts /\ i \in 1..Len(Seen(LastText))
    BY <2>1, PlaceType DEF Live
  <2> QED
    BY <2>1, <2>2, SaysWants
<1>a. ASSUME done' = done, EverMade(i, "appender"), SameAppenders, UNCHANGED extra
      PROVE  Stands(n, k)'
  <2>1. Stands(n, k)
    BY <1>a, <1>t DEF DefinedInv, Stands
  <2> QED
    BY <1>0, <1>a, <2>1, StandsSame
<1>1. CASE UNCHANGED all
  BY <1>1, <1>t, SameEverything DEF DefinedInv, Stands
<1>2. CASE \E t \in Texts, source \in {"string", "file"} : Begin(t, source)
  <2>1. PICK t \in Texts, source \in {"string", "file"} : Begin(t, source)
    BY <1>2
  <2>2. i \in Nat \ {0}
    BY PlacesNext
  <2>3. Repetition' /\ EverMade(i, "appender") /\ UNCHANGED vars
    BY <2>1, <2>2, BeginMakes
  <2>4. LastText' = LastText /\ LastSource' = LastSource /\ Positions' = Positions /\ Live
    BY <2>1, <2>3, BeginMakes
  <2>5. Defines(LastText, i, n, k)
    BY <2>4, TextAgain
  <2>6. Stands(n, k)
    BY <2>3, <2>4, <2>5 DEF DefinedInv, Stands
  <2>7. SameAppenders /\ UNCHANGED extra
    BY <2>3 DEF vars, registry, SameAppenders
  <2> QED
    BY <1>0, <2>6, <2>7, StandsSame
<1>3. CASE Unreadable
  BY <1>3, UnreadableIsDead
<1>4. CASE Quiet
  <2>1. done' = done
    BY <1>4, CallGoesOn
  <2>2. EverMade(i, "appender")
    BY <1>4, <1>t, <2>1, QuietMakes DEF Settings
  <2>3. SameAppenders /\ (Register \/ UNCHANGED extra)
    BY <1>0, <1>4, QuietAppenders
  <2>4. CASE UNCHANGED extra
    BY <1>a, <2>1, <2>2, <2>3, <2>4
  <2>5. CASE Register
    <3>1. CASE Repetition
      <4>1. UNCHANGED extra
        BY <2>5, <3>1, RegisteredAgain
      <4> QED
        BY <2>4, <4>1
    <3>2. CASE ~Repetition
      <4>1. job # Idle /\ ~job.begun
        BY <2>5, RegisterStep
      <4>2. job.at = 0 /\ job.pass = 1
        BY <4>1 DEF ShapeInv
      <4>3. i \in Nat \ {0}
        BY <1>t, <2>1, PlaceType DEF Live
      <4>4. ~EverMade(i, "appender")
        BY <3>2, <4>1, <4>2, <4>3 DEF EverMade, Made
      <4> QED
        BY <2>2, <4>4
    <3> QED
      BY <3>1, <3>2
  <2> QED
    BY <2>3, <2>4, <2>5
<1>5. CASE CallLogger \/ CallLevel \/ CallAdditivity \/ CallRef
  <2>1. PICK op \in {"logger", "level", "additivity", "ref"} : Takes(op)
    BY <1>5 DEF CallLevel, CallAdditivity, CallRef, CallLogger
  <2>2. done' = done /\ op # "register" /\ op # "appender"
    BY <2>1 DEF Takes
  <2>3. EverMade(i, "appender")
    BY <1>t, <2>1, <2>2, TakesMakes
  <2>4. SameAppenders /\ UNCHANGED extra
    <3>1. CASE CallRef
      BY <3>1, RefCall
    <3>2. CASE CallLogger \/ CallLevel \/ CallAdditivity
      <4>1. UNCHANGED registry
        BY <3>2 DEF CallLogger, GetLogger, CallLevel, SetLevel, vars, CallAdditivity, SetAdditivity
      <4> QED
        BY <4>1 DEF registry, SameAppenders
    <3> QED
      BY <1>5, <3>1, <3>2
  <2> QED
    BY <1>a, <2>2, <2>3, <2>4
<1>6. CASE CallAppender
  <2>1. Takes("appender") /\ done' = done
    BY <1>6 DEF CallAppender, Takes
  <2>2. PICK j : AtCall("appender", j)
    BY <2>1, CallStands
  <2>3. j = job.at /\ j \in Positions
    BY <2>2 DEF AtCall
  <2>4. PICK m \in AppenderNames, h \in Kinds :
           /\ m = Item(LastText, j).name /\ h = Item(LastText, j).class /\ Defines(LastText, j, m, h)
           /\ UNCHANGED <<loggers, adopted, extra>>
           /\ (UNCHANGED vars /\ Stands(m, h)) \/ (Created(m, h) /\ ~Stands(m, h))
    BY <1>6, <2>2, AppenderCall
  <2>5. n = m => k = h
    <3>1. j \in 1..Len(Seen(LastText)) /\ Orderly(LastText)
      BY <1>t, <2>1, <2>3, PlaceType DEF Live
    <3> QED
      BY <1>t, <2>1, <2>4, <3>1, OrderlySeen
  <2>6. n # m => EverMade(i, "appender")
    <3>1. n # m => i # job.at
      BY <1>t, <2>1, <2>3, <2>4 DEF Defines
    <3> QED
      BY <1>t, <2>1, <3>1, TakesMakes
  <2>7. CASE UNCHANGED vars /\ Stands(m, h)
    <3>1. SameAppenders
      BY <2>7 DEF vars, registry, SameAppenders
    <3>2. CASE n = m
      BY <1>0, <2>4, <2>5, <2>7, <3>1, <3>2, StandsSame
    <3>3. CASE n # m
      BY <1>a, <2>1, <2>4, <2>6, <3>1, <3>3
    <3> QED
      BY <3>2, <3>3
  <2>8. CASE Created(m, h)
    <3>1. FindAppender(n)' = IF n = m THEN Len(appenders) + 1 ELSE FindAppender(n)
      BY <1>0, <2>8, CreatedFinds
    <3>2. ClassOf(k)' = ClassOf(k)
      BY <1>0, <2>4, <2>8, ResolutionKept
    <3>3. Len(appenders) \in Nat
      BY <1>0 DEF RegistryTypeOK
    <3>4. CASE n = m
      <4>1. appenders'[Len(appenders) + 1].class = ClassOf(k)
        BY <2>5, <2>8, <3>4 DEF Created
      <4>2. Len(appenders) + 1 # 0
        BY <3>3
      <4> QED
        BY <3>1, <3>2, <3>4, <4>1, <4>2 DEF Stands
    <3>5. CASE n # m
      <4>1. Stands(n, k)
        BY <1>t, <2>1, <2>6, <3>5 DEF DefinedInv, Stands
      <4>2. FindAppender(n) \in AppenderIds
        BY <3>3, <4>1, FindAppenderFinds DEF Stands
      <4>3. appenders'[FindAppender(n)].class = appenders[FindAppender(n)].class
        BY <2>8, <4>2 DEF Created
      <4> QED
        BY <3>1, <3>2, <3>5, <4>1, <4>3 DEF Stands
    <3> QED
      BY <3>4, <3>5
  <2> QED
    BY <2>4, <2>7, <2>8
<1> QED
  BY <1>1, <1>2, <1>3, <1>4, <1>5, <1>6, StepKinds

\* What set_logger_appender does to the slots of a logger.
LEMMA SlotsAfter ==
  ASSUME IInv, NEW l \in LoggerIds, NEW a \in AppenderIds, SetAppender(l, a)
  PROVE  LET slots == loggers[l].slots
             new == loggers'[l].slots IN
         /\ \A m \in LoggerIds : m # l => loggers'[m] = loggers[m]
         /\ LoggerIds' = LoggerIds /\ \E s : loggers'[l] = [loggers[l] EXCEPT !.slots = s]
         /\ \A s \in Slots : (slots[s] # 0 /\ ~IsObsolete(slots[s])) => new[s] = slots[s]
         /\ \A s \in Slots : new[s] # 0 => new[s] = a \/ (new[s] = slots[s] /\ ~IsObsolete(slots[s]))
         /\ (\E s \in Slots : new[s] = a) \/ (\A s \in Slots : new[s] # 0)
         /\ (/\ \A s \in Slots : slots[s] # 0 => ~IsObsolete(slots[s])
             /\ (\E s \in Slots : slots[s] = a) \/ (\A s \in Slots : slots[s] # 0)) =>
              loggers' = loggers /\ appenders' = appenders
<1> DEFINE slots == loggers[l].slots
           stale == {i \in Slots : slots[i] # 0 /\ IsObsolete(slots[i])}
           swept == Without(slots, stale)
           free == {i \in Slots : swept[i] = 0}
           first == CHOOSE i \in free : \A j \in free : i <= j
           attach == free # {} /\ \A i \in Slots : swept[i] # a
           released == Release(slots, stale)
           next == IF attach THEN [swept EXCEPT ![first] = a] ELSE swept
           new == loggers'[l].slots
<1>1. /\ appenders' = IF attach THEN [released EXCEPT ![a].refc = @ + 1] ELSE released
      /\ loggers' = [loggers EXCEPT ![l].slots = next]
  BY DEF SetAppender
<1>2. /\ Len(loggers) \in Nat /\ Len(appenders) \in Nat
      /\ DOMAIN loggers = LoggerIds /\ DOMAIN appenders = AppenderIds
      /\ loggers[l] \in LoggerType /\ slots \in [Slots -> {0} \union AppenderIds]
      /\ \A b \in AppenderIds : appenders[b] \in Appender
      /\ loggers \in Seq(LoggerType) /\ appenders \in Seq(Appender)
  BY SlotsAreTyped DEF IInv, TypeOK, RegistryTypeOK
<1>3. swept = [i \in Slots |-> IF i \in stale THEN 0 ELSE slots[i]]
  BY DEF Without
<1>4. \A i \in Slots : i \in stale <=> slots[i] # 0 /\ IsObsolete(slots[i])
  OBVIOUS
<1>5. \A i \in Slots : i \in free <=> swept[i] = 0
  OBVIOUS
<1>6. free # {} => first \in free
  <2>1. free \subseteq Nat
    <3>1. Slots \subseteq Nat
      BY SizesAssumption DEF Slots
    <3> QED
      BY <3>1
  <2> HIDE DEF free
  <2>2. free # {} => \E x \in free : \A y \in free : x <= y
    BY <2>1, Least
  <2> QED
    BY <2>2
<1>7. free \subseteq Slots /\ a # 0
  BY <1>2 DEF AppenderIds
<1> HIDE DEF stale, swept, free, first, released
<1>8. new = next /\ loggers'[l] = [loggers[l] EXCEPT !.slots = next]
      /\ \A m \in LoggerIds : m # l => loggers'[m] = loggers[m]
  <2> HIDE DEF next
  <2>1. loggers'[l] = [loggers[l] EXCEPT !.slots = next]
    BY <1>1, <1>2
  <2>2. new = next
    BY <1>2, <2>1 DEF LoggerType
  <2> QED
    BY <1>1, <1>2, <2>1, <2>2
<1>9. LoggerIds' = LoggerIds
  <2> HIDE DEF next
  <2>1. Len(loggers') = Len(loggers)
    BY <1>1, <1>2
  <2> QED
    BY <2>1 DEF LoggerIds
<1>10. \A s \in Slots : next[s] = IF attach /\ s = first THEN a ELSE IF s \in stale THEN 0 ELSE slots[s]
  <2>1. CASE attach
    BY <1>3, <1>6, <1>7, <2>1
  <2>2. CASE ~attach
    BY <1>3, <2>2
  <2> QED
    BY <2>1, <2>2
<1>11. ASSUME NEW s \in Slots, slots[s] # 0, ~IsObsolete(slots[s])
       PROVE  next[s] = slots[s]
  <2>1. s \notin stale
    BY <1>4, <1>11
  <2>2. swept[s] # 0
    BY <1>3, <1>11, <2>1
  <2>3. attach => s # first
    BY <1>5, <1>6, <2>2
  <2> HIDE DEF next, attach
  <2> QED
    BY <1>10, <2>1, <2>3
<1>12. ASSUME NEW s \in Slots, next[s] # 0
       PROVE  next[s] = a \/ (next[s] = slots[s] /\ ~IsObsolete(slots[s]))
  <2> HIDE DEF next, attach
  <2> QED
    BY <1>4, <1>10, <1>12
<1>13. (\E s \in Slots : next[s] = a) \/ (\A s \in Slots : next[s] # 0)
  <2>1. CASE attach
    <3>1. first \in Slots
      BY <1>6, <1>7, <2>1
    <3> HIDE DEF next, attach
    <3> QED
      BY <1>10, <2>1, <3>1
  <2>2. CASE ~attach
    <3>1. next = swept
      BY <2>2
    <3>2. free = {} \/ \E i \in Slots : swept[i] = a
      BY <2>2
    <3>3. free = {} => \A i \in Slots : swept[i] # 0
      BY <1>5
    <3> QED
      BY <3>1, <3>2, <3>3
  <2> QED
    BY <2>1, <2>2
<1>14. ASSUME \A s \in Slots : slots[s] # 0 => ~IsObsolete(slots[s]),
              (\E s \in Slots : slots[s] = a) \/ (\A s \in Slots : slots[s] # 0)
       PROVE  loggers' = loggers /\ appenders' = appenders
  <2>1. stale = {}
    BY <1>14 DEF stale
  <2>2. swept = slots
    BY <1>2, <1>3, <2>1
  <2>3. ~attach
    BY <1>5, <1>7, <1>14, <2>2
  <2>4. loggers' = [loggers EXCEPT ![l].slots = slots] /\ appenders' = released
    BY <1>1, <2>2, <2>3
  <2>5. loggers' = loggers
    <3>1. [loggers[l] EXCEPT !.slots = slots] = loggers[l]
      BY <1>2 DEF LoggerType
    <3>2. loggers \in [LoggerIds -> LoggerType]
      BY <1>2 DEF LoggerIds
    <3>3. PICK x : x = [loggers[l] EXCEPT !.slots = slots]
      OBVIOUS
    <3>4. loggers' = [loggers EXCEPT ![l] = x]
      BY <2>4, <3>3
    <3>5. x = loggers[l]
      BY <3>1, <3>3
    <3> QED
      BY <3>2, <3>4, <3>5
  <2>6. appenders' = appenders
    <3>1. released = [b \in AppenderIds |-> [appenders[b] EXCEPT !.refc =
                        @ - Cardinality({i \in {} : slots[i] = b})]]
      BY <2>1 DEF Release, released
    <3>2. \A b : Cardinality({i \in {} : slots[i] = b}) = 0
      <4> TAKE b
      <4>1. {i \in {} : slots[i] = b} = {}
        OBVIOUS
      <4> QED
        BY <4>1, FS_EmptySet
    <3>3. \A b \in AppenderIds : released[b] = appenders[b]
      <4> TAKE b \in AppenderIds
      <4>1. appenders[b] \in Appender
        BY <1>2
      <4>2. released[b] = [appenders[b] EXCEPT !.refc = @ - 0]
        BY <3>1, <3>2
      <4>3. appenders[b].refc - 0 = appenders[b].refc
        BY <4>1 DEF Appender
      <4> QED
        BY <4>1, <4>2, <4>3 DEF Appender
    <3>4. appenders = [b \in AppenderIds |-> appenders[b]]
      BY <1>2
    <3> QED
      BY <2>4, <3>1, <3>3, <3>4
  <2> QED
    BY <2>5, <2>6
<1>15. \E s : loggers'[l] = [loggers[l] EXCEPT !.slots = s]
  BY <1>8
<1> HIDE DEF next, attach
<1> QED
  BY <1>8, <1>9, <1>11, <1>12, <1>13, <1>14, <1>15

\* What a logger holds it holds on as long as its slots and the names of the
\* appenders are the same.
LEMMA HoldsSame ==
  ASSUME TypeOK, SameAppenders, NEW l \in LoggerIds, NEW a, Holds(l, a),
         loggers'[l].slots = loggers[l].slots
  PROVE  Holds(l, a)'
<1>1. loggers[l].slots \in [Slots -> {0} \union AppenderIds]
  BY SlotsAreTyped
<1>2. ASSUME NEW s \in Slots, loggers[l].slots[s] # 0
      PROVE  IsObsolete(loggers[l].slots[s])' <=> IsObsolete(loggers[l].slots[s])
  <2>1. PICK b \in AppenderIds : b = loggers[l].slots[s]
    BY <1>1, <1>2
  <2>2. appenders'[b].name = appenders[b].name
    BY <2>1 DEF SameAppenders
  <2> QED
    BY <2>1, <2>2 DEF IsObsolete
<1>3. \A s \in Slots : loggers[l].slots[s] # 0 => ~IsObsolete(loggers[l].slots[s])
  BY DEF Holds
<1>4. \A s \in Slots : loggers[l].slots[s] # 0 => appenders'[loggers[l].slots[s]].name # Obsolete
  BY <1>2, <1>3 DEF IsObsolete
<1> QED
  BY <1>4 DEF Holds, IsObsolete

\* A reference stands for the logger that its item speaks of.
LEMMA RefLogger ==
  ASSUME NEW i, AtCall("ref", i), NEW n \in LoggerNames, NEW r, Attaches(LastText, LastSource, i, n, r)
  PROVE  cur.logger # 0 /\ cur.logger = Lookup(loggers, n)
<1>1. CASE IsTag(LastText)
  <2>1. Item(LastText, i).kind = "ref" /\ \E j \in 1..i : LoggerOpen(LastText, i, j) /\ Item(LastText, j).name = n
    BY <1>1 DEF Attaches
  <2>2. LoggerCurrent(i)
    BY <1>1, <2>1 DEF AtCall
  <2> QED
    BY <2>1, <2>2 DEF LoggerCurrent
<1>2. CASE ~IsTag(LastText)
  <2>1. Item(LastText, i).kind = "logger" /\ Item(LastText, i).name = n
    BY <1>2 DEF Attaches
  <2> QED
    BY <1>2, <2>1 DEF AtCall, EndTag
<1> QED
  BY <1>1, <1>2

\* A reference attaches the appender of its name to the logger that is
\* current, if there are both.
LEMMA RefAttaches ==
  ASSUME IInv, CallsInv, CallRef, NEW i, AtCall("ref", i)
  PROVE  \E r \in AppenderNames :
           /\ r = job.todo[1].name
           /\ IF FindAppender(r) # 0 /\ cur.logger # 0
                THEN /\ cur.logger \in LoggerIds /\ FindAppender(r) \in AppenderIds
                     /\ SetAppender(cur.logger, FindAppender(r))
                ELSE UNCHANGED vars
<1>1. /\ job.todo[1] \in ApiCall /\ job.todo[1].op = "ref" /\ Head(job.todo) = job.todo[1]
  BY DEF AtCall
<1>2. PICK r \in AppenderNames : r = job.todo[1].name
  BY <1>1, CallType
<1>3. FindAppender(r) \in {0} \union AppenderIds /\ cur.logger \in {0} \union LoggerIds
  BY FoundAppender DEF CallsInv
<1>4. IF FindAppender(r) # 0 /\ cur.logger # 0 THEN SetAppender(cur.logger, FindAppender(r)) ELSE UNCHANGED vars
  BY <1>1, <1>2 DEF CallRef
<1> QED
  BY <1>2, <1>3, <1>4

\* An appender that has a name is not obsolete.
LEMMA FoundIsKept ==
  ASSUME RegistryTypeOK, NEW r \in AppenderNames, FindAppender(r) # 0
  PROVE  ~IsObsolete(FindAppender(r)) /\ appenders[FindAppender(r)].name = r /\ FindAppender(r) \in AppenderIds
<1>1. Len(appenders) \in Nat
  BY DEF RegistryTypeOK
<1>2. appenders[FindAppender(r)].name = r /\ FindAppender(r) \in AppenderIds
  BY <1>1, FindAppenderFinds
<1>3. r # Obsolete
  BY ObsoleteAssumption
<1> QED
  BY <1>2, <1>3 DEF IsObsolete

\* Attaching an appender leaves every logger what it holds, and the logger
\* holds it then.
LEMMA AttachHolds ==
  ASSUME IInv, NEW x \in LoggerIds, NEW a \in AppenderIds, SetAppender(x, a), ~IsObsolete(a), SameAppenders
  PROVE  /\ Holds(x, a)'
         /\ \A l \in LoggerIds : \A b : Holds(l, b) => Holds(l, b)'
<1>0. TypeOK /\ loggers[x].slots \in [Slots -> {0} \union AppenderIds] /\ 0 \notin LoggerIds /\ a # 0
  BY SlotsAreTyped DEF IInv, LoggerIds, AppenderIds
<1>1. /\ \A m \in LoggerIds : m # x => loggers'[m] = loggers[m]
      /\ \A s \in Slots : (loggers[x].slots[s] # 0 /\ ~IsObsolete(loggers[x].slots[s])) =>
           loggers'[x].slots[s] = loggers[x].slots[s]
      /\ \A s \in Slots : loggers'[x].slots[s] # 0 =>
           loggers'[x].slots[s] = a
             \/ (loggers'[x].slots[s] = loggers[x].slots[s] /\ ~IsObsolete(loggers[x].slots[s]))
      /\ (\E s \in Slots : loggers'[x].slots[s] = a) \/ (\A s \in Slots : loggers'[x].slots[s] # 0)
  BY SlotsAfter
<1>2. \A b \in AppenderIds : IsObsolete(b)' <=> IsObsolete(b)
  BY DEF IsObsolete, SameAppenders
<1>3. ASSUME NEW s \in Slots, loggers'[x].slots[s] # 0
      PROVE  appenders'[loggers'[x].slots[s]].name # Obsolete
  <2>1. CASE loggers'[x].slots[s] = a
    <3>1. appenders'[a].name # Obsolete
      BY <1>2 DEF IsObsolete
    <3> QED
      BY <2>1, <3>1
  <2>2. CASE loggers'[x].slots[s] = loggers[x].slots[s] /\ ~IsObsolete(loggers[x].slots[s])
    <3>1. PICK b \in AppenderIds : b = loggers[x].slots[s]
      BY <1>0, <1>3, <2>2
    <3>2. appenders'[b].name # Obsolete
      BY <1>2, <2>2, <3>1 DEF IsObsolete
    <3> QED
      BY <2>2, <3>1, <3>2
  <2> QED
    BY <1>1, <1>3, <2>1, <2>2
<1>4. Holds(x, a)'
  BY <1>0, <1>1, <1>3 DEF Holds, IsObsolete
<1>5. ASSUME NEW l \in LoggerIds, NEW b, Holds(l, b) PROVE Holds(l, b)'
  <2>1. CASE l # x
    BY <1>0, <1>1, <1>5, <2>1, HoldsSame
  <2>2. CASE l = x
    <3>1. \A s \in Slots : loggers[x].slots[s] # 0 => loggers'[x].slots[s] = loggers[x].slots[s]
      BY <1>1, <1>5, <2>2 DEF Holds, IsObsolete
    <3>2. CASE \A s \in Slots : loggers[x].slots[s] # 0
      <4>1. \A s \in Slots : loggers'[x].slots[s] # 0
        BY <3>1, <3>2
      <4> QED
        BY <1>0, <1>3, <2>2, <4>1 DEF Holds, IsObsolete
    <3>3. CASE \E s \in Slots : loggers[x].slots[s] = b
      <4>1. b # 0 => \E s \in Slots : loggers'[x].slots[s] = b
        BY <3>1, <3>3
      <4>2. b = 0 => \/ \E s \in Slots : loggers'[x].slots[s] = b
                     \/ \A s \in Slots : loggers'[x].slots[s] # 0
        OBVIOUS
      <4> QED
        BY <1>0, <1>3, <2>2, <4>1, <4>2 DEF Holds, IsObsolete
    <3> QED
      BY <1>5, <2>2, <3>2, <3>3 DEF Holds, IsObsolete
  <2> QED
    BY <2>1, <2>2
<1> QED
  BY <1>4, <1>5

\* What setting a level does to the loggers.
LEMMA LevelSet ==
  ASSUME IInv, NEW l \in LoggerIds, NEW v, SetLevel(l, v)
  PROVE  /\ LoggerIds' = LoggerIds /\ UNCHANGED <<registry, adopted>>
         /\ \A m \in LoggerIds : m # l => loggers'[m] = loggers[m]
         /\ loggers'[l] = [loggers[l] EXCEPT !.level = v] /\ loggers'[l].level = v
         /\ \A m \in LoggerIds : /\ loggers'[m].slots = loggers[m].slots
                                 /\ loggers'[m].additivity = loggers[m].additivity
                                 /\ Plain(loggers'[m]) = Plain(loggers[m])
<1>1. /\ DOMAIN loggers = LoggerIds /\ Len(loggers) \in Nat /\ \A m \in LoggerIds : loggers[m] \in LoggerType
      /\ loggers \in Seq(LoggerType)
  BY SlotsAreTyped DEF IInv, TypeOK
<1>2. loggers' = [loggers EXCEPT ![l].level = v] /\ UNCHANGED <<registry, adopted>>
  BY DEF SetLevel
<1>3. loggers'[l] = [loggers[l] EXCEPT !.level = v] /\ \A m \in LoggerIds : m # l => loggers'[m] = loggers[m]
  BY <1>1, <1>2
<1>4. LoggerIds' = LoggerIds
  <2>1. Len(loggers') = Len(loggers)
    BY <1>1, <1>2
  <2> QED
    BY <2>1 DEF LoggerIds
<1>5. /\ loggers'[l].level = v /\ loggers'[l].slots = loggers[l].slots
      /\ loggers'[l].additivity = loggers[l].additivity
  BY <1>1, <1>3 DEF LoggerType
<1>6. Plain(loggers'[l]) = Plain(loggers[l])
  BY <1>1, <1>3 DEF LoggerType, Plain
<1> QED
  BY <1>2, <1>3, <1>4, <1>5, <1>6

\* The same of an additivity.
LEMMA AdditivitySet ==
  ASSUME IInv, NEW l \in LoggerIds, NEW v, SetAdditivity(l, v)
  PROVE  /\ LoggerIds' = LoggerIds /\ UNCHANGED <<registry, adopted>>
         /\ \A m \in LoggerIds : m # l => loggers'[m] = loggers[m]
         /\ loggers'[l] = [loggers[l] EXCEPT !.additivity = v] /\ loggers'[l].additivity = v
         /\ \A m \in LoggerIds : /\ loggers'[m].slots = loggers[m].slots
                                 /\ loggers'[m].level = loggers[m].level
                                 /\ Plain(loggers'[m]) = Plain(loggers[m])
<1>1. /\ DOMAIN loggers = LoggerIds /\ Len(loggers) \in Nat /\ \A m \in LoggerIds : loggers[m] \in LoggerType
      /\ loggers \in Seq(LoggerType)
  BY SlotsAreTyped DEF IInv, TypeOK
<1>2. loggers' = [loggers EXCEPT ![l].additivity = v] /\ UNCHANGED <<registry, adopted>>
  BY DEF SetAdditivity
<1>3. loggers'[l] = [loggers[l] EXCEPT !.additivity = v] /\ \A m \in LoggerIds : m # l => loggers'[m] = loggers[m]
  BY <1>1, <1>2
<1>4. LoggerIds' = LoggerIds
  <2>1. Len(loggers') = Len(loggers)
    BY <1>1, <1>2
  <2> QED
    BY <2>1 DEF LoggerIds
<1>5. /\ loggers'[l].additivity = v /\ loggers'[l].slots = loggers[l].slots
      /\ loggers'[l].level = loggers[l].level
  BY <1>1, <1>3 DEF LoggerType
<1>6. Plain(loggers'[l]) = Plain(loggers[l])
  BY <1>1, <1>3 DEF LoggerType, Plain
<1> QED
  BY <1>2, <1>3, <1>4, <1>5, <1>6

\* A level is set for the logger that is current, unless an appender or a
\* layout is.
LEMMA LevelCall ==
  ASSUME CallsInv, CallLevel, NEW i, AtCall("level", i)
  PROVE  /\ job.todo[1].value \in Levels
         /\ IF cur.layout = 0 /\ cur.appender = 0 /\ cur.logger # 0
              THEN cur.logger \in LoggerIds /\ SetLevel(cur.logger, job.todo[1].value)
              ELSE UNCHANGED vars
<1>1. job.todo[1] \in ApiCall /\ job.todo[1].op = "level" /\ Head(job.todo) = job.todo[1]
  BY DEF AtCall
<1>2. job.todo[1].value \in Levels
  BY <1>1, CallType
<1>3. cur.logger \in {0} \union LoggerIds
  BY DEF CallsInv
<1>4. IF Target[1] = "logger" THEN SetLevel(Target[2], job.todo[1].value) ELSE UNCHANGED vars
  BY <1>1 DEF CallLevel
<1>5. IF cur.layout = 0 /\ cur.appender = 0 /\ cur.logger # 0
        THEN Target[1] = "logger" /\ Target[2] = cur.logger ELSE Target[1] # "logger"
  BY DEF Target
<1> QED
  BY <1>2, <1>3, <1>4, <1>5

\* An additivity is set for the logger that is current.
LEMMA AdditivityCall ==
  ASSUME CallsInv, CallAdditivity, NEW i, AtCall("additivity", i)
  PROVE  /\ job.todo[1].value \in Additivities
         /\ cur.logger \in LoggerIds /\ SetAdditivity(cur.logger, job.todo[1].value)
<1>1. job.todo[1] \in ApiCall /\ job.todo[1].op = "additivity" /\ Head(job.todo) = job.todo[1] /\ job.todo # << >>
  BY DEF AtCall
<1>2. job.todo[1].value \in Additivities
  BY <1>1, CallType
<1>3. cur.logger \in {0} \union LoggerIds /\ cur.logger # 0
  BY <1>1 DEF CallsInv
<1> QED
  BY <1>1, <1>2, <1>3 DEF CallAdditivity

\* An appender is created before any reference of the text stands.
LEMMA CreatedFirst ==
  ASSUME IInv, CallsInv, HistoryInv, ShapeInv, CurrentInv, DefinedInv, Live,
         NEW j, AtCall("appender", j),
         ~Stands(Item(LastText, j).name, Item(LastText, j).class), CallAppender,
         NEW i \in Positions, NEW n \in LoggerNames, NEW r \in AppenderNames,
         Attaches(LastText, LastSource, i, n, r)
  PROVE  ~EverMadeRef(i, r)
<1>1. PICK m \in AppenderNames, h \in Kinds :
        /\ m = Item(LastText, j).name /\ h = Item(LastText, j).class /\ Defines(LastText, j, m, h)
  BY AppenderCall
<1>2. j \in Positions /\ job # Idle /\ job.at = j
  BY DEF AtCall
<1>3. ~EverMade(j, "appender")
  BY <1>1, <1>2 DEF DefinedInv, Stands
<1>4. ~Repetition /\ job.pass # 2
  BY <1>3 DEF EverMade
<1>5. CASE ~IsTag(LastText)
  BY <1>2, <1>4, <1>5 DEF EverMadeRef
<1>6. CASE IsTag(LastText)
  <2>1. Item(LastText, i).kind = "ref"
    BY <1>6 DEF Attaches
  <2>2. Item(LastText, j).kind = "appender" /\ ~EndTag(LastText, j)
    BY <1>1 DEF Defines
  <2>3. /\ i \in 1..Len(Seen(LastText)) /\ j \in 1..Len(Seen(LastText)) /\ LastText \in Texts
        /\ Len(Seen(LastText)) \in Nat
    BY <1>2, PlaceType, AtWork DEF Live
  <2>4. j < i
    BY <1>6, <2>1, <2>2, <2>3, OrderlySeen DEF Live
  <2>5. ~(i < job.at) /\ i # job.at
    BY <1>2, <2>3, <2>4
  <2>6. ~MadeRef(i, r)
    BY <1>2, <2>5 DEF MadeRef
  <2> QED
    BY <1>4, <2>6 DEF EverMadeRef
<1> QED
  BY <1>5, <1>6

\* The references that were made stand.
LEMMA NextAttached ==
  ASSUME NamesFit, IInv, CallsInv, CallsInv', HistoryInv, HistoryInv', ShapeInv, CurrentInv,
         DefinedInv, AttachedInv, [ConfiguratorNext]_all
  PROVE  AttachedInv'
<1> SUFFICES ASSUME Live', NEW i \in Positions', NEW n \in LoggerNames, NEW r \in AppenderNames,
                    Attaches(LastText, LastSource, i, n, r)', EverMadeRef(i, r)', FindAppender(r)' # 0
             PROVE  Holds(Lookup(loggers, n), FindAppender(r))'
  BY DEF AttachedInv
<1>0. RegistryTypeOK /\ TypeOK /\ Len(appenders) \in Nat /\ DOMAIN loggers = LoggerIds
  BY SlotsAreTyped DEF IInv, TypeOK
<1>t. (done' = done) => /\ Live /\ i \in Positions /\ Attaches(LastText, LastSource, i, n, r)
                        /\ WantsRef(LastText, LastSource, i, r) /\ LastText \in Texts
                        /\ i \in 1..Len(Seen(LastText))
  <2> SUFFICES ASSUME done' = done
               PROVE  /\ Live /\ i \in Positions /\ Attaches(LastText, LastSource, i, n, r)
                      /\ WantsRef(LastText, LastSource, i, r) /\ LastText \in Texts
                      /\ i \in 1..Len(Seen(LastText))
    OBVIOUS
  <2>1. Live /\ i \in Positions /\ Attaches(LastText, LastSource, i, n, r)
    BY SameText
  <2>2. LastText \in Texts /\ i \in 1..Len(Seen(LastText))
    BY <2>1, PlaceType DEF Live
  <2> QED
    BY <2>1, <2>2, SaysWants
<1>w. ASSUME SameAppenders
      PROVE  FindAppender(r)' = FindAppender(r) /\ FindAppender(r) # 0
  BY <1>w, SameFinds
<1>l. ASSUME NEW l, NEW a, l = Lookup(loggers, n), a = FindAppender(r), Holds(l, a), Holds(l, a)',
             SameAppenders
      PROVE  Holds(Lookup(loggers, n), FindAppender(r))'
  <2>1. l # 0
    BY <1>l DEF Holds
  <2>2. Lookup(loggers', n) = l
    BY <1>l, <2>1, LookupStays
  <2>3. FindAppender(r)' = a
    BY <1>l, <1>w
  <2> QED
    BY <1>l, <2>2, <2>3 DEF Holds
<1>a. ASSUME Live, i \in Positions, Attaches(LastText, LastSource, i, n, r), EverMadeRef(i, r), SameAppenders,
             \A l \in LoggerIds : loggers'[l].slots = loggers[l].slots
      PROVE  Holds(Lookup(loggers, n), FindAppender(r))'
  <2>1. PICK l, a : l = Lookup(loggers, n) /\ a = FindAppender(r)
    OBVIOUS
  <2>2. Holds(l, a)
    BY <1>a, <1>w, <2>1 DEF AttachedInv
  <2>3. l \in LoggerIds
    <3>1. l # 0
      BY <2>2 DEF Holds
    <3> QED
      BY <1>0, <2>1, <3>1, LookupFinds DEF LoggerIds
  <2>4. Holds(l, a)'
    BY <1>0, <1>a, <2>2, <2>3, HoldsSame
  <2> QED
    BY <1>a, <1>l, <2>1, <2>2, <2>4
<1>1. CASE UNCHANGED all
  <2>1. SameAppenders /\ \A l \in LoggerIds : loggers'[l].slots = loggers[l].slots
    BY <1>1, SameEverything DEF SameAppenders
  <2> QED
    BY <1>1, <1>a, <1>t, <2>1, SameEverything
<1>2. CASE \E t \in Texts, source \in {"string", "file"} : Begin(t, source)
  <2>1. PICK t \in Texts, source \in {"string", "file"} : Begin(t, source)
    BY <1>2
  <2>2. i \in Nat \ {0}
    BY PlacesNext
  <2>3. Repetition' /\ EverMadeRef(i, r) /\ UNCHANGED vars
    BY <2>1, <2>2, BeginMakes
  <2>4. LastText' = LastText /\ LastSource' = LastSource /\ Positions' = Positions /\ Live
    BY <2>1, <2>3, BeginMakes
  <2>5. Attaches(LastText, LastSource, i, n, r)
    BY <2>4, TextAgain
  <2>6. SameAppenders /\ \A l \in LoggerIds : loggers'[l].slots = loggers[l].slots
    BY <2>3 DEF vars, registry, SameAppenders
  <2> QED
    BY <1>a, <2>3, <2>4, <2>5, <2>6
<1>3. CASE Unreadable
  BY <1>3, UnreadableIsDead
<1>4. CASE Quiet
  <2>1. done' = done
    BY <1>4, CallGoesOn
  <2>2. EverMadeRef(i, r)
    BY <1>4, <1>t, <2>1, QuietMakes
  <2>3. SameAppenders /\ UNCHANGED loggers
    BY <1>0, <1>4, QuietAppenders
  <2> QED
    BY <1>a, <1>t, <2>1, <2>2, <2>3
<1>5. CASE CallLogger \/ CallLevel \/ CallAdditivity
  <2>1. PICK op \in {"logger", "level", "additivity"} : Takes(op)
    BY <1>5 DEF CallLevel, CallAdditivity, CallLogger
  <2>2. done' = done /\ op # "register" /\ op # "ref"
    BY <2>1 DEF Takes
  <2>3. EverMadeRef(i, r)
    BY <1>t, <2>1, <2>2, TakesMakes
  <2>4. SameAppenders
    <3>1. UNCHANGED registry
      BY <1>5 DEF CallLogger, GetLogger, CallLevel, SetLevel, vars, CallAdditivity, SetAdditivity
    <3> QED
      BY <3>1 DEF registry, SameAppenders
  <2>5. \A l \in LoggerIds : loggers'[l].slots = loggers[l].slots
    <3>1. CASE CallLogger
      <4>1. PICK j : AtCall("logger", j)
        BY <3>1, CallStands DEF CallLogger
      <4>2. \A l \in LoggerIds : loggers'[l] = loggers[l]
        BY <3>1, <4>1, LoggerCall
      <4> QED
        BY <4>2
    <3>2. CASE CallLevel
      <4>1. PICK j : AtCall("level", j)
        BY <3>2, CallStands DEF CallLevel
      <4>2. UNCHANGED vars \/ \E l \in LoggerIds : \E v : SetLevel(l, v)
        BY <3>2, <4>1, LevelCall
      <4> QED
        BY <4>2, LevelSet DEF vars
    <3>3. CASE CallAdditivity
      <4>1. PICK j : AtCall("additivity", j)
        BY <3>3, CallStands DEF CallAdditivity
      <4>2. \E l \in LoggerIds : \E v : SetAdditivity(l, v)
        BY <3>3, <4>1, AdditivityCall
      <4> QED
        BY <4>2, AdditivitySet
    <3> QED
      BY <1>5, <3>1, <3>2, <3>3
  <2> QED
    BY <1>a, <1>t, <2>2, <2>3, <2>4, <2>5
<1>6. CASE CallAppender
  <2>1. Takes("appender") /\ done' = done
    BY <1>6 DEF CallAppender, Takes
  <2>2. PICK j : AtCall("appender", j)
    BY <2>1, CallStands
  <2>3. EverMadeRef(i, r)
    BY <1>t, <2>1, TakesMakes
  <2>4. Stands(Item(LastText, j).name, Item(LastText, j).class)
    BY <1>6, <1>t, <2>1, <2>2, <2>3, CreatedFirst
  <2>5. UNCHANGED vars
    BY <1>6, <2>2, <2>4, AppenderCall
  <2>6. SameAppenders /\ \A l \in LoggerIds : loggers'[l].slots = loggers[l].slots
    BY <2>5 DEF vars, registry, SameAppenders
  <2> QED
    BY <1>a, <1>t, <2>1, <2>3, <2>6
<1>7. CASE CallRef
  <2>1. Takes("ref") /\ done' = done
    BY <1>7 DEF CallRef, Takes
  <2>2. PICK j : AtCall("ref", j)
    BY <2>1, CallStands
  <2>3. PICK q \in AppenderNames :
           /\ q = job.todo[1].name
           /\ IF FindAppender(q) # 0 /\ cur.logger # 0
                THEN /\ cur.logger \in LoggerIds /\ FindAppender(q) \in AppenderIds
                     /\ SetAppender(cur.logger, FindAppender(q))
                ELSE UNCHANGED vars
    BY <1>7, <2>2, RefAttaches
  <2>4. SameAppenders
    BY <1>7, RefCall
  <2>5. CASE ~(FindAppender(q) # 0 /\ cur.logger # 0)
    <3>1. UNCHANGED vars
      BY <2>3, <2>5
    <3>2. CASE EverMadeRef(i, r)
      BY <1>a, <1>t, <2>1, <2>4, <3>1, <3>2 DEF vars
    <3>3. CASE ~EverMadeRef(i, r)
      <4>1. i = job.at /\ r = q
        BY <1>t, <2>1, <2>3, <3>3, TakesMakes
      <4>2. j = i
        BY <2>2, <4>1 DEF AtCall
      <4>3. cur.logger # 0
        BY <1>t, <2>1, <2>2, <4>2, RefLogger
      <4>4. FindAppender(r) # 0
        BY <1>w, <2>4
      <4> QED
        BY <2>5, <4>1, <4>3, <4>4
    <3> QED
      BY <3>2, <3>3
  <2>6. CASE FindAppender(q) # 0 /\ cur.logger # 0
    <3>1. PICK x \in LoggerIds, b \in AppenderIds : x = cur.logger /\ b = FindAppender(q) /\ SetAppender(x, b)
      BY <2>3, <2>6
    <3>2. ~IsObsolete(b)
      BY <1>0, <2>6, <3>1, FoundIsKept
    <3>3. Holds(x, b)' /\ \A l \in LoggerIds : \A c : Holds(l, c) => Holds(l, c)'
      BY <2>4, <3>1, <3>2, AttachHolds
    <3>4. CASE EverMadeRef(i, r)
      <4>1. PICK l, a : l = Lookup(loggers, n) /\ a = FindAppender(r)
        OBVIOUS
      <4>2. Holds(l, a)
        BY <1>t, <1>w, <2>1, <2>4, <3>4, <4>1 DEF AttachedInv
      <4>3. l # 0
        BY <4>2 DEF Holds
      <4>4. l \in LoggerIds
        BY <1>0, <4>1, <4>3, LookupFinds DEF LoggerIds
      <4>5. Holds(l, a)'
        BY <3>3, <4>2, <4>4
      <4> QED
        BY <1>l, <2>4, <4>1, <4>2, <4>5
    <3>5. CASE ~EverMadeRef(i, r)
      <4>1. i = job.at /\ r = q
        BY <1>t, <2>1, <2>3, <3>5, TakesMakes
      <4>2. j = i
        BY <2>2, <4>1 DEF AtCall
      <4>3. x = Lookup(loggers, n) /\ x # 0
        BY <1>t, <2>1, <2>2, <2>6, <3>1, <4>2, RefLogger
      <4>4. Lookup(loggers', n) = x
        BY <4>3, LookupStays
      <4>5. FindAppender(r)' = b
        BY <1>w, <2>4, <3>1, <4>1
      <4> QED
        BY <3>3, <4>4, <4>5 DEF Holds
    <3> QED
      BY <3>4, <3>5
  <2> QED
    BY <2>5, <2>6
<1> QED
  BY <1>1, <1>2, <1>3, <1>4, <1>5, <1>6, <1>7, StepKinds

\* A logger has one name.
LEMMA LookupOne ==
  ASSUME IInv, NEW m, NEW n, Lookup(loggers, m) = Lookup(loggers, n), Lookup(loggers, n) # 0
  PROVE  m = n
<1>1. Len(loggers) \in Nat /\ DOMAIN loggers = 1..Len(loggers)
  BY SlotsAreTyped DEF IInv, LoggerIds
<1>2. loggers[Lookup(loggers, n)].name = n /\ loggers[Lookup(loggers, m)].name = m
  BY <1>1, LookupFinds
<1> QED
  BY <1>2

\* A logger that is found is in the list.
LEMMA LookupIsLogger ==
  ASSUME IInv, NEW n, Lookup(loggers, n) # 0
  PROVE  Lookup(loggers, n) \in LoggerIds
<1>1. Len(loggers) \in Nat /\ DOMAIN loggers = 1..Len(loggers)
  BY SlotsAreTyped DEF IInv, LoggerIds
<1>2. Lookup(loggers, n) \in 0..Len(loggers)
  BY <1>1, LookupFinds
<1> QED
  BY <1>1, <1>2 DEF LoggerIds

\* The level of an item is set for the logger that the text says.
LEMMA LevelOfItem ==
  ASSUME IInv, NEW k, AtCall("level", k), NEW n \in LoggerNames, NEW u
  PROVE  SetsLevel(LastText, k, n, u) <=>
           /\ u = job.todo[1].value
           /\ cur.layout = 0 /\ cur.appender = 0 /\ cur.logger # 0
           /\ cur.logger = Lookup(loggers, n)
<1>1. /\ Wants(LastText, k, "level")
      /\ job.todo[1].value = IF IsTag(LastText) THEN Item(LastText, k).value ELSE Item(LastText, k).level
  BY DEF AtCall, AsksFor
<1>2. CASE IsTag(LastText)
  <2>1. Item(LastText, k).kind = "level" /\ ~EndTag(LastText, k)
    BY <1>1, <1>2 DEF Wants
  <2>2. LoggerCurrent(k) /\ AppenderCurrent(k) /\ LayoutCurrent(k)
    BY <1>2, <2>1 DEF AtCall, AppenderTag
  <2>3. SetsLevel(LastText, k, n, u) <=>
          /\ u = job.todo[1].value /\ cur.layout = 0 /\ cur.appender = 0
          /\ \E j \in 1..k : LoggerOpen(LastText, k, j) /\ Item(LastText, j).name = n
    BY <1>1, <1>2, <2>1, <2>2 DEF SetsLevel, AppenderCurrent, LayoutCurrent
  <2>4. ASSUME NEW j \in 1..k, LoggerOpen(LastText, k, j), Item(LastText, j).name = n
        PROVE  cur.logger # 0 /\ cur.logger = Lookup(loggers, n)
    BY <2>2, <2>4 DEF LoggerCurrent
  <2>5. ASSUME cur.logger # 0, cur.logger = Lookup(loggers, n)
        PROVE  \E j \in 1..k : LoggerOpen(LastText, k, j) /\ Item(LastText, j).name = n
    <3>1. PICK j \in 1..k : LoggerOpen(LastText, k, j)
      BY <2>2, <2>5 DEF LoggerCurrent
    <3>2. cur.logger = Lookup(loggers, Item(LastText, j).name)
      BY <2>2, <3>1 DEF LoggerCurrent
    <3>3. Item(LastText, j).name = n
      BY <2>5, <3>2, LookupOne
    <3> QED
      BY <3>1, <3>3
  <2> QED
    BY <2>3, <2>4, <2>5
<1>3. CASE ~IsTag(LastText)
  <2>1. Item(LastText, k).kind = "logger"
    BY <1>1, <1>3 DEF Wants
  <2>2. /\ cur.logger # 0 /\ cur.logger = Lookup(loggers, Item(LastText, k).name)
        /\ cur.appender = 0 /\ cur.layout = 0
    BY <1>3, <2>1 DEF AtCall, EndTag
  <2>3. SetsLevel(LastText, k, n, u) <=> u = job.todo[1].value /\ Item(LastText, k).name = n
    BY <1>1, <1>3, <2>1 DEF SetsLevel
  <2>4. cur.logger = Lookup(loggers, n) => Item(LastText, k).name = n
    BY <2>2, LookupOne
  <2> QED
    BY <2>2, <2>3, <2>4
<1> QED
  BY <1>2, <1>3

\* The additivity of an item is set for the logger that the text says.
LEMMA AdditivityOfItem ==
  ASSUME IInv, NEW k, AtCall("additivity", k), NEW n \in LoggerNames, NEW u \in BOOLEAN
  PROVE  SetsAdditivity(LastText, k, n, u) <=>
           u = job.todo[1].value /\ cur.logger # 0 /\ cur.logger = Lookup(loggers, n)
<1>1. /\ Wants(LastText, k, "additivity")
      /\ job.todo[1].value = IF IsTag(LastText) THEN FALSE ELSE Item(LastText, k).value
  BY DEF AtCall, AsksFor
<1>2. /\ Item(LastText, k).kind \in {"logger", "additivity"} /\ ~EndTag(LastText, k)
      /\ IF IsTag(LastText) THEN Item(LastText, k).kind = "logger" /\ ~Item(LastText, k).additive
         ELSE Item(LastText, k).kind = "additivity"
  BY <1>1 DEF Wants, EndTag
<1>3. cur.logger # 0 /\ cur.logger = Lookup(loggers, Item(LastText, k).name)
  BY <1>2 DEF AtCall
<1>4. SetsAdditivity(LastText, k, n, u) <=> u = job.todo[1].value /\ Item(LastText, k).name = n
  <2>1. CASE IsTag(LastText)
    <3>1. SetsAdditivity(LastText, k, n, u) <=> Item(LastText, k).name = n /\ ~u
      BY <1>2, <2>1 DEF SetsAdditivity
    <3>2. (~u) <=> (u = job.todo[1].value)
      BY <1>1, <2>1
    <3> QED
      BY <3>1, <3>2
  <2>2. CASE ~IsTag(LastText)
    <3>1. SetsAdditivity(LastText, k, n, u) <=> Item(LastText, k).name = n /\ Item(LastText, k).value = u
      BY <1>2, <2>2 DEF SetsAdditivity
    <3>2. job.todo[1].value = Item(LastText, k).value
      BY <1>1, <2>2
    <3> QED
      BY <3>1, <3>2
  <2> QED
    BY <2>1, <2>2
<1>5. cur.logger = Lookup(loggers, n) <=> Item(LastText, k).name = n
  BY <1>3, LookupOne
<1> QED
  BY <1>3, <1>4, <1>5

\* Attaching an appender changes no more of a logger than its slots.
LEMMA RefLoggers ==
  ASSUME NamesFit, IInv, CallsInv, HistoryInv, ShapeInv, CurrentInv, CallRef
  PROVE  \A l \in LoggerIds : /\ loggers'[l].level = loggers[l].level
                              /\ loggers'[l].additivity = loggers[l].additivity
<1>1. PICK j : AtCall("ref", j)
  BY CallStands DEF CallRef
<1>2. UNCHANGED vars \/ \E l \in LoggerIds, a \in AppenderIds : SetAppender(l, a)
  BY <1>1, RefAttaches
<1>3. ASSUME NEW l \in LoggerIds, NEW a \in AppenderIds, SetAppender(l, a), NEW m \in LoggerIds
      PROVE  /\ loggers'[m].level = loggers[m].level
             /\ loggers'[m].additivity = loggers[m].additivity
  <2>1. m # l => loggers'[m] = loggers[m]
    BY <1>3, SlotsAfter
  <2>2. \E s : loggers'[l] = [loggers[l] EXCEPT !.slots = s]
    BY <1>3, SlotsAfter
  <2>3. loggers[l] \in LoggerType
    BY SlotsAreTyped DEF IInv
  <2> QED
    BY <2>1, <2>2, <2>3 DEF LoggerType
<1> QED
  BY <1>2, <1>3 DEF vars

\* A step that sets no level keeps them.
LEMMA LevelsKept ==
  ASSUME NamesFit, IInv, CallsInv, HistoryInv, ShapeInv, CurrentInv,
         Quiet \/ CallLogger \/ CallAdditivity \/ CallRef \/ CallAppender
  PROVE  \A l \in LoggerIds : loggers'[l].level = loggers[l].level
<1>0. RegistryTypeOK
  BY DEF IInv, TypeOK
<1>1. CASE Quiet
  BY <1>0, <1>1, QuietAppenders
<1>2. CASE CallLogger
  <2>1. PICK j : AtCall("logger", j)
    BY <1>2, CallStands DEF CallLogger
  <2> QED
    BY <1>2, <2>1, LoggerCall
<1>3. CASE CallAdditivity
  <2>1. PICK j : AtCall("additivity", j)
    BY <1>3, CallStands DEF CallAdditivity
  <2>2. \E l \in LoggerIds : \E v : SetAdditivity(l, v)
    BY <1>3, <2>1, AdditivityCall
  <2> QED
    BY <2>2, AdditivitySet
<1>4. CASE CallRef
  BY <1>4, RefLoggers
<1>5. CASE CallAppender
  <2>1. PICK j : AtCall("appender", j)
    BY <1>5, CallStands DEF CallAppender
  <2> QED
    BY <1>5, <2>1, AppenderCall
<1> QED
  BY <1>1, <1>2, <1>3, <1>4, <1>5

\* A step that sets no additivity keeps them.
LEMMA AdditivitiesKept ==
  ASSUME NamesFit, IInv, CallsInv, HistoryInv, ShapeInv, CurrentInv,
         Quiet \/ CallLogger \/ CallLevel \/ CallRef \/ CallAppender
  PROVE  \A l \in LoggerIds : loggers'[l].additivity = loggers[l].additivity
<1>0. RegistryTypeOK
  BY DEF IInv, TypeOK
<1>1. CASE Quiet
  BY <1>0, <1>1, QuietAppenders
<1>2. CASE CallLogger
  <2>1. PICK j : AtCall("logger", j)
    BY <1>2, CallStands DEF CallLogger
  <2> QED
    BY <1>2, <2>1, LoggerCall
<1>3. CASE CallLevel
  <2>1. PICK j : AtCall("level", j)
    BY <1>3, CallStands DEF CallLevel
  <2>2. UNCHANGED vars \/ \E l \in LoggerIds : \E v : SetLevel(l, v)
    BY <1>3, <2>1, LevelCall
  <2> QED
    BY <2>2, LevelSet DEF vars
<1>4. CASE CallRef
  BY <1>4, RefLoggers
<1>5. CASE CallAppender
  <2>1. PICK j : AtCall("appender", j)
    BY <1>5, CallStands DEF CallAppender
  <2> QED
    BY <1>5, <2>1, AppenderCall
<1> QED
  BY <1>1, <1>2, <1>3, <1>4, <1>5

\* The levels that were set last stand.
LEMMA NextLevels ==
  ASSUME NamesFit, IInv, CallsInv, CallsInv', HistoryInv, HistoryInv', ShapeInv, CurrentInv,
         LevelsInv, [ConfiguratorNext]_all
  PROVE  LevelsInv'
<1> SUFFICES ASSUME Live', NEW i \in Positions', NEW n \in LoggerNames, NEW v \in Levels,
                    SetsLevel(LastText, i, n, v)', Made(i, "level")',
                    \A j \in Positions', w \in Levels :
                      (SetsLevel(LastText, j, n, w)' /\ Made(j, "level")') => j <= i
             PROVE  Lookup(loggers', n) # 0 /\ loggers'[Lookup(loggers', n)].level = v
  BY DEF LevelsInv
<1>t. ASSUME done' = done
      PROVE  /\ Live /\ i \in Positions /\ SetsLevel(LastText, i, n, v) /\ LastText \in Texts
             /\ \A j \in Positions, w \in Levels :
                  (SetsLevel(LastText, j, n, w) /\ Made(j, "level")') => j <= i
             /\ \A j \in Positions : \A w : SetsLevel(LastText, j, n, w) => Wants(LastText, j, "level")
             /\ Positions \subseteq Nat
  <2>1. /\ Live /\ i \in Positions /\ SetsLevel(LastText, i, n, v) /\ Positions' = Positions
        /\ \A j, w : SetsLevel(LastText, j, n, w)' = SetsLevel(LastText, j, n, w)
    BY <1>t, SameText
  <2>2. LastText \in Texts /\ Positions = 1..Len(Seen(LastText)) /\ Positions \subseteq Nat
    BY <2>1, PlaceType DEF Live
  <2>3. \A j \in Positions : \A w : SetsLevel(LastText, j, n, w) => Wants(LastText, j, "level")
    BY <2>2, SaysWants
  <2> QED
    BY <2>1, <2>2, <2>3
<1>a. ASSUME done' = done, Made(i, "level"),
             \A j \in Positions, w \in Levels :
               (SetsLevel(LastText, j, n, w) /\ Made(j, "level")) => j <= i
      PROVE  /\ Lookup(loggers, n) # 0 /\ loggers[Lookup(loggers, n)].level = v
             /\ Lookup(loggers, n) \in LoggerIds /\ Lookup(loggers', n) = Lookup(loggers, n)
  <2>1. Lookup(loggers, n) # 0 /\ loggers[Lookup(loggers, n)].level = v
    BY <1>a, <1>t DEF LevelsInv
  <2> QED
    BY <2>1, LookupIsLogger, LookupStays
<1>b. ASSUME done' = done, \A l \in LoggerIds : loggers'[l].level = loggers[l].level,
             \A j \in Positions : Wants(LastText, j, "level") =>
               (Made(j, "level")' <=> Made(j, "level"))
      PROVE  Lookup(loggers', n) # 0 /\ loggers'[Lookup(loggers', n)].level = v
  <2>1. Made(i, "level")
    BY <1>b, <1>t
  <2>2. \A j \in Positions, w \in Levels :
          (SetsLevel(LastText, j, n, w) /\ Made(j, "level")) => j <= i
    BY <1>b, <1>t
  <2> QED
    BY <1>a, <1>b, <2>1, <2>2
<1>1. CASE UNCHANGED all
  <2>1. done' = done /\ loggers' = loggers /\ \A j : Made(j, "level")' <=> Made(j, "level")
    BY <1>1, SameEverything
  <2> QED
    BY <1>b, <2>1
<1>2. CASE \E t \in Texts, source \in {"string", "file"} : Begin(t, source)
  BY <1>2, PlacesNext, BeginMakes
<1>3. CASE Unreadable
  BY <1>3, UnreadableIsDead
<1>4. CASE Quiet
  <2>1. done' = done
    BY <1>4, CallGoesOn
  <2>2. CASE SecondPass
    BY <1>4, <1>t, <2>1, <2>2, QuietMakes
  <2>3. CASE ~SecondPass
    <3>1. \A j \in Positions : Wants(LastText, j, "level") => (Made(j, "level")' <=> Made(j, "level"))
      BY <1>4, <2>3, QuietMakes DEF Settings
    <3>2. \A l \in LoggerIds : loggers'[l].level = loggers[l].level
      BY <1>4, LevelsKept
    <3> QED
      BY <1>b, <2>1, <3>1, <3>2
  <2> QED
    BY <2>2, <2>3
<1>5. CASE CallLogger \/ CallAdditivity \/ CallRef \/ CallAppender
  <2>1. PICK op \in {"logger", "additivity", "ref", "appender"} : Takes(op)
    BY <1>5 DEF CallLogger, CallAdditivity, CallRef, CallAppender
  <2>2. done' = done /\ op # "register" /\ op # "level"
    BY <2>1 DEF Takes
  <2>3. \A j \in Positions : Made(j, "level")' <=> Made(j, "level")
    BY <2>1, <2>2, TakesMakes
  <2>4. \A l \in LoggerIds : loggers'[l].level = loggers[l].level
    BY <1>5, LevelsKept
  <2> QED
    BY <1>b, <2>2, <2>3, <2>4
<1>6. CASE CallLevel
  <2>1. Takes("level") /\ done' = done
    BY <1>6 DEF CallLevel, Takes
  <2>2. PICK k : AtCall("level", k)
    BY <2>1, CallStands
  <2>3. k \in Positions /\ k = job.at /\ job # Idle /\ k \in Nat /\ i \in Nat /\ job'.at = k
    BY <1>t, <2>1, <2>2 DEF AtCall
  <2>4. Made(k, "level")' /\ \A j \in Positions : j # k => (Made(j, "level")' <=> Made(j, "level"))
    BY <2>1, <2>3, TakesMakes
  <2>5. PICK u \in Levels : u = job.todo[1].value
    BY <1>6, <2>2, LevelCall
  <2>6. /\ \A w : SetsLevel(LastText, k, n, w) =>
              w = u /\ cur.logger # 0 /\ cur.logger = Lookup(loggers, n) /\ SetLevel(cur.logger, u)
        /\ \/ UNCHANGED vars
           \/ /\ SetLevel(cur.logger, u) /\ cur.logger \in LoggerIds
              /\ cur.logger = Lookup(loggers, n) => SetsLevel(LastText, k, n, u)
        /\ cur.logger # 0 => cur.logger \in LoggerIds
    <3>1. \A w : SetsLevel(LastText, k, n, w) <=>
                   /\ w = u
                   /\ cur.layout = 0 /\ cur.appender = 0 /\ cur.logger # 0
                   /\ cur.logger = Lookup(loggers, n)
      BY <2>2, <2>5, LevelOfItem
    <3>2. IF cur.layout = 0 /\ cur.appender = 0 /\ cur.logger # 0
            THEN cur.logger \in LoggerIds /\ SetLevel(cur.logger, u)
            ELSE UNCHANGED vars
      BY <1>6, <2>2, <2>5, LevelCall
    <3>3. cur.logger # 0 => cur.logger \in LoggerIds
      BY DEF CallsInv
    <3> QED
      BY <3>1, <3>2, <3>3
  <2>7. CASE i = k
    <3>1. v = u /\ cur.logger # 0 /\ cur.logger = Lookup(loggers, n) /\ SetLevel(cur.logger, u)
      BY <1>t, <2>1, <2>6, <2>7
    <3>2. loggers'[cur.logger].level = u
      BY <2>6, <3>1, LevelSet
    <3> QED
      BY <3>1, <3>2, LookupStays
  <2>8. CASE i # k
    <3>1. Made(i, "level")
      BY <1>t, <2>1, <2>4, <2>8
    <3>2. i < k
      BY <2>3, <2>8, <3>1 DEF Made
    <3>3. \A w \in Levels : ~SetsLevel(LastText, k, n, w)
      BY <1>t, <2>1, <2>3, <2>4, <3>2
    <3>4. \A j \in Positions, w \in Levels :
            (SetsLevel(LastText, j, n, w) /\ Made(j, "level")) => j <= i
      BY <1>t, <2>1, <2>4, <3>3
    <3>5. /\ Lookup(loggers, n) # 0 /\ loggers[Lookup(loggers, n)].level = v
          /\ Lookup(loggers, n) \in LoggerIds /\ Lookup(loggers', n) = Lookup(loggers, n)
      BY <1>a, <2>1, <3>1, <3>4
    <3>6. loggers'[Lookup(loggers, n)] = loggers[Lookup(loggers, n)]
      <4>1. CASE UNCHANGED vars
        BY <4>1 DEF vars
      <4>2. CASE /\ SetLevel(cur.logger, u) /\ cur.logger \in LoggerIds
                 /\ cur.logger = Lookup(loggers, n) => SetsLevel(LastText, k, n, u)
        <5>1. cur.logger # Lookup(loggers, n)
          BY <3>3, <4>2
        <5> QED
          BY <3>5, <4>2, <5>1, LevelSet
      <4> QED
        BY <2>6, <4>1, <4>2
    <3> QED
      BY <3>5, <3>6
  <2> QED
    BY <2>7, <2>8
<1> QED
  BY <1>1, <1>2, <1>3, <1>4, <1>5, <1>6, StepKinds

\* The additivities that were set last stand.
LEMMA NextAdditivity ==
  ASSUME NamesFit, IInv, CallsInv, CallsInv', HistoryInv, HistoryInv', ShapeInv, CurrentInv,
         AdditivityInv, [ConfiguratorNext]_all
  PROVE  AdditivityInv'
<1> SUFFICES ASSUME Live', NEW i \in Positions', NEW n \in LoggerNames, NEW v \in Additivities,
                    SetsAdditivity(LastText, i, n, v)', Made(i, "additivity")',
                    \A j \in Positions', w \in Additivities :
                      (SetsAdditivity(LastText, j, n, w)' /\ Made(j, "additivity")') => j <= i
             PROVE  Lookup(loggers', n) # 0 /\ loggers'[Lookup(loggers', n)].additivity = v
  BY DEF AdditivityInv
<1>t. ASSUME done' = done
      PROVE  /\ Live /\ i \in Positions /\ SetsAdditivity(LastText, i, n, v) /\ LastText \in Texts
             /\ \A j \in Positions, w \in Additivities :
                  (SetsAdditivity(LastText, j, n, w) /\ Made(j, "additivity")') => j <= i
             /\ \A j \in Positions : \A w : SetsAdditivity(LastText, j, n, w) => Wants(LastText, j, "additivity")
             /\ Positions \subseteq Nat
  <2>1. /\ Live /\ i \in Positions /\ SetsAdditivity(LastText, i, n, v) /\ Positions' = Positions
        /\ \A j, w : SetsAdditivity(LastText, j, n, w)' = SetsAdditivity(LastText, j, n, w)
    BY <1>t, SameText
  <2>2. LastText \in Texts /\ Positions = 1..Len(Seen(LastText)) /\ Positions \subseteq Nat
    BY <2>1, PlaceType DEF Live
  <2>3. \A j \in Positions : \A w : SetsAdditivity(LastText, j, n, w) => Wants(LastText, j, "additivity")
    BY <2>2, SaysWants
  <2> QED
    BY <2>1, <2>2, <2>3
<1>a. ASSUME done' = done, Made(i, "additivity"),
             \A j \in Positions, w \in Additivities :
               (SetsAdditivity(LastText, j, n, w) /\ Made(j, "additivity")) => j <= i
      PROVE  /\ Lookup(loggers, n) # 0 /\ loggers[Lookup(loggers, n)].additivity = v
             /\ Lookup(loggers, n) \in LoggerIds /\ Lookup(loggers', n) = Lookup(loggers, n)
  <2>1. Lookup(loggers, n) # 0 /\ loggers[Lookup(loggers, n)].additivity = v
    BY <1>a, <1>t DEF AdditivityInv
  <2> QED
    BY <2>1, LookupIsLogger, LookupStays
<1>b. ASSUME done' = done, \A l \in LoggerIds : loggers'[l].additivity = loggers[l].additivity,
             \A j \in Positions : Wants(LastText, j, "additivity") =>
               (Made(j, "additivity")' <=> Made(j, "additivity"))
      PROVE  Lookup(loggers', n) # 0 /\ loggers'[Lookup(loggers', n)].additivity = v
  <2>1. Made(i, "additivity")
    BY <1>b, <1>t
  <2>2. \A j \in Positions, w \in Additivities :
          (SetsAdditivity(LastText, j, n, w) /\ Made(j, "additivity")) => j <= i
    BY <1>b, <1>t
  <2> QED
    BY <1>a, <1>b, <2>1, <2>2
<1>1. CASE UNCHANGED all
  <2>1. done' = done /\ loggers' = loggers /\ \A j : Made(j, "additivity")' <=> Made(j, "additivity")
    BY <1>1, SameEverything
  <2> QED
    BY <1>b, <2>1
<1>2. CASE \E t \in Texts, source \in {"string", "file"} : Begin(t, source)
  BY <1>2, PlacesNext, BeginMakes
<1>3. CASE Unreadable
  BY <1>3, UnreadableIsDead
<1>4. CASE Quiet
  <2>1. done' = done
    BY <1>4, CallGoesOn
  <2>2. CASE SecondPass
    BY <1>4, <1>t, <2>1, <2>2, QuietMakes
  <2>3. CASE ~SecondPass
    <3>1. \A j \in Positions : Wants(LastText, j, "additivity") => (Made(j, "additivity")' <=> Made(j, "additivity"))
      BY <1>4, <2>3, QuietMakes DEF Settings
    <3>2. \A l \in LoggerIds : loggers'[l].additivity = loggers[l].additivity
      BY <1>4, AdditivitiesKept
    <3> QED
      BY <1>b, <2>1, <3>1, <3>2
  <2> QED
    BY <2>2, <2>3
<1>5. CASE CallLogger \/ CallLevel \/ CallRef \/ CallAppender
  <2>1. PICK op \in {"logger", "level", "ref", "appender"} : Takes(op)
    BY <1>5 DEF CallLogger, CallLevel, CallRef, CallAppender
  <2>2. done' = done /\ op # "register" /\ op # "additivity"
    BY <2>1 DEF Takes
  <2>3. \A j \in Positions : Made(j, "additivity")' <=> Made(j, "additivity")
    BY <2>1, <2>2, TakesMakes
  <2>4. \A l \in LoggerIds : loggers'[l].additivity = loggers[l].additivity
    BY <1>5, AdditivitiesKept
  <2> QED
    BY <1>b, <2>2, <2>3, <2>4
<1>6. CASE CallAdditivity
  <2>1. Takes("additivity") /\ done' = done
    BY <1>6 DEF CallAdditivity, Takes
  <2>2. PICK k : AtCall("additivity", k)
    BY <2>1, CallStands
  <2>3. k \in Positions /\ k = job.at /\ job # Idle /\ k \in Nat /\ i \in Nat /\ job'.at = k
    BY <1>t, <2>1, <2>2 DEF AtCall
  <2>4. Made(k, "additivity")' /\ \A j \in Positions : j # k => (Made(j, "additivity")' <=> Made(j, "additivity"))
    BY <2>1, <2>3, TakesMakes
  <2>5. PICK u \in Additivities : u = job.todo[1].value
    BY <1>6, <2>2, AdditivityCall
  <2>6. /\ \A w \in BOOLEAN : SetsAdditivity(LastText, k, n, w) <=>
              w = u /\ cur.logger # 0 /\ cur.logger = Lookup(loggers, n)
        /\ SetAdditivity(cur.logger, u) /\ cur.logger \in LoggerIds
        /\ Additivities \subseteq BOOLEAN
    BY <1>6, <2>2, <2>5, AdditivityOfItem, AdditivityCall, LevelsAssumption
  <2>7. CASE i = k
    <3>1. v = u /\ cur.logger # 0 /\ cur.logger = Lookup(loggers, n) /\ SetAdditivity(cur.logger, u)
      BY <1>t, <2>1, <2>6, <2>7
    <3>2. loggers'[cur.logger].additivity = u
      BY <2>6, <3>1, AdditivitySet
    <3> QED
      BY <3>1, <3>2, LookupStays
  <2>8. CASE i # k
    <3>1. Made(i, "additivity")
      BY <1>t, <2>1, <2>4, <2>8
    <3>2. i < k
      BY <2>3, <2>8, <3>1 DEF Made
    <3>3. \A w \in Additivities : ~SetsAdditivity(LastText, k, n, w)
      BY <1>t, <2>1, <2>3, <2>4, <3>2
    <3>4. \A j \in Positions, w \in Additivities :
            (SetsAdditivity(LastText, j, n, w) /\ Made(j, "additivity")) => j <= i
      BY <1>t, <2>1, <2>4, <3>3
    <3>5. /\ Lookup(loggers, n) # 0 /\ loggers[Lookup(loggers, n)].additivity = v
          /\ Lookup(loggers, n) \in LoggerIds /\ Lookup(loggers', n) = Lookup(loggers, n)
      BY <1>a, <2>1, <3>1, <3>4
    <3>6. loggers'[Lookup(loggers, n)] = loggers[Lookup(loggers, n)]
      <4>1. cur.logger # Lookup(loggers, n)
        BY <2>6, <3>3, <3>5
      <4> QED
        BY <2>6, <3>5, <4>1, AdditivitySet
    <3> QED
      BY <3>5, <3>6
  <2> QED
    BY <2>7, <2>8
<1> QED
  BY <1>1, <1>2, <1>3, <1>4, <1>5, <1>6, StepKinds

\* The logger that is current at a level or a reference has a name of the text.
LEMMA CurrentNamed ==
  ASSUME NEW op \in {"level", "ref"}, NEW k, AtCall(op, k), cur.logger # 0
  PROVE  \E n \in LoggerNames : cur.logger = Lookup(loggers, n)
                                /\ \A r : (op = "ref" /\ WantsRef(LastText, LastSource, k, r)) =>
                                            Attaches(LastText, LastSource, k, n, r)
<1>1. /\ op = "level" => Wants(LastText, k, "level")
      /\ op = "ref" => WantsRef(LastText, LastSource, k, job.todo[1].name)
      /\ LastText \in Texts /\ k \in Positions /\ k \in Nat \ {0}
  BY DEF AtCall, AsksFor
<1>2. CASE IsTag(LastText)
  <2>1. Item(LastText, k).kind \in {"level", "ref"}
    BY <1>1, <1>2 DEF Wants, WantsRef
  <2>2. LoggerCurrent(k)
    BY <1>2, <2>1 DEF AtCall
  <2>3. PICK j \in 1..k : LoggerOpen(LastText, k, j)
    BY <2>2 DEF LoggerCurrent
  <2>4. cur.logger = Lookup(loggers, Item(LastText, j).name)
    BY <2>2, <2>3 DEF LoggerCurrent
  <2>5. j \in 1..Len(Seen(LastText))
    <3>1. DOMAIN Seen(LastText) = 1..Len(Seen(LastText)) /\ Len(Seen(LastText)) \in Nat
      BY <1>1, SeenItems
    <3>2. k \in 1..Len(Seen(LastText))
      BY <1>1, <3>1 DEF Positions
    <3> QED
      BY <3>1, <3>2
  <2>6. Item(LastText, j) \in Tag
    BY <1>1, <1>2, <2>5, ItemType
  <2>7. Item(LastText, j).kind = "logger" /\ Item(LastText, j).shape = "start"
    BY <2>3 DEF LoggerOpen
  <2>8. Item(LastText, j).name \in LoggerNames
    BY <2>6, <2>7 DEF Tag, Shapes
  <2>9. \A r : WantsRef(LastText, LastSource, k, r) => Attaches(LastText, LastSource, k, Item(LastText, j).name, r)
    BY <1>2, <2>3 DEF WantsRef, Attaches
  <2> QED
    BY <2>4, <2>8, <2>9
<1>3. CASE ~IsTag(LastText)
  <2>1. Item(LastText, k).kind = "logger"
    BY <1>1, <1>3 DEF Wants, WantsRef
  <2>2. cur.logger = Lookup(loggers, Item(LastText, k).name) /\ Item(LastText, k) \in Line
    BY <1>3, <2>1 DEF AtCall, EndTag
  <2>3. Item(LastText, k).name \in LoggerNames
    BY <2>1, <2>2 DEF Line
  <2>4. \A r : WantsRef(LastText, LastSource, k, r) => Attaches(LastText, LastSource, k, Item(LastText, k).name, r)
    BY <1>3, <2>1 DEF WantsRef, Attaches
  <2> QED
    BY <2>2, <2>3, <2>4
<1> QED
  BY <1>2, <1>3

\* A step changes no more of the loggers and appenders than levels and
\* additivities that the text sets.
LevelSaid(l) ==
  \E i \in Positions, n \in LoggerNames, v \in Levels :
    SetsLevel(LastText, i, n, v) /\ l = Lookup(loggers, n)
AdditivitySaid(l) ==
  \E i \in Positions, n \in LoggerNames, v \in Additivities :
    SetsAdditivity(LastText, i, n, v) /\ l = Lookup(loggers, n)
Unopened == Contents[2]
OnlySettings ==
  /\ LoggerIds' = LoggerIds /\ Unopened' = Unopened
  /\ \A l \in LoggerIds : /\ Plain(loggers'[l]) = Plain(loggers[l])
                          /\ loggers'[l].level = loggers[l].level \/ LevelSaid(l)
                          /\ loggers'[l].additivity = loggers[l].additivity \/ AdditivitySaid(l)

\* A step that keeps loggers and appenders changes nothing.
LEMMA NothingOnly ==
  ASSUME loggers' = loggers, appenders' = appenders
  PROVE  OnlySettings
BY DEF OnlySettings, LoggerIds, Unopened, Contents, AppenderIds

\* The calls of a repetition find what they ask for.
LEMMA RepeatedCalls ==
  ASSUME NamesFit, IInv, CallsInv, HistoryInv, ShapeInv, CurrentInv, NamedInv, DefinedInv, AttachedInv,
         Live, Repetition,
         CallLogger \/ CallLevel \/ CallAdditivity \/ CallRef \/ CallAppender
  PROVE  OnlySettings
<1>1. CASE CallLogger
  <2>1. PICK j : AtCall("logger", j)
    BY <1>1, CallStands DEF CallLogger
  <2>2. /\ Item(LastText, j).kind \in {"logger", "additivity"} /\ ~EndTag(LastText, j)
        /\ Item(LastText, j).name \in LoggerNames
        /\ Lookup(loggers, Item(LastText, j).name) # 0 => loggers' = loggers
    BY <1>1, <2>1, LoggerCall
  <2>3. Names(LastText, j, Item(LastText, j).name) /\ EverMade(j, "logger") /\ j \in Positions
    BY <2>1, <2>2 DEF Names, EverMade, AtCall
  <2>4. loggers' = loggers
    BY <2>2, <2>3 DEF NamedInv
  <2>5. appenders' = appenders
    BY <1>1 DEF CallLogger, GetLogger, registry
  <2> QED
    BY <2>4, <2>5, NothingOnly
<1>2. CASE CallAppender
  <2>1. PICK j : AtCall("appender", j)
    BY <1>2, CallStands DEF CallAppender
  <2>2. PICK n \in AppenderNames, k \in Kinds :
          Defines(LastText, j, n, k) /\ ((UNCHANGED vars /\ Stands(n, k)) \/ ~Stands(n, k))
    BY <1>2, <2>1, AppenderCall
  <2>3. EverMade(j, "appender") /\ j \in Positions
    BY <2>1 DEF EverMade, AtCall
  <2>4. Stands(n, k)
    BY <2>2, <2>3 DEF DefinedInv, Stands
  <2> QED
    BY <2>2, <2>4, NothingOnly DEF vars, registry
<1>3. CASE CallRef
  <2>1. PICK j : AtCall("ref", j)
    BY <1>3, CallStands DEF CallRef
  <2>2. PICK r \in AppenderNames :
          /\ r = job.todo[1].name
          /\ IF FindAppender(r) # 0 /\ cur.logger # 0
               THEN /\ cur.logger \in LoggerIds /\ FindAppender(r) \in AppenderIds
                    /\ SetAppender(cur.logger, FindAppender(r))
               ELSE UNCHANGED vars
    BY <1>3, <2>1, RefAttaches
  <2>3. CASE ~(FindAppender(r) # 0 /\ cur.logger # 0)
    BY <2>2, <2>3, NothingOnly DEF vars, registry
  <2>4. CASE FindAppender(r) # 0 /\ cur.logger # 0
    <3>1. WantsRef(LastText, LastSource, j, r) /\ j \in Positions /\ EverMadeRef(j, r)
      BY <2>1, <2>2 DEF AtCall, AsksFor, EverMadeRef
    <3>2. PICK n \in LoggerNames : cur.logger = Lookup(loggers, n) /\ Attaches(LastText, LastSource, j, n, r)
      BY <2>1, <2>4, <3>1, CurrentNamed
    <3>3. Holds(cur.logger, FindAppender(r))
      BY <2>4, <3>1, <3>2 DEF AttachedInv
    <3>4. PICK l \in LoggerIds, a \in AppenderIds :
            l = cur.logger /\ a = FindAppender(r) /\ SetAppender(l, a) /\ Holds(l, a)
      BY <2>2, <2>4, <3>3
    <3>5. loggers' = loggers /\ appenders' = appenders
      BY <3>4, SlotsAfter DEF Holds
    <3> QED
      BY <3>5, NothingOnly
  <2> QED
    BY <2>3, <2>4
<1>4. CASE CallLevel
  <2>1. PICK j : AtCall("level", j)
    BY <1>4, CallStands DEF CallLevel
  <2>2. PICK u \in Levels :
          /\ u = job.todo[1].value
          /\ IF cur.layout = 0 /\ cur.appender = 0 /\ cur.logger # 0
               THEN cur.logger \in LoggerIds /\ SetLevel(cur.logger, u)
               ELSE UNCHANGED vars
    BY <1>4, <2>1, LevelCall
  <2>3. CASE ~(cur.layout = 0 /\ cur.appender = 0 /\ cur.logger # 0)
    BY <2>2, <2>3, NothingOnly DEF vars, registry
  <2>4. CASE cur.layout = 0 /\ cur.appender = 0 /\ cur.logger # 0
    <3>1. PICK n \in LoggerNames : cur.logger = Lookup(loggers, n)
      BY <2>1, <2>4, CurrentNamed
    <3>2. SetsLevel(LastText, j, n, u) /\ j \in Positions
      BY <2>1, <2>2, <2>4, <3>1, LevelOfItem DEF AtCall
    <3>3. LevelSaid(cur.logger)
      BY <3>1, <3>2 DEF LevelSaid
    <3>4. PICK l \in LoggerIds : l = cur.logger /\ SetLevel(l, u)
      BY <2>2, <2>4
    <3>5. /\ LoggerIds' = LoggerIds /\ appenders' = appenders
          /\ \A m \in LoggerIds : /\ Plain(loggers'[m]) = Plain(loggers[m])
                                  /\ loggers'[m].additivity = loggers[m].additivity
                                  /\ m # l => loggers'[m].level = loggers[m].level
      BY <3>4, LevelSet DEF registry
    <3> QED
      BY <3>3, <3>4, <3>5 DEF OnlySettings, Unopened, Contents, AppenderIds
  <2> QED
    BY <2>3, <2>4
<1>5. CASE CallAdditivity
  <2>1. PICK j : AtCall("additivity", j)
    BY <1>5, CallStands DEF CallAdditivity
  <2>2. PICK u \in Additivities : u = job.todo[1].value /\ cur.logger \in LoggerIds /\ SetAdditivity(cur.logger, u)
    BY <1>5, <2>1, AdditivityCall
  <2>3. /\ Item(LastText, j).kind \in {"logger", "additivity"} /\ ~EndTag(LastText, j)
    BY <2>1 DEF AtCall, AsksFor, Wants, EndTag
  <2>4. cur.logger # 0 /\ cur.logger = Lookup(loggers, Item(LastText, j).name)
    BY <2>1, <2>3 DEF AtCall
  <2>5. Item(LastText, j).name \in LoggerNames
    <3>1. CASE IsTag(LastText)
      BY <2>1, <2>3, <3>1 DEF AtCall, EndTag, Tag, Shapes
    <3>2. CASE ~IsTag(LastText)
      BY <2>1, <2>3, <3>2 DEF AtCall, Line
    <3> QED
      BY <3>1, <3>2
  <2>6. SetsAdditivity(LastText, j, Item(LastText, j).name, u) /\ j \in Positions
    BY <2>1, <2>2, <2>4, <2>5, AdditivityOfItem, LevelsAssumption DEF AtCall
  <2>7. AdditivitySaid(cur.logger)
    BY <2>2, <2>4, <2>5, <2>6 DEF AdditivitySaid
  <2>8. PICK l \in LoggerIds : l = cur.logger /\ SetAdditivity(l, u)
    BY <2>2
  <2>9. /\ LoggerIds' = LoggerIds /\ appenders' = appenders
        /\ \A m \in LoggerIds : /\ Plain(loggers'[m]) = Plain(loggers[m])
                                /\ loggers'[m].level = loggers[m].level
                                /\ m # l => loggers'[m].additivity = loggers[m].additivity
    BY <2>8, AdditivitySet DEF registry
  <2> QED
    BY <2>7, <2>8, <2>9 DEF OnlySettings, Unopened, Contents, AppenderIds
<1> QED
  BY <1>1, <1>2, <1>3, <1>4, <1>5

\* Steps that configure nothing change nothing but what is open.
LEMMA QuietOnly ==
  ASSUME RegistryTypeOK, Quiet
  PROVE  OnlySettings /\ Contents' = Contents
<1>1. CASE Close
  <2>1. appenders' = [a \in AppenderIds |-> [appenders[a] EXCEPT !.open = FALSE]] /\ loggers' = loggers
    BY <1>1 DEF Close, CloseAppenders
  <2>2. Len(appenders) \in Nat /\ \A a \in AppenderIds : appenders[a] \in Appender
    BY DEF RegistryTypeOK, AppenderIds
  <2>3. AppenderIds' = AppenderIds
    <3>1. Len(appenders') = Len(appenders)
      BY <2>1, <2>2, LenProperties DEF AppenderIds
    <3> QED
      BY <3>1 DEF AppenderIds
  <2>4. \A a \in AppenderIds : [appenders'[a] EXCEPT !.open = FALSE] = [appenders[a] EXCEPT !.open = FALSE]
    BY <2>1, <2>2 DEF Appender
  <2>5. Unopened' = Unopened /\ Contents' = Contents
    BY <2>1, <2>3, <2>4 DEF Unopened, Contents
  <2> QED
    BY <2>1, <2>5 DEF OnlySettings, LoggerIds
<1>2. CASE ~Close
  <2>1. loggers' = loggers /\ appenders' = appenders
    BY <1>2 DEF Quiet, ReadItem, SecondPass, Finish, CallFind, CallLayout, CallParam, CallEnd, vars, registry,
                Register, RegisterExtraClass
  <2> QED
    BY <2>1, NothingOnly DEF Contents, AppenderIds
<1> QED
  BY <1>1, <1>2

\* Of two loggers that agree but for level and additivity the names agree.
LEMMA PlainName ==
  ASSUME NEW a \in LoggerType, NEW b \in LoggerType, Plain(a) = Plain(b)
  PROVE  /\ a.name = b.name
         /\ (a.level = b.level /\ a.additivity = b.additivity) => a = b
<1>1. /\ Plain(a).name = a.name /\ Plain(b).name = b.name /\ Plain(a).asked = a.asked /\ Plain(b).asked = b.asked
      /\ Plain(a).kind = a.kind /\ Plain(b).kind = b.kind /\ Plain(a).parent = a.parent
      /\ Plain(b).parent = b.parent /\ Plain(a).slots = a.slots /\ Plain(b).slots = b.slots
  BY DEF Plain, LoggerType
<1>2. ASSUME a.level = b.level, a.additivity = b.additivity
      PROVE  a = b
  <2>1. /\ a = [name |-> a.name, asked |-> a.asked, kind |-> a.kind, level |-> a.level,
                additivity |-> a.additivity, parent |-> a.parent, slots |-> a.slots]
        /\ b = [name |-> b.name, asked |-> b.asked, kind |-> b.kind, level |-> b.level,
                additivity |-> b.additivity, parent |-> b.parent, slots |-> b.slots]
    BY DEF LoggerType
  <2> QED
    BY <1>1, <1>2, <2>1
<1> QED
  BY <1>1, <1>2

\* Loggers that change no more than levels and additivities are found where
\* they were.
LEMMA OnlyLookup ==
  ASSUME IInv, IInv', OnlySettings, NEW n
  PROVE  Lookup(loggers', n) = Lookup(loggers, n)
<1>1. DOMAIN loggers = LoggerIds /\ \A l \in LoggerIds : loggers[l] \in LoggerType
  BY SlotsAreTyped DEF IInv
<1>2. (TypeOK => DOMAIN loggers = LoggerIds /\ \A l \in LoggerIds : loggers[l] \in LoggerType)'
  BY SlotsAreTyped, PTL
<1>3. DOMAIN loggers' = LoggerIds' /\ \A l \in LoggerIds' : loggers'[l] \in LoggerType
  BY <1>2 DEF IInv
<1>4. \A l \in LoggerIds : loggers'[l].name = loggers[l].name
  BY <1>1, <1>3, PlainName DEF OnlySettings
<1> QED
  BY <1>1, <1>3, <1>4, LookupSame DEF OnlySettings

\* Where levels and additivities differ from those before, the text sets them.
RepeatKeeps ==
  /\ LastCall.found = <<Before, Unopened>>
  /\ Before \in Seq(LoggerType) /\ Len(Before) = Len(loggers)
  /\ \A l \in LoggerIds : /\ Plain(loggers[l]) = Plain(Before[l])
                          /\ loggers[l].level = Before[l].level \/ LevelSaid(l)
                          /\ loggers[l].additivity = Before[l].additivity \/ AdditivitySaid(l)
RepeatLasts ==
  /\ \A i \in Positions, n \in LoggerNames, v \in Levels :
       (/\ SetsLevel(LastText, i, n, v)
        /\ \A j \in Positions, w \in Levels : SetsLevel(LastText, j, n, w) => j <= i)
       => Before[Lookup(loggers, n)].level = v
  /\ \A i \in Positions, n \in LoggerNames, v \in Additivities :
       (/\ SetsAdditivity(LastText, i, n, v)
        /\ \A j \in Positions, w \in Additivities : SetsAdditivity(LastText, j, n, w) => j <= i)
       => Before[Lookup(loggers, n)].additivity = v

\* The two parts of what a repetition keeps.
LEMMA RepeatParts == RepeatInv <=> ((Live /\ Repetition) => RepeatKeeps /\ RepeatLasts)
BY DEF RepeatInv, RepeatKeeps, RepeatLasts, LevelSaid, AdditivitySaid, Unopened

\* What is set goes on to be what the text says.
LEMMA SaidStays ==
  ASSUME IInv, IInv', OnlySettings, done' = done, NEW l
  PROVE  (LevelSaid(l) => LevelSaid(l)') /\ (AdditivitySaid(l) => AdditivitySaid(l)')
<1>1. \A n : Lookup(loggers', n) = Lookup(loggers, n)
  BY OnlyLookup
<1>2. /\ Positions' = Positions
      /\ \A i, n, v : SetsLevel(LastText, i, n, v)' = SetsLevel(LastText, i, n, v)
      /\ \A i, n, v : SetsAdditivity(LastText, i, n, v)' = SetsAdditivity(LastText, i, n, v)
  BY SameText
<1> QED
  BY <1>1, <1>2 DEF LevelSaid, AdditivitySaid

\* A call that goes on keeps what it repeats.
LEMMA RepeatGoesOn ==
  ASSUME IInv, IInv', OnlySettings, done' = done, RepeatKeeps, RepeatLasts
  PROVE  RepeatKeeps' /\ RepeatLasts'
<1>1. \A n : Lookup(loggers', n) = Lookup(loggers, n)
  BY OnlyLookup
<1>2. /\ Positions' = Positions
      /\ \A i, n, v : SetsLevel(LastText, i, n, v)' = SetsLevel(LastText, i, n, v)
      /\ \A i, n, v : SetsAdditivity(LastText, i, n, v)' = SetsAdditivity(LastText, i, n, v)
  BY SameText
<1>3. Before' = Before /\ LastCall' = LastCall
  BY DEF Before, LastCall
<1>4. Len(loggers') = Len(loggers)
  <2>1. Len(loggers) \in Nat
    BY SlotsAreTyped DEF IInv
  <2>2. (TypeOK => Len(loggers) \in Nat)'
    BY SlotsAreTyped, PTL
  <2>3. PICK p \in Nat, q \in Nat : p = Len(loggers) /\ q = Len(loggers')
    BY <2>1, <2>2 DEF IInv
  <2>4. 1..p = 1..q
    BY <2>3 DEF OnlySettings, LoggerIds
  <2>5. p = q
    BY <2>4
  <2> QED
    BY <2>3, <2>5
<1>5. RepeatLasts'
  BY <1>1, <1>2, <1>3 DEF RepeatLasts
<1>6. RepeatKeeps'
  <2>1. LastCall.found' = <<Before', Unopened'>>
    BY <1>3 DEF RepeatKeeps, OnlySettings
  <2>2. Before' \in Seq(LoggerType) /\ Len(Before') = Len(loggers')
    BY <1>3, <1>4 DEF RepeatKeeps
  <2>3. ASSUME NEW l \in LoggerIds
        PROVE  /\ Plain(loggers'[l]) = Plain(Before[l])
               /\ loggers'[l].level = Before[l].level \/ LevelSaid(l)'
               /\ loggers'[l].additivity = Before[l].additivity \/ AdditivitySaid(l)'
    BY SaidStays DEF RepeatKeeps, OnlySettings
  <2> QED
    BY <1>3, <2>1, <2>2, <2>3 DEF RepeatKeeps, OnlySettings
<1> QED
  BY <1>5, <1>6

\* A call that begins and repeats the one before finds what that one left.
LEMMA RepeatBegins ==
  ASSUME IInv, HistoryInv, LevelsInv, AdditivityInv,
         NEW t \in Texts, NEW source \in {"string", "file"}, Begin(t, source), Live', Repetition'
  PROVE  RepeatKeeps' /\ RepeatLasts'
<1>1. /\ job = Idle /\ UNCHANGED vars /\ \A i, o : Made(i, o)
      /\ LastText' = LastText /\ LastSource' = LastSource /\ Positions' = Positions /\ Live
  BY BeginMakes
<1>2. done' = Append(done, [text |-> t, source |-> source, found |-> Contents, failed |-> FALSE])
  BY DEF Begin
<1>3. LastCall.found' = Contents
  BY <1>2, HistoryGrows
<1>4. loggers' = loggers /\ Unopened' = Unopened
  BY <1>1 DEF vars, registry, Unopened, Contents, AppenderIds
<1>5. LastCall.found' = <<loggers, Unopened>> /\ Before' = loggers
  BY <1>3 DEF Contents, Unopened, Before
<1>6. loggers \in Seq(LoggerType) /\ LoggerIds' = LoggerIds
  BY <1>4 DEF IInv, TypeOK, LoggerIds
<1>7. RepeatKeeps'
  BY <1>4, <1>5, <1>6 DEF RepeatKeeps
<1>8. /\ \A i, n, v : SetsLevel(LastText, i, n, v)' = SetsLevel(LastText, i, n, v)
      /\ \A i, n, v : SetsAdditivity(LastText, i, n, v)' = SetsAdditivity(LastText, i, n, v)
  BY <1>1, TextAgain
<1>9. RepeatLasts'
  <2>1. ASSUME NEW i \in Positions, NEW n \in LoggerNames, NEW v \in Levels, SetsLevel(LastText, i, n, v),
               \A j \in Positions, w \in Levels : SetsLevel(LastText, j, n, w) => j <= i
        PROVE  loggers[Lookup(loggers, n)].level = v
    BY <1>1, <2>1 DEF LevelsInv
  <2>2. ASSUME NEW i \in Positions, NEW n \in LoggerNames, NEW v \in Additivities,
               SetsAdditivity(LastText, i, n, v),
               \A j \in Positions, w \in Additivities : SetsAdditivity(LastText, j, n, w) => j <= i
        PROVE  loggers[Lookup(loggers, n)].additivity = v
    BY <1>1, <2>2 DEF AdditivityInv
  <2> QED
    BY <1>1, <1>4, <1>5, <1>8, <2>1, <2>2 DEF RepeatLasts
<1> QED
  BY <1>7, <1>9

\* A repetition keeps what it repeats.
LEMMA NextRepeat ==
  ASSUME NamesFit, IInv, IInv', CallsInv, HistoryInv, ShapeInv, CurrentInv, NamedInv, DefinedInv, AttachedInv,
         LevelsInv, AdditivityInv, RepeatInv, [ConfiguratorNext]_all
  PROVE  RepeatInv'
<1> SUFFICES ASSUME Live', Repetition' PROVE RepeatKeeps' /\ RepeatLasts'
  <2>1. (RepeatInv <=> ((Live /\ Repetition) => RepeatKeeps /\ RepeatLasts))'
    BY RepeatParts, PTL
  <2> QED
    BY <2>1
<1>1. CASE \E t \in Texts, source \in {"string", "file"} : Begin(t, source)
  BY <1>1, RepeatBegins
<1>2. CASE Unreadable
  BY <1>2, UnreadableIsDead
<1>a. ASSUME done' = done
      PROVE  Live /\ Repetition /\ RepeatKeeps /\ RepeatLasts
  BY <1>a, SameCall, RepeatParts
<1>3. CASE UNCHANGED all
  <2>1. done' = done /\ loggers' = loggers /\ appenders' = appenders
    BY <1>3, SameEverything
  <2> QED
    BY <1>a, <2>1, NothingOnly, RepeatGoesOn
<1>4. CASE Quiet
  <2>1. RegistryTypeOK
    BY DEF IInv, TypeOK
  <2> QED
    BY <1>4, <1>a, <2>1, CallGoesOn, QuietOnly, RepeatGoesOn
<1>5. CASE CallLogger \/ CallLevel \/ CallAdditivity \/ CallRef \/ CallAppender
  <2>1. done' = done
    BY <1>5, CallGoesOn
  <2>2. OnlySettings
    BY <1>5, <1>a, <2>1, RepeatedCalls
  <2> QED
    BY <1>a, <2>1, <2>2, RepeatGoesOn
<1> QED
  BY <1>1, <1>2, <1>3, <1>4, <1>5, StepKinds

\* Of the items that say something of a logger there is a last one.
LEMMA LastItem ==
  ASSUME HistoryInv, done # << >>, NEW S \in SUBSET Positions, S # {}
  PROVE  \E i \in S : \A j \in S : j <= i
<1>1. Positions = 1..Len(Seen(LastText)) /\ LastText \in Texts
  BY PlaceType
<1>2. PICK len \in Nat : len = Len(Seen(LastText))
  BY <1>1, SeenItems
<1>3. S \subseteq 0..len
  <2>1. \A i \in 1..len : i \in 0..len
    OBVIOUS
  <2> QED
    BY <1>1, <1>2, <2>1
<1> QED
  BY <1>2, <1>3, Greatest

\* After a repetition the loggers and appenders are those that it found.
LEMMA RestingRepeat ==
  ASSUME IInv, HistoryInv, LevelsInv, AdditivityInv, RepeatInv, Live, Repetition, job = Idle
  PROVE  Contents = LastCall.found
<1>1. RepeatKeeps /\ RepeatLasts /\ done # << >>
  BY RepeatParts DEF Live
<1>2. \A i, o : Made(i, o)
  BY DEF Made
<1>3. ASSUME NEW l \in LoggerIds PROVE loggers[l].level = Before[l].level
  <2>1. CASE loggers[l].level = Before[l].level
    BY <2>1
  <2>2. CASE LevelSaid(l)
    <3>1. PICK n \in LoggerNames : /\ l = Lookup(loggers, n)
                                   /\ \E i \in Positions, v \in Levels : SetsLevel(LastText, i, n, v)
      BY <2>2 DEF LevelSaid
    <3>2. PICK S \in SUBSET Positions :
            \A i \in Positions : i \in S <=> \E v \in Levels : SetsLevel(LastText, i, n, v)
      <4>1. {i \in Positions : \E v \in Levels : SetsLevel(LastText, i, n, v)} \in SUBSET Positions
        OBVIOUS
      <4> QED
        BY <4>1
    <3>3. PICK i \in S : \A j \in S : j <= i
      BY <1>1, <3>1, <3>2, LastItem
    <3>4. PICK v \in Levels : SetsLevel(LastText, i, n, v)
      BY <3>2, <3>3
    <3>5. i \in Positions /\ \A j \in Positions, w \in Levels : SetsLevel(LastText, j, n, w) => j <= i
      BY <3>2, <3>3
    <3>6. loggers[l].level = v
      BY <1>2, <3>1, <3>4, <3>5 DEF LevelsInv
    <3>7. Before[l].level = v
      BY <1>1, <3>1, <3>4, <3>5 DEF RepeatLasts
    <3> QED
      BY <3>6, <3>7
  <2> QED
    BY <1>1, <2>1, <2>2 DEF RepeatKeeps
<1>4. ASSUME NEW l \in LoggerIds PROVE loggers[l].additivity = Before[l].additivity
  <2>1. CASE loggers[l].additivity = Before[l].additivity
    BY <2>1
  <2>2. CASE AdditivitySaid(l)
    <3>1. PICK n \in LoggerNames :
            /\ l = Lookup(loggers, n)
            /\ \E i \in Positions, v \in Additivities : SetsAdditivity(LastText, i, n, v)
      BY <2>2 DEF AdditivitySaid
    <3>2. PICK S \in SUBSET Positions :
            \A i \in Positions : i \in S <=> \E v \in Additivities : SetsAdditivity(LastText, i, n, v)
      <4>1. {i \in Positions : \E v \in Additivities : SetsAdditivity(LastText, i, n, v)} \in SUBSET Positions
        OBVIOUS
      <4> QED
        BY <4>1
    <3>3. PICK i \in S : \A j \in S : j <= i
      BY <1>1, <3>1, <3>2, LastItem
    <3>4. PICK v \in Additivities : SetsAdditivity(LastText, i, n, v)
      BY <3>2, <3>3
    <3>5. i \in Positions /\ \A j \in Positions, w \in Additivities : SetsAdditivity(LastText, j, n, w) => j <= i
      BY <3>2, <3>3
    <3>6. loggers[l].additivity = v
      BY <1>2, <3>1, <3>4, <3>5 DEF AdditivityInv
    <3>7. Before[l].additivity = v
      BY <1>1, <3>1, <3>4, <3>5 DEF RepeatLasts
    <3> QED
      BY <3>6, <3>7
  <2> QED
    BY <1>1, <2>1, <2>2 DEF RepeatKeeps
<1>5. /\ loggers \in Seq(LoggerType) /\ Before \in Seq(LoggerType) /\ Len(Before) = Len(loggers)
      /\ Len(loggers) \in Nat
  BY <1>1, SlotsAreTyped DEF RepeatKeeps, IInv, TypeOK
<1>6. \A l \in 1..Len(loggers) : loggers[l] \in LoggerType /\ Before[l] \in LoggerType
  BY <1>5
<1>7. \A l \in 1..Len(loggers) : loggers[l] = Before[l]
  BY <1>1, <1>3, <1>4, <1>6, PlainName DEF RepeatKeeps, LoggerIds
<1>8. loggers = Before
  BY <1>5, <1>7
<1> QED
  BY <1>1, <1>8 DEF RepeatKeeps, Unopened, Contents

\* What is found stays until an item is read, and is what a call leaves that
\* reads nothing or repeats.
LEMMA NextFound ==
  ASSUME NamesFit, IInv, IInv', CallsInv, HistoryInv, HistoryInv', ShapeInv, LevelsInv', AdditivityInv',
         RepeatInv', FoundInv, [ConfiguratorNext]_all
  PROVE  FoundInv'
<1> SUFFICES ASSUME done' # << >>
             PROVE  /\ (job' # Idle /\ job'.at = 0 /\ job'.pass = 1) => Contents' = LastCall.found'
                    /\ (job' = Idle /\ (LastCall.failed' \/ (Live' /\ Repetition'))) =>
                         Contents' = LastCall.found'
  BY DEF FoundInv
<1>0. RegistryTypeOK /\ Idle.at = 0
  BY DEF IInv, TypeOK, Idle
<1>1. CASE UNCHANGED all
  <2>1. Contents' = Contents /\ LastCall' = LastCall /\ job' = job /\ done' = done
    BY <1>1 DEF all, vars, registry, configuring, Contents, AppenderIds, LastCall
  <2>2. Live' = Live /\ Repetition' = Repetition
    BY <2>1, SameCall
  <2> QED
    BY <2>1, <2>2 DEF FoundInv
<1>2. CASE \E t \in Texts, source \in {"string", "file"} : Begin(t, source)
  <2>1. PICK t \in Texts, source \in {"string", "file"} : Begin(t, source)
    BY <1>2
  <2>2. UNCHANGED vars /\ job' # Idle
    BY <2>1, BeginMakes
  <2>3. done' = Append(done, [text |-> t, source |-> source, found |-> Contents, failed |-> FALSE])
    BY <2>1 DEF Begin
  <2>4. LastCall.found' = Contents
    BY <2>3, HistoryGrows
  <2>5. Contents' = Contents
    BY <2>2 DEF vars, registry, Contents, AppenderIds
  <2> QED
    BY <2>2, <2>4, <2>5
<1>3. CASE Unreadable
  <2>1. UNCHANGED vars /\ done # << >> /\ job # Idle
    BY <1>3, UnreadableIsDead
  <2>2. job.at = 0 /\ job.pass = 1 /\ job' = Idle
    BY <1>3 DEF Unreadable
  <2>3. done' = [done EXCEPT ![Len(done)].failed = TRUE]
    BY <1>3 DEF Unreadable
  <2>4. LastCall.found' = LastCall.found
    BY <2>1, <2>3, HistoryFails
  <2>5. Contents = LastCall.found
    BY <2>1, <2>2 DEF FoundInv
  <2>6. Contents' = Contents
    BY <2>1 DEF vars, registry, Contents, AppenderIds
  <2> QED
    BY <2>4, <2>5, <2>6
<1>4. CASE Close \/ Register
  <2>1. done' = done /\ Quiet
    BY <1>4, CallGoesOn DEF Quiet
  <2>2. Contents' = Contents /\ LastCall' = LastCall
    BY <1>0, <2>1, QuietOnly, SameCall
  <2>3. job # Idle /\ ~job.begun
    BY <1>4, RegisterStep DEF Close, Ready
  <2>4. job.at = 0 /\ job.pass = 1
    BY <2>3 DEF ShapeInv
  <2>5. Contents = LastCall.found
    BY <2>1, <2>3, <2>4 DEF FoundInv
  <2> QED
    BY <2>2, <2>5
<1>5. CASE ReadItem
  <2>1. job # Idle
    BY <1>5 DEF ReadItem, Ready
  <2>2. job.at \in Nat /\ job \in JobType
    BY <2>1, AtWork
  <2>3. job'.at = job.at + 1
    BY <1>5, <2>2 DEF ReadItem, JobType
  <2>4. job'.at # 0
    BY <2>2, <2>3
  <2> QED
    BY <1>0, <2>4
<1>6. CASE SecondPass
  <2>1. job # Idle
    BY <1>6 DEF SecondPass, Ready
  <2>2. job.pass \in {1, 2} /\ job \in JobType
    BY <2>1, AtWork
  <2>3. job'.pass = job.pass + 1
    BY <1>6, <2>2 DEF SecondPass, JobType
  <2>4. job'.pass # 1 /\ job'.pass # 0
    BY <2>2, <2>3
  <2>5. job' # Idle
    BY <2>4 DEF Idle
  <2> QED
    BY <2>4, <2>5
<1>7. CASE Finish
  <2>1. job # Idle /\ job' = Idle /\ done' = done
    BY <1>7 DEF Finish, Ready
  <2>2. ~LastCall.failed
    BY <2>1, AtWork
  <2>3. ~LastCall.failed'
    BY <2>1, <2>2, SameCall
  <2>4. ASSUME Live', Repetition' PROVE Contents' = LastCall.found'
    <3>1. ((IInv /\ HistoryInv /\ LevelsInv /\ AdditivityInv /\ RepeatInv /\ Live /\ Repetition /\ job = Idle)
             => Contents = LastCall.found)'
      BY RestingRepeat, PTL
    <3> QED
      BY <2>1, <2>4, <3>1
  <2> QED
    BY <2>1, <2>3, <2>4
<1>8. ASSUME NEW op, job # Idle, job.at \in Nat \ {0}, job'.at = job.at
      PROVE  job' # Idle /\ job'.at # 0
  BY <1>0, <1>8
<1>9. CASE CallFind
  <2>1. job.todo # << >> /\ job'.at = job.at
    <3>1. job.todo # << >>
      BY <1>9 DEF CallFind
    <3>2. job # Idle
      BY <3>1 DEF Idle
    <3>3. job \in JobType
      BY <3>2, AtWork
    <3> QED
      BY <1>9, <3>1, <3>3 DEF CallFind, JobType
  <2>2. job # Idle /\ job.at \in Nat /\ job.at # 0
    <3>1. job # Idle
      BY <2>1 DEF Idle
    <3>2. ~job.begun => job.at = 0 /\ job.todo[1].op = "register"
      <4>1. job.todo \in Seq(ApiCall)
        BY <3>1, AtWork
      <4>2. 1 \in DOMAIN job.todo
        BY <2>1, <4>1
      <4> QED
        BY <3>1, <4>2 DEF ShapeInv
    <3>3. job.todo[1].op = "find"
      <4>1. job.todo \in Seq(ApiCall)
        BY <3>1, AtWork
      <4> QED
        BY <1>9, <2>1, <4>1 DEF CallFind
    <3>4. job.at # 0
      BY <2>1, <3>1, <3>2, <3>3 DEF ShapeInv
    <3> QED
      BY <3>1, <3>4, AtWork
  <2> QED
    BY <1>8, <2>1, <2>2
<1>10. CASE CallLayout \/ CallParam \/ CallEnd \/ CallLogger \/ CallLevel \/ CallAdditivity \/ CallRef \/ CallAppender
  <2>1. PICK op \in {"layout", "param", "end", "logger", "level", "additivity", "ref", "appender"} : Takes(op)
    BY <1>10 DEF CallLayout, CallParam, CallEnd, CallLogger, CallLevel, CallAdditivity, CallRef, CallAppender
  <2>2. job # Idle /\ job.at \in Positions /\ job.at > 0
    BY <2>1, CallTaken
  <2>3. job.at \in Nat /\ job \in JobType
    BY <2>2, AtWork
  <2>4. job'.at = job.at
    BY <2>1, <2>3 DEF Takes, JobType
  <2> QED
    BY <1>8, <2>2, <2>3, <2>4
<1> QED
  BY <1>1, <1>2, <1>3, <1>4, <1>5, <1>6, <1>7, <1>9, <1>10, StepKinds DEF Quiet

\* What holds of a configurator whenever it is looked at.
ConfiguratorInv == IInv /\ CallsInv /\ DoneInv /\ TextInv

\* It holds before the first call.
LEMMA InitConfigurator == ConfiguratorInit => ConfiguratorInv
<1> SUFFICES ASSUME ConfiguratorInit PROVE ConfiguratorInv
  OBVIOUS
<1>1. done = << >>
  BY DEF ConfiguratorInit
<1>2. IInv /\ CallsInv /\ HistoryInv /\ ShapeInv /\ CurrentInv
  BY InitInv, InitCallsInv, InitShape, InitCurrent DEF ConfiguratorInit
<1>3. RegisteredInv /\ FoundInv
  BY <1>1 DEF RegisteredInv, FoundInv
<1>4. ~Live
  BY <1>1 DEF Live
<1>5. TextInv
  BY <1>4 DEF TextInv, NamedInv, DefinedInv, AttachedInv, LevelsInv, AdditivityInv, RepeatInv
<1> QED
  BY <1>2, <1>3, <1>5 DEF ConfiguratorInv, DoneInv

\* Every step of a configurator keeps it.
LEMMA NextConfigurator ==
  ASSUME NamesFit, ConfiguratorInv, [ConfiguratorNext]_all
  PROVE  ConfiguratorInv'
<1>1. IInv /\ CallsInv /\ DoneInv /\ TextInv
  BY DEF ConfiguratorInv
<1>2. IInv' /\ CallsInv'
  BY <1>1, ConfiguratorStep, NextInv, NextCallsInv
<1>3. HistoryInv' /\ ShapeInv'
  BY <1>1, <1>2, NextShape DEF DoneInv
<1>4. RegisteredInv' /\ CurrentInv'
  BY <1>1, <1>2, NextRegistered, NextCurrent DEF DoneInv
<1>5. NamedInv' /\ DefinedInv' /\ AttachedInv'
  BY <1>1, <1>2, <1>3, NextNamed, NextDefined, NextAttached DEF DoneInv, TextInv
<1>6. LevelsInv' /\ AdditivityInv'
  BY <1>1, <1>2, <1>3, NextLevels, NextAdditivity DEF DoneInv, TextInv
<1>7. RepeatInv'
  BY <1>1, <1>2, NextRepeat DEF DoneInv, TextInv
<1>8. FoundInv'
  BY <1>1, <1>2, <1>3, <1>6, <1>7, NextFound DEF DoneInv
<1> QED
  BY <1>2, <1>3, <1>4, <1>5, <1>6, <1>7, <1>8 DEF ConfiguratorInv, DoneInv, TextInv

\* What the configurators remember, read and make current is what the text
\* says, and what they have configured so far is what it has said so far.
THEOREM ConfiguratorKeepsInv ==
  ASSUME NamesFit
  PROVE  ConfiguratorSpec => []ConfiguratorInv
<1>1. ConfiguratorInit => ConfiguratorInv
  BY InitConfigurator
<1>2. ConfiguratorInv /\ [ConfiguratorNext]_all => ConfiguratorInv'
  BY NextConfigurator
<1> QED
  BY <1>1, <1>2, PTL DEF ConfiguratorSpec

\* A call of a configurator that repeats the one before, or whose file cannot
\* be read, leaves the loggers, appenders and attachments that it found
\* (l4sc_configure_from_string and _file with the same text again).
THEOREM RepetitionChangesNothing ==
  ASSUME NamesFit
  PROVE  ConfiguratorSpec => []RepeatChangesNothing
<1>1. ConfiguratorInv => RepeatChangesNothing
  <2> SUFFICES ASSUME ConfiguratorInv, Resting, Len(done) > 1,
                      \/ LastCall.failed
                      \/ /\ done[Len(done) - 1].text = LastCall.text
                         /\ done[Len(done) - 1].source = LastCall.source
                         /\ ~done[Len(done) - 1].failed /\ Orderly(done[Len(done) - 1].text)
               PROVE  LastCall.found = Contents
    BY DEF RepeatChangesNothing
  <2>1. job = Idle /\ done # << >> /\ FoundInv
    BY DEF Resting, ConfiguratorInv, DoneInv
  <2>2. CASE LastCall.failed
    BY <2>1, <2>2 DEF FoundInv
  <2>3. CASE ~LastCall.failed
    <3>1. Live /\ Repetition
      BY <2>1, <2>3 DEF Live, Repetition, LastText, LastSource
    <3> QED
      BY <2>1, <3>1 DEF FoundInv
  <2> QED
    BY <2>2, <2>3
<1> QED
  BY <1>1, ConfiguratorKeepsInv, PTL
=============================================================================
