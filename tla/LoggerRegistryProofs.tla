------------------------ MODULE LoggerRegistryProofs ------------------------
(***************************************************************************)
(* Proofs about l4sc_get_logger called by any number of threads, for any   *)
(* names and any length of namebuf: the list of loggers has no ring, calls *)
(* answer with loggers of the name they were asked for, except the names   *)
(* that "logger" begins with, and every logger gets the parent its name    *)
(* says, or none when an allocation fails, however the calls overlap.      *)
(* While no call creates loggers during another search, a call amounts to  *)
(* the one step that LoggerTree has for it.                                *)
(***************************************************************************)
EXTENDS LoggerRegistry, FiniteSetTheorems, SequenceTheorems, WellFoundedInduction, TLAPS

-----------------------------------------------------------------------------
(* The scan of a list *)

\* Every set of naturals that is not empty has a least element.
LEMMA Least ==
  ASSUME NEW S, S \subseteq Nat, S # {}
  PROVE  \E x \in S : \A y \in S : x <= y
<1> DEFINE less == OpToRel(<, Nat)
<1>1. \E x \in S : \A y \in S : <<y, x>> \notin less
  BY WFMin, NatLessThanWellFounded, Zenon
<1>2. \A x, y \in Nat : y < x => <<y, x>> \in less
  BY DEF OpToRel
<1> HIDE DEF less
<1>3. PICK x \in S : \A y \in S : <<y, x>> \notin less
  BY <1>1
<1>4. ASSUME NEW y \in S PROVE x <= y
  <2>1. x \in Nat /\ y \in Nat /\ ~(y < x)
    BY <1>2, <1>3
  <2> QED
    BY <2>1
<1> QED
  BY <1>4

\* What a scan finds at its i-th place, given what it finds before that.
Place(next, chain, i) ==
  IF i = 1 THEN Root ELSE IF chain[i - 1] = 0 THEN 0 ELSE next[chain[i - 1]]

\* A scan can be followed over any number of places.
LEMMA ChainExists ==
  ASSUME NEW next, NEW m \in Nat
  PROVE  \E chain : chain = [i \in 1..m |-> Place(next, chain, i)]
<1> DEFINE Has(n) == \E chain : chain = [i \in 1..n |-> Place(next, chain, i)]
           Lacking == {n \in Nat : ~Has(n)}
<1>1. Has(0)
  <2> DEFINE none == [i \in 1..0 |-> 0]
  <2>1. none = [i \in 1..0 |-> Place(next, none, i)]
    OBVIOUS
  <2> QED
    BY <2>1
<1>2. ASSUME NEW n \in Nat, Has(n) PROVE Has(n + 1)
  <2>1. PICK old : old = [i \in 1..n |-> Place(next, old, i)]
    BY <1>2
  <2> DEFINE new == [i \in 1..(n + 1) |-> IF i = n + 1 THEN Place(next, old, i) ELSE old[i]]
  <2>2. ASSUME NEW i \in 1..(n + 1) PROVE new[i] = Place(next, new, i)
    <3>1. i # 1 => i - 1 \in 1..n /\ i - 1 \in 1..(n + 1) /\ i - 1 # n + 1
      OBVIOUS
    <3>2. i # 1 => new[i - 1] = old[i - 1]
      BY <3>1
    <3>3. Place(next, new, i) = Place(next, old, i)
      <4> HIDE DEF new
      <4> QED
        BY <3>2 DEF Place
    <3>4. CASE i = n + 1
      BY <3>3, <3>4
    <3>5. CASE i # n + 1
      <4>1. i \in 1..n
        BY <3>5
      <4>2. old[i] = Place(next, old, i)
        <5> HIDE DEF Place
        <5> QED
          BY <2>1, <4>1, Zenon
      <4> QED
        BY <3>3, <3>5, <4>2
    <3> QED
      BY <3>4, <3>5
  <2>3. new = [i \in 1..(n + 1) |-> new[i]]
    OBVIOUS
  <2> HIDE DEF new
  <2>4. new = [i \in 1..(n + 1) |-> Place(next, new, i)]
    BY <2>2, <2>3
  <2> QED
    BY <2>4
<1>3. Lacking = {}
  <2> SUFFICES ASSUME Lacking # {} PROVE FALSE
    OBVIOUS
  <2> HIDE DEF Has
  <2>1. PICK n \in Lacking : \A k \in Lacking : n <= k
    BY Least, Lacking \subseteq Nat
  <2>2. n # 0
    BY <1>1, <2>1
  <2>3. n - 1 \in Nat /\ n - 1 \notin Lacking
    BY <2>1, <2>2
  <2>4. Has((n - 1) + 1)
    BY <1>2, <2>3
  <2> QED
    BY <2>1, <2>4
<1> HIDE DEF Has
<1>4. Has(m)
  BY <1>3
<1> QED
  BY <1>4 DEF Has

\* The recursive definition of a scan is met by what it defines.
LEMMA FollowingIs ==
  ASSUME NEW ns, Len(ns) \in Nat, NEW next, NEW i \in 1..(Len(ns) + 1)
  PROVE  Following(ns, next)[i] = Place(next, Following(ns, next), i)
<1> DEFINE m == Len(ns) + 1
           chain == CHOOSE f : f = [k \in 1..m |-> Place(next, f, k)]
<1>1. Following(ns, next) = chain
  BY DEF Following, Place
<1>2. m \in Nat
  OBVIOUS
<1> HIDE DEF m
<1>3. chain = [k \in 1..m |-> Place(next, chain, k)]
  BY <1>2, ChainExists, Zenon
<1> HIDE DEF chain
<1>4. chain[i] = Place(next, chain, i)
  <2>1. i \in 1..m
    BY DEF m
  <2> HIDE DEF Place
  <2> QED
    BY <1>3, <2>1, Zenon
<1> QED
  BY <1>1, <1>4

-----------------------------------------------------------------------------
(* What is known of the loggers and of the calls *)

Words == NameParts \union {"", "rootlogger", "l4sclog", "logger"}
NodeType == [asked : Seq(Words), name : Seq(Words), parent : Nat, next : Nat]
PCs == {"outside", "compare", "end", "advance", "alloc", "readlast", "link", "setlast", "name", "parent"}
ThreadType ==
  [pc : PCs, asked : Seq(Words), at : Nat, own : Nat, seen : Nat, stack : Seq(Nat),
   answer : Nat, call : Seq(Words), got : Nat]

TypeOK ==
  /\ nodes \in Seq(NodeType) /\ Len(nodes) >= 2
  /\ last \in Nat
  /\ thread \in [Threads -> ThreadType]
  /\ failures \in Nat

Nodes == 1..Len(nodes)

\* A thread that has a logger which is not named yet, and one that has not
\* put it into the list.
Naming(t) == thread[t].pc \in {"readlast", "link", "setlast", "name"}
Pending(t) == thread[t].pc \in {"readlast", "link"}

\* Each thread names a logger of its own.
OwnInv ==
  /\ \A t \in Threads : Naming(t) =>
       /\ thread[t].own \in 3..Len(nodes)
       /\ nodes[thread[t].own].name = Unnamed
       /\ nodes[thread[t].own].asked = thread[t].asked
  /\ \A t, u \in Threads : (t # u /\ Naming(t) /\ Naming(u)) => thread[t].own # thread[u].own

\* The loggers can be numbered so that all links lead upwards.
Ranked(ns, rank) ==
  /\ rank \in [1..Len(ns) -> 1..Len(ns)]
  /\ \A x, y \in 1..Len(ns) : x # y => rank[x] # rank[y]
  /\ \A x \in 1..Len(ns) : ns[x].next # 0 => rank[x] < rank[ns[x].next]

\* A logger that is not in the list yet is not linked to any other, and nobody
\* knows of it but the thread that made it.
ListInv ==
  /\ last \in 2..Len(nodes)
  /\ nodes[Root].next = 2
  /\ \A x \in Nodes : nodes[x].next \in 0..Len(nodes)
  /\ \A t \in Threads :
       /\ thread[t].pc \in {"compare", "end", "advance"} => thread[t].at \in Nodes
       /\ thread[t].pc = "link" => thread[t].seen \in 2..Len(nodes)
       /\ Pending(t) =>
            /\ nodes[thread[t].own].next = 0 /\ last # thread[t].own
            /\ \A x \in Nodes : nodes[x].next # thread[t].own
            /\ \A u \in Threads : thread[u].pc = "link" => thread[u].seen # thread[t].own
  /\ \E rank : Ranked(nodes, rank)

\* A logger has the name that was asked for, or waits for it.
NamesInv ==
  \A x \in Nodes :
    /\ nodes[x].asked # << >>
    /\ \/ nodes[x].name = Tree!Stored(nodes[x].asked)
       \/ \E t \in Threads : Naming(t) /\ thread[t].own = x

\* x is an answer to a call for n.
Good(ns, x, n) ==
  /\ x \in 1..Len(ns)
  /\ n \in Beginnings \/ (ns[x].name = Tree!Stored(n) /\ ns[x].name # Unnamed)

\* p is what the parent of x should be.
GoodParent(ns, failed, x, p) ==
  IF Len(ns[x].asked) = 1 THEN p = Root
  ELSE (p = 0 /\ failed > 0) \/ Good(ns, p, Tree!Front(ns[x].asked))

\* The loggers whose parents a thread looks for: each was asked for as the
\* prefix of the one before.
StackOK(ns, stack, call) ==
  /\ \A k \in 1..Len(stack) :
       stack[k] \in 3..Len(ns) /\ ns[stack[k]].name = Tree!Stored(ns[stack[k]].asked)
  /\ Len(stack) > 0 => ns[stack[1]].asked = call
  /\ \A k \in 1..(Len(stack) - 1) :
       /\ Len(ns[stack[k]].asked) > 1
       /\ ns[stack[k + 1]].asked = Tree!Front(ns[stack[k]].asked)

Top(stack) == stack[Len(stack)]

\* What the locals of a thread are at each statement.
CallOK(ns, failed, r) ==
  /\ StackOK(ns, r.stack, r.call)
  /\ r.pc = "outside" => r.stack = << >>
  /\ r.pc # "outside" => r.call # << >>
  /\ r.pc \notin {"outside", "parent"} =>
       IF r.stack = << >> THEN r.asked = r.call
       ELSE /\ Len(ns[Top(r.stack)].asked) > 1
            /\ r.asked = Tree!Front(ns[Top(r.stack)].asked)
  /\ r.pc = "parent" => r.stack # << >> /\ GoodParent(ns, failed, Top(r.stack), r.answer)
  /\ r.got # 0 => Good(ns, r.got, r.call)

CallsInv == \A t \in Threads : CallOK(nodes, failures, thread[t])

\* A logger of which some call still has to set the parent.
InFlight(x) ==
  \E t \in Threads :
    \/ Naming(t) /\ thread[t].own = x
    \/ \E k \in 1..Len(thread[t].stack) : thread[t].stack[k] = x

ParentsInv ==
  \A x \in 3..Len(nodes) : InFlight(x) \/ GoodParent(nodes, failures, x, nodes[x].parent)

IInv == TypeOK /\ OwnInv /\ ListInv /\ NamesInv /\ CallsInv /\ ParentsInv

-----------------------------------------------------------------------------
(* Names *)

\* A name that is cut is a name, and begins as it did.
LEMMA StoredIs ==
  ASSUME NEW n \in Seq(Words), n # << >>
  PROVE  /\ Tree!Stored(n) \in Seq(Words) /\ Tree!Stored(n) # << >>
         /\ Tree!Stored(n)[1] = n[1]
<1> DEFINE h == NameSize \div 2
<1>1. CASE Tree!Fits(n)
  BY <1>1 DEF Tree!Stored
<1>2. CASE ~Tree!Fits(n)
  <2>1. h \in 1..Len(n)
    BY <1>2, NameSizeAssumption, LenProperties DEF Tree!Fits
  <2>2. /\ Tree!Prefix(n, h) \in Seq(Words) /\ Len(Tree!Prefix(n, h)) = h
        /\ Tree!Prefix(n, h)[1] = n[1]
    BY <2>1, SubSeqProperties, LenProperties DEF Tree!Prefix
  <2> DEFINE p == Tree!Prefix(n, h)
             e == ""
  <2>3. e \in Words
    BY DEF Words
  <2> HIDE DEF p, e, h
  <2>4. /\ Append(p, e) \in Seq(Words) /\ Append(p, e) # << >>
        /\ Append(p, e)[1] = p[1]
    BY <2>1, <2>2, <2>3, AppendProperties DEF p
  <2>5. p # << >>
    BY <2>1, <2>2 DEF p
  <2> QED
    BY <1>2, <2>2, <2>4, <2>5 DEF Tree!Stored, p, e, h
<1> QED
  BY <1>1, <1>2

\* A name that was cut is not cut again.
LEMMA StoredTwice ==
  ASSUME NEW n \in Seq(Words), n # << >>
  PROVE  Tree!Stored(Tree!Stored(n)) = Tree!Stored(n)
<1> DEFINE h == NameSize \div 2
           p == Tree!Prefix(n, h)
           s == Tree!Stored(n)
           e == ""
<1>1. CASE Tree!Fits(n)
  BY <1>1 DEF Tree!Stored
<1>2. CASE ~Tree!Fits(n)
  <2>1. h \in 1..Len(n) /\ NameSize \in Nat /\ Len(n) \in Nat
    BY <1>2, NameSizeAssumption, LenProperties DEF Tree!Fits
  <2>2. p \in Seq(Words) /\ Len(p) = h
    BY <2>1, SubSeqProperties, LenProperties DEF Tree!Prefix
  <2>3. CASE NameSize % 2 = 0
    <3>1. s = p
      BY <1>2, <2>3 DEF Tree!Stored
    <3>2. 2 * h - 1 < NameSize
      BY <2>1, <2>3
    <3>3. Tree!Fits(s)
      BY <2>2, <3>1, <3>2 DEF Tree!Fits
    <3> QED
      BY <3>3 DEF Tree!Stored
  <2>4. CASE NameSize % 2 # 0
    <3>0. e \in Words
      BY DEF Words
    <3>1. s = Append(p, e)
      BY <1>2, <2>4 DEF Tree!Stored
    <3> HIDE DEF s, e
    <3>2. /\ Len(s) = h + 1 /\ s \in Seq(Words)
          /\ \A i \in 1..h : s[i] = p[i]
      <4> HIDE DEF p, h
      <4> QED
        BY <2>2, <3>0, <3>1, AppendProperties
    <3>3. ~(2 * (h + 1) - 1 < NameSize)
      BY <2>1, <2>4
    <3>4. ~Tree!Fits(s)
      BY <3>2, <3>3 DEF Tree!Fits
    <3>5. Tree!Prefix(s, h) = p
      <4>1. /\ Tree!Prefix(s, h) \in Seq(Words) /\ Len(Tree!Prefix(s, h)) = h
            /\ \A i \in 1..h : Tree!Prefix(s, h)[i] = s[i]
        BY <2>1, <3>2, SubSeqProperties DEF Tree!Prefix
      <4> HIDE DEF p, h
      <4>2. \A i \in 1..Len(p) : Tree!Prefix(s, h)[i] = p[i]
        BY <2>2, <3>2, <4>1
      <4> QED
        BY <2>2, <4>1, <4>2, SeqEqual
    <3>6. Tree!Stored(s) = Append(Tree!Prefix(s, h), e)
      BY <2>4, <3>4 DEF Tree!Stored, e
    <3> QED
      BY <3>1, <3>5, <3>6 DEF s
  <2> QED
    BY <2>3, <2>4
<1> QED
  BY <1>1, <1>2

\* The name before the last dot is a name, and begins as the whole one.
LEMMA FrontIs ==
  ASSUME NEW S, NEW n \in Seq(S), Len(n) > 1
  PROVE  /\ Tree!Front(n) \in Seq(S) /\ Tree!Front(n) # << >>
         /\ Tree!Front(n)[1] = n[1] /\ Len(Tree!Front(n)) = Len(n) - 1
         /\ \A k \in 1..(Len(n) - 1) : Tree!Front(n)[k] = n[k]
<1>1. Len(n) \in Nat /\ Len(n) - 1 \in 1..Len(n)
  BY LenProperties
<1>2. /\ Tree!Front(n) \in Seq(S) /\ Len(Tree!Front(n)) = Len(n) - 1
      /\ \A k \in 1..(Len(n) - 1) : Tree!Front(n)[k] = n[k]
  BY <1>1, SubSeqProperties DEF Tree!Front
<1> QED
  BY <1>1, <1>2

\* Only a logger that was asked for as "logger" keeps that name.
LEMMA StoredUnnamed ==
  ASSUME NEW n \in Seq(Words), n # << >>, Tree!Stored(n) = Unnamed
  PROVE  n = Unnamed
<1> DEFINE h == NameSize \div 2
<1>1. CASE Tree!Fits(n)
  BY <1>1 DEF Tree!Stored
<1>2. CASE ~Tree!Fits(n)
  <2>1. h \in 1..Len(n) /\ NameSize \in Nat /\ NameSize > 2
    BY <1>2, NameSizeAssumption, LenProperties DEF Tree!Fits
  <2>2. Tree!Prefix(n, h) \in Seq(Words) /\ Len(Tree!Prefix(n, h)) = h
    BY <2>1, SubSeqProperties DEF Tree!Prefix
  <2>3. Len(Unnamed) = 1
    BY DEF Unnamed
  <2>4. CASE NameSize % 2 = 0
    <3>1. Tree!Stored(n) = Tree!Prefix(n, h)
      BY <1>2, <2>4 DEF Tree!Stored
    <3>2. h > 1
      BY <2>1, <2>4
    <3> DEFINE p == Tree!Prefix(n, h)
    <3>3. p = Unnamed
      BY <3>1
    <3>4. Len(p) = h /\ h # 1
      BY <2>2, <3>2
    <3> HIDE DEF p, h
    <3> QED
      BY <2>3, <3>3, <3>4
  <2>5. CASE NameSize % 2 # 0
    <3> DEFINE p == Tree!Prefix(n, h)
               e == ""
    <3>1. Tree!Stored(n) = Append(p, e) /\ e \in Words
      BY <1>2, <2>5 DEF Tree!Stored, Words
    <3> HIDE DEF p, e
    <3>2. Len(Append(p, e)) = Len(p) + 1
      BY <2>2, <3>1, AppendProperties DEF p
    <3> QED
      BY <2>1, <2>2, <2>3, <3>1, <3>2 DEF p
  <2> QED
    BY <2>4, <2>5
<1> QED
  BY <1>1, <1>2

\* A logger is an answer to a call for the name that it was asked for itself.
LEMMA GoodItself ==
  ASSUME NEW ns, NEW x \in 1..Len(ns), NEW n \in Seq(Words), n # << >>,
         ns[x].name = Tree!Stored(n)
  PROVE  Good(ns, x, n)
<1>1. CASE Tree!Stored(n) = Unnamed
  <2>1. n \in Beginnings
    BY <1>1, StoredUnnamed DEF Beginnings, Unnamed
  <2> QED
    BY <2>1 DEF Good
<1>2. CASE Tree!Stored(n) # Unnamed
  BY <1>2 DEF Good
<1> QED
  BY <1>1, <1>2

-----------------------------------------------------------------------------
(* What the steps of a call do *)

\* Only thread t moves.
Moved(t) ==
  /\ thread' \in [Threads -> ThreadType]
  /\ \A u \in Threads \ {t} : thread'[u] = thread[u]

SameList == nodes' = nodes /\ last' = last

\* The innermost call of t returns x.
Gives(t, x) ==
  LET r == thread[t]
      q == thread'[t] IN
  /\ Moved(t) /\ q.call = r.call
  /\ IF r.stack = << >> THEN q.pc = "outside" /\ q.stack = << >> /\ q.got = x
     ELSE q.pc = "parent" /\ q.stack = r.stack /\ q.answer = x /\ q.got = r.got

\* Locals of one thread are set.
LEMMA ThreadSet ==
  ASSUME TypeOK, NEW t \in Threads, NEW q \in ThreadType, thread' = [thread EXCEPT ![t] = q]
  PROVE  Moved(t) /\ thread'[t] = q
BY DEF TypeOK, Moved

\* A thread that has returned.
LEMMA OutsideIs ==
  ASSUME NEW call \in Seq(Words), NEW got \in Nat
  PROVE  /\ Outside(call, got) \in ThreadType
         /\ Outside(call, got).pc = "outside" /\ Outside(call, got).stack = << >>
         /\ Outside(call, got).call = call /\ Outside(call, got).got = got
<1>1. << >> \in Seq(Words) /\ << >> \in Seq(Nat)
  OBVIOUS
<1> QED
  BY <1>1 DEF Outside, ThreadType, PCs

\* The outermost call returns to the program.
LEMMA ReturnGives ==
  ASSUME TypeOK, NEW t \in Threads, NEW x \in Nat, thread[t].stack = << >>, Return(t, x)
  PROVE  Gives(t, x)
<1> DEFINE q == Outside(thread[t].call, x)
<1>1. thread[t] \in ThreadType
  BY DEF TypeOK
<1>2. /\ q \in ThreadType /\ q.pc = "outside" /\ q.stack = << >>
      /\ q.call = thread[t].call /\ q.got = x
  <2>1. thread[t].call \in Seq(Words)
    BY <1>1 DEF ThreadType
  <2> QED
    BY <2>1, OutsideIs
<1>3. thread' = [thread EXCEPT ![t] = q]
  BY DEF Return
<1> HIDE DEF q
<1> QED
  BY <1>2, <1>3, ThreadSet DEF Gives

\* A call returns, to the program or to set_logger_name.
LEMMA AnswerGives ==
  ASSUME TypeOK, NEW t \in Threads, NEW x \in Nat, Answer(t, x)
  PROVE  Gives(t, x)
<1>1. CASE thread[t].stack = << >>
  BY <1>1, ReturnGives DEF Answer
<1>2. CASE thread[t].stack # << >>
  <2> DEFINE q == [thread[t] EXCEPT !.pc = "parent", !.answer = x]
  <2>1. thread[t] \in ThreadType
    BY DEF TypeOK
  <2>2. /\ q \in ThreadType /\ q.pc = "parent" /\ q.stack = thread[t].stack
        /\ q.call = thread[t].call /\ q.got = thread[t].got /\ q.answer = x
    BY <2>1 DEF ThreadType, PCs
  <2>3. thread' = [thread EXCEPT ![t] = q]
    BY <1>2, <2>1 DEF Answer, TypeOK
  <2> HIDE DEF q
  <2> QED
    BY <1>2, <2>2, <2>3, ThreadSet DEF Gives
<1> QED
  BY <1>1, <1>2

\* What each step of a call does to the list and to the locals of its thread.
\* The program calls l4sc_get_logger.
LEMMA BeginIs ==
  ASSUME TypeOK, NEW t \in Threads, NEW n \in LoggerNames, Begin(t, n)
  PROVE  LET q == thread'[t] IN
         /\ SameList /\ failures' = failures /\ Moved(t)
         /\ thread[t].pc = "outside" /\ n \in Seq(Words) /\ n # << >>
         /\ q.pc = "compare" /\ q.asked = n /\ q.call = n /\ q.at = Root
         /\ q.stack = << >> /\ q.got = 0
<1> DEFINE q == [Outside(n, 0) EXCEPT !.pc = "compare", !.asked = n, !.at = Root]
<1>1. n \in Seq(Words) /\ n # << >>
  <2>1. NameParts \subseteq Words
    BY DEF Words
  <2> QED
    BY <2>1, LoggerNamesAssumption, SeqMonotonic
<1>2. /\ q \in ThreadType /\ q.pc = "compare" /\ q.asked = n /\ q.call = n /\ q.at = Root
      /\ q.stack = << >> /\ q.got = 0
  <2>1. << >> \in Seq(Words) /\ << >> \in Seq(Nat)
    OBVIOUS
  <2> QED
    BY <1>1, <2>1 DEF Outside, ThreadType, PCs, Root
<1>3. /\ thread' = [thread EXCEPT ![t] = q] /\ thread[t].pc = "outside"
      /\ SameList /\ failures' = failures
  BY DEF Begin, SameList, Inside
<1> HIDE DEF q
<1> QED
  BY <1>1, <1>2, <1>3, ThreadSet

\* The beginning of a name is compared.
LEMMA PrefixIs ==
  ASSUME TypeOK, NEW t \in Threads, ComparePrefix(t)
  PROVE  LET r == thread[t] IN
         /\ SameList /\ failures' = failures /\ r.pc = "compare" /\ Moved(t)
         /\ thread'[t] = [r EXCEPT !.pc = IF Begins(t) THEN "end" ELSE "advance"]
<1> DEFINE q == [thread[t] EXCEPT !.pc = IF Begins(t) THEN "end" ELSE "advance"]
<1>1. thread[t] \in ThreadType
  BY DEF TypeOK
<1>2. q \in ThreadType
  BY <1>1 DEF ThreadType, PCs
<1>3. thread' = [thread EXCEPT ![t] = q]
  BY DEF ComparePrefix, TypeOK
<1>4. SameList /\ failures' = failures /\ thread[t].pc = "compare"
  BY DEF ComparePrefix, SameList, At
<1> HIDE DEF q
<1>5. Moved(t) /\ thread'[t] = q
  BY <1>2, <1>3, ThreadSet
<1> QED
  BY <1>4, <1>5 DEF q

\* Its end is compared: the call returns the logger, or goes on.
LEMMA EndIs ==
  ASSUME TypeOK, NEW t \in Threads, CompareEnd(t)
  PROVE  LET r == thread[t]
             q == thread'[t] IN
         /\ SameList /\ failures' = failures /\ r.pc = "end"
         /\ \/ (Found(t) \/ Changed(t)) /\ Answer(t, r.at) /\ Gives(t, r.at)
            \/ ~Found(t) /\ calm' = calm /\ Moved(t) /\ q = [r EXCEPT !.pc = "advance"]
<1> DEFINE q == [thread[t] EXCEPT !.pc = "advance"]
<1>1. thread[t] \in ThreadType /\ thread[t].at \in Nat
  BY DEF TypeOK, ThreadType
<1>2. SameList /\ failures' = failures /\ thread[t].pc = "end"
  BY DEF CompareEnd, SameList, At
<1>3. CASE (Found(t) \/ Changed(t)) /\ Answer(t, thread[t].at)
  BY <1>1, <1>2, <1>3, AnswerGives
<1>4. CASE ~Found(t) /\ thread' = [thread EXCEPT ![t].pc = "advance"] /\ UNCHANGED calm
  <2>1. q \in ThreadType
    BY <1>1 DEF ThreadType, PCs
  <2>2. thread' = [thread EXCEPT ![t] = q]
    BY <1>4 DEF TypeOK
  <2> HIDE DEF q
  <2>3. Moved(t) /\ thread'[t] = q
    BY <2>1, <2>2, ThreadSet
  <2> QED
    BY <1>2, <1>4, <2>3 DEF q
<1> QED
  BY <1>3, <1>4 DEF CompareEnd

\* The next logger is looked at, or there is none.
LEMMA AdvanceIs ==
  ASSUME TypeOK, NEW t \in Threads, Advance(t), nodes[thread[t].at].next \in Nat
  PROVE  LET r == thread[t]
             next == nodes[r.at].next IN
         /\ SameList /\ failures' = failures /\ r.pc = "advance" /\ Moved(t)
         /\ thread'[t] = [r EXCEPT !.at = next, !.pc = IF next # 0 THEN "compare" ELSE "alloc"]
<1> DEFINE next == nodes[thread[t].at].next
           q == [thread[t] EXCEPT !.at = next, !.pc = IF next # 0 THEN "compare" ELSE "alloc"]
<1>1. thread[t] \in ThreadType
  BY DEF TypeOK
<1>2. q \in ThreadType
  BY <1>1 DEF ThreadType, PCs
<1>3. thread' = [thread EXCEPT ![t] = q]
  BY DEF Advance, TypeOK
<1>4. SameList /\ failures' = failures /\ thread[t].pc = "advance"
  BY DEF Advance, SameList, At
<1> HIDE DEF q
<1>5. Moved(t) /\ thread'[t] = q
  BY <1>2, <1>3, ThreadSet
<1> QED
  BY <1>4, <1>5 DEF q

\* No memory: the call returns NULL.
LEMMA AllocFailsIs ==
  ASSUME TypeOK, NEW t \in Threads, AllocFails(t)
  PROVE  SameList /\ failures' = failures + 1 /\ thread[t].pc = "alloc" /\ Gives(t, 0)
BY AnswerGives DEF AllocFails, SameList, At

\* A logger is made that has no name of its own yet.
LEMMA InitLoggerIs ==
  ASSUME TypeOK, NEW t \in Threads, InitLogger(t)
  PROVE  LET r == thread[t]
             new == Len(nodes) + 1 IN
         /\ last' = last /\ failures' = failures /\ r.pc = "alloc" /\ Moved(t)
         /\ nodes' \in Seq(NodeType) /\ Len(nodes') = new
         /\ \A x \in Nodes : nodes'[x] = nodes[x]
         /\ nodes'[new] = Node(r.asked, Unnamed, 0, 0)
         /\ thread'[t] = [r EXCEPT !.own = new, !.pc = "readlast"]
<1> DEFINE new == Len(nodes) + 1
           e == Node(thread[t].asked, Unnamed, 0, 0)
           q == [thread[t] EXCEPT !.own = new, !.pc = "readlast"]
<1>1. thread[t] \in ThreadType /\ nodes \in Seq(NodeType) /\ Len(nodes) \in Nat
  BY LenProperties DEF TypeOK
<1>2. e \in NodeType
  <2>1. "logger" \in Words
    BY DEF Words
  <2>2. Unnamed \in Seq(Words)
    BY <2>1 DEF Unnamed
  <2> QED
    BY <1>1, <2>2 DEF NodeType, ThreadType, Node
<1>3. nodes' = Append(nodes, e)
  BY DEF InitLogger
<1>4. /\ nodes' \in Seq(NodeType) /\ Len(nodes') = new
      /\ \A x \in Nodes : nodes'[x] = nodes[x]
      /\ nodes'[new] = e
  <2> HIDE DEF e
  <2> QED
    BY <1>1, <1>2, <1>3, AppendProperties DEF Nodes
<1>5. q \in ThreadType
  <2>1. new \in Nat
    BY <1>1
  <2> HIDE DEF new, e
  <2> QED
    BY <1>1, <2>1 DEF ThreadType, PCs
<1>6. thread' = [thread EXCEPT ![t] = q]
  BY <1>4 DEF InitLogger, TypeOK
<1>7. last' = last /\ failures' = failures /\ thread[t].pc = "alloc"
  BY DEF InitLogger, At
<1> HIDE DEF q, e
<1>8. Moved(t) /\ thread'[t] = q
  BY <1>5, <1>6, ThreadSet
<1> QED
  BY <1>4, <1>7, <1>8 DEF q, e

\* l4sc_loggers.last is read.
LEMMA ReadLastIs ==
  ASSUME TypeOK, NEW t \in Threads, ReadLast(t)
  PROVE  /\ SameList /\ failures' = failures /\ thread[t].pc = "readlast" /\ Moved(t)
         /\ thread'[t] = [thread[t] EXCEPT !.seen = last, !.pc = "link"]
<1> DEFINE q == [thread[t] EXCEPT !.seen = last, !.pc = "link"]
<1>1. thread[t] \in ThreadType /\ last \in Nat
  BY DEF TypeOK
<1>2. q \in ThreadType
  BY <1>1 DEF ThreadType, PCs
<1>3. thread' = [thread EXCEPT ![t] = q]
  BY DEF ReadLast, TypeOK
<1>4. SameList /\ failures' = failures /\ thread[t].pc = "readlast"
  BY DEF ReadLast, SameList, At
<1> HIDE DEF q
<1>5. Moved(t) /\ thread'[t] = q
  BY <1>2, <1>3, ThreadSet
<1> QED
  BY <1>4, <1>5 DEF q

\* l4sc_loggers.last is written.
LEMMA SetLastIs ==
  ASSUME TypeOK, NEW t \in Threads, SetLast(t)
  PROVE  /\ nodes' = nodes /\ last' = thread[t].own /\ failures' = failures
         /\ thread[t].pc = "setlast" /\ Moved(t)
         /\ thread'[t] = [thread[t] EXCEPT !.pc = "name"]
<1> DEFINE q == [thread[t] EXCEPT !.pc = "name"]
<1>1. thread[t] \in ThreadType
  BY DEF TypeOK
<1>2. q \in ThreadType
  BY <1>1 DEF ThreadType, PCs
<1>3. thread' = [thread EXCEPT ![t] = q]
  BY DEF SetLast, TypeOK
<1>4. nodes' = nodes /\ last' = thread[t].own /\ failures' = failures /\ thread[t].pc = "setlast"
  BY DEF SetLast, At
<1> HIDE DEF q
<1>5. Moved(t) /\ thread'[t] = q
  BY <1>2, <1>3, ThreadSet
<1> QED
  BY <1>4, <1>5 DEF q

\* One logger is written.
LEMMA NodeSet ==
  ASSUME TypeOK, NEW x \in Nodes, NEW e \in NodeType, nodes' = [nodes EXCEPT ![x] = e]
  PROVE  /\ nodes' \in Seq(NodeType) /\ Len(nodes') = Len(nodes)
         /\ nodes'[x] = e
         /\ \A y \in Nodes \ {x} : nodes'[y] = nodes[y]
BY ExceptSeq DEF TypeOK, Nodes

\* The logger that was last is linked to the new one.
LEMMA LinkIs ==
  ASSUME TypeOK, NEW t \in Threads, Link(t), thread[t].seen \in Nodes
  PROVE  LET r == thread[t] IN
         /\ last' = last /\ failures' = failures /\ r.pc = "link" /\ Moved(t)
         /\ nodes' \in Seq(NodeType) /\ Len(nodes') = Len(nodes)
         /\ nodes'[r.seen] = [nodes[r.seen] EXCEPT !.next = r.own]
         /\ \A y \in Nodes \ {r.seen} : nodes'[y] = nodes[y]
         /\ thread'[t] = [r EXCEPT !.pc = "setlast"]
<1> DEFINE q == [thread[t] EXCEPT !.pc = "setlast"]
           x == thread[t].seen
           e == [nodes[x] EXCEPT !.next = thread[t].own]
<1>1. thread[t] \in ThreadType /\ nodes[x] \in NodeType
  BY ElementOfSeq DEF TypeOK, Nodes
<1>2. q \in ThreadType /\ e \in NodeType
  BY <1>1 DEF ThreadType, PCs, NodeType
<1>3. thread' = [thread EXCEPT ![t] = q] /\ nodes' = [nodes EXCEPT ![x] = e]
  BY <1>1 DEF Link, TypeOK
<1>4. last' = last /\ failures' = failures /\ thread[t].pc = "link"
  BY DEF Link, At
<1> HIDE DEF q, e
<1>5. Moved(t) /\ thread'[t] = q
  BY <1>2, <1>3, ThreadSet
<1>6. /\ nodes' \in Seq(NodeType) /\ Len(nodes') = Len(nodes) /\ nodes'[x] = e
      /\ \A y \in Nodes \ {x} : nodes'[y] = nodes[y]
  BY <1>2, <1>3, NodeSet
<1> QED
  BY <1>4, <1>5, <1>6 DEF q, e

\* The new logger is named, and its parent known or looked for.
LEMMA NameIs ==
  ASSUME TypeOK, NEW t \in Threads, Name(t), thread[t].own \in Nodes, thread[t].asked # << >>
  PROVE  LET r == thread[t]
             q == thread'[t] IN
         /\ last' = last /\ failures' = failures /\ r.pc = "name" /\ Moved(t)
         /\ nodes' \in Seq(NodeType) /\ Len(nodes') = Len(nodes)
         /\ nodes'[r.own] = [nodes[r.own] EXCEPT !.name = Tree!Stored(r.asked)]
         /\ \A y \in Nodes \ {r.own} : nodes'[y] = nodes[y]
         /\ q.call = r.call /\ q.got = r.got /\ q.stack = Append(r.stack, r.own)
         /\ IF Len(r.asked) = 1 THEN q.pc = "parent" /\ q.answer = Root
            ELSE /\ q.pc = "compare" /\ q.at = Root
                 /\ Len(r.asked) > 1 /\ q.asked = Tree!Front(r.asked)
<1> DEFINE r == thread[t]
           s == Append(r.stack, r.own)
           n == r.asked
           q1 == [r EXCEPT !.stack = s, !.answer = Root, !.pc = "parent"]
           q2 == [r EXCEPT !.stack = s, !.asked = Tree!Front(n), !.at = Root, !.pc = "compare"]
           x == r.own
           e == [nodes[x] EXCEPT !.name = Tree!Stored(n)]
<1>1. r \in ThreadType /\ nodes[x] \in NodeType
  BY ElementOfSeq DEF TypeOK, Nodes
<1>2. /\ n \in Seq(Words) /\ n # << >> /\ Len(n) \in Nat /\ Len(n) > 0
      /\ r.stack \in Seq(Nat) /\ r.own \in Nat
  BY <1>1, LenProperties, EmptySeq DEF ThreadType
<1>3. s \in Seq(Nat) /\ Tree!Stored(n) \in Seq(Words)
  BY <1>2, StoredIs, AppendProperties
<1>4. ASSUME Len(n) # 1
      PROVE  Len(n) > 1 /\ Tree!Front(n) \in Seq(Words)
  <2>0. n \in Seq(Words) /\ Len(n) \in Nat /\ Len(n) > 0 /\ Len(n) # 1
    BY <1>2, <1>4
  <2> HIDE DEF n
  <2>1. Len(n) > 1
    <3>1. \A k \in Nat : (k > 0 /\ k # 1) => k > 1
      OBVIOUS
    <3> QED
      BY <2>0, <3>1, Zenon
  <2> QED
    BY <2>0, <2>1, FrontIs
<1>5. e \in NodeType
  <2> HIDE DEF n
  <2> QED
    BY <1>1, <1>3 DEF NodeType
<1>6. /\ thread' = [thread EXCEPT ![t] = IF Len(n) = 1 THEN q1 ELSE q2]
      /\ nodes' = [nodes EXCEPT ![x] = e]
  <2> DEFINE new == Tree!Stored(n)
             f == Tree!Front(n)
  <2>1. /\ thread' = [thread EXCEPT ![t] =
             IF Len(n) = 1
               THEN [[r EXCEPT !.stack = s] EXCEPT !.answer = Root, !.pc = "parent"]
               ELSE [[r EXCEPT !.stack = s] EXCEPT !.asked = f, !.at = Root, !.pc = "compare"]]
        /\ nodes' = [nodes EXCEPT ![x].name = new]
    BY DEF Name
  <2> HIDE DEF new, f, n, s
  <2>2. thread' = [thread EXCEPT ![t] =
             IF Len(n) = 1 THEN q1
             ELSE [r EXCEPT !.stack = s, !.asked = f, !.at = Root, !.pc = "compare"]]
    <3>1. /\ [[r EXCEPT !.stack = s] EXCEPT !.answer = Root, !.pc = "parent"] = q1
          /\ [[r EXCEPT !.stack = s] EXCEPT !.asked = f, !.at = Root, !.pc = "compare"]
              = [r EXCEPT !.stack = s, !.asked = f, !.at = Root, !.pc = "compare"]
      OBVIOUS
    <3> QED
      BY <2>1, <3>1
  <2>3. nodes' = [nodes EXCEPT ![x] = [nodes[x] EXCEPT !.name = new]]
    BY <2>1, <1>1 DEF TypeOK, Nodes
  <2> QED
    BY <2>2, <2>3 DEF new, f
<1>7. last' = last /\ failures' = failures /\ r.pc = "name"
  BY DEF Name, At
<1>8. /\ nodes' \in Seq(NodeType) /\ Len(nodes') = Len(nodes) /\ nodes'[x] = e
      /\ \A y \in Nodes \ {x} : nodes'[y] = nodes[y]
  <2> HIDE DEF e, x
  <2>1. x \in Nodes
    BY DEF x
  <2> QED
    BY <1>5, <1>6, <2>1, NodeSet
<1>9. CASE Len(n) = 1
  <2>1. /\ q1 \in ThreadType /\ q1.call = r.call /\ q1.got = r.got /\ q1.stack = s
        /\ q1.pc = "parent" /\ q1.answer = Root
    <3> HIDE DEF s
    <3> QED
      BY <1>1, <1>3 DEF ThreadType, PCs, Root
  <2>2. thread' = [thread EXCEPT ![t] = q1]
    BY <1>6, <1>9
  <2> HIDE DEF q1
  <2>3. Moved(t) /\ thread'[t] = q1
    BY <2>1, <2>2, ThreadSet
  <2> QED
    BY <1>7, <1>8, <1>9, <2>1, <2>3
<1>10. CASE Len(n) # 1
  <2>1. /\ q2 \in ThreadType /\ q2.call = r.call /\ q2.got = r.got /\ q2.stack = s
        /\ q2.pc = "compare" /\ q2.at = Root /\ q2.asked = Tree!Front(n)
    <3> DEFINE f == Tree!Front(n)
    <3>1. f \in Seq(Words)
      BY <1>4, <1>10
    <3> DEFINE q3 == [r EXCEPT !.stack = s, !.asked = f, !.at = Root, !.pc = "compare"]
    <3> HIDE DEF s, f
    <3>2. /\ q3 \in ThreadType /\ q3.call = r.call /\ q3.got = r.got /\ q3.stack = s
          /\ q3.pc = "compare" /\ q3.at = Root /\ q3.asked = f
      BY <1>1, <1>3, <3>1 DEF ThreadType, PCs, Root
    <3> QED
      BY <3>2 DEF f
  <2>2. thread' = [thread EXCEPT ![t] = q2]
    BY <1>6, <1>10
  <2> HIDE DEF q2
  <2>3. Moved(t) /\ thread'[t] = q2
    BY <2>1, <2>2, ThreadSet
  <2> QED
    BY <1>4, <1>7, <1>8, <1>10, <2>1, <2>3
<1> QED
  BY <1>9, <1>10

\* A parent is set: the call returns, or the one around it sets its own.
LEMMA ParentIs ==
  ASSUME TypeOK, NEW t \in Threads, Parent(t), thread[t].stack # << >>,
         Top(thread[t].stack) \in Nodes
  PROVE  LET r == thread[t]
             q == thread'[t]
             x == Top(r.stack) IN
         /\ last' = last /\ failures' = failures /\ r.pc = "parent" /\ Moved(t)
         /\ nodes' \in Seq(NodeType) /\ Len(nodes') = Len(nodes)
         /\ nodes'[x] = [nodes[x] EXCEPT !.parent = r.answer]
         /\ \A y \in Nodes \ {x} : nodes'[y] = nodes[y]
         /\ q.call = r.call
         /\ IF Len(r.stack) = 1 THEN q.pc = "outside" /\ q.stack = << >> /\ q.got = x
            ELSE /\ q.pc = "parent" /\ Len(r.stack) > 1 /\ q.stack = Tree!Front(r.stack)
                 /\ q.answer = x /\ q.got = r.got
<1> DEFINE r == thread[t]
           s == Tree!Front(r.stack)
           x == Top(r.stack)
           e == [nodes[x] EXCEPT !.parent = r.answer]
           q1 == Outside(r.call, x)
           q2 == [r EXCEPT !.stack = s, !.answer = x]
<1>1. r \in ThreadType /\ nodes[x] \in NodeType
  BY ElementOfSeq DEF TypeOK, Nodes
<1>2. /\ r.stack \in Seq(Nat) /\ Len(r.stack) \in Nat /\ Len(r.stack) > 0
      /\ r.call \in Seq(Words) /\ x \in Nat
  BY <1>1, LenProperties, EmptySeq, SMTT(30) DEF ThreadType, Nodes
<1>3. e \in NodeType
  <2> HIDE DEF x
  <2> QED
    BY <1>1 DEF NodeType, ThreadType
<1>4. nodes' = [nodes EXCEPT ![x] = e] /\ last' = last /\ failures' = failures /\ r.pc = "parent"
  BY <1>1 DEF Parent, At, Top
<1>5. /\ nodes' \in Seq(NodeType) /\ Len(nodes') = Len(nodes) /\ nodes'[x] = e
      /\ \A y \in Nodes \ {x} : nodes'[y] = nodes[y]
  <2> HIDE DEF e, x
  <2>1. x \in Nodes
    BY DEF x
  <2> QED
    BY <1>3, <1>4, <2>1, NodeSet
<1>6. CASE Len(r.stack) = 1
  <2>1. thread' = [thread EXCEPT ![t] = q1]
    BY <1>6 DEF Parent, Return, Top
  <2>2. /\ q1 \in ThreadType /\ q1.pc = "outside" /\ q1.stack = << >>
        /\ q1.call = r.call /\ q1.got = x
    <3> HIDE DEF x
    <3> QED
      BY <1>2, OutsideIs
  <2> HIDE DEF q1
  <2>3. Moved(t) /\ thread'[t] = q1
    BY <2>1, <2>2, ThreadSet
  <2> QED
    BY <1>4, <1>5, <1>6, <2>2, <2>3
<1>7. CASE Len(r.stack) # 1
  <2>1. thread' = [thread EXCEPT ![t] = q2]
    BY <1>7 DEF Parent, Top, TypeOK
  <2>2. Len(r.stack) > 1 /\ s \in Seq(Nat)
    <3> DEFINE old == r.stack
    <3>1. old \in Seq(Nat) /\ Len(old) > 1
      <4>1. old \in Seq(Nat) /\ Len(old) \in Nat /\ Len(old) > 0 /\ Len(old) # 1
        BY <1>2, <1>7
      <4>2. \A k \in Nat : (k > 0 /\ k # 1) => k > 1
        OBVIOUS
      <4> HIDE DEF old
      <4> QED
        BY <4>1, <4>2, Zenon
    <3> HIDE DEF old
    <3>2. Tree!Front(old) \in Seq(Nat)
      BY <3>1, FrontIs
    <3> QED
      BY <3>1, <3>2 DEF old
  <2>3. /\ q2 \in ThreadType /\ q2.pc = r.pc /\ q2.stack = s /\ q2.answer = x
        /\ q2.call = r.call /\ q2.got = r.got
    <3> HIDE DEF x, s
    <3> QED
      BY <1>1, <1>2, <2>2 DEF ThreadType, PCs
  <2> HIDE DEF q2
  <2>4. Moved(t) /\ thread'[t] = q2
    BY <2>1, <2>3, ThreadSet
  <2> QED
    BY <1>4, <1>5, <1>7, <2>2, <2>3, <2>4
<1> QED
  BY <1>6, <1>7

-----------------------------------------------------------------------------
(* What stays *)

\* Loggers stay what they were asked for, and keep the name they got.
Kept(ns, ms) ==
  /\ Len(ns) <= Len(ms)
  /\ \A x \in 1..Len(ns) :
       /\ ms[x].asked = ns[x].asked
       /\ (ns[x].name # Unnamed \/ ns[x].name = Tree!Stored(ns[x].asked)) =>
            ms[x].name = ns[x].name

\* An answer stays one.
LEMMA GoodStays ==
  ASSUME NEW ns, NEW ms, Len(ns) \in Nat, Len(ms) \in Nat, Kept(ns, ms),
         NEW x, NEW n, Good(ns, x, n)
  PROVE  Good(ms, x, n)
BY DEF Kept, Good

\* A parent that is the right one stays it.
LEMMA GoodParentStays ==
  ASSUME NEW ns, NEW ms, Len(ns) \in Nat, Len(ms) \in Nat, Kept(ns, ms),
         NEW f \in Nat, NEW g \in Nat, f <= g,
         NEW x \in 1..Len(ns), NEW p, GoodParent(ns, f, x, p)
  PROVE  GoodParent(ms, g, x, p)
<1>1. ms[x].asked = ns[x].asked
  BY DEF Kept
<1>2. Good(ns, p, Tree!Front(ns[x].asked)) => Good(ms, p, Tree!Front(ns[x].asked))
  BY GoodStays
<1>3. f > 0 => g > 0
  OBVIOUS
<1> QED
  BY <1>1, <1>2, <1>3 DEF GoodParent

\* The loggers that wait for their parents stay what they were asked for.
LEMMA StackStays ==
  ASSUME NEW ns, NEW ms, Len(ns) \in Nat, Len(ms) \in Nat, Kept(ns, ms),
         NEW stack, Len(stack) \in Nat, NEW call, StackOK(ns, stack, call)
  PROVE  /\ StackOK(ms, stack, call)
         /\ \A k \in 1..Len(stack) : ms[stack[k]].asked = ns[stack[k]].asked
<1>1. ASSUME NEW k \in 1..Len(stack)
      PROVE  /\ stack[k] \in 3..Len(ms) /\ ms[stack[k]].asked = ns[stack[k]].asked
             /\ ms[stack[k]].name = Tree!Stored(ms[stack[k]].asked)
  <2>1. stack[k] \in 3..Len(ns) /\ ns[stack[k]].name = Tree!Stored(ns[stack[k]].asked)
    BY DEF StackOK
  <2>2. stack[k] \in 1..Len(ns) /\ stack[k] \in 3..Len(ms)
    BY <2>1 DEF Kept
  <2> QED
    BY <2>1, <2>2 DEF Kept
<1>2. Len(stack) > 0 => ms[stack[1]].asked = call
  BY <1>1 DEF StackOK
<1>3. ASSUME NEW k \in 1..(Len(stack) - 1)
      PROVE  /\ Len(ms[stack[k]].asked) > 1
             /\ ms[stack[k + 1]].asked = Tree!Front(ms[stack[k]].asked)
  <2>1. k \in 1..Len(stack) /\ k + 1 \in 1..Len(stack)
    OBVIOUS
  <2> QED
    BY <1>1, <2>1 DEF StackOK
<1> QED
  BY <1>1, <1>2, <1>3 DEF StackOK

\* The locals of a thread that does not move stay right.
LEMMA CallStays ==
  ASSUME NEW ns, NEW ms, Len(ns) \in Nat, Len(ms) \in Nat, Kept(ns, ms),
         NEW f \in Nat, NEW g \in Nat, f <= g,
         NEW r \in ThreadType, CallOK(ns, f, r)
  PROVE  CallOK(ms, g, r)
<1>1. r.stack \in Seq(Nat) /\ Len(r.stack) \in Nat /\ (r.stack # << >> => Len(r.stack) > 0)
  BY LenProperties, EmptySeq DEF ThreadType
<1>2. StackOK(ns, r.stack, r.call)
  BY DEF CallOK
<1>3. /\ StackOK(ms, r.stack, r.call)
      /\ \A k \in 1..Len(r.stack) : ms[r.stack[k]].asked = ns[r.stack[k]].asked
  BY <1>1, <1>2, StackStays
<1>4. r.stack # << >> =>
        /\ Top(r.stack) \in 1..Len(ns)
        /\ ms[Top(r.stack)].asked = ns[Top(r.stack)].asked
  <2>1. r.stack # << >> => Len(r.stack) \in 1..Len(r.stack)
    BY <1>1
  <2>2. r.stack # << >> => Top(r.stack) \in 3..Len(ns)
    BY <1>2, <2>1 DEF StackOK, Top
  <2> QED
    BY <1>3, <2>1, <2>2 DEF Top
<1>5. (r.stack # << >> /\ GoodParent(ns, f, Top(r.stack), r.answer)) =>
        GoodParent(ms, g, Top(r.stack), r.answer)
  BY <1>4, GoodParentStays
<1>6. r.got # 0 => Good(ms, r.got, r.call)
  BY GoodStays DEF CallOK
<1> QED
  BY <1>3, <1>4, <1>5, <1>6 DEF CallOK

\* The locals of all threads, when those of the thread that moves are right.
LEMMA OthersStay ==
  ASSUME TypeOK, CallsInv, NEW t \in Threads, Moved(t), Kept(nodes, nodes'), Len(nodes') \in Nat,
         failures' \in Nat, failures <= failures', CallOK(nodes', failures', thread'[t])
  PROVE  CallsInv'
<1>1. ASSUME NEW u \in Threads PROVE CallOK(nodes', failures', thread'[u])
  <2>1. CASE u = t
    BY <2>1
  <2>2. CASE u # t
    <3>1. thread'[u] = thread[u] /\ thread[u] \in ThreadType
      BY <2>2 DEF Moved, TypeOK
    <3>2. CallOK(nodes, failures, thread[u]) /\ Len(nodes) \in Nat /\ failures \in Nat
      BY LenProperties DEF CallsInv, TypeOK
    <3> QED
      BY <3>1, <3>2, CallStays
  <2> QED
    BY <2>1, <2>2
<1> QED
  BY <1>1 DEF CallsInv

\* A list that is not changed.
LEMMA SameKept ==
  ASSUME nodes' = nodes, Len(nodes) \in Nat
  PROVE  Kept(nodes, nodes')
BY DEF Kept

\* A step of a thread that names no logger, neither before nor after it.
LEMMA QuietStep ==
  ASSUME IInv, NEW t \in Threads, SameList, Moved(t),
         failures' = failures \/ failures' = failures + 1,
         ~Naming(t), thread'[t].pc \in {"outside", "compare", "end", "advance", "alloc", "parent"},
         thread'[t].pc \in {"compare", "end", "advance"} => thread'[t].at \in Nodes,
         thread'[t].stack = thread[t].stack,
         CallOK(nodes, failures', thread'[t])
  PROVE  IInv'
<1>a. /\ nodes \in Seq(NodeType) /\ Len(nodes) \in Nat /\ failures \in Nat
      /\ nodes' = nodes /\ last' = last /\ failures' \in Nat /\ failures <= failures'
      /\ thread' \in [Threads -> ThreadType]
      /\ \A u \in Threads : u # t => thread'[u] = thread[u]
  BY LenProperties DEF IInv, TypeOK, SameList, Moved
<1>b. \A u \in Threads : /\ Naming(u)' <=> Naming(u)
                         /\ Pending(u)' <=> Pending(u)
                         /\ Naming(u) => thread'[u] = thread[u]
                         /\ Pending(u) => thread'[u] = thread[u]
                         /\ thread'[u].pc = "link" => thread'[u] = thread[u]
                         /\ thread'[u].stack = thread[u].stack
  BY <1>a DEF Naming, Pending
<1>1. TypeOK'
  BY <1>a DEF IInv, TypeOK
<1>2. OwnInv'
  BY <1>a, <1>b DEF IInv, OwnInv
<1>3. ListInv'
  <2>1. \A u \in Threads : thread'[u].pc \in {"compare", "end", "advance"} => thread'[u].at \in Nodes'
    BY <1>a DEF IInv, ListInv, Nodes
  <2>2. /\ last' \in 2..Len(nodes') /\ nodes'[Root].next = 2
        /\ \A x \in Nodes' : nodes'[x].next \in 0..Len(nodes')
    BY <1>a DEF IInv, ListInv, Nodes
  <2>3. ASSUME NEW u \in Threads, thread'[u].pc = "link"
        PROVE  thread[u].pc = "link" /\ thread'[u].seen = thread[u].seen
    BY <1>b, <2>3
  <2>4. \A u \in Threads : thread'[u].pc = "link" => thread'[u].seen \in 2..Len(nodes')
    BY <1>a, <2>3 DEF IInv, ListInv
  <2>5. ASSUME NEW u \in Threads, Pending(u)'
        PROVE  /\ nodes'[thread'[u].own].next = 0 /\ last' # thread'[u].own
               /\ \A x \in Nodes' : nodes'[x].next # thread'[u].own
               /\ \A v \in Threads : thread'[v].pc = "link" => thread'[v].seen # thread'[u].own
    <3>1. Pending(u) /\ thread'[u] = thread[u]
      BY <1>b, <2>5
    <3>2. /\ nodes[thread[u].own].next = 0 /\ last # thread[u].own
          /\ \A x \in Nodes : nodes[x].next # thread[u].own
          /\ \A v \in Threads : thread[v].pc = "link" => thread[v].seen # thread[u].own
      BY <3>1 DEF IInv, ListInv
    <3> QED
      BY <1>a, <2>3, <3>1, <3>2 DEF Nodes
  <2>6. \E rank : Ranked(nodes', rank)
    BY <1>a DEF IInv, ListInv
  <2> QED
    BY <2>1, <2>2, <2>4, <2>5, <2>6 DEF ListInv
<1>4. NamesInv'
  BY <1>a, <1>b DEF IInv, NamesInv, Nodes
<1>5. Kept(nodes, nodes')
  BY <1>a, SameKept
<1>6. CallsInv'
  BY <1>a, <1>5, OthersStay DEF IInv
<1>7. ParentsInv'
  <2>1. ASSUME NEW x \in 3..Len(nodes), InFlight(x) PROVE InFlight(x)'
    BY <1>b, <2>1 DEF InFlight
  <2>2. ASSUME NEW x \in 3..Len(nodes), GoodParent(nodes, failures, x, nodes[x].parent)
        PROVE  GoodParent(nodes', failures', x, nodes'[x].parent)
    BY <1>a, <1>5, <2>2, GoodParentStays
  <2> QED
    BY <1>a, <2>1, <2>2 DEF IInv, ParentsInv
<1> QED
  BY <1>1, <1>2, <1>3, <1>4, <1>6, <1>7 DEF IInv

-----------------------------------------------------------------------------
(* The search *)

\* What the innermost call asks for is a name.
LEMMA AskedIs ==
  ASSUME IInv, NEW t \in Threads, thread[t].pc \notin {"outside", "parent"}
  PROVE  thread[t].asked \in Seq(Words) /\ thread[t].asked # << >>
<1> DEFINE r == thread[t]
           n == nodes[Top(r.stack)].asked
<1>1. /\ r \in ThreadType /\ r.asked \in Seq(Words) /\ CallOK(nodes, failures, r)
      /\ r.stack \in Seq(Nat) /\ Len(r.stack) \in Nat /\ (r.stack # << >> => Len(r.stack) > 0)
  BY LenProperties, EmptySeq DEF IInv, TypeOK, ThreadType, CallsInv
<1>2. CASE r.stack = << >>
  BY <1>1, <1>2 DEF CallOK
<1>3. CASE r.stack # << >>
  <2>1. Top(r.stack) \in 3..Len(nodes)
    BY <1>1, <1>3 DEF CallOK, StackOK, Top
  <2>2. nodes \in Seq(NodeType) /\ Len(nodes) \in Nat
    BY LenProperties DEF IInv, TypeOK
  <2>3. nodes[Top(r.stack)] \in NodeType
    BY <2>1, <2>2, ElementOfSeq
  <2>4. n \in Seq(Words) /\ Len(n) > 1 /\ r.asked = Tree!Front(n)
    BY <1>1, <1>3, <2>3 DEF NodeType, CallOK
  <2> HIDE DEF n
  <2> QED
    BY <1>1, <2>4, FrontIs
<1> QED
  BY <1>2, <1>3

\* The logger that a search finds answers it.
LEMMA FoundIsGood ==
  ASSUME IInv, NEW t \in Threads, thread[t].pc = "end", Found(t)
  PROVE  Good(nodes, thread[t].at, thread[t].asked)
<1> DEFINE x == thread[t].at
           n == thread[t].asked
           m == nodes[x].asked
<1>1. n \in Seq(Words) /\ n # << >>
  BY AskedIs
<1>2. x \in Nodes
  BY DEF IInv, ListInv
<1>3. nodes[x].name = n
  BY DEF Found
<1>4. CASE nodes[x].name = Tree!Stored(m)
  <2>1. m \in Seq(Words) /\ m # << >>
    <3>1. nodes[x] \in NodeType
      BY <1>2, ElementOfSeq DEF IInv, TypeOK, Nodes
    <3> QED
      BY <1>2, <3>1 DEF NodeType, IInv, NamesInv
  <2> HIDE DEF n, m, x
  <2>2. Tree!Stored(n) = n
    BY <1>3, <1>4, <2>1, StoredTwice
  <2>3. Good(nodes, x, n)
    BY <1>1, <1>2, <1>3, <2>2, GoodItself DEF Nodes
  <2> QED
    BY <2>3 DEF n, x
<1>5. CASE \E u \in Threads : Naming(u) /\ thread[u].own = x
  <2>1. n = Unnamed
    BY <1>3, <1>5 DEF IInv, OwnInv
  <2>2. n \in Beginnings
    BY <2>1 DEF Beginnings, Unnamed
  <2> QED
    BY <1>2, <2>2 DEF Good, Nodes
<1> QED
  BY <1>2, <1>4, <1>5 DEF IInv, NamesInv

\* A call that returns a right answer, or NULL after an allocation has failed,
\* leaves the locals right.
LEMMA GivesOK ==
  ASSUME IInv, NEW t \in Threads, NEW x, Gives(t, x), thread[t].pc \notin {"outside", "parent"},
         failures' \in Nat, failures <= failures',
         (x = 0 /\ failures' > 0) \/ Good(nodes, x, thread[t].asked)
  PROVE  CallOK(nodes, failures', thread'[t])
<1> DEFINE r == thread[t]
           q == thread'[t]
<1>1. CallOK(nodes, failures, r) /\ r.call # << >>
  BY DEF IInv, CallsInv, CallOK
<1>2. CASE r.stack = << >>
  <2>1. q.pc = "outside" /\ q.stack = r.stack /\ q.call = r.call /\ q.got = x /\ r.asked = r.call
    BY <1>1, <1>2 DEF Gives, CallOK
  <2> QED
    BY <1>1, <1>2, <2>1 DEF CallOK
<1>3. CASE r.stack # << >>
  <2>1. /\ q.pc = "parent" /\ q.stack = r.stack /\ q.call = r.call /\ q.answer = x
        /\ q.got = r.got
    BY <1>3 DEF Gives
  <2>2. /\ Len(nodes[Top(r.stack)].asked) > 1
        /\ r.asked = Tree!Front(nodes[Top(r.stack)].asked)
    BY <1>1, <1>3 DEF CallOK
  <2>3. Len(nodes[Top(r.stack)].asked) # 1
    <3> SUFFICES ASSUME Len(nodes[Top(r.stack)].asked) = 1 PROVE FALSE
      OBVIOUS
    <3>1. 1 > 1
      BY <2>2, Zenon
    <3> QED
      BY <3>1
  <2>4. GoodParent(nodes, failures', Top(r.stack), x)
    BY <2>2, <2>3 DEF GoodParent
  <2> QED
    BY <1>1, <1>3, <2>1, <2>4 DEF CallOK
<1> QED
  BY <1>2, <1>3

\* l4sc_get_logger is called.
LEMMA BeginInv ==
  ASSUME IInv, NEW t \in Threads, NEW n \in LoggerNames, Begin(t, n)
  PROVE  IInv'
<1> DEFINE q == thread'[t]
<1>1. /\ SameList /\ failures' = failures /\ Moved(t)
      /\ thread[t].pc = "outside" /\ n \in Seq(Words) /\ n # << >>
      /\ q.pc = "compare" /\ q.asked = n /\ q.call = n /\ q.at = Root
      /\ q.stack = << >> /\ q.got = 0
  BY BeginIs DEF IInv
<1>2. thread[t].stack = << >>
  BY <1>1 DEF IInv, CallsInv, CallOK
<1>3. CallOK(nodes, failures', q)
  <2>1. StackOK(nodes, << >>, n)
    BY DEF StackOK
  <2> QED
    BY <1>1, <2>1 DEF CallOK
<1>4. Root \in Nodes
  BY LenProperties DEF IInv, TypeOK, Nodes, Root
<1> QED
  BY <1>1, <1>2, <1>3, <1>4, QuietStep DEF Naming

\* The beginning of the name of one logger is compared.
LEMMA PrefixInv ==
  ASSUME IInv, NEW t \in Threads, ComparePrefix(t)
  PROVE  IInv'
<1> DEFINE r == thread[t]
           q == thread'[t]
<1>1. /\ SameList /\ failures' = failures /\ r.pc = "compare" /\ Moved(t)
      /\ q = [r EXCEPT !.pc = IF Begins(t) THEN "end" ELSE "advance"]
  BY PrefixIs DEF IInv
<1>2. failures \in Nat /\ r \in ThreadType /\ r.at \in Nodes /\ CallOK(nodes, failures, r)
  BY <1>1 DEF IInv, TypeOK, ListInv, CallsInv
<1>3. /\ q.pc \in {"end", "advance"} /\ q.at = r.at /\ q.stack = r.stack /\ q.call = r.call
      /\ q.asked = r.asked /\ q.got = r.got
  BY <1>1, <1>2 DEF ThreadType
<1>4. CallOK(nodes, failures', q)
  BY <1>1, <1>2, <1>3 DEF CallOK
<1> QED
  BY <1>1, <1>2, <1>3, <1>4, QuietStep DEF Naming

\* A call that returns a logger returns a right one, or was for a name that
\* "logger" begins with.
LEMMA AnsweredIsGood ==
  ASSUME IInv, NEW t \in Threads, thread[t].pc = "end", Found(t) \/ Changed(t)
  PROVE  Good(nodes, thread[t].at, thread[t].asked)
<1>1. CASE Found(t)
  BY <1>1, FoundIsGood
<1>2. CASE Changed(t)
  BY <1>2 DEF Changed, Good, IInv, ListInv, Nodes
<1> QED
  BY <1>1, <1>2

\* Its end is compared.
LEMMA EndInv ==
  ASSUME IInv, NEW t \in Threads, CompareEnd(t)
  PROVE  IInv'
<1> DEFINE r == thread[t]
           q == thread'[t]
<1>1. /\ SameList /\ failures' = failures /\ r.pc = "end"
      /\ \/ (Found(t) \/ Changed(t)) /\ Gives(t, r.at)
         \/ Moved(t) /\ q = [r EXCEPT !.pc = "advance"]
  BY EndIs DEF IInv
<1>2. failures \in Nat /\ r \in ThreadType /\ r.at \in Nodes /\ CallOK(nodes, failures, r)
  BY <1>1 DEF IInv, TypeOK, ListInv, CallsInv
<1>3. CASE (Found(t) \/ Changed(t)) /\ Gives(t, r.at)
  <2>1. Good(nodes, r.at, r.asked)
    BY <1>1, <1>3, AnsweredIsGood
  <2>2. CallOK(nodes, failures', q)
    BY <1>1, <1>2, <1>3, <2>1, GivesOK
  <2>3. Moved(t) /\ q.pc \in {"outside", "parent"} /\ q.stack = r.stack
    BY <1>3 DEF Gives
  <2> QED
    BY <1>1, <2>2, <2>3, QuietStep DEF Naming
<1>4. CASE Moved(t) /\ q = [r EXCEPT !.pc = "advance"]
  <2>1. /\ q.pc = "advance" /\ q.at = r.at /\ q.stack = r.stack /\ q.call = r.call
        /\ q.asked = r.asked /\ q.got = r.got
    BY <1>2, <1>4 DEF ThreadType
  <2>2. CallOK(nodes, failures', q)
    BY <1>1, <1>2, <2>1 DEF CallOK
  <2> QED
    BY <1>1, <1>2, <1>4, <2>1, <2>2, QuietStep DEF Naming
<1> QED
  BY <1>1, <1>3, <1>4

\* The search goes on to the next logger, or ends.
LEMMA AdvanceInv ==
  ASSUME IInv, NEW t \in Threads, Advance(t)
  PROVE  IInv'
<1> DEFINE r == thread[t]
           q == thread'[t]
           next == nodes[r.at].next
<1>0. r.pc = "advance"
  BY DEF Advance, At
<1>1. /\ r.at \in Nodes /\ next \in 0..Len(nodes) /\ Len(nodes) \in Nat
      /\ nodes[thread[t].at].next \in Nat
  BY <1>0, LenProperties DEF IInv, ListInv, TypeOK
<1>2. /\ SameList /\ failures' = failures /\ Moved(t)
      /\ q = [r EXCEPT !.at = next, !.pc = IF next # 0 THEN "compare" ELSE "alloc"]
  BY <1>1, AdvanceIs DEF IInv
<1>3. r \in ThreadType /\ CallOK(nodes, failures, r)
  BY DEF IInv, TypeOK, CallsInv
<1>4. /\ q.pc \in {"compare", "alloc"} /\ (q.pc = "compare" => q.at \in Nodes)
      /\ q.stack = r.stack /\ q.call = r.call /\ q.asked = r.asked /\ q.got = r.got
  <2> HIDE DEF next
  <2> QED
    BY <1>1, <1>2, <1>3 DEF ThreadType, Nodes
<1>5. CallOK(nodes, failures', q)
  BY <1>0, <1>2, <1>3, <1>4 DEF CallOK
<1> QED
  BY <1>0, <1>2, <1>4, <1>5, QuietStep DEF Naming

\* An allocation fails.
LEMMA AllocFailsInv ==
  ASSUME IInv, NEW t \in Threads, AllocFails(t)
  PROVE  IInv'
<1>1. /\ SameList /\ failures' = failures + 1 /\ thread[t].pc = "alloc" /\ Gives(t, 0)
  BY AllocFailsIs DEF IInv
<1>2. failures \in Nat
  BY DEF IInv, TypeOK
<1>3. failures' \in Nat /\ failures <= failures' /\ failures' > 0
  BY <1>1, <1>2
<1>4. CallOK(nodes, failures', thread'[t])
  BY <1>1, <1>3, GivesOK
<1>5. Moved(t) /\ thread'[t].pc \in {"outside", "parent"} /\ thread'[t].stack = thread[t].stack
  BY <1>1 DEF Gives
<1> QED
  BY <1>1, <1>4, <1>5, QuietStep DEF Naming

-----------------------------------------------------------------------------
(* The list grows *)

\* A logger that waits for its name is in the list of nodes, and is not one of
\* the predefined ones.
LEMMA OwnIs ==
  ASSUME IInv, NEW t \in Threads, Naming(t)
  PROVE  /\ thread[t].own \in 3..Len(nodes) /\ thread[t].own \in Nodes
         /\ nodes[thread[t].own].name = Unnamed
         /\ nodes[thread[t].own].asked = thread[t].asked
BY LenProperties DEF IInv, OwnInv, TypeOK, Nodes

\* A thread that sets only the locals of the insertion is still called for the
\* same logger.
LEMMA CallSame ==
  ASSUME NEW ns, NEW f, NEW r, NEW q, CallOK(ns, f, r),
         r.pc \notin {"outside", "parent"}, q.pc \notin {"outside", "parent"},
         q.stack = r.stack, q.call = r.call, q.asked = r.asked, q.got = r.got
  PROVE  CallOK(ns, f, q)
BY DEF CallOK

\* init_logger makes a new logger, which only this thread knows.
LEMMA InitLoggerInv ==
  ASSUME IInv, NEW t \in Threads, InitLogger(t)
  PROVE  IInv'
<1> DEFINE r == thread[t]
           q == thread'[t]
           new == Len(nodes) + 1
<1>1. /\ last' = last /\ failures' = failures /\ r.pc = "alloc" /\ Moved(t)
      /\ nodes' \in Seq(NodeType) /\ Len(nodes') = new
      /\ \A x \in Nodes : nodes'[x] = nodes[x]
      /\ nodes'[new] = Node(r.asked, Unnamed, 0, 0)
      /\ q = [r EXCEPT !.own = new, !.pc = "readlast"]
  BY InitLoggerIs DEF IInv
<1>2. /\ Len(nodes) \in Nat /\ Len(nodes) >= 2 /\ failures \in Nat /\ last \in Nat
      /\ r \in ThreadType /\ CallOK(nodes, failures, r)
      /\ r.asked \in Seq(Words) /\ r.asked # << >>
  BY <1>1, AskedIs, LenProperties DEF IInv, TypeOK, CallsInv
<1>3. /\ q.pc = "readlast" /\ q.own = new /\ q.stack = r.stack /\ q.call = r.call
      /\ q.asked = r.asked /\ q.got = r.got
  <2> HIDE DEF new
  <2> QED
    BY <1>1, <1>2 DEF ThreadType
<1>4. /\ nodes'[new].asked = r.asked /\ nodes'[new].name = Unnamed /\ nodes'[new].next = 0
  <2> HIDE DEF new
  <2> QED
    BY <1>1 DEF Node
<1>5. \A u \in Threads : u # t => /\ thread'[u] = thread[u]
                                  /\ Naming(u)' <=> Naming(u)
                                  /\ Pending(u)' <=> Pending(u)
  BY <1>1 DEF Moved, Naming, Pending
<1>6. ~Naming(t) /\ ~Pending(t) /\ Naming(t)' /\ Pending(t)'
  BY <1>1, <1>3 DEF Naming, Pending
<1>7. /\ Nodes' = 1..new /\ new \notin Nodes
      /\ \A x \in Nodes' : x # new => x \in Nodes
  BY <1>1, <1>2 DEF Nodes
<1>a. TypeOK'
  <2> HIDE DEF new
  <2>1. new >= 2
    BY <1>2 DEF new
  <2> QED
    BY <1>1, <1>2, <2>1 DEF TypeOK, Moved
<1>b. OwnInv'
  <2>1. ASSUME NEW u \in Threads, Naming(u)'
        PROVE  /\ thread'[u].own \in 3..Len(nodes')
               /\ nodes'[thread'[u].own].name = Unnamed
               /\ nodes'[thread'[u].own].asked = thread'[u].asked
    <3>1. CASE u = t
      <4>1. new \in 3..Len(nodes')
        BY <1>1, <1>2
      <4> HIDE DEF new
      <4> QED
        BY <1>3, <1>4, <3>1, <4>1
    <3>2. CASE u # t
      <4>1. /\ thread[u].own \in 3..Len(nodes) /\ thread[u].own \in Nodes
            /\ nodes[thread[u].own].name = Unnamed
            /\ nodes[thread[u].own].asked = thread[u].asked
        BY <1>5, <2>1, <3>2, OwnIs
      <4> QED
        BY <1>1, <1>2, <1>5, <3>2, <4>1
    <3> QED
      BY <3>1, <3>2
  <2>2. ASSUME NEW u \in Threads, NEW v \in Threads, u # v, Naming(u)', Naming(v)'
        PROVE  thread'[u].own # thread'[v].own
    <3>1. \A w \in Threads : (w # t /\ Naming(w)') => thread'[w].own # new
      <4> SUFFICES ASSUME NEW w \in Threads, w # t, Naming(w)' PROVE thread'[w].own # new
        OBVIOUS
      <4>1. thread[w].own \in Nodes
        BY <1>5, OwnIs
      <4> QED
        BY <1>5, <1>7, <4>1
    <3>2. CASE u = t \/ v = t
      BY <1>3, <2>2, <3>1, <3>2
    <3>3. CASE u # t /\ v # t
      BY <1>5, <2>2, <3>3 DEF IInv, OwnInv
    <3> QED
      BY <3>2, <3>3
  <2> QED
    BY <2>1, <2>2 DEF OwnInv
<1>c. ListInv'
  <2>1. last' \in 2..Len(nodes')
    BY <1>1, <1>2 DEF IInv, ListInv
  <2>2. nodes'[Root].next = 2
    BY <1>1, <1>2 DEF IInv, ListInv, Nodes, Root
  <2>3. \A x \in Nodes' : nodes'[x].next \in 0..Len(nodes') /\ nodes'[x].next # new
    <3> SUFFICES ASSUME NEW x \in Nodes'
                 PROVE  nodes'[x].next \in 0..Len(nodes') /\ nodes'[x].next # new
      OBVIOUS
    <3>1. CASE x = new
      BY <1>1, <1>2, <1>4, <3>1
    <3>2. CASE x # new
      <4>1. x \in Nodes /\ nodes'[x] = nodes[x] /\ nodes[x].next \in 0..Len(nodes)
        BY <1>1, <1>7, <3>2 DEF IInv, ListInv
      <4> QED
        BY <1>1, <1>2, <4>1
    <3> QED
      BY <3>1, <3>2
  <2>4. ASSUME NEW u \in Threads
        PROVE  /\ thread'[u].pc \in {"compare", "end", "advance"} => thread'[u].at \in Nodes'
               /\ thread'[u].pc = "link" => thread'[u].seen \in 2..Len(nodes')
               /\ thread'[u].pc = "link" => thread'[u].seen # new
    <3>1. CASE u = t
      BY <1>3, <3>1
    <3>2. CASE u # t
      <4>1. /\ thread[u].pc \in {"compare", "end", "advance"} => thread[u].at \in Nodes
            /\ thread[u].pc = "link" => thread[u].seen \in 2..Len(nodes)
        BY DEF IInv, ListInv
      <4> QED
        BY <1>1, <1>2, <1>5, <3>2, <4>1 DEF Nodes
    <3> QED
      BY <3>1, <3>2
  <2>5. ASSUME NEW u \in Threads, Pending(u)'
        PROVE  /\ nodes'[thread'[u].own].next = 0 /\ last' # thread'[u].own
               /\ \A x \in Nodes' : nodes'[x].next # thread'[u].own
               /\ \A v \in Threads : thread'[v].pc = "link" => thread'[v].seen # thread'[u].own
    <3>1. CASE u = t
      <4>1. last' # new
        BY <1>1, <1>2 DEF IInv, ListInv
      <4> QED
        BY <1>3, <1>4, <2>3, <2>4, <3>1, <4>1
    <3>2. CASE u # t
      <4>1. Pending(u) /\ Naming(u) /\ thread'[u] = thread[u]
        BY <1>5, <2>5, <3>2 DEF Pending, Naming
      <4>2. /\ nodes[thread[u].own].next = 0 /\ last # thread[u].own
            /\ \A x \in Nodes : nodes[x].next # thread[u].own
            /\ \A v \in Threads : thread[v].pc = "link" => thread[v].seen # thread[u].own
        BY <4>1 DEF IInv, ListInv
      <4>3. thread[u].own \in 3..Len(nodes) /\ thread[u].own \in Nodes
        BY <4>1, OwnIs
      <4>4. \A x \in Nodes' : nodes'[x].next # thread[u].own
        <5> SUFFICES ASSUME NEW x \in Nodes' PROVE nodes'[x].next # thread[u].own
          OBVIOUS
        <5>1. CASE x = new
          BY <1>4, <4>3, <5>1
        <5>2. CASE x # new
          BY <1>1, <1>7, <4>2, <5>2
        <5> QED
          BY <5>1, <5>2
      <4>5. \A v \in Threads : thread'[v].pc = "link" => thread'[v].seen # thread[u].own
        BY <1>3, <1>5, <4>2
      <4> QED
        BY <1>1, <4>1, <4>2, <4>3, <4>4, <4>5
    <3> QED
      BY <3>1, <3>2
  <2>6. \E rank : Ranked(nodes', rank)
    <3>1. PICK rank : Ranked(nodes, rank)
      BY DEF IInv, ListInv
    <3> DEFINE more == [x \in 1..new |-> IF x = new THEN new ELSE rank[x]]
    <3>2. \A x \in 1..new : x # new => /\ x \in 1..Len(nodes)
                                       /\ more[x] = rank[x] /\ rank[x] \in 1..Len(nodes)
      BY <1>2, <3>1 DEF Ranked
    <3>3. more[new] = new
      BY <1>2
    <3>4. more \in [1..new -> 1..new]
      BY <1>2, <3>2
    <3>5. ASSUME NEW x \in 1..new, NEW y \in 1..new, x # y PROVE more[x] # more[y]
      <4> HIDE DEF more
      <4>1. x # new /\ y # new => rank[x] # rank[y]
        BY <3>1, <3>2, <3>5 DEF Ranked
      <4> QED
        BY <1>2, <3>2, <3>3, <3>5, <4>1
    <3>6. ASSUME NEW x \in 1..new, nodes'[x].next # 0 PROVE more[x] < more[nodes'[x].next]
      <4> HIDE DEF more
      <4>1. x # new
        BY <1>4, <3>6
      <4>2. x \in Nodes /\ nodes'[x] = nodes[x]
        BY <1>1, <1>7, <4>1
      <4>3. nodes[x].next \in 1..Len(nodes) /\ rank[x] < rank[nodes[x].next]
        BY <1>2, <3>1, <3>6, <4>2 DEF Ranked, IInv, ListInv, Nodes
      <4>4. nodes[x].next \in 1..new /\ nodes[x].next # new
        BY <1>2, <4>3
      <4> QED
        BY <3>2, <4>1, <4>2, <4>3, <4>4
    <3> HIDE DEF more
    <3> QED
      BY <1>1, <3>4, <3>5, <3>6 DEF Ranked
  <2> QED
    BY <2>1, <2>2, <2>3, <2>4, <2>5, <2>6 DEF ListInv
<1>d. NamesInv'
  <2> SUFFICES ASSUME NEW x \in Nodes'
               PROVE  /\ nodes'[x].asked # << >>
                      /\ \/ nodes'[x].name = Tree!Stored(nodes'[x].asked)
                         \/ \E u \in Threads : Naming(u)' /\ thread'[u].own = x
    BY DEF NamesInv
  <2>1. CASE x = new
    BY <1>2, <1>3, <1>4, <1>6, <2>1
  <2>2. CASE x # new
    <3>1. x \in Nodes /\ nodes'[x] = nodes[x]
      BY <1>1, <1>7, <2>2
    <3>2. /\ nodes[x].asked # << >>
          /\ \/ nodes[x].name = Tree!Stored(nodes[x].asked)
             \/ \E u \in Threads : Naming(u) /\ thread[u].own = x
      BY <3>1 DEF IInv, NamesInv
    <3>3. \A u \in Threads : Naming(u) => Naming(u)' /\ thread'[u].own = thread[u].own
      BY <1>5, <1>6
    <3> QED
      BY <3>1, <3>2, <3>3
  <2> QED
    BY <2>1, <2>2
<1>e. Kept(nodes, nodes') /\ Len(nodes') \in Nat
  BY <1>1, <1>2 DEF Kept, Nodes
<1>f. CallsInv'
  <2>1. CallOK(nodes', failures', r)
    BY <1>1, <1>2, <1>e, CallStays
  <2>2. CallOK(nodes', failures', q)
    BY <1>1, <1>3, <2>1, CallSame
  <2> QED
    BY <1>1, <1>2, <1>e, <2>2, OthersStay DEF IInv
<1>g. ParentsInv'
  <2> SUFFICES ASSUME NEW x \in 3..Len(nodes')
               PROVE  InFlight(x)' \/ GoodParent(nodes', failures', x, nodes'[x].parent)
    BY DEF ParentsInv
  <2>1. CASE x = new
    BY <1>3, <1>6, <2>1 DEF InFlight
  <2>2. CASE x # new
    <3>1. x \in 3..Len(nodes) /\ x \in Nodes /\ nodes'[x] = nodes[x]
      BY <1>1, <1>2, <2>2 DEF Nodes
    <3>2. ASSUME InFlight(x) PROVE InFlight(x)'
      <4>1. \A u \in Threads : /\ Naming(u) => Naming(u)' /\ thread'[u].own = thread[u].own
                               /\ thread'[u].stack = thread[u].stack
        BY <1>3, <1>5, <1>6
      <4> QED
        BY <3>2, <4>1 DEF InFlight
    <3>3. ASSUME GoodParent(nodes, failures, x, nodes[x].parent)
          PROVE  GoodParent(nodes', failures', x, nodes'[x].parent)
      BY <1>1, <1>2, <1>e, <3>1, <3>3, GoodParentStays DEF Nodes
    <3> QED
      BY <3>1, <3>2, <3>3 DEF IInv, ParentsInv
  <2> QED
    BY <2>1, <2>2
<1> QED
  BY <1>a, <1>b, <1>c, <1>d, <1>f, <1>g DEF IInv

\* In the middle of the insertion neither names, nor parents, nor who waits for
\* which of them changes.
LEMMA InsertStep ==
  ASSUME IInv, NEW t \in Threads, Naming(t), Naming(t)', Moved(t),
         nodes' \in Seq(NodeType), Len(nodes') = Len(nodes), last' \in Nat,
         \A x \in Nodes : /\ nodes'[x].asked = nodes[x].asked /\ nodes'[x].name = nodes[x].name
                          /\ nodes'[x].parent = nodes[x].parent,
         failures' = failures, thread'[t].own = thread[t].own, thread'[t].stack = thread[t].stack,
         thread'[t].call = thread[t].call, thread'[t].asked = thread[t].asked,
         thread'[t].got = thread[t].got
  PROVE  TypeOK' /\ OwnInv' /\ NamesInv' /\ CallsInv' /\ ParentsInv'
<1>1. /\ Len(nodes) \in Nat /\ failures \in Nat /\ thread[t] \in ThreadType
      /\ CallOK(nodes, failures, thread[t])
  BY LenProperties DEF IInv, TypeOK, CallsInv
<1>2. \A u \in Threads : /\ Naming(u)' <=> Naming(u)
                         /\ thread'[u].own = thread[u].own
                         /\ thread'[u].asked = thread[u].asked
                         /\ thread'[u].stack = thread[u].stack
  BY DEF Moved, Naming
<1>a. TypeOK'
  BY <1>1 DEF IInv, TypeOK, Moved
<1>b. OwnInv'
  <2>1. ASSUME NEW u \in Threads, Naming(u)'
        PROVE  /\ thread'[u].own \in 3..Len(nodes')
               /\ nodes'[thread'[u].own].name = Unnamed
               /\ nodes'[thread'[u].own].asked = thread'[u].asked
    BY <1>2, <2>1, OwnIs
  <2> QED
    BY <1>2, <2>1 DEF IInv, OwnInv
<1>c. NamesInv'
  BY <1>2 DEF IInv, NamesInv, Nodes
<1>d. Kept(nodes, nodes')
  BY <1>1 DEF Kept, Nodes
<1>e. CallsInv'
  <2>1. CallOK(nodes', failures', thread[t])
    BY <1>1, <1>d, CallStays
  <2>2. CallOK(nodes', failures', thread'[t])
    BY <2>1, CallSame DEF Naming
  <2> QED
    BY <1>1, <1>d, <2>2, OthersStay DEF IInv
<1>f. ParentsInv'
  <2>1. ASSUME NEW x \in 3..Len(nodes), InFlight(x) PROVE InFlight(x)'
    BY <1>2, <2>1 DEF InFlight
  <2>2. ASSUME NEW x \in 3..Len(nodes), GoodParent(nodes, failures, x, nodes[x].parent)
        PROVE  GoodParent(nodes', failures', x, nodes'[x].parent)
    <3>1. x \in Nodes
      BY DEF Nodes
    <3> QED
      BY <1>1, <1>d, <2>2, <3>1, GoodParentStays DEF Nodes
  <2> QED
    BY <1>1, <2>1, <2>2 DEF IInv, ParentsInv
<1> QED
  BY <1>a, <1>b, <1>c, <1>e, <1>f

\* The end of the list is read.
LEMMA ReadLastInv ==
  ASSUME IInv, NEW t \in Threads, ReadLast(t)
  PROVE  IInv'
<1> DEFINE r == thread[t]
           q == thread'[t]
<1>1. /\ nodes' = nodes /\ last' = last /\ failures' = failures /\ r.pc = "readlast" /\ Moved(t)
      /\ q = [r EXCEPT !.seen = last, !.pc = "link"]
  BY ReadLastIs DEF IInv, SameList
<1>2. r \in ThreadType /\ nodes \in Seq(NodeType) /\ last \in Nat
  BY DEF IInv, TypeOK
<1>3. /\ q.pc = "link" /\ q.seen = last /\ q.own = r.own /\ q.stack = r.stack
      /\ q.call = r.call /\ q.asked = r.asked /\ q.got = r.got
  BY <1>1, <1>2 DEF ThreadType
<1>4. Naming(t) /\ Naming(t)'
  BY <1>1, <1>3 DEF Naming
<1>5. TypeOK' /\ OwnInv' /\ NamesInv' /\ CallsInv' /\ ParentsInv'
  BY <1>1, <1>2, <1>3, <1>4, InsertStep
<1>6. ListInv'
  <2>1. \A u \in Threads : /\ Pending(u)' => Pending(u)
                           /\ thread'[u].own = thread[u].own
                           /\ u # t => thread'[u] = thread[u]
    BY <1>1, <1>3 DEF Moved, Pending
  <2>2. ASSUME NEW u \in Threads, Pending(u)'
        PROVE  /\ nodes'[thread'[u].own].next = 0 /\ last' # thread'[u].own
               /\ \A x \in Nodes' : nodes'[x].next # thread'[u].own
               /\ \A v \in Threads : thread'[v].pc = "link" => thread'[v].seen # thread'[u].own
    <3>1. /\ nodes[thread[u].own].next = 0 /\ last # thread[u].own
          /\ \A x \in Nodes : nodes[x].next # thread[u].own
          /\ \A v \in Threads : thread[v].pc = "link" => thread[v].seen # thread[u].own
      BY <2>1, <2>2 DEF IInv, ListInv
    <3> QED
      BY <1>1, <1>3, <2>1, <3>1, ZenonT(60) DEF Nodes
  <2>3. ASSUME NEW u \in Threads
        PROVE  /\ thread'[u].pc \in {"compare", "end", "advance"} => thread'[u].at \in Nodes'
               /\ thread'[u].pc = "link" => thread'[u].seen \in 2..Len(nodes')
    BY <1>1, <1>3, <2>1 DEF IInv, ListInv, Nodes
  <2> QED
    BY <1>1, <2>2, <2>3 DEF IInv, ListInv, Nodes
<1> QED
  BY <1>5, <1>6 DEF IInv

\* The new logger becomes the end of the list.
LEMMA SetLastInv ==
  ASSUME IInv, NEW t \in Threads, SetLast(t)
  PROVE  IInv'
<1> DEFINE r == thread[t]
           q == thread'[t]
<1>1. /\ nodes' = nodes /\ last' = r.own /\ failures' = failures /\ r.pc = "setlast" /\ Moved(t)
      /\ q = [r EXCEPT !.pc = "name"]
  BY SetLastIs DEF IInv
<1>2. r \in ThreadType /\ nodes \in Seq(NodeType) /\ r.own \in Nat
  BY DEF IInv, TypeOK, ThreadType
<1>3. /\ q.pc = "name" /\ q.own = r.own /\ q.stack = r.stack
      /\ q.call = r.call /\ q.asked = r.asked /\ q.got = r.got
  BY <1>1, <1>2 DEF ThreadType
<1>4. Naming(t) /\ Naming(t)'
  BY <1>1, <1>3 DEF Naming
<1>5. TypeOK' /\ OwnInv' /\ NamesInv' /\ CallsInv' /\ ParentsInv'
  BY <1>1, <1>2, <1>3, <1>4, InsertStep
<1>6. ListInv'
  <2>1. \A u \in Threads : /\ Pending(u)' => Pending(u) /\ Naming(u) /\ u # t
                           /\ u # t => thread'[u] = thread[u]
    BY <1>1, <1>3 DEF Moved, Pending, Naming
  <2>2. ASSUME NEW u \in Threads, Pending(u)'
        PROVE  /\ nodes'[thread'[u].own].next = 0 /\ last' # thread'[u].own
               /\ \A x \in Nodes' : nodes'[x].next # thread'[u].own
               /\ \A v \in Threads : thread'[v].pc = "link" => thread'[v].seen # thread'[u].own
    <3>1. /\ nodes[thread[u].own].next = 0
          /\ \A x \in Nodes : nodes[x].next # thread[u].own
          /\ \A v \in Threads : thread[v].pc = "link" => thread[v].seen # thread[u].own
      BY <2>1, <2>2 DEF IInv, ListInv
    <3>2. r.own # thread[u].own
      BY <1>4, <2>1, <2>2 DEF IInv, OwnInv
    <3> QED
      BY <1>1, <1>3, <2>1, <2>2, <3>1, <3>2 DEF Nodes
  <2>3. ASSUME NEW u \in Threads
        PROVE  /\ thread'[u].pc \in {"compare", "end", "advance"} => thread'[u].at \in Nodes'
               /\ thread'[u].pc = "link" => thread'[u].seen \in 2..Len(nodes')
    BY <1>1, <1>3, <2>1 DEF IInv, ListInv, Nodes
  <2>4. r.own \in 3..Len(nodes)
    BY <1>4, OwnIs
  <2>5. last' \in 2..Len(nodes')
    <3>1. Len(nodes) \in Nat
      BY <1>2, LenProperties
    <3> QED
      BY <1>1, <2>4, <3>1
  <2> QED
    BY <1>1, <2>2, <2>3, <2>5 DEF IInv, ListInv, Nodes
<1> QED
  BY <1>5, <1>6 DEF IInv

\* ms has the links of ns, but x is linked to own, which has had none.
OneMoreLink(ns, ms, x, own) ==
  /\ Len(ns) \in Nat /\ Len(ms) = Len(ns)
  /\ x \in 1..Len(ns) /\ own \in 1..Len(ns) /\ x # own
  /\ ns[own].next = 0 /\ ms[own].next = 0 /\ ms[x].next = own
  /\ \A y \in 1..Len(ns) : ns[y].next \in 0..Len(ns) /\ ns[y].next # own
  /\ \A y \in 1..Len(ns) : y # x => ms[y].next = ns[y].next

\* A numbering in which links lead upwards gives one for the list with one more
\* link: the logger that is linked comes last.
LEMMA RankedMore ==
  ASSUME NEW ns, NEW ms, NEW x, NEW own, OneMoreLink(ns, ms, x, own),
         NEW rank, Ranked(ns, rank)
  PROVE  \E new : Ranked(ms, new)
<1>0. /\ Len(ns) \in Nat /\ Len(ms) = Len(ns)
      /\ x \in 1..Len(ns) /\ own \in 1..Len(ns) /\ x # own
      /\ ns[own].next = 0 /\ ms[own].next = 0 /\ ms[x].next = own
      /\ \A y \in 1..Len(ns) : ns[y].next \in 0..Len(ns) /\ ns[y].next # own
      /\ \A y \in 1..Len(ns) : y # x => ms[y].next = ns[y].next
  BY DEF OneMoreLink
<1> DEFINE m == Len(ns)
           new == [y \in 1..m |-> IF y = own THEN m
                                  ELSE IF rank[y] > rank[own] THEN rank[y] - 1 ELSE rank[y]]
<1>1. /\ \A y \in 1..m : rank[y] \in 1..m
      /\ \A y, z \in 1..m : y # z => rank[y] # rank[z]
      /\ \A y \in 1..m : ns[y].next # 0 => rank[y] < rank[ns[y].next]
  BY DEF Ranked
<1>2. m \in Nat /\ own \in 1..m /\ rank[own] \in 1..m
  BY <1>0, <1>1
<1>3. new[own] = m
  BY <1>2
<1>4. ASSUME NEW y \in 1..m, y # own
      PROVE  /\ new[y] = IF rank[y] > rank[own] THEN rank[y] - 1 ELSE rank[y]
             /\ rank[y] # rank[own] /\ rank[y] \in 1..m
             /\ new[y] \in 1..m /\ new[y] < m
  <2>1. rank[y] # rank[own] /\ rank[y] \in 1..m
    BY <1>1, <1>2, <1>4
  <2>2. new[y] = IF rank[y] > rank[own] THEN rank[y] - 1 ELSE rank[y]
    BY <1>4
  <2> HIDE DEF new, m
  <2> QED
    BY <1>2, <2>1, <2>2
<1>5. new \in [1..m -> 1..m]
  <2>1. m \in 1..m
    BY <1>2
  <2>2. \A y \in 1..m : new[y] \in 1..m
    <3> HIDE DEF new, m
    <3> QED
      BY <1>3, <1>4, <2>1
  <2> QED
    BY <2>2
<1>6. ASSUME NEW y \in 1..m, NEW z \in 1..m, y # z PROVE new[y] # new[z]
  <2>1. rank[y] # rank[z]
    BY <1>1, <1>6
  <2> HIDE DEF new, m
  <2>2. CASE y # own /\ z # own
    <3>1. /\ new[y] = IF rank[y] > rank[own] THEN rank[y] - 1 ELSE rank[y]
          /\ rank[y] # rank[own] /\ rank[y] \in 1..m
      BY <1>4, <2>2
    <3>2. /\ new[z] = IF rank[z] > rank[own] THEN rank[z] - 1 ELSE rank[z]
          /\ rank[z] # rank[own] /\ rank[z] \in 1..m
      BY <1>4, <2>2
    <3>3. \A i, j, k \in 1..m : (i # j /\ i # k /\ j # k) =>
            (IF i > k THEN i - 1 ELSE i) # (IF j > k THEN j - 1 ELSE j)
      BY <1>2
    <3> QED
      BY <1>2, <2>1, <3>1, <3>2, <3>3
  <2>3. CASE y = own
    <3>1. new[z] < m /\ new[z] \in 1..m
      BY <1>4, <1>6, <2>3
    <3> QED
      BY <1>2, <1>3, <2>3, <3>1
  <2>4. CASE z = own
    <3>1. new[y] < m /\ new[y] \in 1..m
      BY <1>4, <1>6, <2>4
    <3> QED
      BY <1>2, <1>3, <2>4, <3>1
  <2> QED
    BY <2>2, <2>3, <2>4
<1>7. ASSUME NEW y \in 1..m, ms[y].next # 0 PROVE new[y] < new[ms[y].next]
  <2>1. y # own
    BY <1>0, <1>7
  <2>2. CASE y = x
    BY <1>0, <1>3, <1>4, <2>1, <2>2
  <2>3. CASE y # x
    <3> DEFINE z == ms[y].next
    <3>1. z = ns[y].next /\ z \in 1..m /\ z # own
      BY <1>0, <1>2, <1>7, <2>3
    <3>2. rank[y] < rank[z]
      BY <1>1, <1>7, <3>1
    <3>4. /\ new[y] = IF rank[y] > rank[own] THEN rank[y] - 1 ELSE rank[y]
          /\ rank[y] # rank[own] /\ rank[y] \in 1..m
      BY <1>4, <2>1
    <3>5. /\ new[z] = IF rank[z] > rank[own] THEN rank[z] - 1 ELSE rank[z]
          /\ rank[z] # rank[own] /\ rank[z] \in 1..m
      BY <1>4, <3>1
    <3>6. \A i, j, k \in 1..m : (i < j /\ i # k /\ j # k) =>
            (IF i > k THEN i - 1 ELSE i) < (IF j > k THEN j - 1 ELSE j)
      BY <1>2
    <3> HIDE DEF new, m, z
    <3>3. new[y] < new[z]
      BY <1>2, <3>2, <3>4, <3>5, <3>6
    <3> QED
      BY <3>3 DEF z
  <2> QED
    BY <2>2, <2>3
<1> HIDE DEF new
<1> QED
  BY <1>0, <1>5, <1>6, <1>7 DEF Ranked

\* The logger that was the end of the list when it was read is linked to the
\* new one, whatever it was linked to.
LEMMA LinkInv ==
  ASSUME IInv, NEW t \in Threads, Link(t)
  PROVE  IInv'
<1> DEFINE r == thread[t]
           q == thread'[t]
           own == r.own
           s == r.seen
<1>0. r.pc = "link" /\ Naming(t) /\ Pending(t)
  BY DEF Link, At, Naming, Pending
<1>1. /\ Len(nodes) \in Nat /\ Len(nodes) >= 2 /\ r \in ThreadType /\ last \in Nat
      /\ s \in 2..Len(nodes) /\ s \in Nodes /\ own \in 3..Len(nodes) /\ own \in Nodes
      /\ nodes[own].next = 0
      /\ \A x \in Nodes : nodes[x].next # own
      /\ \A u \in Threads : thread[u].pc = "link" => thread[u].seen # own
  BY <1>0, OwnIs, LenProperties DEF IInv, ListInv, TypeOK, Nodes
<1>2. /\ last' = last /\ failures' = failures /\ Moved(t)
      /\ nodes' \in Seq(NodeType) /\ Len(nodes') = Len(nodes)
      /\ nodes'[s] = [nodes[s] EXCEPT !.next = own]
      /\ \A y \in Nodes \ {s} : nodes'[y] = nodes[y]
      /\ q = [r EXCEPT !.pc = "setlast"]
  BY <1>1, LinkIs DEF IInv
<1>3. /\ q.pc = "setlast" /\ q.own = r.own /\ q.stack = r.stack
      /\ q.call = r.call /\ q.asked = r.asked /\ q.got = r.got
  BY <1>1, <1>2 DEF ThreadType
<1>4. Naming(t)' /\ ~Pending(t)'
  BY <1>3 DEF Naming, Pending
<1>5. /\ nodes'[s].asked = nodes[s].asked /\ nodes'[s].name = nodes[s].name
      /\ nodes'[s].parent = nodes[s].parent /\ nodes'[s].next = own
  <2>1. nodes[s] \in NodeType
    BY <1>1, ElementOfSeq DEF IInv, TypeOK, Nodes
  <2> HIDE DEF s, own
  <2> QED
    BY <1>2, <2>1 DEF NodeType
<1>6. \A x \in Nodes : /\ nodes'[x].asked = nodes[x].asked /\ nodes'[x].name = nodes[x].name
                       /\ nodes'[x].parent = nodes[x].parent
                       /\ x # s => nodes'[x].next = nodes[x].next
  BY <1>2, <1>5
<1>7. TypeOK' /\ OwnInv' /\ NamesInv' /\ CallsInv' /\ ParentsInv'
  BY <1>0, <1>1, <1>2, <1>3, <1>4, <1>6, InsertStep
<1>8. ListInv'
  <2>1. \A u \in Threads : /\ Pending(u)' => Pending(u) /\ Naming(u) /\ u # t
                           /\ u # t => thread'[u] = thread[u]
    BY <1>2, <1>4 DEF Moved, Pending, Naming
  <2>2. ASSUME NEW u \in Threads, Pending(u)'
        PROVE  /\ nodes'[thread'[u].own].next = 0 /\ last' # thread'[u].own
               /\ \A x \in Nodes' : nodes'[x].next # thread'[u].own
               /\ \A v \in Threads : thread'[v].pc = "link" => thread'[v].seen # thread'[u].own
    <3>1. /\ Naming(u) /\ Pending(u) /\ u # t /\ thread'[u] = thread[u]
      BY <2>1, <2>2
    <3>2. /\ nodes[thread[u].own].next = 0 /\ last # thread[u].own
          /\ \A x \in Nodes : nodes[x].next # thread[u].own
          /\ \A v \in Threads : thread[v].pc = "link" => thread[v].seen # thread[u].own
      BY <3>1 DEF IInv, ListInv
    <3>3. own # thread[u].own
      BY <1>0, <3>1 DEF IInv, OwnInv
    <3>4. s # thread[u].own /\ thread[u].own \in Nodes
      BY <1>0, <3>1, <3>2, OwnIs
    <3>5. nodes'[thread[u].own].next = 0
      BY <1>6, <3>2, <3>4
    <3>6. \A x \in Nodes' : nodes'[x].next # thread[u].own
      <4>1. Nodes' = Nodes
        BY <1>2 DEF Nodes
      <4> QED
        BY <1>5, <1>6, <3>2, <3>3, <4>1
    <3>7. \A v \in Threads : thread'[v].pc = "link" => thread'[v].seen # thread[u].own
      BY <1>3, <2>1, <3>2
    <3> QED
      BY <1>2, <3>1, <3>2, <3>5, <3>6, <3>7
  <2>3. ASSUME NEW u \in Threads
        PROVE  /\ thread'[u].pc \in {"compare", "end", "advance"} => thread'[u].at \in Nodes'
               /\ thread'[u].pc = "link" => thread'[u].seen \in 2..Len(nodes')
    <3>1. /\ thread[u].pc \in {"compare", "end", "advance"} => thread[u].at \in Nodes
          /\ thread[u].pc = "link" => thread[u].seen \in 2..Len(nodes)
      BY DEF IInv, ListInv
    <3> QED
      BY <1>2, <1>3, <2>1, <3>1 DEF Nodes
  <2>4. nodes'[Root].next = 2
    <3>1. Root \in Nodes /\ Root # s
      BY <1>1 DEF Root, Nodes
    <3> QED
      BY <1>6, <3>1 DEF IInv, ListInv
  <2>5. \A x \in Nodes : nodes[x].next \in 0..Len(nodes)
    BY DEF IInv, ListInv
  <2>6. \A x \in Nodes' : nodes'[x].next \in 0..Len(nodes')
    <3>1. Nodes' = Nodes /\ own \in 0..Len(nodes')
      BY <1>1, <1>2 DEF Nodes
    <3> HIDE DEF s, own
    <3>2. nodes'[s].next \in 0..Len(nodes')
      BY <1>5, <3>1
    <3>3. ASSUME NEW x \in Nodes, x # s PROVE nodes'[x].next \in 0..Len(nodes')
      BY <1>2, <1>6, <2>5, <3>3
    <3> QED
      BY <3>1, <3>2, <3>3
  <2>7. \E rank : Ranked(nodes', rank)
    <3>1. PICK rank : Ranked(nodes, rank)
      BY DEF IInv, ListInv
    <3>2. s # own /\ nodes'[own].next = 0
      BY <1>0, <1>1, <1>6
    <3>3. s \in 1..Len(nodes) /\ own \in 1..Len(nodes)
      BY <1>1 DEF Nodes
    <3>4. \A y \in 1..Len(nodes) : nodes[y].next \in 0..Len(nodes) /\ nodes[y].next # own
      BY <1>1, <2>5 DEF Nodes
    <3>5. \A y \in 1..Len(nodes) : y # s => nodes'[y].next = nodes[y].next
      BY <1>6 DEF Nodes
    <3>6. Len(nodes') = Len(nodes) /\ Len(nodes) \in Nat /\ nodes[own].next = 0
      BY <1>1, <1>2
    <3>7. nodes'[s].next = own
      BY <1>5
    <3> HIDE DEF s, own
    <3>8. OneMoreLink(nodes, nodes', s, own)
      BY <3>2, <3>3, <3>4, <3>5, <3>6, <3>7 DEF OneMoreLink
    <3> QED
      BY <3>1, <3>8, RankedMore
  <2>8. last' \in 2..Len(nodes')
    BY <1>2 DEF IInv, ListInv
  <2> QED
    BY <2>2, <2>3, <2>4, <2>6, <2>7, <2>8 DEF ListInv
<1> QED
  BY <1>7, <1>8 DEF IInv

-----------------------------------------------------------------------------
(* The names and the parents *)

\* A step that changes no link, of a thread that has no logger to link.
LEMMA ListStays ==
  ASSUME IInv, NEW t \in Threads, Moved(t), Len(nodes') = Len(nodes), last' = last,
         \A x \in Nodes : nodes'[x].next = nodes[x].next,
         thread'[t].pc \in {"outside", "compare", "parent"},
         thread'[t].pc = "compare" => thread'[t].at \in Nodes
  PROVE  ListInv'
<1>1. Nodes' = Nodes
  BY DEF Nodes
<1>2. \A u \in Threads : /\ Pending(u)' => Pending(u) /\ u # t
                         /\ u # t => thread'[u] = thread[u]
                         /\ thread'[u].pc = "link" => thread'[u] = thread[u]
  BY DEF Moved, Pending
<1>3. ASSUME NEW u \in Threads
      PROVE  /\ thread'[u].pc \in {"compare", "end", "advance"} => thread'[u].at \in Nodes'
             /\ thread'[u].pc = "link" => thread'[u].seen \in 2..Len(nodes')
  BY <1>1, <1>2 DEF IInv, ListInv
<1>4. ASSUME NEW u \in Threads, Pending(u)'
      PROVE  /\ nodes'[thread'[u].own].next = 0 /\ last' # thread'[u].own
             /\ \A x \in Nodes' : nodes'[x].next # thread'[u].own
             /\ \A v \in Threads : thread'[v].pc = "link" => thread'[v].seen # thread'[u].own
  <2>1. Pending(u) /\ Naming(u) /\ thread'[u] = thread[u]
    BY <1>2, <1>4 DEF Pending, Naming
  <2>2. /\ nodes[thread[u].own].next = 0 /\ last # thread[u].own
        /\ \A x \in Nodes : nodes[x].next # thread[u].own
        /\ \A v \in Threads : thread[v].pc = "link" => thread[v].seen # thread[u].own
    BY <2>1 DEF IInv, ListInv
  <2>3. thread[u].own \in Nodes
    BY <2>1, OwnIs
  <2> QED
    BY <1>1, <1>2, <2>1, <2>2, <2>3
<1>5. nodes'[Root].next = 2
  <2>1. Root \in Nodes
    BY LenProperties DEF IInv, TypeOK, Nodes, Root
  <2> QED
    BY <2>1 DEF IInv, ListInv
<1>6. \A x \in Nodes' : nodes'[x].next \in 0..Len(nodes')
  BY <1>1 DEF IInv, ListInv
<1>7. \E rank : Ranked(nodes', rank)
  <2>1. PICK rank : Ranked(nodes, rank)
    BY DEF IInv, ListInv
  <2>2. Ranked(nodes', rank)
    BY <2>1 DEF Ranked, Nodes
  <2> QED
    BY <2>2
<1>8. last' \in 2..Len(nodes')
  BY DEF IInv, ListInv
<1> QED
  BY <1>3, <1>4, <1>5, <1>6, <1>7, <1>8 DEF ListInv

\* The stack with one more logger.
LEMMA StackGrows ==
  ASSUME NEW ns, NEW stack \in Seq(Nat), NEW call, StackOK(ns, stack, call),
         NEW own \in 3..Len(ns), ns[own].name = Tree!Stored(ns[own].asked),
         IF stack = << >> THEN ns[own].asked = call
         ELSE /\ Len(ns[Top(stack)].asked) > 1
              /\ ns[own].asked = Tree!Front(ns[Top(stack)].asked)
  PROVE  StackOK(ns, Append(stack, own), call)
<1> DEFINE more == Append(stack, own)
           m == Len(stack)
<1>1. /\ m \in Nat /\ Len(more) = m + 1 /\ more[m + 1] = own
      /\ \A k \in 1..m : more[k] = stack[k]
      /\ stack = << >> <=> m = 0
  BY AppendProperties, LenProperties, EmptySeq
<1>2. /\ \A k \in 1..m : stack[k] \in 3..Len(ns) /\ ns[stack[k]].name = Tree!Stored(ns[stack[k]].asked)
      /\ m > 0 => ns[stack[1]].asked = call
      /\ \A k \in 1..(m - 1) : /\ Len(ns[stack[k]].asked) > 1
                               /\ ns[stack[k + 1]].asked = Tree!Front(ns[stack[k]].asked)
  BY DEF StackOK
<1>3. m > 0 => /\ Len(ns[stack[m]].asked) > 1
               /\ ns[own].asked = Tree!Front(ns[stack[m]].asked)
  BY <1>1 DEF Top
<1> HIDE DEF more, m
<1>4. ASSUME NEW k \in 1..(m + 1)
      PROVE  more[k] \in 3..Len(ns) /\ ns[more[k]].name = Tree!Stored(ns[more[k]].asked)
  <2>1. k = m + 1 \/ k \in 1..m
    BY <1>1
  <2> QED
    BY <1>1, <1>2, <2>1
<1>5. ns[more[1]].asked = call
  <2>1. CASE m = 0
    BY <1>1, <2>1
  <2>2. CASE m # 0
    <3>1. 1 \in 1..m /\ m > 0
      BY <1>1, <2>2
    <3> QED
      BY <1>1, <1>2, <3>1
  <2> QED
    BY <2>1, <2>2
<1>6. ASSUME NEW k \in 1..m
      PROVE  Len(ns[more[k]].asked) > 1 /\ ns[more[k + 1]].asked = Tree!Front(ns[more[k]].asked)
  <2>1. CASE k = m
    <3>1. m > 0 /\ m \in 1..m
      BY <1>1, <2>1
    <3>2. more[k] = stack[m] /\ more[k + 1] = own
      BY <1>1, <2>1, <3>1
    <3> QED
      BY <1>3, <3>1, <3>2
  <2>2. CASE k # m
    <3>1. k \in 1..(m - 1) /\ k + 1 \in 1..m
      BY <1>1, <2>2
    <3>2. more[k] = stack[k] /\ more[k + 1] = stack[k + 1]
      BY <1>1, <3>1
    <3> QED
      BY <1>2, <3>1, <3>2
  <2> QED
    BY <2>1, <2>2
<1>7. Len(more) - 1 = m
  BY <1>1
<1>8. StackOK(ns, more, call)
  BY <1>1, <1>4, <1>5, <1>6, <1>7 DEF StackOK
<1> QED
  BY <1>8 DEF more

\* The new logger gets its name; its parent is the root, or looked for.
LEMMA NameInv ==
  ASSUME IInv, NEW t \in Threads, Name(t)
  PROVE  IInv'
<1> DEFINE r == thread[t]
           q == thread'[t]
           own == r.own
<1>0. r.pc = "name" /\ Naming(t)
  BY DEF Name, At, Naming
<1>1. /\ Len(nodes) \in Nat /\ Len(nodes) >= 2 /\ failures \in Nat /\ last \in Nat
      /\ r \in ThreadType /\ CallOK(nodes, failures, r)
      /\ own \in 3..Len(nodes) /\ own \in Nodes /\ nodes[own] \in NodeType
      /\ nodes[own].name = Unnamed /\ nodes[own].asked = r.asked
      /\ r.asked \in Seq(Words) /\ r.asked # << >>
  BY <1>0, AskedIs, OwnIs, LenProperties, ElementOfSeq DEF IInv, TypeOK, CallsInv, Nodes
<1>2. /\ last' = last /\ failures' = failures /\ Moved(t)
      /\ nodes' \in Seq(NodeType) /\ Len(nodes') = Len(nodes)
      /\ nodes'[own] = [nodes[own] EXCEPT !.name = Tree!Stored(r.asked)]
      /\ \A y \in Nodes \ {own} : nodes'[y] = nodes[y]
      /\ q.call = r.call /\ q.got = r.got /\ q.stack = Append(r.stack, own)
      /\ IF Len(r.asked) = 1 THEN q.pc = "parent" /\ q.answer = Root
         ELSE /\ q.pc = "compare" /\ q.at = Root
              /\ Len(r.asked) > 1 /\ q.asked = Tree!Front(r.asked)
  BY <1>1, NameIs DEF IInv
<1>3. /\ nodes'[own].name = Tree!Stored(r.asked) /\ nodes'[own].asked = r.asked
      /\ nodes'[own].parent = nodes[own].parent /\ nodes'[own].next = nodes[own].next
  BY <1>1, <1>2 DEF NodeType
<1>4. \A u \in Threads : u # t => /\ thread'[u] = thread[u]
                                  /\ Naming(u)' <=> Naming(u)
  BY <1>2 DEF Moved, Naming
<1>5. ~Naming(t)' /\ q.pc \in {"compare", "parent"}
  BY <1>2 DEF Naming
<1>6. Nodes' = Nodes
  BY <1>2 DEF Nodes
<1>7. /\ r.stack \in Seq(Nat) /\ Len(r.stack) \in Nat /\ own \in Nat
      /\ Len(q.stack) = Len(r.stack) + 1 /\ q.stack[Len(r.stack) + 1] = own
      /\ \A k \in 1..Len(r.stack) : q.stack[k] = r.stack[k]
      /\ Top(q.stack) = own /\ q.stack # << >>
  <2>1. r.stack \in Seq(Nat) /\ own \in Nat
    BY <1>1 DEF ThreadType
  <2> HIDE DEF own
  <2>2. /\ Len(r.stack) \in Nat
        /\ Len(q.stack) = Len(r.stack) + 1 /\ q.stack[Len(r.stack) + 1] = own
        /\ \A k \in 1..Len(r.stack) : q.stack[k] = r.stack[k]
        /\ q.stack # << >>
    BY <1>2, <2>1, AppendProperties, LenProperties
  <2> QED
    BY <2>1, <2>2 DEF Top
<1>a. TypeOK'
  BY <1>1, <1>2 DEF TypeOK, Moved
<1>b. OwnInv'
  <2>1. ASSUME NEW u \in Threads, Naming(u)'
        PROVE  /\ u # t /\ thread'[u] = thread[u] /\ Naming(u)
               /\ thread'[u].own \in 3..Len(nodes')
               /\ nodes'[thread'[u].own].name = Unnamed
               /\ nodes'[thread'[u].own].asked = thread'[u].asked
    <3>1. u # t /\ thread'[u] = thread[u] /\ Naming(u)
      BY <1>4, <1>5, <2>1
    <3>2. /\ thread[u].own \in 3..Len(nodes) /\ thread[u].own \in Nodes
          /\ nodes[thread[u].own].name = Unnamed
          /\ nodes[thread[u].own].asked = thread[u].asked
      BY <3>1, OwnIs
    <3>3. thread[u].own # own
      BY <1>0, <3>1 DEF IInv, OwnInv
    <3> QED
      BY <1>2, <3>1, <3>2, <3>3
  <2> QED
    BY <2>1 DEF IInv, OwnInv
<1>c. ListInv'
  <2>1. \A x \in Nodes : nodes'[x].next = nodes[x].next
    BY <1>2, <1>3
  <2>2. q.pc = "compare" => q.at \in Nodes
    BY <1>1, <1>2 DEF Nodes, Root
  <2> QED
    BY <1>2, <1>5, <2>1, <2>2, ListStays
<1>d. NamesInv'
  <2> SUFFICES ASSUME NEW x \in Nodes
               PROVE  /\ nodes'[x].asked # << >>
                      /\ \/ nodes'[x].name = Tree!Stored(nodes'[x].asked)
                         \/ \E u \in Threads : Naming(u)' /\ thread'[u].own = x
    BY <1>6 DEF NamesInv
  <2>1. CASE x = own
    BY <1>1, <1>3, <2>1
  <2>2. CASE x # own
    <3>1. /\ nodes'[x] = nodes[x] /\ nodes[x].asked # << >>
          /\ \/ nodes[x].name = Tree!Stored(nodes[x].asked)
             \/ \E u \in Threads : Naming(u) /\ thread[u].own = x
      BY <1>2, <2>2 DEF IInv, NamesInv
    <3>2. \A u \in Threads : (Naming(u) /\ thread[u].own = x) =>
                               Naming(u)' /\ thread'[u].own = x
      BY <1>4, <2>2
    <3> QED
      BY <3>1, <3>2
  <2> QED
    BY <2>1, <2>2
<1>e. Kept(nodes, nodes') /\ Len(nodes') \in Nat
  <2>1. \A x \in Nodes :
          /\ nodes'[x].asked = nodes[x].asked
          /\ (nodes[x].name # Unnamed \/ nodes[x].name = Tree!Stored(nodes[x].asked)) =>
               nodes'[x].name = nodes[x].name
    <3> SUFFICES ASSUME NEW x \in Nodes
                 PROVE  /\ nodes'[x].asked = nodes[x].asked
                        /\ (nodes[x].name # Unnamed \/ nodes[x].name = Tree!Stored(nodes[x].asked)) =>
                             nodes'[x].name = nodes[x].name
      OBVIOUS
    <3>1. CASE x = own
      BY <1>1, <1>3, <3>1, Zenon
    <3>2. CASE x # own
      BY <1>2, <3>2, Zenon
    <3> QED
      BY <3>1, <3>2
  <2>2. Len(nodes) \in Nat /\ Len(nodes') = Len(nodes)
    BY <1>1, <1>2
  <2> HIDE DEF own
  <2> QED
    BY <2>1, <2>2 DEF Kept, Nodes
<1>f. CallsInv'
  <2>1. CallOK(nodes', failures', r)
    BY <1>1, <1>2, <1>e, CallStays
  <2>2. IF r.stack = << >> THEN r.asked = r.call
        ELSE /\ Len(nodes'[Top(r.stack)].asked) > 1
             /\ r.asked = Tree!Front(nodes'[Top(r.stack)].asked)
    BY <1>0, <2>1 DEF CallOK
  <2>3. StackOK(nodes', q.stack, q.call)
    <3>1. StackOK(nodes', r.stack, r.call)
      BY <2>1 DEF CallOK
    <3>2. /\ own \in 3..Len(nodes') /\ nodes'[own].asked = r.asked
          /\ nodes'[own].name = Tree!Stored(nodes'[own].asked)
      BY <1>1, <1>2, <1>3
    <3> HIDE DEF own
    <3>3. StackOK(nodes', Append(r.stack, own), r.call)
      BY <1>7, <2>2, <3>1, <3>2, StackGrows
    <3> QED
      BY <1>2, <3>3
  <2>4. q.call # << >> /\ (q.got # 0 => Good(nodes', q.got, q.call))
    BY <1>0, <1>2, <2>1 DEF CallOK
  <2>5. q.pc = "parent" => GoodParent(nodes', failures', Top(q.stack), q.answer)
    BY <1>2, <1>3, <1>7 DEF GoodParent
  <2>6. q.pc # "parent" => /\ Len(nodes'[Top(q.stack)].asked) > 1
                           /\ q.asked = Tree!Front(nodes'[Top(q.stack)].asked)
    BY <1>2, <1>3, <1>7
  <2>7. CallOK(nodes', failures', q)
    BY <1>5, <1>7, <2>3, <2>4, <2>5, <2>6 DEF CallOK
  <2> QED
    BY <1>1, <1>2, <1>e, <2>7, OthersStay DEF IInv
<1>g. ParentsInv'
  <2> SUFFICES ASSUME NEW x \in 3..Len(nodes)
               PROVE  InFlight(x)' \/ GoodParent(nodes', failures', x, nodes'[x].parent)
    BY <1>2 DEF ParentsInv
  <2>1. ASSUME InFlight(x) PROVE InFlight(x)'
    <3>1. PICK u \in Threads : \/ Naming(u) /\ thread[u].own = x
                               \/ \E k \in 1..Len(thread[u].stack) : thread[u].stack[k] = x
      BY <2>1 DEF InFlight
    <3>2. CASE u # t
      BY <1>4, <3>1, <3>2 DEF InFlight
    <3>3. CASE u = t
      <4>1. \E k \in 1..Len(q.stack) : q.stack[k] = x
        <5>1. CASE own = x
          <6>1. Len(r.stack) + 1 \in 1..Len(q.stack)
            BY <1>7
          <6> QED
            BY <1>7, <5>1, <6>1
        <5>2. CASE \E k \in 1..Len(r.stack) : r.stack[k] = x
          <6>1. PICK k \in 1..Len(r.stack) : r.stack[k] = x
            BY <5>2
          <6>3. Len(r.stack) \in Nat /\ Len(q.stack) = Len(r.stack) + 1
            BY <1>7
          <6>4. k \in 1..Len(q.stack)
            BY <6>3
          <6>2. k \in 1..Len(q.stack) /\ q.stack[k] = x
            BY <1>7, <6>1, <6>4, Zenon
          <6> QED
            BY <6>2
        <5> QED
          BY <3>1, <3>3, <5>1, <5>2
      <4> QED
        BY <4>1 DEF InFlight
    <3> QED
      BY <3>2, <3>3
  <2>2. ASSUME GoodParent(nodes, failures, x, nodes[x].parent)
        PROVE  GoodParent(nodes', failures', x, nodes'[x].parent)
    <3>1. x \in Nodes
      BY DEF Nodes
    <3>2. nodes'[x].parent = nodes[x].parent
      BY <1>2, <1>3, <3>1
    <3>3. /\ failures \in Nat /\ failures' \in Nat /\ failures <= failures'
          /\ Len(nodes) \in Nat /\ x \in 1..Len(nodes)
      BY <1>1, <1>2
    <3> HIDE DEF own
    <3> QED
      BY <1>e, <2>2, <3>2, <3>3, GoodParentStays
  <2> QED
    BY <2>1, <2>2 DEF IInv, ParentsInv
<1> QED
  BY <1>a, <1>b, <1>c, <1>d, <1>f, <1>g DEF IInv

\* The stack with one logger less.
LEMMA StackShrinks ==
  ASSUME NEW ns, NEW stack \in Seq(Nat), NEW call, StackOK(ns, stack, call), Len(stack) > 1
  PROVE  /\ StackOK(ns, Tree!Front(stack), call)
         /\ Tree!Front(stack) # << >> /\ Top(Tree!Front(stack)) \in 3..Len(ns)
         /\ Len(ns[Top(Tree!Front(stack))].asked) > 1
         /\ ns[Top(stack)].asked = Tree!Front(ns[Top(Tree!Front(stack))].asked)
<1> DEFINE less == Tree!Front(stack)
           m == Len(stack) - 1
<1>1. /\ Len(stack) \in Nat /\ m \in Nat /\ m > 0 /\ Len(stack) = m + 1
      /\ less \in Seq(Nat) /\ less # << >> /\ Len(less) = m
      /\ \A k \in 1..m : less[k] = stack[k]
  BY FrontIs, LenProperties
<1>2. /\ \A k \in 1..(m + 1) : stack[k] \in 3..Len(ns) /\ ns[stack[k]].name = Tree!Stored(ns[stack[k]].asked)
      /\ ns[stack[1]].asked = call
      /\ \A k \in 1..m : /\ Len(ns[stack[k]].asked) > 1
                         /\ ns[stack[k + 1]].asked = Tree!Front(ns[stack[k]].asked)
  BY <1>1 DEF StackOK
<1> HIDE DEF less, m
<1>3. /\ \A k \in 1..m : k \in 1..(m + 1)
      /\ \A k \in 1..(m - 1) : k \in 1..m /\ k + 1 \in 1..m
      /\ 1 \in 1..m /\ m \in 1..m
  BY <1>1
<1>4. /\ \A k \in 1..m : less[k] \in 3..Len(ns) /\ ns[less[k]].name = Tree!Stored(ns[less[k]].asked)
      /\ ns[less[1]].asked = call
  BY <1>1, <1>2, <1>3
<1>5. \A k \in 1..(m - 1) : /\ Len(ns[less[k]].asked) > 1
                            /\ ns[less[k + 1]].asked = Tree!Front(ns[less[k]].asked)
  BY <1>1, <1>2, <1>3
<1>6. StackOK(ns, less, call)
  BY <1>1, <1>4, <1>5 DEF StackOK
<1>7. Top(less) = stack[m] /\ Top(stack) = stack[m + 1]
  BY <1>1, <1>3 DEF Top
<1>8. /\ Top(less) \in 3..Len(ns) /\ Len(ns[Top(less)].asked) > 1
      /\ ns[Top(stack)].asked = Tree!Front(ns[Top(less)].asked)
  BY <1>2, <1>3, <1>7
<1> QED
  BY <1>1, <1>6, <1>8 DEF less

\* The parent of a logger is set, and the call that made the logger returns it.
LEMMA ParentInv ==
  ASSUME IInv, NEW t \in Threads, Parent(t)
  PROVE  IInv'
<1> DEFINE r == thread[t]
           q == thread'[t]
           x == Top(r.stack)
<1>0. r.pc = "parent" /\ ~Naming(t)
  BY DEF Parent, At, Naming
<1>1. /\ Len(nodes) \in Nat /\ Len(nodes) >= 2 /\ failures \in Nat /\ last \in Nat
      /\ nodes \in Seq(NodeType)
      /\ r \in ThreadType /\ CallOK(nodes, failures, r)
      /\ r.stack \in Seq(Nat) /\ Len(r.stack) \in Nat /\ Len(r.stack) > 0 /\ r.stack # << >>
      /\ r.call \in Seq(Words)
      /\ StackOK(nodes, r.stack, r.call) /\ GoodParent(nodes, failures, x, r.answer)
  BY <1>0, LenProperties, EmptySeq DEF IInv, TypeOK, CallsInv, CallOK, ThreadType
<1>2. x \in 3..Len(nodes) /\ nodes[x].name = Tree!Stored(nodes[x].asked) /\ x \in Nodes
  <2>1. Len(r.stack) \in 1..Len(r.stack)
    BY <1>1
  <2>2. x \in 3..Len(nodes) /\ nodes[x].name = Tree!Stored(nodes[x].asked)
    BY <1>1, <2>1 DEF StackOK, Top
  <2> HIDE DEF x
  <2> QED
    BY <1>1, <2>2 DEF Nodes
<1>3. /\ last' = last /\ failures' = failures /\ Moved(t)
      /\ nodes' \in Seq(NodeType) /\ Len(nodes') = Len(nodes)
      /\ nodes'[x] = [nodes[x] EXCEPT !.parent = r.answer]
      /\ \A y \in Nodes \ {x} : nodes'[y] = nodes[y]
      /\ q.call = r.call
      /\ IF Len(r.stack) = 1 THEN q.pc = "outside" /\ q.stack = << >> /\ q.got = x
         ELSE /\ q.pc = "parent" /\ Len(r.stack) > 1 /\ q.stack = Tree!Front(r.stack)
              /\ q.answer = x /\ q.got = r.got
  BY <1>1, <1>2, ParentIs DEF IInv
<1>4. /\ nodes[x].asked \in Seq(Words) /\ nodes[x].asked # << >>
      /\ nodes'[x].parent = r.answer
      /\ \A y \in Nodes : /\ nodes'[y].asked = nodes[y].asked /\ nodes'[y].name = nodes[y].name
                          /\ nodes'[y].next = nodes[y].next
                          /\ y # x => nodes'[y].parent = nodes[y].parent
  <2>1. nodes[x] \in NodeType
    BY <1>1, <1>2, ElementOfSeq
  <2>2. nodes[x].asked # << >>
    BY <1>2 DEF IInv, NamesInv
  <2> HIDE DEF x
  <2>3. /\ nodes'[x].asked = nodes[x].asked /\ nodes'[x].name = nodes[x].name
        /\ nodes'[x].next = nodes[x].next /\ nodes'[x].parent = r.answer
        /\ nodes[x].asked \in Seq(Words)
    BY <1>3, <2>1 DEF NodeType
  <2> QED
    BY <1>3, <2>2, <2>3
<1>5. \A u \in Threads : u # t => /\ thread'[u] = thread[u]
                                  /\ Naming(u)' <=> Naming(u)
  BY <1>3 DEF Moved, Naming
<1>6. ~Naming(t)' /\ q.pc \in {"outside", "parent"}
  BY <1>3 DEF Naming
<1>7. Nodes' = Nodes
  BY <1>3 DEF Nodes
<1>a. TypeOK'
  BY <1>1, <1>3 DEF TypeOK, Moved
<1>b. OwnInv'
  <2>1. ASSUME NEW u \in Threads, Naming(u)'
        PROVE  /\ thread'[u] = thread[u] /\ Naming(u)
               /\ thread'[u].own \in 3..Len(nodes')
               /\ nodes'[thread'[u].own].name = Unnamed
               /\ nodes'[thread'[u].own].asked = thread'[u].asked
    <3>1. thread'[u] = thread[u] /\ Naming(u)
      BY <1>5, <1>6, <2>1
    <3>2. /\ thread[u].own \in 3..Len(nodes) /\ thread[u].own \in Nodes
          /\ nodes[thread[u].own].name = Unnamed
          /\ nodes[thread[u].own].asked = thread[u].asked
      BY <3>1, OwnIs
    <3> QED
      BY <1>3, <1>4, <3>1, <3>2
  <2> QED
    BY <2>1 DEF IInv, OwnInv
<1>c. ListInv'
  <2>1. \A y \in Nodes : nodes'[y].next = nodes[y].next
    BY <1>4
  <2> QED
    BY <1>3, <1>6, <2>1, ListStays
<1>d. NamesInv'
  <2> SUFFICES ASSUME NEW y \in Nodes
               PROVE  /\ nodes'[y].asked # << >>
                      /\ \/ nodes'[y].name = Tree!Stored(nodes'[y].asked)
                         \/ \E u \in Threads : Naming(u)' /\ thread'[u].own = y
    BY <1>7 DEF NamesInv
  <2>1. /\ nodes[y].asked # << >>
        /\ \/ nodes[y].name = Tree!Stored(nodes[y].asked)
           \/ \E u \in Threads : Naming(u) /\ thread[u].own = y
    BY DEF IInv, NamesInv
  <2>2. \A u \in Threads : Naming(u) => Naming(u)' /\ thread'[u] = thread[u]
    BY <1>0, <1>5
  <2>3. nodes'[y].asked = nodes[y].asked /\ nodes'[y].name = nodes[y].name
    BY <1>4
  <2> QED
    BY <2>1, <2>2, <2>3
<1>e. Kept(nodes, nodes') /\ Len(nodes') \in Nat
  <2>1. Len(nodes) \in Nat /\ Len(nodes') = Len(nodes)
    BY <1>1, <1>3
  <2>2. \A y \in 1..Len(nodes) : nodes'[y].asked = nodes[y].asked /\ nodes'[y].name = nodes[y].name
    BY <1>4 DEF Nodes
  <2> HIDE DEF x
  <2> QED
    BY <2>1, <2>2 DEF Kept
<1>f. CallsInv'
  <2>1. /\ CallOK(nodes', failures', r) /\ StackOK(nodes', r.stack, r.call)
        /\ r.call # << >>
    <3>1. CallOK(nodes', failures', r)
      BY <1>1, <1>3, <1>e, CallStays
    <3> QED
      BY <1>0, <3>1 DEF CallOK
  <2>2. /\ x \in 1..Len(nodes') /\ nodes'[x].name = Tree!Stored(nodes'[x].asked)
        /\ nodes'[x].asked = nodes[x].asked
    BY <1>2, <1>3, <1>4 DEF Nodes
  <2>3. CASE Len(r.stack) = 1
    <3>1. q.pc = "outside" /\ q.stack = << >> /\ q.got = x
      BY <1>3, <2>3
    <3>2. nodes'[x].asked = r.call
      BY <2>1, <2>3 DEF StackOK, Top
    <3>3. Good(nodes', x, r.call)
      <4> HIDE DEF x
      <4> QED
        BY <1>1, <2>1, <2>2, <3>2, GoodItself
    <3>4. StackOK(nodes', << >>, r.call)
      BY DEF StackOK
    <3>5. CallOK(nodes', failures', q)
      BY <1>3, <3>1, <3>3, <3>4 DEF CallOK
    <3> QED
      BY <1>1, <1>3, <1>e, <3>5, OthersStay DEF IInv
  <2>4. CASE Len(r.stack) # 1
    <3> DEFINE less == Tree!Front(r.stack)
               y == Top(less)
    <3>1. q.pc = "parent" /\ Len(r.stack) > 1 /\ q.stack = less /\ q.answer = x /\ q.got = r.got
      BY <1>3, <2>4
    <3>2. /\ StackOK(nodes', less, r.call) /\ less # << >> /\ y \in 3..Len(nodes')
          /\ Len(nodes'[y].asked) > 1 /\ nodes'[x].asked = Tree!Front(nodes'[y].asked)
      BY <1>1, <2>1, <3>1, StackShrinks
    <3> HIDE DEF less, x
    <3>3. Good(nodes', x, nodes'[x].asked)
      <4>1. nodes'[x].asked \in Seq(Words) /\ nodes'[x].asked # << >>
        BY <1>4, <2>2
      <4> QED
        BY <2>2, <4>1, GoodItself
    <3>4. Len(nodes'[y].asked) # 1
      <4> SUFFICES ASSUME Len(nodes'[y].asked) = 1 PROVE FALSE
        OBVIOUS
      <4>1. 1 > 1
        BY <3>2, Zenon
      <4> QED
        BY <4>1
    <3>5. GoodParent(nodes', failures', y, x)
      BY <3>2, <3>3, <3>4 DEF GoodParent
    <3>6. r.got # 0 => Good(nodes', r.got, r.call)
      BY <2>1 DEF CallOK
    <3>7. CallOK(nodes', failures', q)
      BY <1>3, <2>1, <3>1, <3>2, <3>5, <3>6 DEF CallOK
    <3> QED
      BY <1>1, <1>3, <1>e, <3>7, OthersStay DEF IInv
  <2> QED
    BY <2>3, <2>4
<1>g. ParentsInv'
  <2> SUFFICES ASSUME NEW y \in 3..Len(nodes)
               PROVE  InFlight(y)' \/ GoodParent(nodes', failures', y, nodes'[y].parent)
    BY <1>3 DEF ParentsInv
  <2>0. /\ failures \in Nat /\ failures' \in Nat /\ failures <= failures'
        /\ Len(nodes) \in Nat /\ y \in 1..Len(nodes)
    BY <1>1, <1>3
  <2>1. CASE y = x
    <3>1. GoodParent(nodes, failures, y, r.answer)
      BY <1>1, <2>1
    <3>2. GoodParent(nodes', failures', y, r.answer)
      BY <1>e, <2>0, <3>1, GoodParentStays
    <3> QED
      BY <1>4, <2>1, <3>2
  <2>2. CASE y # x
    <3>1. ASSUME InFlight(y) PROVE InFlight(y)'
      <4>1. PICK u \in Threads : \/ Naming(u) /\ thread[u].own = y
                                 \/ \E k \in 1..Len(thread[u].stack) : thread[u].stack[k] = y
        BY <3>1 DEF InFlight
      <4>2. CASE u # t
        BY <1>5, <4>1, <4>2 DEF InFlight
      <4>3. CASE u = t
        <5>1. PICK k \in 1..Len(r.stack) : r.stack[k] = y
          BY <1>0, <4>1, <4>3
        <5>2. k # Len(r.stack)
          BY <2>2, <5>1 DEF Top
        <5>3. Len(r.stack) # 1 /\ k \in 1..(Len(r.stack) - 1)
          <6>1. \A m \in Nat : \A i \in 1..m : i # m => m # 1 /\ i \in 1..(m - 1)
            OBVIOUS
          <6>2. Len(r.stack) \in Nat
            BY <1>1
          <6> QED
            BY <5>1, <5>2, <6>1, <6>2, Zenon
        <5>4. Len(r.stack) > 1 /\ q.stack = Tree!Front(r.stack)
          BY <1>3, <5>3
        <5>5. k \in 1..Len(q.stack) /\ q.stack[k] = y
          BY <1>1, <5>1, <5>3, <5>4, FrontIs
        <5> QED
          BY <5>5 DEF InFlight
      <4> QED
        BY <4>2, <4>3
    <3>2. ASSUME GoodParent(nodes, failures, y, nodes[y].parent)
          PROVE  GoodParent(nodes', failures', y, nodes'[y].parent)
      <4>1. nodes'[y].parent = nodes[y].parent
        BY <1>4, <2>0, <2>2 DEF Nodes
      <4> QED
        BY <1>e, <2>0, <3>2, <4>1, GoodParentStays
    <3> QED
      BY <3>1, <3>2 DEF IInv, ParentsInv
  <2> QED
    BY <2>1, <2>2
<1> QED
  BY <1>a, <1>b, <1>c, <1>d, <1>f, <1>g DEF IInv

-----------------------------------------------------------------------------
(* Every reachable state *)

\* At the start the list holds the two predefined loggers and nobody calls.
LEMMA InitIInv ==
  ASSUME Init
  PROVE  IInv
<1> DEFINE a == Node(<<"rootlogger">>, <<"rootlogger">>, 0, 2)
           b == Node(<<"l4sclog">>, <<"l4sclog">>, Root, 0)
<1>1. nodes = <<a, b>> /\ last = 2 /\ failures = 0
  BY DEF Init, Predefined
<1>2. /\ a.asked = <<"rootlogger">> /\ a.name = <<"rootlogger">> /\ a.next = 2
      /\ b.asked = <<"l4sclog">> /\ b.name = <<"l4sclog">> /\ b.next = 0
  BY DEF Node
<1>3. a \in NodeType /\ b \in NodeType
  <2>1. "rootlogger" \in Words /\ "l4sclog" \in Words
    BY DEF Words
  <2>2. <<"rootlogger">> \in Seq(Words) /\ <<"l4sclog">> \in Seq(Words)
    BY <2>1
  <2> QED
    BY <2>2 DEF Node, NodeType, Root
<1> HIDE DEF a, b
<1>4. /\ nodes \in Seq(NodeType) /\ Len(nodes) = 2 /\ nodes[1] = a /\ nodes[2] = b
  BY <1>1, <1>3
<1>5. \A t \in Threads :
        /\ thread[t] \in ThreadType /\ thread[t].pc = "outside" /\ thread[t].stack = << >>
        /\ thread[t].got = 0
  <2>1. << >> \in Seq(Words) /\ 0 \in Nat
    OBVIOUS
  <2> QED
    BY <2>1, OutsideIs DEF Init
<1>6. TypeOK
  <2>1. thread \in [Threads -> ThreadType]
    <3>1. thread = [t \in Threads |-> Outside(<< >>, 0)]
      BY DEF Init
    <3> QED
      BY <1>5, <3>1
  <2> QED
    BY <1>1, <1>4, <2>1 DEF TypeOK
<1>7. OwnInv
  BY <1>5 DEF OwnInv, Naming
<1>8. ListInv
  <2>1. \E rank : Ranked(nodes, rank)
    <3> DEFINE rank == [x \in 1..2 |-> x]
    <3>1. rank \in [1..2 -> 1..2] /\ rank[1] = 1 /\ rank[2] = 2
      OBVIOUS
    <3> HIDE DEF rank
    <3>2. Ranked(nodes, rank)
      BY <1>2, <1>4, <3>1 DEF Ranked
    <3> QED
      BY <3>2
  <2>2. \A x \in Nodes : nodes[x].next \in 0..Len(nodes)
    BY <1>2, <1>4 DEF Nodes
  <2> QED
    BY <1>1, <1>2, <1>4, <1>5, <2>1, <2>2 DEF ListInv, Pending, Root
<1>9. NamesInv
  <2>1. ASSUME NEW n, Len(n) = 1, n # << >>
        PROVE  Tree!Stored(n) = n
    <3>1. 2 * 1 - 1 < NameSize
      BY NameSizeAssumption
    <3>2. Tree!Fits(n)
      BY <2>1, <3>1 DEF Tree!Fits
    <3> QED
      BY <3>2 DEF Tree!Stored
  <2>2. /\ Len(a.asked) = 1 /\ a.asked # << >> /\ a.name = a.asked
        /\ Len(b.asked) = 1 /\ b.asked # << >> /\ b.name = b.asked
    BY <1>2
  <2>3. a.name = Tree!Stored(a.asked) /\ b.name = Tree!Stored(b.asked)
    BY <2>1, <2>2
  <2>4. Nodes = {1, 2}
    BY <1>4 DEF Nodes
  <2> QED
    BY <1>4, <2>2, <2>3, <2>4 DEF NamesInv
<1>10. CallsInv
  <2>1. \A call : StackOK(nodes, << >>, call)
    BY DEF StackOK
  <2> QED
    BY <1>5, <2>1 DEF CallsInv, CallOK
<1>11. ParentsInv
  BY <1>4 DEF ParentsInv
<1> QED
  BY <1>6, <1>7, <1>8, <1>9, <1>10, <1>11 DEF IInv

\* Every step of every thread keeps all of this.
LEMMA NextIInv ==
  ASSUME IInv, [Next]_vars
  PROVE  IInv'
<1>1. CASE UNCHANGED vars
  BY <1>1 DEF vars, IInv, TypeOK, Nodes, OwnInv, Naming, ListInv, Pending, NamesInv, CallsInv,
              ParentsInv, InFlight
<1>2. ASSUME NEW t \in Threads, NEW n \in LoggerNames, Begin(t, n) PROVE IInv'
  BY <1>2, BeginInv
<1>3. ASSUME NEW t \in Threads, ComparePrefix(t) PROVE IInv'
  BY <1>3, PrefixInv
<1>3a. ASSUME NEW t \in Threads, CompareEnd(t) PROVE IInv'
  BY <1>3a, EndInv
<1>4. ASSUME NEW t \in Threads, Advance(t) PROVE IInv'
  BY <1>4, AdvanceInv
<1>5. ASSUME NEW t \in Threads, AllocFails(t) PROVE IInv'
  BY <1>5, AllocFailsInv
<1>6. ASSUME NEW t \in Threads, InitLogger(t) PROVE IInv'
  BY <1>6, InitLoggerInv
<1>7. ASSUME NEW t \in Threads, ReadLast(t) PROVE IInv'
  BY <1>7, ReadLastInv
<1>8. ASSUME NEW t \in Threads, Link(t) PROVE IInv'
  BY <1>8, LinkInv
<1>9. ASSUME NEW t \in Threads, SetLast(t) PROVE IInv'
  BY <1>9, SetLastInv
<1>10. ASSUME NEW t \in Threads, Name(t) PROVE IInv'
  BY <1>10, NameInv
<1>11. ASSUME NEW t \in Threads, Parent(t) PROVE IInv'
  BY <1>11, ParentInv
<1> QED
  BY <1>1, <1>2, <1>3, <1>3a, <1>4, <1>5, <1>6, <1>7, <1>8, <1>9, <1>10, <1>11 DEF Next

\* What is known of the loggers and of the calls holds in every reachable state.
THEOREM IInvCorrect == Spec => []IInv
<1>1. Init => IInv
  BY InitIInv
<1>2. IInv /\ [Next]_vars => IInv'
  BY NextIInv
<1> QED
  BY <1>1, <1>2, PTL DEF Spec

\* The scan of a list that can be numbered upwards comes to an end: its i-th
\* logger has at least the number i.
LEMMA RankedEnds ==
  ASSUME NEW S, NEW ns \in Seq(S), Len(ns) >= 1, NEW rank, Ranked(ns, rank),
         \A x \in 1..Len(ns) : ns[x].next \in 0..Len(ns)
  PROVE  Ends(ns)
<1> DEFINE m == Len(ns)
           chain == Following(ns, Links(ns))
           Rises(i) == chain[i] = 0 \/ (chain[i] \in 1..m /\ rank[chain[i]] >= i)
           Failing == {i \in 1..(m + 1) : ~Rises(i)}
<1>1. m \in Nat /\ m >= 1 /\ \A x \in 1..m : Links(ns)[x] = ns[x].next
  BY LenProperties DEF Links
<1>2. /\ \A x \in 1..m : rank[x] \in 1..m /\ ns[x].next \in 0..m
      /\ \A x \in 1..m : ns[x].next # 0 => rank[x] < rank[ns[x].next]
  BY DEF Ranked
<1>3. ASSUME NEW i \in 1..(m + 1) PROVE chain[i] = Place(Links(ns), chain, i)
  <2> HIDE DEF Place
  <2> QED
    BY <1>1, FollowingIs
<1> HIDE DEF m, chain
<1>4. Rises(1)
  <2>1. chain[1] = Root /\ Root \in 1..m
    BY <1>1, <1>3 DEF Place, Root
  <2>2. rank[Root] \in 1..m
    BY <1>2, <2>1
  <2> QED
    BY <1>1, <2>1, <2>2
<1>5. ASSUME NEW i \in 1..(m + 1), i # 1, Rises(i - 1) PROVE Rises(i)
  <2>1. chain[i] = IF chain[i - 1] = 0 THEN 0 ELSE Links(ns)[chain[i - 1]]
    BY <1>3, <1>5 DEF Place
  <2>2. CASE chain[i - 1] = 0
    BY <2>1, <2>2
  <2>3. CASE chain[i - 1] # 0
    <3> DEFINE x == chain[i - 1]
    <3>1. x \in 1..m /\ rank[x] >= i - 1 /\ chain[i] = ns[x].next
      BY <1>1, <1>5, <2>1, <2>3
    <3> HIDE DEF x
    <3>2. CASE ns[x].next = 0
      BY <3>1, <3>2
    <3>3. CASE ns[x].next # 0
      <4>1. ns[x].next \in 1..m /\ rank[x] \in 1..m /\ rank[x] < rank[ns[x].next]
        BY <1>1, <1>2, <3>1, <3>3
      <4>2. rank[ns[x].next] \in 1..m
        BY <1>2, <4>1
      <4>3. \A j, k \in 1..m : (j >= i - 1 /\ j < k) => k >= i
        BY <1>1
      <4> QED
        BY <3>1, <4>1, <4>2, <4>3
    <3> QED
      BY <3>2, <3>3
  <2> QED
    BY <2>2, <2>3
<1>6. Failing = {}
  <2> SUFFICES ASSUME Failing # {} PROVE FALSE
    OBVIOUS
  <2> HIDE DEF Rises
  <2>1. Failing \subseteq Nat
    BY <1>1
  <2>2. PICK i \in Failing : \A k \in Failing : i <= k
    BY <2>1, Least
  <2>3. i \in 1..(m + 1) /\ ~Rises(i)
    BY <2>2
  <2>4. i # 1
    BY <1>4, <2>3
  <2>5. i - 1 \in 1..(m + 1) /\ ~(i <= i - 1)
    BY <1>1, <2>3, <2>4
  <2>6. Rises(i - 1)
    BY <2>2, <2>5
  <2> QED
    BY <1>5, <2>3, <2>4, <2>6
<1>7. m + 1 \in 1..(m + 1)
  BY <1>1
<1>8. Rises(m + 1)
  <2> HIDE DEF Rises
  <2> QED
    BY <1>6, <1>7
<1>9. chain[m + 1] = 0
  <2> SUFFICES ASSUME chain[m + 1] # 0 PROVE FALSE
    OBVIOUS
  <2>1. rank[chain[m + 1]] \in 1..m /\ rank[chain[m + 1]] >= m + 1
    BY <1>2, <1>8
  <2> QED
    BY <1>1, <2>1
<1> QED
  BY <1>9 DEF Ends, chain, m

\* A logger that answers a call is one of its name, unless "logger" begins with it.
LEMMA GoodIsNamed ==
  ASSUME NEW ns, NEW x, NEW n, Good(ns, x, n), n \notin Beginnings
  PROVE  ns[x].name = Tree!Stored(n)
BY DEF Good

\* What the invariant says of the list, of the answers and of the parents.
LEMMA IInvContains ==
  ASSUME IInv
  PROVE  RacesContained
<1>1. nodes \in Seq(NodeType) /\ Len(nodes) \in Nat /\ Len(nodes) >= 2
  BY LenProperties DEF IInv, TypeOK
<1>2. ScanEnds
  <2>1. PICK rank : Ranked(nodes, rank)
    BY DEF IInv, ListInv
  <2>2. \A x \in 1..Len(nodes) : nodes[x].next \in 0..Len(nodes)
    BY DEF IInv, ListInv, Nodes
  <2>3. Len(nodes) >= 1
    BY <1>1
  <2>4. Ends(nodes)
    BY <1>1, <2>1, <2>2, <2>3, RankedEnds
  <2> QED
    BY <2>4 DEF ScanEnds, IInv, ListInv
<1>3. AnswersNamed
  BY GoodIsNamed DEF AnswersNamed, IInv, CallsInv, CallOK
<1>4. ParentsNamed
  <2> SUFFICES ASSUME \A t \in Threads : ~Inside(t), NEW x \in 3..Len(nodes)
               PROVE  ParentNamed(x)
    BY DEF ParentsNamed
  <2> DEFINE n == nodes[x].asked
             p == nodes[x].parent
  <2>1. ~InFlight(x)
    <3>1. \A t \in Threads : thread[t].pc = "outside" /\ thread[t].stack = << >>
      BY DEF Inside, IInv, CallsInv, CallOK
    <3> QED
      BY <3>1 DEF InFlight, Naming
  <2>2. GoodParent(nodes, failures, x, p)
    BY <2>1 DEF IInv, ParentsInv
  <2>3. CASE Len(n) = 1
    BY <2>2, <2>3 DEF GoodParent, ParentNamed
  <2>4. CASE Len(n) # 1
    <3>1. (p = 0 /\ failures > 0) \/ Good(nodes, p, Tree!Front(n))
      BY <2>2, <2>4 DEF GoodParent
    <3>2. CASE p = 0
      <4>1. ~Good(nodes, p, Tree!Front(n))
        BY <1>1, <3>2 DEF Good
      <4> QED
        BY <2>4, <3>1, <3>2, <4>1 DEF ParentNamed
    <3>3. CASE p # 0
      <4>1. Tree!Front(n) \in Beginnings \/ nodes[p].name = Tree!Stored(Tree!Front(n))
        BY <3>1, <3>3 DEF Good
      <4> QED
        BY <2>4, <3>3, <4>1 DEF ParentNamed
    <3> QED
      BY <3>2, <3>3
  <2> QED
    BY <2>3, <2>4
<1> QED
  BY <1>2, <1>3, <1>4 DEF RacesContained

\* However many threads call l4sc_get_logger, and in whatever order their stores
\* to the unlocked list fall, and whichever allocation fails: a scan of the list
\* ends and meets the predefined loggers first; a call answers with a logger of
\* its name, unless "logger" begins with that; and when all calls have returned
\* every logger has the parent that its name says, any if "logger" begins with
\* the name of that, and none only if an allocation has failed.
THEOREM RacesContainedCorrect == Spec => []RacesContained
<1>1. IInv => RacesContained
  BY IInvContains
<1> QED
  BY <1>1, IInvCorrect, PTL

-----------------------------------------------------------------------------
(* Calls that do not overlap *)

\* No logger was created during another search, and no allocation failed.
Plain == clean /\ failures = 0
Searching(t) == thread[t].pc \in {"compare", "end", "advance", "alloc"}

\* What LoggerTree has for the logger e at the place x of the list.
Entry(e, x) ==
  [(IF x <= 2 THEN Tree!Logger(e.asked, "root", IF x = Root THEN Tree!ERROR_LEVEL ELSE Tree!WARN_LEVEL,
                               FALSE, e.parent)
    ELSE Tree!Logger(e.asked, "logger", Tree!INHERIT_LEVEL, TRUE, e.parent)) EXCEPT !.name = e.name]

\* The list is as it was when the last call returned, and longer if a call is
\* creating loggers.
CalmInv ==
  /\ Len(calm) \in 2..Len(nodes)
  /\ calm = [x \in 1..Len(calm) |-> Entry(nodes[x], x)]
  /\ (\A t \in Threads : ~Creating(t)) => Len(calm) = Len(nodes)
  /\ \A x \in Nodes : nodes[x].parent \in 0..Len(nodes)

AloneInv ==
  \A t, u \in Threads : Creating(t) /\ t # u => ~Inside(u)

\* The first k loggers are the list, one behind the other.
InOrder(ns, k) == \A x \in 1..k : ns[x].next = IF x = k THEN 0 ELSE x + 1

OrderInv ==
  /\ (\A t \in Threads : ~Pending(t)) => InOrder(nodes, Len(nodes))
  /\ (\A t \in Threads : thread[t].pc \notin {"readlast", "link", "setlast"}) => last = Len(nodes)
  /\ \A t \in Threads : Pending(t) =>
       /\ InOrder(nodes, Len(nodes) - 1) /\ nodes[Len(nodes)].next = 0 /\ last = Len(nodes) - 1
       /\ thread[t].pc = "link" => thread[t].seen = Len(nodes) - 1

\* The i-th name that a call for n asks for.
Wanted(n, i) == Tree!Prefix(n, Len(n) - i + 1)
\* No logger in front of x has the name n.
NewAt(ns, x, n) == \A y \in 1..(x - 1) : ns[y].name # n

\* The first k loggers that a call for n has made behind the m that it found.
Made(ns, m, n, k) ==
  \A i \in 1..k : /\ ns[m + i].asked = Wanted(n, i)
                  /\ ns[m + i].name = Tree!Stored(Wanted(n, i))
                  /\ NewAt(ns, m + i, Wanted(n, i))

\* p is the parent of the i-th of the k loggers that a call for n makes.
ParentOf(ns, m, n, k, i, p) ==
  IF i < k THEN p = m + i + 1
  ELSE IF k = Len(n) THEN p = Root
  ELSE p \in 1..Len(ns) /\ ns[p].name = Wanted(n, k + 1) /\ NewAt(ns, p, Wanted(n, k + 1))

\* The loggers that a scan has passed.
Passed(ns, r) ==
  IF r.pc \in {"compare", "end"} THEN r.at ELSE IF r.pc = "advance" THEN r.at + 1 ELSE Len(ns) + 1

\* What the locals r of a thread are, m loggers being in the list before.
Recursion(ns, m, r) ==
  LET n == r.call
      d == Len(r.stack) IN
  /\ \A i \in 1..d : r.stack[i] = m + i
  /\ r.pc \in {"compare", "end", "advance", "alloc"} =>
       /\ Len(ns) = m + d /\ d < Len(n) /\ Made(ns, m, n, d) /\ r.asked = Wanted(n, d + 1)
       /\ NewAt(ns, Passed(ns, r), r.asked)
       /\ r.pc = "end" => BeginsWith(ns[r.at].name, r.asked) \/ ns[r.at].name = Unnamed
  /\ r.pc \in {"readlast", "link", "setlast", "name"} =>
       /\ Len(ns) = m + d + 1 /\ d < Len(n) /\ Made(ns, m, n, d) /\ r.asked = Wanted(n, d + 1)
       /\ r.own = Len(ns) /\ NewAt(ns, Len(ns), r.asked)
  /\ r.pc = "parent" =>
       LET k == Len(ns) - m IN
       /\ d \in 1..k /\ k <= Len(n) /\ Made(ns, m, n, k)
       /\ \A i \in (d + 1)..k : ParentOf(ns, m, n, k, i, ns[m + i].parent)
       /\ ParentOf(ns, m, n, k, d, r.answer)

RecursionInv == \A t \in Threads : Inside(t) => Recursion(nodes, Len(calm), thread[t])

AsOne == CalmInv /\ AloneInv /\ OrderInv /\ RecursionInv
PlainInv == Plain => AsOne

-----------------------------------------------------------------------------
(* What the loggers are that a call has made *)

\* The names that a call for n asks for, each one part shorter.
LEMMA WantedIs ==
  ASSUME NEW n \in Seq(Words), NEW i \in 1..Len(n)
  PROVE  /\ Wanted(n, i) \in Seq(Words) /\ Len(Wanted(n, i)) = Len(n) - i + 1 /\ Wanted(n, i) # << >>
         /\ i = 1 => Wanted(n, i) = n
         /\ i < Len(n) => Tree!Front(Wanted(n, i)) = Wanted(n, i + 1)
<1> DEFINE k == Len(n) - i + 1
           p == SubSeq(n, 1, k)
<1>1. Len(n) \in Nat /\ k \in 1..Len(n) /\ k \in Nat
  BY LenProperties
<1>2. /\ p \in Seq(Words) /\ Len(p) = k /\ \A j \in 1..k : p[j] = n[j]
  BY <1>1, SubSeqProperties
<1>3. Wanted(n, i) = p
  BY DEF Wanted, Tree!Prefix
<1>4. p # << >>
  BY <1>1, <1>2
<1>5. ASSUME i = 1 PROVE p = n
  <2>1. k = Len(n)
    BY <1>1, <1>5
  <2> HIDE DEF p, k
  <2> QED
    BY <1>2, <2>1, SeqEqual
<1>6. ASSUME i < Len(n) PROVE Tree!Front(p) = Wanted(n, i + 1)
  <2> DEFINE q == SubSeq(n, 1, k - 1)
             f == SubSeq(p, 1, k - 1)
  <2>1. k - 1 \in 1..Len(n) /\ k - 1 \in 1..Len(p) /\ k - 1 \in Nat
    BY <1>1, <1>2, <1>6
  <2> HIDE DEF p
  <2>2. q \in Seq(Words) /\ Len(q) = k - 1 /\ \A j \in 1..(k - 1) : q[j] = n[j]
    BY <2>1, SubSeqProperties
  <2>3. f \in Seq(Words) /\ Len(f) = k - 1 /\ \A j \in 1..(k - 1) : f[j] = p[j]
    BY <1>2, <2>1, SubSeqProperties
  <2>4. \A j \in 1..(k - 1) : j \in 1..k
    BY <1>1
  <2>5. Tree!Front(p) = f
    BY <1>2 DEF Tree!Front
  <2>6. Wanted(n, i + 1) = q
    <3>1. Len(n) - (i + 1) + 1 = k - 1
      BY <1>1
    <3> QED
      BY <3>1 DEF Wanted, Tree!Prefix
  <2> HIDE DEF f, q, k
  <2>7. \A j \in 1..Len(f) : f[j] = q[j]
    BY <1>2, <2>2, <2>3, <2>4
  <2>8. f = q
    BY <2>2, <2>3, <2>7, SeqEqual
  <2> QED
    BY <2>5, <2>6, <2>8
<1> QED
  BY <1>1, <1>2, <1>3, <1>4, <1>5, <1>6

\* What is known of the names of loggers stays, while they keep them.
LEMMA NewStays ==
  ASSUME NEW ns, NEW ms, NEW b \in Nat, \A x \in 1..b : ms[x].name = ns[x].name,
         NEW x \in Nat, x <= b + 1, NEW n, NewAt(ns, x, n)
  PROVE  NewAt(ms, x, n)
BY DEF NewAt

\* So does what is known of the loggers that a call has made.
LEMMA MadeStays ==
  ASSUME NEW ns, NEW ms, NEW b \in Nat,
         \A x \in 1..b : ms[x].name = ns[x].name /\ ms[x].asked = ns[x].asked,
         NEW m \in Nat, NEW k \in Nat, m + k <= b, NEW n, Made(ns, m, n, k)
  PROVE  Made(ms, m, n, k)
<1> SUFFICES ASSUME NEW i \in 1..k
             PROVE  /\ ms[m + i].asked = Wanted(n, i)
                    /\ ms[m + i].name = Tree!Stored(Wanted(n, i))
                    /\ NewAt(ms, m + i, Wanted(n, i))
  BY DEF Made
<1>1. m + i \in 1..b /\ m + i \in Nat
  OBVIOUS
<1>2. NewAt(ns, m + i, Wanted(n, i))
  BY DEF Made
<1>3. NewAt(ms, m + i, Wanted(n, i))
  <2> DEFINE z == m + i
             w == Wanted(n, i)
  <2>1. z \in Nat /\ z <= b + 1 /\ NewAt(ns, z, w)
    BY <1>1, <1>2
  <2>2. \A x \in 1..b : ms[x].name = ns[x].name
    OBVIOUS
  <2> HIDE DEF z, w
  <2>3. NewAt(ms, z, w)
    BY <2>1, <2>2, NewStays
  <2> QED
    BY <2>3 DEF z, w
<1> QED
  BY <1>1, <1>3 DEF Made

\* A step of a thread that is alone in its calls.
Lone(t) == \A u \in Threads \ {t} : ~Inside(u)

\* The order of the list, as far as the thread with the locals r has come.
OrderOf(ns, end, r) ==
  /\ r.pc \notin {"readlast", "link"} => InOrder(ns, Len(ns))
  /\ r.pc \notin {"readlast", "link", "setlast"} => end = Len(ns)
  /\ r.pc \in {"readlast", "link"} =>
       /\ InOrder(ns, Len(ns) - 1) /\ ns[Len(ns)].next = 0 /\ end = Len(ns) - 1
       /\ r.pc = "link" => r.seen = Len(ns) - 1

\* A thread that is in no call makes no logger.
LEMMA Outsiders ==
  ASSUME CallsInv, NEW t \in Threads, ~Inside(t)
  PROVE  thread[t].pc = "outside" /\ thread[t].stack = << >> /\ ~Creating(t) /\ ~Pending(t)
<1>1. thread[t].pc = "outside"
  BY DEF Inside
<1>2. thread[t].stack = << >>
  BY <1>1 DEF CallsInv, CallOK
<1> QED
  BY <1>1, <1>2 DEF Creating, Pending

\* What a step of such a thread has to keep of the threads and of the order.
LEMMA LoneStep ==
  ASSUME CallsInv, NEW t \in Threads, Moved(t), Lone(t)
  PROVE  /\ AloneInv'
         /\ (\A u \in Threads : ~Creating(u)') => ~Creating(t)'
         /\ (Inside(t)' => Recursion(nodes', Len(calm'), thread'[t])) => RecursionInv'
         /\ OrderOf(nodes', last', thread'[t]) => OrderInv'
<1>1. ASSUME NEW u \in Threads \ {t}
      PROVE  ~Inside(u)' /\ ~Creating(u)' /\ ~Pending(u)' /\ thread'[u].pc = "outside"
  <2>1. thread'[u] = thread[u]
    BY DEF Moved
  <2>2. ~Inside(u) /\ thread[u].pc = "outside" /\ ~Creating(u) /\ ~Pending(u)
    BY Outsiders DEF Lone
  <2> QED
    BY <2>1, <2>2 DEF Inside, Creating, Pending
<1>2. AloneInv'
  BY <1>1 DEF AloneInv
<1>3. ASSUME Inside(t)' => Recursion(nodes', Len(calm'), thread'[t]) PROVE RecursionInv'
  BY <1>1, <1>3 DEF RecursionInv
<1>4. ASSUME OrderOf(nodes', last', thread'[t]) PROVE OrderInv'
  <2>1. (\A u \in Threads : ~Pending(u)') => ~Pending(t)'
    OBVIOUS
  <2>2. (\A u \in Threads : thread'[u].pc \notin {"readlast", "link", "setlast"}) =>
           thread'[t].pc \notin {"readlast", "link", "setlast"}
    OBVIOUS
  <2>3. ASSUME NEW u \in Threads, Pending(u)' PROVE u = t
    BY <1>1, <2>3
  <2> QED
    BY <1>4, <2>1, <2>2, <2>3 DEF OrderInv, OrderOf, Pending
<1> QED
  BY <1>2, <1>3, <1>4

\* A step that leaves the list alone.
LEMMA SameListStep ==
  ASSUME CallsInv, CalmInv, AloneInv, OrderInv, RecursionInv,
         NEW t \in Threads, Moved(t), SameList, calm' = calm,
         thread[t].pc \notin {"readlast", "link", "setlast"},
         thread'[t].pc \notin {"readlast", "link", "setlast"},
         Creating(t)' <=> Creating(t),
         Inside(t)' => (Inside(t) \/ \A u \in Threads \ {t} : ~Creating(u)),
         Inside(t)' => Recursion(nodes, Len(calm), thread'[t])
  PROVE  CalmInv' /\ AloneInv' /\ OrderInv' /\ RecursionInv'
<1>1. \A u \in Threads \ {t} : thread'[u] = thread[u]
  BY DEF Moved
<1>2. \A u \in Threads : Creating(u)' <=> Creating(u)
  BY <1>1 DEF Creating
<1>3. \A u \in Threads \ {t} : Inside(u)' <=> Inside(u)
  BY <1>1 DEF Inside
<1>4. \A u \in Threads : Pending(u)' <=> Pending(u)
  BY <1>1 DEF Pending
<1>5. CalmInv'
  BY <1>2 DEF CalmInv, SameList, Nodes
<1>6. AloneInv'
  BY <1>2, <1>3 DEF AloneInv
<1>7. OrderInv'
  <2>1. (\A u \in Threads : ~Pending(u)') => InOrder(nodes', Len(nodes'))
    BY <1>4 DEF OrderInv, SameList
  <2>2. (\A u \in Threads : thread'[u].pc \notin {"readlast", "link", "setlast"}) => last' = Len(nodes')
    BY <1>1 DEF OrderInv, SameList
  <2>3. ASSUME NEW u \in Threads, Pending(u)'
        PROVE  /\ InOrder(nodes', Len(nodes') - 1) /\ nodes'[Len(nodes')].next = 0 /\ last' = Len(nodes') - 1
               /\ thread'[u].pc = "link" => thread'[u].seen = Len(nodes') - 1
    <3>1. u # t
      BY <2>3 DEF Pending
    <3> QED
      BY <1>1, <1>4, <2>3, <3>1 DEF OrderInv, SameList
  <2> QED
    BY <2>1, <2>2, <2>3 DEF OrderInv
<1>8. RecursionInv'
  <2>1. ASSUME NEW u \in Threads, Inside(u)' PROVE Recursion(nodes', Len(calm'), thread'[u])
    <3>1. CASE u = t
      BY <2>1, <3>1 DEF SameList
    <3>2. CASE u # t
      BY <1>1, <1>3, <2>1, <3>2 DEF RecursionInv, SameList
    <3> QED
      BY <3>1, <3>2
  <2> QED
    BY <2>1 DEF RecursionInv
<1> QED
  BY <1>5, <1>6, <1>7, <1>8

\* A logger that keeps its names and its parent is the same to LoggerTree.
LEMMA CalmStays ==
  ASSUME CalmInv, calm' = calm, Len(nodes') \in Nat, Len(nodes) <= Len(nodes'),
         NEW t \in Threads, Creating(t)',
         \A x \in 1..Len(calm) : /\ nodes'[x].name = nodes[x].name /\ nodes'[x].asked = nodes[x].asked
                                 /\ nodes'[x].parent = nodes[x].parent,
         \A x \in 1..Len(nodes') : nodes'[x].parent \in 0..Len(nodes')
  PROVE  CalmInv'
<1>1. \A x \in 1..Len(calm) : Entry(nodes'[x], x) = Entry(nodes[x], x)
  BY DEF Entry
<1>2. calm' = [x \in 1..Len(calm') |-> Entry(nodes'[x], x)]
  BY <1>1 DEF CalmInv
<1>3. Len(calm') \in 2..Len(nodes')
  BY DEF CalmInv
<1> QED
  BY <1>2, <1>3 DEF CalmInv, Nodes

-----------------------------------------------------------------------------
(* A list in order *)

-----------------------------------------------------------------------------
(* The list as LoggerTree has it *)

\* A scan of a list in order meets every logger at its place.
LEMMA ScanInOrder ==
  ASSUME NEW ns, Len(ns) \in Nat \ {0}, DOMAIN ns = 1..Len(ns), InOrder(ns, Len(ns))
  PROVE  \A i \in 1..Len(ns) : Following(ns, Links(ns))[i] = i
<1> DEFINE m == Len(ns)
           f == Following(ns, Links(ns))
           Other == {k \in 1..m : f[k] # k}
<1>1. \A i \in 1..m : f[i] = Place(Links(ns), f, i)
  BY FollowingIs
<1>2. \A i \in 1..m : Links(ns)[i] = ns[i].next
  BY DEF Links
<1> SUFFICES ASSUME Other # {} PROVE FALSE
  OBVIOUS
<1>3. PICK k \in Other : \A j \in Other : k <= j
  <2>1. Other \subseteq Nat
    OBVIOUS
  <2> HIDE DEF Other
  <2> QED
    BY <2>1, Least
<1>4. k \in 1..m /\ f[k] # k
  BY <1>3
<1>5. f[k] = Place(Links(ns), f, k)
  BY <1>1, <1>4
<1>6. k # 1
  BY <1>4, <1>5 DEF Place, Root
<1>7. k - 1 \in 1..m /\ k - 1 # m
  BY <1>4, <1>6
<1>8. f[k - 1] = k - 1
  <2>1. k - 1 \notin Other
    <3> HIDE DEF Other
    <3> QED
      BY <1>3, <1>4, <1>7
  <2> QED
    BY <1>7, <2>1
<1>9. Links(ns)[k - 1] = k
  <2> DEFINE j == k - 1
  <2>1. j \in 1..m /\ j # m /\ j + 1 = k
    BY <1>4, <1>7, SMTT(30)
  <2> HIDE DEF j
  <2>2. ns[j].next = j + 1
    BY <2>1, ZenonT(60) DEF InOrder
  <2>3. Links(ns)[j] = ns[j].next
    BY <1>2, <2>1
  <2> QED
    BY <2>1, <2>2, <2>3 DEF j
<1> HIDE DEF f
<1>10. f[k] = k
  BY <1>4, <1>5, <1>6, <1>7, <1>8, <1>9 DEF Place
<1> QED
  BY <1>4, <1>10

\* What such a scan meets are the loggers in their order.
LEMMA ChainInOrder ==
  ASSUME NEW ns, Len(ns) \in Nat \ {0}, DOMAIN ns = 1..Len(ns), InOrder(ns, Len(ns))
  PROVE  Chain(ns) = [i \in 1..Len(ns) |-> i]
<1> DEFINE m == Len(ns)
           f == Following(ns, Links(ns))
           met == {i \in 1..m : f[i] # 0}
<1>1. \A i \in 1..m : f[i] = i
  BY ScanInOrder
<1>2. Chain(ns) = [i \in 1..Cardinality(met) |-> f[i]]
  BY DEF Chain
<1> HIDE DEF f
<1>3. met = 1..m
  BY <1>1
<1>4. Cardinality(1..m) = m
  <2>1. 1 \in Int /\ m \in Int
    OBVIOUS
  <2> HIDE DEF m
  <2>2. Cardinality(1..m) = IF 1 > m THEN 0 ELSE m - 1 + 1
    BY <2>1, FS_Interval
  <2> QED
    BY <2>2 DEF m
<1> HIDE DEF met
<1> QED
  BY <1>1, <1>2, <1>3, <1>4

\* A list in order is its loggers, one after the other.
LEMMA ViewInOrder ==
  ASSUME NEW ns, Len(ns) \in Nat \ {0}, DOMAIN ns = 1..Len(ns), InOrder(ns, Len(ns)),
         \A x \in 1..Len(ns) : ns[x].parent \in 0..Len(ns)
  PROVE  View(ns) = [x \in 1..Len(ns) |-> Entry(ns[x], x)]
<1> DEFINE m == Len(ns)
           chain == Chain(ns)
           place(x) == IF x = 0 THEN 0 ELSE CHOOSE i \in DOMAIN chain : chain[i] = x
           kept(x) == IF x <= 2 THEN Tree!Logger(ns[x].asked, "root", IF x = Root THEN Tree!ERROR_LEVEL ELSE Tree!WARN_LEVEL, FALSE, place(ns[x].parent))
                      ELSE Tree!Logger(ns[x].asked, "logger", Tree!INHERIT_LEVEL, TRUE, place(ns[x].parent))
           logger(x) == [kept(x) EXCEPT !.name = ns[x].name]
<1>1. chain = [i \in 1..m |-> i]
  BY ChainInOrder
<1>2. DOMAIN chain = 1..m /\ \A i \in 1..m : chain[i] = i
  BY <1>1
<1>3. View(ns) = [i \in DOMAIN chain |-> logger(chain[i])]
  BY DEF View
<1> HIDE DEF chain
<1>4. \A x \in 0..m : place(x) = x
  <2> SUFFICES ASSUME NEW x \in 0..m, x # 0 PROVE place(x) = x
    OBVIOUS
  <2>1. x \in DOMAIN chain /\ chain[x] = x
    BY <1>2
  <2>2. \A i \in DOMAIN chain : chain[i] = x => i = x
    BY <1>2
  <2> QED
    BY <2>1, <2>2
<1>5. ASSUME NEW x \in 1..m PROVE logger(x) = Entry(ns[x], x)
  <2>1. place(ns[x].parent) = ns[x].parent
    BY <1>4
  <2> HIDE DEF place
  <2> QED
    BY <2>1 DEF Entry
<1> HIDE DEF logger
<1>6. [i \in DOMAIN chain |-> logger(chain[i])] = [x \in 1..m |-> Entry(ns[x], x)]
  BY <1>2, <1>5
<1> QED
  BY <1>3, <1>6

\* While nobody creates a logger, the list is what it was when the last call
\* returned.
LEMMA ViewIsCalm ==
  ASSUME IInv, AsOne, \A t \in Threads : ~Creating(t)
  PROVE  View(nodes) = calm /\ InOrder(nodes, Len(nodes))
<1>1. Len(nodes) \in Nat \ {0} /\ DOMAIN nodes = 1..Len(nodes)
  BY LenProperties DEF IInv, TypeOK
<1>2. Len(calm) = Len(nodes) /\ calm = [x \in 1..Len(calm) |-> Entry(nodes[x], x)]
  BY DEF AsOne, CalmInv
<1>3. InOrder(nodes, Len(nodes))
  BY DEF AsOne, OrderInv, Pending, Creating
<1>4. \A x \in 1..Len(nodes) : nodes[x].parent \in 0..Len(nodes)
  BY DEF AsOne, CalmInv, Nodes
<1>5. View(nodes) = [x \in 1..Len(nodes) |-> Entry(nodes[x], x)]
  BY <1>1, <1>3, <1>4, ViewInOrder
<1> HIDE DEF Entry
<1> QED
  BY <1>2, <1>3, <1>5

-----------------------------------------------------------------------------
(* Searching *)

-----------------------------------------------------------------------------
(* Steps of a search *)

\* While a thread searches and creates nothing, nobody does.
LEMMA SearchersMeet ==
  ASSUME IInv, AsOne, NEW t \in Threads, Inside(t), ~Creating(t)
  PROVE  \A u \in Threads : ~Creating(u)
BY DEF AsOne, AloneInv

\* Nobody is putting a logger into the list while a thread searches it.
LEMMA SearchInOrder ==
  ASSUME IInv, AsOne, NEW t \in Threads, Searching(t)
  PROVE  InOrder(nodes, Len(nodes))
<1>1. Inside(t) /\ ~Pending(t)
  BY DEF Searching, Inside, Pending
<1>2. ASSUME NEW u \in Threads PROVE ~Pending(u)
  <2>1. Pending(u) => Creating(u)
    BY DEF Pending, Creating
  <2> QED
    BY <1>1, <2>1 DEF AsOne, AloneInv
<1> QED
  BY <1>2 DEF AsOne, OrderInv

\* l4sc_get_logger begins to search; nobody is creating a logger then.
LEMMA BeginAsOne ==
  ASSUME IInv, AsOne, NEW t \in Threads, NEW n \in LoggerNames, Begin(t, n), clean'
  PROVE  AsOne' /\ calm' = calm
<1> DEFINE q == thread'[t]
<1>1. /\ TypeOK /\ CallsInv
  BY DEF IInv
<1>2. /\ SameList /\ Moved(t) /\ thread[t].pc = "outside" /\ n \in Seq(Words) /\ n # << >>
      /\ q.pc = "compare" /\ q.asked = n /\ q.call = n /\ q.at = Root /\ q.stack = << >>
  BY <1>1, BeginIs
<1>3. calm' = calm /\ \A u \in Threads \ {t} : ~Creating(u)
  BY DEF Begin, Others
<1>4. ~Inside(t) /\ ~Creating(t) /\ ~Creating(t)'
  BY <1>1, <1>2, Outsiders DEF Inside, Creating
<1>5. Len(calm) = Len(nodes) /\ Len(calm) \in Nat /\ Len(nodes) \in Nat
  BY <1>3, <1>4 DEF AsOne, CalmInv
<1>6. Wanted(n, 0 + 1) = n /\ 0 < Len(n) /\ Len(q.stack) = 0
  <2>1. Len(n) \in Nat /\ Len(n) # 0
    BY <1>2, LenProperties, EmptySeq
  <2>2. 1 \in 1..Len(n)
    BY <2>1
  <2> QED
    BY <1>2, <2>1, <2>2, WantedIs, EmptySeq
<1> HIDE DEF q
<1>7. Recursion(nodes, Len(calm), q)
  BY <1>2, <1>5, <1>6 DEF Recursion, Made, NewAt, Passed, Root
<1> QED
  BY <1>1, <1>2, <1>3, <1>4, <1>7, SameListStep DEF AsOne, q

\* The search goes on to the next logger, which is the next in the order.
LEMMA AdvanceAsOne ==
  ASSUME IInv, AsOne, NEW t \in Threads, Advance(t)
  PROVE  AsOne' /\ calm' = calm
<1> DEFINE r == thread[t]
           next == nodes[r.at].next
           q == thread'[t]
           n == r.call
           m == Len(calm)
<1>1. TypeOK /\ CallsInv /\ r \in ThreadType /\ r.pc = "advance" /\ calm' = calm
  BY DEF IInv, TypeOK, Advance, At
<1>2. r.at \in 1..Len(nodes) /\ next \in Nat
  BY <1>1, SMTT(30) DEF IInv, ListInv, Nodes
<1>3. /\ SameList /\ Moved(t)
      /\ q = [r EXCEPT !.at = next, !.pc = IF next # 0 THEN "compare" ELSE "alloc"]
  BY <1>1, <1>2, AdvanceIs
<1>4. next = IF r.at = Len(nodes) THEN 0 ELSE r.at + 1
  <2>1. InOrder(nodes, Len(nodes))
    BY <1>1, SearchInOrder DEF Searching
  <2> QED
    BY <1>2, <2>1 DEF InOrder
<1>5. /\ q.stack = r.stack /\ q.call = n /\ q.asked = r.asked /\ q.at = next
      /\ q.pc = IF next # 0 THEN "compare" ELSE "alloc"
  BY <1>1, <1>3 DEF ThreadType
<1>6. Recursion(nodes, m, r)
  BY <1>1 DEF AsOne, RecursionInv, Inside
<1>7. Creating(t)' <=> Creating(t)
  BY <1>1, <1>5 DEF Creating
<1> HIDE DEF next
<1>8. Passed(nodes, q) = Passed(nodes, r)
  BY <1>1, <1>2, <1>4, <1>5 DEF Passed
<1> HIDE DEF q, r, m, n
<1>9. Recursion(nodes, m, q)
  BY <1>1, <1>5, <1>6, <1>8 DEF Recursion, n
<1>10. Inside(t) /\ thread[t].pc = "advance" /\ thread'[t].pc \in {"compare", "alloc"}
  BY <1>1, <1>5 DEF Inside, q, r
<1> QED
  BY <1>1, <1>3, <1>7, <1>9, <1>10, SameListStep DEF AsOne, q, m

\* The beginning of a name is compared; nobody changes it before its end is.
LEMMA PrefixAsOne ==
  ASSUME IInv, AsOne, NEW t \in Threads, ComparePrefix(t)
  PROVE  AsOne' /\ calm' = calm
<1> DEFINE r == thread[t]
           q == thread'[t]
           n == r.call
           m == Len(calm)
<1>1. TypeOK /\ CallsInv /\ r \in ThreadType /\ r.pc = "compare" /\ calm' = calm
  BY DEF IInv, TypeOK, ComparePrefix, At
<1>2. r.at \in 1..Len(nodes)
  BY <1>1, SMTT(30) DEF IInv, ListInv, Nodes
<1>3. /\ SameList /\ Moved(t)
      /\ q = [r EXCEPT !.pc = IF Begins(t) THEN "end" ELSE "advance"]
  BY <1>1, PrefixIs
<1>4. /\ q.stack = r.stack /\ q.call = n /\ q.asked = r.asked /\ q.at = r.at
      /\ q.pc = IF Begins(t) THEN "end" ELSE "advance"
  BY <1>1, <1>3 DEF ThreadType
<1>5. Recursion(nodes, m, r)
  BY <1>1 DEF AsOne, RecursionInv, Inside
<1>6. NewAt(nodes, r.at, r.asked)
  BY <1>1, <1>5 DEF Recursion, Passed
<1>7. Creating(t)' <=> Creating(t)
  BY <1>1, <1>4 DEF Creating
<1>8. q.pc = "end" => BeginsWith(nodes[r.at].name, r.asked) \/ nodes[r.at].name = Unnamed
  BY <1>4 DEF Begins
<1>9. NewAt(nodes, Passed(nodes, q), r.asked)
  <2>1. CASE Begins(t)
    BY <1>4, <1>6, <2>1 DEF Passed
  <2>2. CASE ~Begins(t)
    <3>1. r.asked \in Seq(Words)
      BY <1>1 DEF ThreadType
    <3>2. nodes[r.at].name # r.asked
      <4> SUFFICES ASSUME nodes[r.at].name = r.asked PROVE FALSE
        OBVIOUS
      <4>1. Len(r.asked) <= Len(r.asked) /\ r.asked = SubSeq(r.asked, 1, Len(r.asked))
        BY <3>1, LenProperties, SubSeqFull
      <4> QED
        BY <2>2, <4>1 DEF Begins, BeginsWith
    <3> QED
      BY <1>2, <1>4, <1>6, <2>2, <3>2 DEF Passed, NewAt
  <2> QED
    BY <2>1, <2>2
<1> HIDE DEF q, r, m, n
<1>10. Recursion(nodes, m, q)
  BY <1>1, <1>4, <1>5, <1>8, <1>9 DEF Recursion, n
<1>11. Inside(t) /\ thread[t].pc = "compare" /\ thread'[t].pc \in {"end", "advance"}
  BY <1>1, <1>4 DEF Inside, q, r
<1> QED
  BY <1>1, <1>3, <1>7, <1>10, <1>11, SameListStep DEF AsOne, q, m

\* The search has found its name, or has passed one logger more.
LEMMA EndAsOne ==
  ASSUME IInv, AsOne, NEW t \in Threads, CompareEnd(t)
  PROVE  AsOne' /\ calm' = calm
<1> DEFINE r == thread[t]
           q == thread'[t]
           n == r.call
           m == Len(calm)
           d == Len(r.stack)
<1>1. TypeOK /\ CallsInv /\ r \in ThreadType /\ r.pc = "end"
  BY DEF IInv, TypeOK, CompareEnd, At
<1>2. r.at \in 1..Len(nodes)
  BY <1>1 DEF IInv, ListInv, Nodes
<1>3. /\ SameList
      /\ \/ (Found(t) \/ Changed(t)) /\ Answer(t, r.at) /\ Gives(t, r.at)
         \/ ~Found(t) /\ calm' = calm /\ Moved(t) /\ q = [r EXCEPT !.pc = "advance"]
  BY <1>1, EndIs
<1>4. Recursion(nodes, m, r) /\ Inside(t)
  BY <1>1 DEF AsOne, RecursionInv, Inside
<1>5. /\ \A i \in 1..d : r.stack[i] = m + i
      /\ Len(nodes) = m + d /\ d < Len(n) /\ Made(nodes, m, n, d) /\ r.asked = Wanted(n, d + 1)
      /\ NewAt(nodes, r.at, r.asked)
      /\ BeginsWith(nodes[r.at].name, r.asked) \/ nodes[r.at].name = Unnamed
  BY <1>1, <1>4 DEF Recursion, Passed
<1>6. d \in Nat /\ m \in Nat /\ Len(n) \in Nat /\ (d = 0 <=> r.stack = << >>)
  <2>1. r.stack \in Seq(Nat) /\ n \in Seq(Words)
    BY <1>1 DEF ThreadType
  <2>2. m \in Nat
    BY DEF AsOne, CalmInv
  <2> QED
    BY <2>1, <2>2, LenProperties, EmptySeq
<1>0. ~Changed(t)
  BY <1>5 DEF Changed
<1>7. CASE ~Found(t) /\ calm' = calm /\ Moved(t) /\ q = [r EXCEPT !.pc = "advance"]
  <2>1. Moved(t) /\ q = [r EXCEPT !.pc = "advance"] /\ calm' = calm
    BY <1>7
  <2>2. /\ q.stack = r.stack /\ q.call = n /\ q.asked = r.asked /\ q.at = r.at /\ q.pc = "advance"
    BY <1>1, <2>1 DEF ThreadType
  <2>3. NewAt(nodes, r.at + 1, r.asked)
    BY <1>2, <1>5, <1>7 DEF NewAt, Found
  <2>4. Creating(t)' <=> Creating(t)
    BY <1>1, <2>2 DEF Creating
  <2> HIDE DEF q, r, m, n, d
  <2>5. Recursion(nodes, m, q)
    BY <1>5, <2>2, <2>3 DEF Recursion, Passed, n, d
  <2>6. thread[t].pc = "end" /\ thread'[t].pc = "advance"
    BY <1>1, <2>2 DEF q, r
  <2> QED
    BY <1>1, <1>3, <1>4, <2>1, <2>4, <2>5, <2>6, SameListStep DEF AsOne, q, m
<1>8. CASE Found(t) /\ Answer(t, r.at) /\ r.stack # << >>
  <2>1. Answer(t, r.at) /\ calm' = calm
    BY <1>8 DEF Answer
  <2>2. Gives(t, r.at)
    BY <1>1, <1>2, <2>1, AnswerGives
  <2>3. q.pc = "parent" /\ calm' = calm
    BY <1>8, <2>1, <2>2 DEF Gives
  <2>4. /\ Moved(t) /\ q.stack = r.stack /\ q.call = n /\ q.answer = r.at
    BY <1>8, <2>2 DEF Gives
  <2>5. Creating(t)' /\ Creating(t)
    BY <1>8, <2>3 DEF Creating
  <2> HIDE DEF q, r, m, n, d
  <2>6. ParentOf(nodes, m, n, d, d, r.at)
    <3>1. nodes[r.at].name = Wanted(n, d + 1)
      BY <1>5, <1>8 DEF Found, r
    <3>2. d # Len(n)
      BY <1>5, <1>6
    <3>3. ~(d < d)
      BY <1>6
    <3> QED
      BY <1>2, <1>5, <3>1, <3>2, <3>3 DEF ParentOf
  <2>7. Len(nodes) - m = d /\ d \in 1..d /\ d <= Len(n) /\ (d + 1)..d = {}
    BY <1>5, <1>6, <1>8
  <2>8. Recursion(nodes, m, q)
    BY <1>5, <2>3, <2>4, <2>6, <2>7 DEF Recursion, n, d
  <2>9. thread[t].pc = "end" /\ thread'[t].pc = "parent"
    BY <1>1, <2>3 DEF q, r
  <2> QED
    BY <1>1, <1>3, <1>4, <2>3, <2>4, <2>5, <2>8, <2>9, SameListStep DEF AsOne, q, m
<1>9. CASE Found(t) /\ Answer(t, r.at) /\ r.stack = << >>
  <2>1. ~Creating(t)
    BY <1>1, <1>9 DEF Creating
  <2>2. \A u \in Threads : ~Creating(u)
    BY <1>4, <2>1, SearchersMeet
  <2>3. Return(t, r.at)
    BY <1>9 DEF Answer
  <2>4. calm' = calm
    <3>1. nodes' = nodes
      BY <1>3 DEF SameList
    <3>2. View(nodes) = calm
      BY <2>2, ViewIsCalm
    <3>3. View(nodes') = View(nodes)
      BY <3>1
    <3> QED
      BY <2>3, <3>2, <3>3 DEF Return
  <2>5. Moved(t) /\ q.pc = "outside" /\ q.stack = << >>
    BY <1>1, <1>2, <1>9, <2>3, ReturnGives DEF Gives
  <2>6. ~Inside(t)' /\ ~Creating(t)'
    BY <2>5 DEF Inside, Creating
  <2> HIDE DEF q, r, m, n, d
  <2>7. thread[t].pc = "end" /\ thread'[t].pc = "outside"
    BY <1>1, <2>5 DEF q, r
  <2> QED
    BY <1>1, <1>3, <2>1, <2>4, <2>5, <2>6, <2>7, SameListStep DEF AsOne
<1> QED
  BY <1>0, <1>3, <1>7, <1>8, <1>9

-----------------------------------------------------------------------------
(* Creating *)

-----------------------------------------------------------------------------
(* Steps of a creation *)

\* What is known of the thread that takes a step of a call.
LEMMA RecursionTypes ==
  ASSUME IInv, AsOne, NEW t \in Threads, Inside(t)
  PROVE  /\ TypeOK /\ CallsInv /\ OwnInv /\ thread[t] \in ThreadType
         /\ Recursion(nodes, Len(calm), thread[t])
         /\ Len(calm) \in 2..Len(nodes) /\ Len(nodes) \in Nat /\ Len(calm) \in Nat
         /\ Len(thread[t].stack) \in Nat /\ Len(thread[t].call) \in Nat
         /\ thread[t].call \in Seq(Words) /\ thread[t].stack \in Seq(Nat)
         /\ \A x \in 1..Len(nodes) : nodes[x] \in NodeType /\ nodes[x].parent \in 0..Len(nodes)
         /\ nodes \in Seq(NodeType)
<1>1. TypeOK /\ CallsInv /\ OwnInv
  BY DEF IInv
<1>2. thread[t] \in ThreadType /\ nodes \in Seq(NodeType)
  BY <1>1 DEF TypeOK
<1>3. thread[t].call \in Seq(Words) /\ thread[t].stack \in Seq(Nat)
  BY <1>2 DEF ThreadType
<1>4. Len(nodes) \in Nat /\ \A x \in 1..Len(nodes) : nodes[x] \in NodeType
  BY <1>2, LenProperties, ElementOfSeq
<1>5. Len(calm) \in 2..Len(nodes) /\ \A x \in 1..Len(nodes) : nodes[x].parent \in 0..Len(nodes)
  BY DEF AsOne, CalmInv, Nodes
<1>6. Recursion(nodes, Len(calm), thread[t])
  BY DEF AsOne, RecursionInv
<1>7. Len(thread[t].stack) \in Nat /\ Len(thread[t].call) \in Nat
  BY <1>3, LenProperties
<1> QED
  BY <1>1, <1>2, <1>3, <1>4, <1>5, <1>6, <1>7

\* A thread that creates loggers is alone, and its list in order.
LEMMA CreatesAlone ==
  ASSUME IInv, AsOne, NEW t \in Threads, Creating(t)
  PROVE  Lone(t) /\ OrderOf(nodes, last, thread[t])
<1>1. Lone(t)
  BY DEF AsOne, AloneInv, Lone
<1>2. \A u \in Threads \ {t} : ~Pending(u) /\ thread[u].pc = "outside"
  BY <1>1, Outsiders DEF IInv, Lone
<1>3. ~Pending(t) => InOrder(nodes, Len(nodes))
  BY <1>2 DEF AsOne, OrderInv
<1>4. thread[t].pc \notin {"readlast", "link", "setlast"} => last = Len(nodes)
  BY <1>2 DEF AsOne, OrderInv
<1> QED
  BY <1>1, <1>3, <1>4 DEF AsOne, OrderInv, OrderOf, Pending

\* What a step of a lone thread has to keep.
LEMMA CreatesAsOne ==
  ASSUME IInv, AsOne, NEW t \in Threads, Moved(t), Lone(t), Creating(t)', calm' = calm,
         Len(nodes') \in Nat, Len(nodes) <= Len(nodes'),
         \A x \in 1..Len(calm) : /\ nodes'[x].name = nodes[x].name /\ nodes'[x].asked = nodes[x].asked
                                 /\ nodes'[x].parent = nodes[x].parent,
         \A x \in 1..Len(nodes') : nodes'[x].parent \in 0..Len(nodes'),
         OrderOf(nodes', last', thread'[t]), Recursion(nodes', Len(calm), thread'[t])
  PROVE  AsOne'
<1>1. AloneInv' /\ RecursionInv' /\ OrderInv'
  BY LoneStep DEF IInv
<1>2. CalmInv'
  BY CalmStays DEF AsOne
<1> QED
  BY <1>1, <1>2 DEF AsOne

\* init_logger makes a logger whose name no other logger has.
LEMMA InitLoggerAsOne ==
  ASSUME IInv, AsOne, NEW t \in Threads, InitLogger(t), clean'
  PROVE  AsOne' /\ calm' = calm
<1> DEFINE r == thread[t]
           q == thread'[t]
           n == r.call
           m == Len(calm)
           d == Len(r.stack)
           new == Len(nodes) + 1
<1>1. r.pc = "alloc" /\ Inside(t) /\ Searching(t) /\ calm' = calm /\ Lone(t)
  BY DEF InitLogger, At, Inside, Searching, Lone, Others
<1>2. /\ TypeOK /\ CallsInv /\ r \in ThreadType /\ Recursion(nodes, m, r)
      /\ Len(nodes) \in Nat /\ m \in 2..Len(nodes) /\ d \in Nat
      /\ \A x \in 1..Len(nodes) : nodes[x].parent \in 0..Len(nodes)
  BY <1>1, RecursionTypes
<1>3. /\ last' = last /\ Moved(t) /\ Len(nodes') = new
      /\ \A x \in 1..Len(nodes) : nodes'[x] = nodes[x]
      /\ nodes'[new] = Node(r.asked, Unnamed, 0, 0)
      /\ q = [r EXCEPT !.own = new, !.pc = "readlast"]
  BY <1>2, InitLoggerIs DEF Nodes
<1>4. /\ q.stack = r.stack /\ q.call = n /\ q.asked = r.asked /\ q.own = new /\ q.pc = "readlast"
  BY <1>2, <1>3 DEF ThreadType
<1>5. nodes'[new].parent = 0 /\ nodes'[new].next = 0
  BY <1>3 DEF Node
<1>6. InOrder(nodes, Len(nodes)) /\ last = Len(nodes)
  <2>1. \A u \in Threads : thread[u].pc \notin {"readlast", "link", "setlast"}
    <3>1. \A u \in Threads \ {t} : thread[u].pc = "outside"
      BY <1>1 DEF Lone, Inside
    <3> QED
      BY <1>1, <3>1
  <2> QED
    BY <1>1, <2>1, SearchInOrder DEF AsOne, OrderInv
<1>7. OrderOf(nodes', last', q)
  <2>1. Len(nodes') - 1 = Len(nodes)
    BY <1>2, <1>3
  <2>2. InOrder(nodes', Len(nodes))
    BY <1>3, <1>6 DEF InOrder
  <2> HIDE DEF q, r
  <2> QED
    BY <1>3, <1>4, <1>5, <1>6, <2>1, <2>2 DEF OrderOf
<1>8. Recursion(nodes', m, q)
  <2>1. /\ \A i \in 1..d : r.stack[i] = m + i
        /\ Len(nodes) = m + d /\ d < Len(n) /\ Made(nodes, m, n, d) /\ r.asked = Wanted(n, d + 1)
        /\ NewAt(nodes, new, r.asked)
    BY <1>1, <1>2 DEF Recursion, Passed
  <2> HIDE DEF q, r, n, m, d
  <2>2. Made(nodes', m, n, d) /\ NewAt(nodes', new, r.asked)
    <3> DEFINE ns == nodes
               ms == nodes'
               b == Len(nodes)
               w == r.asked
    <3>1. /\ \A x \in 1..b : ms[x].name = ns[x].name /\ ms[x].asked = ns[x].asked
          /\ b \in Nat /\ m \in Nat /\ d \in Nat /\ m + d <= b /\ new \in Nat /\ new <= b + 1
          /\ Made(ns, m, n, d) /\ NewAt(ns, new, w)
      BY <1>2, <1>3, <2>1
    <3> HIDE DEF ns, ms, b, w, new
    <3>2. Made(ms, m, n, d)
      BY <3>1, MadeStays
    <3>3. NewAt(ms, new, w)
      BY <3>1, NewStays
    <3> QED
      BY <3>2, <3>3 DEF ms, w
  <2>3. Len(nodes') = m + d + 1
    BY <1>2, <1>3, <2>1
  <2> QED
    BY <1>3, <1>4, <2>1, <2>2, <2>3 DEF Recursion, n, d
<1>9. Creating(t)'
  BY <1>4 DEF Creating
<1>10. \A x \in 1..Len(nodes') : nodes'[x].parent \in 0..Len(nodes')
  <2> SUFFICES ASSUME NEW x \in 1..Len(nodes') PROVE nodes'[x].parent \in 0..Len(nodes')
    OBVIOUS
  <2> HIDE DEF q, r, n, m, d
  <2>1. CASE x = new
    BY <1>2, <1>3, <1>5, <2>1
  <2>2. CASE x # new
    <3>1. x \in 1..Len(nodes)
      BY <1>2, <1>3, <2>2
    <3>2. nodes'[x].parent \in 0..Len(nodes)
      BY <1>2, <1>3, <3>1
    <3> QED
      BY <1>2, <1>3, <3>2
  <2> QED
    BY <2>1, <2>2
<1>11. \A x \in 1..m : nodes'[x] = nodes[x]
  BY <1>2, <1>3
<1>12. Len(nodes') \in Nat /\ Len(nodes) <= Len(nodes')
  BY <1>2, <1>3
<1> QED
  <2> HIDE DEF r, n, d, new
  <2> QED
    BY <1>1, <1>3, <1>7, <1>8, <1>9, <1>10, <1>11, <1>12, CreatesAsOne DEF q, m

\* The end of the list is read, the logger before the new one.
LEMMA ReadLastAsOne ==
  ASSUME IInv, AsOne, NEW t \in Threads, ReadLast(t)
  PROVE  AsOne' /\ calm' = calm
<1> DEFINE r == thread[t]
           q == thread'[t]
           m == Len(calm)
<1>1. r.pc = "readlast" /\ Inside(t) /\ Creating(t) /\ calm' = calm
  BY DEF ReadLast, At, Inside, Creating
<1>2. /\ TypeOK /\ r \in ThreadType /\ Recursion(nodes, m, r) /\ Len(nodes) \in Nat /\ m \in 2..Len(nodes)
      /\ \A x \in 1..Len(nodes) : nodes[x].parent \in 0..Len(nodes)
  BY <1>1, RecursionTypes
<1>3. SameList /\ Moved(t) /\ q = [r EXCEPT !.seen = last, !.pc = "link"]
  BY <1>2, ReadLastIs
<1>4. /\ q.stack = r.stack /\ q.call = r.call /\ q.asked = r.asked /\ q.own = r.own
      /\ q.pc = "link" /\ q.seen = last
  BY <1>2, <1>3 DEF ThreadType
<1>5. Lone(t) /\ OrderOf(nodes, last, r)
  BY <1>1, CreatesAlone
<1>6. Creating(t)'
  BY <1>4 DEF Creating
<1> HIDE DEF r, q, m
<1>7. OrderOf(nodes', last', q)
  BY <1>1, <1>3, <1>4, <1>5 DEF OrderOf, SameList, r
<1>8. Recursion(nodes', m, q)
  BY <1>1, <1>2, <1>3, <1>4 DEF Recursion, SameList
<1> QED
  BY <1>1, <1>2, <1>3, <1>5, <1>6, <1>7, <1>8, CreatesAsOne DEF SameList, q, m

\* The new logger has become the end of the list.
LEMMA SetLastAsOne ==
  ASSUME IInv, AsOne, NEW t \in Threads, SetLast(t)
  PROVE  AsOne' /\ calm' = calm
<1> DEFINE r == thread[t]
           q == thread'[t]
           m == Len(calm)
<1>1. r.pc = "setlast" /\ Inside(t) /\ Creating(t) /\ calm' = calm
  BY DEF SetLast, At, Inside, Creating
<1>2. /\ TypeOK /\ r \in ThreadType /\ Recursion(nodes, m, r) /\ Len(nodes) \in Nat /\ m \in 2..Len(nodes)
      /\ \A x \in 1..Len(nodes) : nodes[x].parent \in 0..Len(nodes)
  BY <1>1, RecursionTypes
<1>3. nodes' = nodes /\ last' = r.own /\ Moved(t) /\ q = [r EXCEPT !.pc = "name"]
  BY <1>2, SetLastIs
<1>4. /\ q.stack = r.stack /\ q.call = r.call /\ q.asked = r.asked /\ q.own = r.own
      /\ q.pc = "name"
  BY <1>2, <1>3 DEF ThreadType
<1>5. Lone(t) /\ OrderOf(nodes, last, r)
  BY <1>1, CreatesAlone
<1>6. Creating(t)'
  BY <1>4 DEF Creating
<1>7. r.own = Len(nodes)
  BY <1>1, <1>2 DEF Recursion
<1> HIDE DEF r, q, m
<1>8. OrderOf(nodes', last', q)
  BY <1>1, <1>3, <1>4, <1>5, <1>7 DEF OrderOf, r
<1>9. Recursion(nodes', m, q)
  BY <1>1, <1>2, <1>3, <1>4 DEF Recursion
<1> QED
  BY <1>1, <1>2, <1>3, <1>5, <1>6, <1>8, <1>9, CreatesAsOne DEF q, m

\* The new logger has become the successor of the one before it.
LEMMA LinkAsOne ==
  ASSUME IInv, AsOne, NEW t \in Threads, Link(t)
  PROVE  AsOne' /\ calm' = calm
<1> DEFINE r == thread[t]
           q == thread'[t]
           n == r.call
           m == Len(calm)
           d == Len(r.stack)
           len == Len(nodes)
<1>1. r.pc = "link" /\ Inside(t) /\ Creating(t) /\ calm' = calm
  BY DEF Link, At, Inside, Creating
<1>2. /\ TypeOK /\ r \in ThreadType /\ Recursion(nodes, m, r) /\ len \in Nat /\ m \in 2..len /\ d \in Nat
      /\ \A x \in 1..len : nodes[x] \in NodeType /\ nodes[x].parent \in 0..len
  BY <1>1, RecursionTypes
<1>3. Lone(t) /\ OrderOf(nodes, last, r)
  BY <1>1, CreatesAlone
<1>4. /\ \A i \in 1..d : r.stack[i] = m + i
      /\ len = m + d + 1 /\ d < Len(n) /\ Made(nodes, m, n, d) /\ r.asked = Wanted(n, d + 1)
      /\ r.own = len /\ NewAt(nodes, len, r.asked)
  BY <1>1, <1>2 DEF Recursion
<1>5. /\ InOrder(nodes, len - 1) /\ nodes[len].next = 0 /\ last = len - 1 /\ r.seen = len - 1
  BY <1>1, <1>3 DEF OrderOf
<1>6. r.seen \in Nodes /\ len - 1 \in 1..len /\ len - 1 # len /\ len \in 1..len
  <2>1. len \in Nat /\ len >= 2
    BY <1>2
  <2>2. Nodes = 1..len /\ r.seen = len - 1
    BY <1>5 DEF Nodes
  <2> HIDE DEF len, r
  <2> QED
    BY <2>1, <2>2
<1>7. /\ last' = last /\ Moved(t) /\ Len(nodes') = len
      /\ nodes'[len - 1] = [nodes[len - 1] EXCEPT !.next = len]
      /\ \A y \in 1..len : y # len - 1 => nodes'[y] = nodes[y]
      /\ q = [r EXCEPT !.pc = "setlast"]
  BY <1>2, <1>4, <1>5, <1>6, LinkIs DEF Nodes
<1>8. /\ q.stack = r.stack /\ q.call = n /\ q.asked = r.asked /\ q.own = r.own /\ q.pc = "setlast"
  BY <1>2, <1>7 DEF ThreadType
<1>9. /\ \A x \in 1..len : /\ nodes'[x].name = nodes[x].name /\ nodes'[x].asked = nodes[x].asked
                           /\ nodes'[x].parent = nodes[x].parent
      /\ nodes'[len - 1].next = len
  BY <1>2, <1>6, <1>7, ZenonT(60) DEF NodeType
<1>10. Creating(t)'
  BY <1>8 DEF Creating
<1>11. OrderOf(nodes', last', q)
  <2> HIDE DEF q, r, n, m, d, len
  <2>1. ASSUME NEW x \in 1..len PROVE nodes'[x].next = IF x = len THEN 0 ELSE x + 1
    <3>1. CASE x = len
      BY <1>5, <1>6, <1>7, <3>1
    <3>2. CASE x = len - 1
      BY <1>2, <1>6, <1>9, <3>2
    <3>3. CASE x # len /\ x # len - 1
      <4>1. x \in 1..(len - 1)
        BY <1>2, <3>3
      <4> QED
        BY <1>5, <1>7, <3>3, <4>1 DEF InOrder
    <3> QED
      BY <3>1, <3>2, <3>3
  <2>2. InOrder(nodes', Len(nodes'))
    BY <1>7, <2>1 DEF InOrder
  <2> QED
    BY <1>8, <2>2 DEF OrderOf
<1>12. Recursion(nodes', m, q)
  <2> HIDE DEF q, r, n, m, d, len
  <2>1. Made(nodes', m, n, d) /\ NewAt(nodes', len, r.asked)
    <3> DEFINE ns == nodes
               ms == nodes'
               w == r.asked
    <3>1. /\ \A x \in 1..len : ms[x].name = ns[x].name /\ ms[x].asked = ns[x].asked
          /\ len \in Nat /\ m \in Nat /\ d \in Nat /\ m + d <= len /\ len <= len + 1
          /\ Made(ns, m, n, d) /\ NewAt(ns, len, w)
      BY <1>2, <1>4, <1>9
    <3> HIDE DEF ns, ms, w
    <3>2. Made(ms, m, n, d)
      BY <3>1, MadeStays
    <3>3. NewAt(ms, len, w)
      BY <3>1, NewStays
    <3> QED
      BY <3>2, <3>3 DEF ms, w
  <2> QED
    BY <1>4, <1>7, <1>8, <2>1 DEF Recursion, n, d
<1> HIDE DEF r, n, d
<1>13. \A x \in 1..m : /\ nodes'[x].name = nodes[x].name /\ nodes'[x].asked = nodes[x].asked
                       /\ nodes'[x].parent = nodes[x].parent
  BY <1>2, <1>9
<1>14. \A x \in 1..Len(nodes') : nodes'[x].parent \in 0..Len(nodes')
  BY <1>2, <1>7, <1>9
<1> QED
  BY <1>1, <1>2, <1>3, <1>7, <1>10, <1>11, <1>12, <1>13, <1>14, CreatesAsOne DEF q, m, len

\* The new logger has its name, and its parent is asked for.
LEMMA NameAsOne ==
  ASSUME IInv, AsOne, NEW t \in Threads, Name(t)
  PROVE  AsOne' /\ calm' = calm
<1> DEFINE r == thread[t]
           q == thread'[t]
           n == r.call
           m == Len(calm)
           d == Len(r.stack)
           len == Len(nodes)
           w == r.asked
<1>1. r.pc = "name" /\ Inside(t) /\ Creating(t) /\ Naming(t) /\ calm' = calm
  BY DEF Name, At, Inside, Creating, Naming
<1>2. /\ TypeOK /\ OwnInv /\ r \in ThreadType /\ Recursion(nodes, m, r) /\ len \in Nat /\ m \in 2..len
      /\ d \in Nat /\ Len(n) \in Nat /\ n \in Seq(Words) /\ r.stack \in Seq(Nat)
      /\ \A x \in 1..len : nodes[x] \in NodeType /\ nodes[x].parent \in 0..len
  BY <1>1, RecursionTypes
<1>3. Lone(t) /\ OrderOf(nodes, last, r)
  BY <1>1, CreatesAlone
<1>4. /\ \A i \in 1..d : r.stack[i] = m + i
      /\ len = m + d + 1 /\ d < Len(n) /\ Made(nodes, m, n, d) /\ w = Wanted(n, d + 1)
      /\ r.own = len /\ NewAt(nodes, len, w)
  BY <1>1, <1>2 DEF Recursion
<1>5. InOrder(nodes, len) /\ last = len
  BY <1>1, <1>3 DEF OrderOf
<1>6. nodes[len].asked = w
  BY <1>1, <1>2, <1>4 DEF OwnInv
<1>7. /\ w \in Seq(Words) /\ Len(w) = Len(n) - d /\ w # << >>
      /\ d + 1 < Len(n) => Tree!Front(w) = Wanted(n, d + 2)
  <2> DEFINE i == d + 1
  <2>1. i \in 1..Len(n) /\ Len(n) - i + 1 = Len(n) - d /\ i + 1 = d + 2 /\ w = Wanted(n, i)
    BY <1>2, <1>4, SMTT(30)
  <2> HIDE DEF i, w, n, d
  <2>2. /\ Wanted(n, i) \in Seq(Words) /\ Len(Wanted(n, i)) = Len(n) - i + 1 /\ Wanted(n, i) # << >>
        /\ i < Len(n) => Tree!Front(Wanted(n, i)) = Wanted(n, i + 1)
    BY <1>2, <2>1, WantedIs
  <2> QED
    BY <2>1, <2>2 DEF i
<1>8. r.own \in Nodes /\ len \in 1..len
  BY <1>2, <1>4 DEF Nodes
<1>9. /\ last' = last /\ Moved(t) /\ Len(nodes') = len
      /\ nodes'[len] = [nodes[len] EXCEPT !.name = Tree!Stored(w)]
      /\ \A y \in 1..len : y # len => nodes'[y] = nodes[y]
      /\ q.call = n /\ q.stack = Append(r.stack, len)
      /\ IF Len(w) = 1 THEN q.pc = "parent" /\ q.answer = Root
         ELSE q.pc = "compare" /\ q.at = Root /\ Len(w) > 1 /\ q.asked = Tree!Front(w)
  <2>1. r.own \in Nodes /\ r.asked # << >>
    BY <1>7, <1>8
  <2>2. /\ last' = last /\ Moved(t) /\ Len(nodes') = Len(nodes)
        /\ nodes'[r.own] = [nodes[r.own] EXCEPT !.name = Tree!Stored(r.asked)]
        /\ \A y \in Nodes \ {r.own} : nodes'[y] = nodes[y]
        /\ q.call = r.call /\ q.stack = Append(r.stack, r.own)
        /\ IF Len(r.asked) = 1 THEN q.pc = "parent" /\ q.answer = Root
           ELSE q.pc = "compare" /\ q.at = Root /\ Len(r.asked) > 1 /\ q.asked = Tree!Front(r.asked)
    BY <1>2, <2>1, NameIs
  <2>3. r.own = len /\ Nodes = 1..len
    BY <1>4 DEF Nodes
  <2> HIDE DEF q, r
  <2> QED
    BY <2>2, <2>3 DEF r
<1>10. /\ nodes'[len].name = Tree!Stored(w) /\ nodes'[len].asked = w
       /\ \A x \in 1..len : nodes'[x].parent = nodes[x].parent /\ nodes'[x].next = nodes[x].next
  BY <1>2, <1>6, <1>8, <1>9, ZenonT(60) DEF NodeType
<1>11. /\ Len(q.stack) = d + 1 /\ \A i \in 1..(d + 1) : q.stack[i] = m + i
  <2>1. Append(r.stack, len) \in Seq(Nat) /\ Len(Append(r.stack, len)) = d + 1
        /\ \A i \in 1..d : Append(r.stack, len)[i] = r.stack[i]
        /\ Append(r.stack, len)[d + 1] = len
    BY <1>2, AppendProperties
  <2> HIDE DEF r, n, m, d, len
  <2>2. ASSUME NEW i \in 1..(d + 1) PROVE q.stack[i] = m + i
    <3>1. CASE i = d + 1
      BY <1>2, <1>4, <1>9, <2>1, <3>1
    <3>2. CASE i # d + 1
      <4>1. i \in 1..d
        BY <1>2, <3>2
      <4> QED
        BY <1>4, <1>9, <2>1, <4>1 DEF d
    <3> QED
      BY <3>1, <3>2
  <2> QED
    BY <1>9, <2>1, <2>2
<1>12. q.stack # << >>
  BY <1>2, <1>11, EmptySeq
<1>13. Creating(t)'
  <2> HIDE DEF r
  <2> QED
    BY <1>12 DEF Creating
<1> HIDE DEF r, q, n, m, d, len, w
<1>14. OrderOf(nodes', last', q)
  <2>1. InOrder(nodes', len)
    BY <1>5, <1>10 DEF InOrder
  <2>2. q.pc \in {"parent", "compare"}
    BY <1>9
  <2> QED
    BY <1>5, <1>9, <2>1, <2>2 DEF OrderOf
<1>15. Made(nodes', m, n, d + 1)
  <2> DEFINE ns == nodes
             ms == nodes'
             b == m + d
  <2>1. /\ \A x \in 1..b : ms[x].name = ns[x].name /\ ms[x].asked = ns[x].asked
        /\ b \in Nat /\ m \in Nat /\ d \in Nat /\ m + d <= b /\ len \in Nat /\ len <= b + 1
        /\ Made(ns, m, n, d) /\ NewAt(ns, len, w) /\ len = m + (d + 1)
        /\ w = Wanted(n, d + 1)
    <3>1. b \in Nat /\ m \in Nat /\ len = b + 1 /\ len = m + (d + 1) /\ \A x \in 1..b : x \in 1..len /\ x # len
      <4>1. m \in Nat /\ d \in Nat /\ len = m + d + 1
        BY <1>2, <1>4
      <4>2. b \in Nat /\ len = b + 1
        BY <4>1
      <4>3. len = m + (d + 1)
        BY <4>1
      <4> HIDE DEF b
      <4>4. ASSUME NEW x \in 1..b PROVE x \in 1..len /\ x # len
        BY <4>2
      <4> QED
        BY <4>1, <4>2, <4>3, <4>4
    <3>2. \A x \in 1..b : ms[x].name = ns[x].name /\ ms[x].asked = ns[x].asked
      <4> HIDE DEF b
      <4> QED
        BY <1>9, <3>1
    <3> QED
      BY <1>2, <1>4, <3>1, <3>2
  <2>2. ms[len].asked = w /\ ms[len].name = Tree!Stored(w)
    BY <1>10
  <2> HIDE DEF ns, ms, b
  <2>3. Made(ms, m, n, d)
    BY <2>1, MadeStays
  <2>4. NewAt(ms, len, w)
    BY <2>1, NewStays
  <2>5. ASSUME NEW i \in 1..(d + 1)
        PROVE  /\ ms[m + i].asked = Wanted(n, i)
               /\ ms[m + i].name = Tree!Stored(Wanted(n, i))
               /\ NewAt(ms, m + i, Wanted(n, i))
    <3>1. CASE i = d + 1
      BY <2>1, <2>2, <2>4, <3>1
    <3>2. CASE i # d + 1
      <4>1. i \in 1..d
        BY <2>1, <3>2
      <4> QED
        BY <2>3, <4>1 DEF Made
    <3> QED
      BY <3>1, <3>2
  <2>6. Made(ms, m, n, d + 1)
    BY <2>5 DEF Made
  <2> QED
    BY <2>6 DEF ms
<1>16. Recursion(nodes', m, q)
  <2>1. CASE Len(w) = 1
    <3>1. d + 1 = Len(n)
      <4>1. Len(n) - d = 1
        BY <1>7, <2>1
      <4>2. Len(n) \in Nat /\ d \in Nat
        BY <1>2
      <4> QED
        BY <4>1, <4>2
    <3>2. Len(nodes') - m = d + 1 /\ d + 1 \in 1..(d + 1) /\ d + 1 <= Len(n) /\ (d + 1 + 1)..(d + 1) = {}
      BY <1>2, <1>4, <1>9, <3>1
    <3>3. q.pc = "parent" /\ q.answer = Root /\ q.call = n
      BY <1>9, <2>1
    <3>4. ParentOf(nodes', m, n, d + 1, d + 1, q.answer)
      BY <1>2, <3>1, <3>3 DEF ParentOf
    <3> QED
      BY <1>11, <1>15, <3>2, <3>3, <3>4 DEF Recursion
  <2>2. CASE Len(w) # 1
    <3>1. q.pc = "compare" /\ q.at = 1 /\ q.asked = Tree!Front(w) /\ Len(w) > 1 /\ q.call = n
      BY <1>9, <2>2 DEF Root
    <3>2. d + 1 < Len(n) /\ q.asked = Wanted(n, (d + 1) + 1)
      <4>1. d + 1 < Len(n) /\ (d + 1) + 1 = d + 2
        BY <1>2, <1>7, <3>1
      <4> QED
        BY <1>7, <3>1, <4>1
    <3>3. Len(nodes') = m + (d + 1)
      BY <1>2, <1>4, <1>9
    <3>4. NewAt(nodes', Passed(nodes', q), q.asked)
      BY <3>1 DEF NewAt, Passed
    <3> QED
      BY <1>11, <1>15, <3>1, <3>2, <3>3, <3>4 DEF Recursion
  <2> QED
    BY <2>1, <2>2
<1>17. \A x \in 1..m : /\ nodes'[x].name = nodes[x].name /\ nodes'[x].asked = nodes[x].asked
                       /\ nodes'[x].parent = nodes[x].parent
  BY <1>2, <1>4, <1>9, SMTT(30)
<1>18. \A x \in 1..Len(nodes') : nodes'[x].parent \in 0..Len(nodes')
  BY <1>2, <1>9, <1>10
<1> QED
  BY <1>1, <1>2, <1>3, <1>9, <1>13, <1>14, <1>16, <1>17, <1>18, CreatesAsOne DEF q, m, len

\* The parent of a new logger stays right while the names stay as they are.
LEMMA ParentOfStays ==
  ASSUME NEW ns, NEW ms, NEW b \in Nat, Len(ns) = b, Len(ms) = b,
         \A x \in 1..b : ms[x].name = ns[x].name,
         NEW m, NEW n, NEW k, NEW i, NEW p, ParentOf(ns, m, n, k, i, p)
  PROVE  ParentOf(ms, m, n, k, i, p)
<1>1. CASE p \in 1..b
  <2> DEFINE w == Wanted(n, k + 1)
  <2>1. p \in Nat /\ p <= b + 1 /\ ms[p].name = ns[p].name
    BY <1>1
  <2> HIDE DEF w
  <2>2. NewAt(ns, p, w) => NewAt(ms, p, w)
    BY <2>1, NewStays
  <2> QED
    BY <1>1, <2>1, <2>2 DEF ParentOf, w
<1>2. CASE p \notin 1..b
  BY <1>2 DEF ParentOf
<1> QED
  BY <1>1, <1>2

\* The parent of a new logger is a logger.
LEMMA ParentOfType ==
  ASSUME NEW ns, NEW m \in Nat, NEW n, NEW k \in Nat, NEW i \in 1..k, NEW p,
         Len(ns) \in Nat \ {0}, Len(ns) = m + k, ParentOf(ns, m, n, k, i, p)
  PROVE  p \in 1..Len(ns)
<1>1. CASE i < k
  BY <1>1 DEF ParentOf
<1>2. CASE ~(i < k)
  BY <1>2 DEF ParentOf, Root
<1> QED
  BY <1>1, <1>2

\* set_logger_name, when the innermost call has returned: the loggers from the
\* d-th on have their parents.
LEMMA ParentStep ==
  ASSUME IInv, AsOne, NEW t \in Threads, Parent(t)
  PROVE  LET r == thread[t]
             q == thread'[t]
             n == r.call
             m == Len(calm)
             d == Len(r.stack)
             len == Len(nodes)
             k == len - m IN
         /\ Moved(t) /\ Lone(t) /\ last' = len /\ failures' = failures
         /\ len \in Nat /\ m \in 2..len /\ d \in 1..k /\ k \in Nat /\ k <= Len(n)
         /\ n \in Seq(Words) /\ Len(n) \in Nat /\ r.stack \in Seq(Nat)
         /\ Len(nodes') = len /\ nodes' \in Seq(NodeType)
         /\ InOrder(nodes', len)
         /\ \A x \in 1..m : nodes'[x] = nodes[x]
         /\ \A x \in 1..len : nodes'[x].parent \in 0..len
         /\ Made(nodes', m, n, k)
         /\ \A i \in d..k : ParentOf(nodes', m, n, k, i, nodes'[m + i].parent)
         /\ \A i \in 1..d : r.stack[i] = m + i
         /\ q.call = n
         /\ IF d = 1 THEN q.pc = "outside" /\ q.stack = << >> /\ q.got = m + 1
            ELSE q.pc = "parent" /\ q.stack = Tree!Front(r.stack) /\ q.answer = m + d
<1> DEFINE r == thread[t]
           q == thread'[t]
           n == r.call
           m == Len(calm)
           d == Len(r.stack)
           len == Len(nodes)
           k == len - m
           x == Top(r.stack)
<1>1. r.pc = "parent" /\ Inside(t) /\ Creating(t)
  BY DEF Parent, At, Inside, Creating
<1>2. /\ TypeOK /\ r \in ThreadType /\ Recursion(nodes, m, r) /\ len \in Nat /\ m \in 2..len
      /\ d \in Nat /\ Len(n) \in Nat /\ n \in Seq(Words) /\ r.stack \in Seq(Nat)
      /\ \A y \in 1..len : nodes[y] \in NodeType /\ nodes[y].parent \in 0..len
  BY <1>1, RecursionTypes
<1>3. Lone(t) /\ OrderOf(nodes, last, r)
  BY <1>1, CreatesAlone
<1>4. /\ \A i \in 1..d : r.stack[i] = m + i
      /\ d \in 1..k /\ k <= Len(n) /\ Made(nodes, m, n, k)
      /\ \A i \in (d + 1)..k : ParentOf(nodes, m, n, k, i, nodes[m + i].parent)
      /\ ParentOf(nodes, m, n, k, d, r.answer)
  BY <1>1, <1>2 DEF Recursion
<1>5. InOrder(nodes, len) /\ last = len
  BY <1>1, <1>3 DEF OrderOf
<1>6. x = m + d /\ x \in 1..len /\ k \in Nat /\ len = m + k /\ len # 0 /\ x \in Nodes /\ r.stack # << >>
  <2>1. d \in 1..d /\ r.stack # << >>
    BY <1>2, <1>4, EmptySeq
  <2>2. x = m + d
    BY <1>4, <2>1 DEF Top
  <2>3. m + d \in 1..len /\ k \in Nat /\ len = m + k /\ len # 0
    BY <1>2, <1>4
  <2> QED
    BY <2>1, <2>2, <2>3 DEF Nodes
<1>7. /\ last' = last /\ failures' = failures /\ Moved(t)
      /\ nodes' \in Seq(NodeType) /\ Len(nodes') = len
      /\ nodes'[x] = [nodes[x] EXCEPT !.parent = r.answer]
      /\ \A y \in 1..len : y # x => nodes'[y] = nodes[y]
      /\ q.call = n
      /\ IF d = 1 THEN q.pc = "outside" /\ q.stack = << >> /\ q.got = x
         ELSE q.pc = "parent" /\ q.stack = Tree!Front(r.stack) /\ q.answer = x
  BY <1>2, <1>6, ParentIs DEF Nodes
<1>8. /\ nodes'[x].parent = r.answer
      /\ \A y \in 1..len : /\ nodes'[y].name = nodes[y].name /\ nodes'[y].asked = nodes[y].asked
                           /\ nodes'[y].next = nodes[y].next
  <2> HIDE DEF x, len, r, q
  <2>1. nodes[x] \in NodeType
    BY <1>2, <1>6
  <2>2. /\ nodes'[x].parent = r.answer /\ nodes'[x].name = nodes[x].name
        /\ nodes'[x].asked = nodes[x].asked /\ nodes'[x].next = nodes[x].next
    BY <1>7, <2>1 DEF NodeType
  <2> QED
    BY <1>7, <2>2
<1> HIDE DEF r, q, n, m, d, len, x
<1>9. InOrder(nodes', len)
  BY <1>5, <1>8 DEF InOrder
<1>10. \A y \in 1..m : nodes'[y] = nodes[y]
  BY <1>2, <1>4, <1>6, <1>7, SMTT(30)
<1>11. Made(nodes', m, n, k)
  <2> DEFINE ns == nodes
             ms == nodes'
  <2>1. /\ \A y \in 1..len : ms[y].name = ns[y].name /\ ms[y].asked = ns[y].asked
        /\ len \in Nat /\ m \in Nat /\ k \in Nat /\ m + k <= len /\ Made(ns, m, n, k)
    BY <1>2, <1>4, <1>6, <1>8
  <2> HIDE DEF ns, ms, k
  <2>2. Made(ms, m, n, k)
    BY <2>1, MadeStays
  <2> QED
    BY <2>2 DEF ms
<1>12. ASSUME NEW i \in d..k
       PROVE  /\ ParentOf(nodes', m, n, k, i, nodes'[m + i].parent)
              /\ nodes'[m + i].parent \in 0..len
  <2> DEFINE p == nodes'[m + i].parent
             ns == nodes
             ms == nodes'
  <2>0. i \in 1..k /\ m \in Nat /\ k \in Nat
    BY <1>2, <1>4, <1>6
  <2>1. ParentOf(ns, m, n, k, i, p)
    <3>1. CASE i = d
      BY <1>4, <1>6, <1>8, <3>1
    <3>2. CASE i # d
      <4>1. i \in (d + 1)..k /\ m + i \in 1..len /\ m + i # m + d
        BY <1>2, <1>4, <1>6, <3>2, SMTT(30)
      <4>2. nodes'[m + i] = nodes[m + i]
        BY <1>6, <1>7, <4>1
      <4> QED
        BY <1>4, <4>1, <4>2
    <3> QED
      BY <3>1, <3>2
  <2>2. Len(ns) = len /\ Len(ms) = len /\ \A y \in 1..len : ms[y].name = ns[y].name
    BY <1>7, <1>8 DEF len
  <2> HIDE DEF p, ns, ms, k
  <2>3. ParentOf(ms, m, n, k, i, p)
    BY <1>2, <2>1, <2>2, ParentOfStays
  <2>4. p \in 1..len
    BY <1>2, <1>6, <2>0, <2>1, <2>2, ParentOfType
  <2>5. p \in 0..len
    BY <1>2, <2>4
  <2> QED
    BY <2>3, <2>5 DEF p, ms
<1>13. ASSUME NEW y \in 1..len PROVE nodes'[y].parent \in 0..len
  <2>1. CASE y = x
    <3>1. d \in d..k
      BY <1>4, <1>6
    <3> QED
      BY <1>6, <1>12, <2>1, <3>1
  <2>2. CASE y # x
    BY <1>2, <1>7, <2>2
  <2> QED
    BY <2>1, <2>2
<1>14. /\ last' = len
       /\ IF d = 1 THEN q.pc = "outside" /\ q.stack = << >> /\ q.got = m + 1
          ELSE q.pc = "parent" /\ q.stack = Tree!Front(r.stack) /\ q.answer = m + d
  BY <1>5, <1>6, <1>7
<1> QED
  BY <1>2, <1>3, <1>4, <1>6, <1>7, <1>9, <1>10, <1>11, <1>12, <1>13, <1>14 DEF r, q, n, m, d, len

\* set_logger_name of an inner call: the call around it goes on.
LEMMA ParentAsOne ==
  ASSUME IInv, AsOne, NEW t \in Threads, Parent(t), Len(thread[t].stack) # 1
  PROVE  AsOne' /\ calm' = calm
<1> DEFINE r == thread[t]
           q == thread'[t]
           n == r.call
           m == Len(calm)
           d == Len(r.stack)
           len == Len(nodes)
           k == len - m
<1>1. /\ Moved(t) /\ Lone(t) /\ last' = len
      /\ len \in Nat /\ m \in 2..len /\ d \in 1..k /\ k \in Nat /\ k <= Len(n) /\ r.stack \in Seq(Nat)
      /\ Len(nodes') = len /\ InOrder(nodes', len)
      /\ \A x \in 1..m : nodes'[x] = nodes[x]
      /\ \A x \in 1..len : nodes'[x].parent \in 0..len
      /\ Made(nodes', m, n, k)
      /\ \A i \in d..k : ParentOf(nodes', m, n, k, i, nodes'[m + i].parent)
      /\ \A i \in 1..d : r.stack[i] = m + i
      /\ q.call = n /\ q.pc = "parent" /\ q.stack = Tree!Front(r.stack) /\ q.answer = m + d
  BY ParentStep
<1>2. calm' = calm
  BY DEF Parent
<1>3. d > 1 /\ d \in Nat
  <2>1. d \in 1..k /\ k \in Nat /\ d # 1
    BY <1>1
  <2> HIDE DEF d, k
  <2> QED
    BY <2>1
<1>4. /\ Len(q.stack) = d - 1 /\ \A i \in 1..(d - 1) : q.stack[i] = m + i
      /\ q.stack # << >>
  <2> DEFINE s == r.stack
  <2>1. s \in Seq(Nat) /\ Len(s) > 1
    BY <1>1, <1>3
  <2> HIDE DEF s, q
  <2>2. /\ Tree!Front(s) # << >> /\ Len(Tree!Front(s)) = Len(s) - 1
        /\ \A i \in 1..(Len(s) - 1) : Tree!Front(s)[i] = s[i]
    BY <2>1, FrontIs
  <2>3. \A i \in 1..(d - 1) : i \in 1..d
    BY <1>3
  <2> QED
    BY <1>1, <2>2, <2>3 DEF s
<1>5. Creating(t)'
  BY <1>1 DEF Creating
<1>6. OrderOf(nodes', last', q)
  BY <1>1 DEF OrderOf
<1> HIDE DEF r, q, n, d
<1>7. Recursion(nodes', m, q)
  <2>1. Len(nodes') - m = k /\ d - 1 \in 1..k /\ (d - 1) + 1 = d /\ d - 1 < k
    BY <1>1, <1>3
  <2>2. ParentOf(nodes', m, n, k, d - 1, q.answer)
    <3>1. m + d = m + (d - 1) + 1
      BY <1>1, <1>3
    <3> QED
      BY <1>1, <2>1, <3>1 DEF ParentOf
  <2> HIDE DEF k, m, len
  <2> QED
    BY <1>1, <1>4, <2>1, <2>2 DEF Recursion
<1>8. Len(nodes') \in Nat /\ Len(nodes) <= Len(nodes')
  BY <1>1
<1>9. \A x \in 1..m : /\ nodes'[x].name = nodes[x].name /\ nodes'[x].asked = nodes[x].asked
                       /\ nodes'[x].parent = nodes[x].parent
  BY <1>1
<1>10. \A x \in 1..Len(nodes') : nodes'[x].parent \in 0..Len(nodes')
  BY <1>1
<1> QED
  BY <1>1, <1>2, <1>5, <1>6, <1>7, <1>8, <1>9, <1>10, CreatesAsOne DEF q, m, len

-----------------------------------------------------------------------------
(* One step of LoggerTree *)

\* The search of a list finds the first logger of the name, if there is one.
LEMMA FirstFound ==
  ASSUME NEW ls, NEW m \in Nat, DOMAIN ls = 1..m, NEW n, NEW a \in 1..m,
         ls[a].name = n, \A y \in 1..(a - 1) : ls[y].name # n
  PROVE  Tree!Lookup(ls, n) = a
<1> DEFINE named == {i \in DOMAIN ls : ls[i].name = n}
<1>1. Tree!Lookup(ls, n) = IF named = {} THEN 0 ELSE CHOOSE i \in named : \A j \in named : i <= j
  BY DEF Tree!Lookup
<1>2. a \in named
  OBVIOUS
<1>3. \A j \in named : j \in Nat /\ a <= j
  <2>1. \A j \in named : j \in 1..m /\ ls[j].name = n
    OBVIOUS
  <2> HIDE DEF named
  <2>2. \A j \in 1..m : j \in 1..(a - 1) \/ a <= j
    OBVIOUS
  <2> QED
    BY <2>1, <2>2
<1> HIDE DEF named
<1>4. \A i \in named : (\A j \in named : i <= j) => i = a
  BY <1>2, <1>3
<1> QED
  BY <1>1, <1>2, <1>3, <1>4

\* The search of a list without the name finds nothing.
LEMMA NoneFound ==
  ASSUME NEW ls, NEW m, DOMAIN ls = 1..m, NEW n, \A x \in 1..m : ls[x].name # n
  PROVE  Tree!Lookup(ls, n) = 0
BY DEF Tree!Lookup

\* A logger that l4sc_get_logger makes, with the parent p.
NewLogger(n, p) == Tree!Logger(n, "logger", Tree!INHERIT_LEVEL, TRUE, p)

\* The loggers that join a list, the first k of those a call for n may make.
LEMMA JoinedIs ==
  ASSUME NEW R, NEW ls \in Seq(R), NEW m \in Nat, Len(ls) = m,
         NEW n, Len(n) \in Nat, NEW k \in 1..Len(n),
         NEW new, new = Tree!Joined(ls, n, Len(n) - k + 1)
  PROVE  /\ DOMAIN new = 1..(m + k) /\ Len(new) = m + k
         /\ \A x \in 1..m : new[x] = ls[x]
         /\ \A x \in (m + 1)..(m + k) : new[x] = NewLogger(Wanted(n, x - m), x + 1)
<1> DEFINE j == Len(n) - k + 1
           made(i) == NewLogger(Wanted(n, i), m + i + 1)
           added == [i \in 1..k |-> made(i)]
           S == R \union {made(i) : i \in 1..k}
<1>1. k \in Nat /\ Len(n) - j + 1 = k
  OBVIOUS
<1>2. Tree!Joined(ls, n, j) = ls \o added
  BY <1>1 DEF Tree!Joined, Wanted, NewLogger
<1> HIDE DEF made
<1>3. ls \in Seq(S)
  <2>1. R \subseteq S
    OBVIOUS
  <2> HIDE DEF S
  <2> QED
    BY <2>1, SeqMonotonic
<1>4. added \in Seq(S) /\ Len(added) = k /\ \A i \in 1..k : added[i] = made(i)
  <2>1. added \in [1..k -> S] /\ \A i \in 1..k : added[i] = made(i)
    OBVIOUS
  <2> HIDE DEF S, added
  <2>2. added \in Seq(S)
    BY <1>1, <2>1, SeqDef
  <2>3. Len(added) \in Nat /\ DOMAIN added = 1..Len(added) /\ DOMAIN added = 1..k
    BY <2>1, <2>2, LenProperties
  <2>4. Len(added) = k
    <3> DEFINE a == Len(added)
    <3>1. a \in Nat /\ 1..a = 1..k
      BY <2>3
    <3>0. k \in 1..k
      <4> HIDE DEF j
      <4> QED
        OBVIOUS
    <3> HIDE DEF a
    <3>2. k \in 1..a
      BY <3>0, <3>1
    <3>3. a \in 1..a
      BY <3>1, <3>2
    <3>4. a \in 1..k
      BY <3>1, <3>3
    <3> QED
      BY <1>1, <3>2, <3>4, SMTT(30) DEF a
  <2> QED
    BY <2>1, <2>2, <2>4
<1> HIDE DEF S, added, j
<1>5. /\ ls \o added \in Seq(S) /\ Len(ls \o added) = m + k
      /\ \A x \in 1..(m + k) : (ls \o added)[x] = IF x <= m THEN ls[x] ELSE added[x - m]
  BY <1>3, <1>4, ConcatProperties
<1>6. DOMAIN (ls \o added) = 1..(m + k)
  BY <1>5, LenProperties
<1>7. \A x \in 1..m : (ls \o added)[x] = ls[x]
  BY <1>1, <1>5
<1>8. ASSUME NEW x \in (m + 1)..(m + k) PROVE (ls \o added)[x] = NewLogger(Wanted(n, x - m), x + 1)
  <2>1. x \in 1..(m + k) /\ ~(x <= m) /\ x - m \in 1..k /\ m + (x - m) + 1 = x + 1
    BY <1>1
  <2>2. (ls \o added)[x] = made(x - m)
    BY <1>4, <1>5, <2>1
  <2> QED
    BY <2>1, <2>2 DEF made
<1> QED
  BY <1>2, <1>5, <1>6, <1>7, <1>8 DEF made, j

\* Two loggers of the tree that differ in the parent or in the name.
LEMMA LoggersDiffer ==
  ASSUME NEW w, NEW kind, NEW level, NEW additivity, NEW p, NEW q, NEW v
  PROVE  LET lg == Tree!Logger(w, kind, level, additivity, p) IN
         /\ [lg EXCEPT !.parent = q] = Tree!Logger(w, kind, level, additivity, q)
         /\ lg.name = Tree!Stored(w) /\ [lg EXCEPT !.name = v].name = v
         /\ v = Tree!Stored(w) => [lg EXCEPT !.name = v] = lg
<1> DEFINE stored == Tree!Stored(w)
           slots == Tree!Empty
           Of(name, parent) ==
             [name |-> name, asked |-> w, kind |-> kind, level |-> level,
              additivity |-> additivity, parent |-> parent, slots |-> slots]
<1>1. \A r : Tree!Logger(w, kind, level, additivity, r) = Of(stored, r)
  BY DEF Tree!Logger
<1> HIDE DEF stored, slots
<1>2. [Of(stored, p) EXCEPT !.parent = q] = Of(stored, q)
  OBVIOUS
<1>3. Of(stored, p).name = stored /\ [Of(stored, p) EXCEPT !.name = v].name = v
  OBVIOUS
<1>4. [Of(stored, p) EXCEPT !.name = stored] = Of(stored, p)
  OBVIOUS
<1> HIDE DEF Of
<1> QED
  BY <1>1, <1>2, <1>3, <1>4 DEF stored

\* The parent of such a logger is set.
LEMMA MadeIs ==
  ASSUME NEW w, NEW p, NEW q
  PROVE  /\ [NewLogger(w, p) EXCEPT !.parent = q] = NewLogger(w, q)
         /\ NewLogger(w, p).name = Tree!Stored(w)
<1> DEFINE kind == "logger"
           inherit == Tree!INHERIT_LEVEL
           additivity == TRUE
<1>1. \A v : NewLogger(w, v) = Tree!Logger(w, kind, inherit, additivity, v)
  BY DEF NewLogger
<1> HIDE DEF kind, inherit, additivity
<1>2. /\ [Tree!Logger(w, kind, inherit, additivity, p) EXCEPT !.parent = q]
           = Tree!Logger(w, kind, inherit, additivity, q)
      /\ Tree!Logger(w, kind, inherit, additivity, p).name = Tree!Stored(w)
  BY LoggersDiffer
<1> QED
  BY <1>1, <1>2

\* What LoggerTree has for a new logger whose name has been set.
LEMMA EntryIs ==
  ASSUME NEW e, NEW x \in Nat
  PROVE  /\ Entry(e, x).name = e.name
         /\ (x > 2 /\ e.name = Tree!Stored(e.asked)) =>
              Entry(e, x) = NewLogger(e.asked, e.parent)
<1> DEFINE level == IF x = Root THEN Tree!ERROR_LEVEL ELSE Tree!WARN_LEVEL
           root == Tree!Logger(e.asked, "root", level, FALSE, e.parent)
           other == Tree!Logger(e.asked, "logger", Tree!INHERIT_LEVEL, TRUE, e.parent)
<1>1. Entry(e, x) = [(IF x <= 2 THEN root ELSE other) EXCEPT !.name = e.name]
  BY DEF Entry
<1>2. /\ [root EXCEPT !.name = e.name].name = e.name /\ [other EXCEPT !.name = e.name].name = e.name
      /\ e.name = Tree!Stored(e.asked) => [other EXCEPT !.name = e.name] = other
  <2> DEFINE w == e.asked
             v == e.name
             p == e.parent
             kind == "logger"
             additivity == TRUE
             inherit == Tree!INHERIT_LEVEL
             rootkind == "root"
             closed == FALSE
  <2> HIDE DEF level, w, v, p, kind, additivity, inherit, rootkind, closed
  <2>1. [Tree!Logger(w, rootkind, level, closed, p) EXCEPT !.name = v].name = v
    BY LoggersDiffer
  <2>2. /\ [Tree!Logger(w, kind, inherit, additivity, p) EXCEPT !.name = v].name = v
        /\ v = Tree!Stored(w) => [Tree!Logger(w, kind, inherit, additivity, p) EXCEPT !.name = v]
                                   = Tree!Logger(w, kind, inherit, additivity, p)
    BY LoggersDiffer
  <2> QED
    BY <2>1, <2>2 DEF w, v, p, kind, additivity, inherit, rootkind, closed
<1> HIDE DEF root, other
<1>3. CASE x <= 2
  <2>1. Entry(e, x) = [root EXCEPT !.name = e.name] /\ ~(x > 2)
    BY <1>1, <1>3
  <2> QED
    BY <1>2, <2>1
<1>4. CASE ~(x <= 2)
  <2>1. Entry(e, x) = [other EXCEPT !.name = e.name]
    BY <1>1, <1>4
  <2> QED
    BY <1>2, <2>1 DEF other, NewLogger
<1> QED
  BY <1>3, <1>4

\* The same, in a list that has the names of another one.
LEMMA FoundIs ==
  ASSUME NEW ns, NEW b \in Nat, NEW js, DOMAIN js = 1..b, \A y \in 1..b : js[y].name = ns[y].name,
         NEW w, NEW p \in 1..b, ns[p].name = w, NewAt(ns, p, w)
  PROVE  Tree!Lookup(js, w) = p /\ p # 0
<1>1. p # 0
  OBVIOUS
<1>2. \A y \in 1..(p - 1) : js[y].name # w
  BY DEF NewAt
<1>3. js[p].name = w
  OBVIOUS
<1> QED
  BY <1>1, <1>2, <1>3, FirstFound

\* What LoggerTree has for the first m loggers.
TreeOf(ns, m) == [x \in 1..m |-> Entry(ns[x], x)]

\* A call that has made k loggers behind the m of the list has made those that
\* LoggerTree makes in one step, with the parents they have there.
LEMMA MadeAsOne ==
  ASSUME NEW ns, NEW m \in Nat, NEW n \in Seq(Words), NEW k \in 1..Len(n),
         m >= 2, Len(ns) = m + k, Made(ns, m, n, k),
         \A i \in 1..k : ParentOf(ns, m, n, k, i, ns[m + i].parent),
         NEW ls, ls = TreeOf(ns, m)
  PROVE  /\ TreeOf(ns, m + k) = Tree!WithLogger(ls, n)
         /\ Tree!LoggerNamed(ls, n) = m + 1
<1> DEFINE L == Len(n)
           Joined(i) == Tree!Joined(ls, n, L - i + 1)
<1>1. L \in Nat /\ k \in Nat /\ 1 <= k /\ k <= L
  BY LenProperties
<1> DEFINE R == {ls[x] : x \in 1..m}
<1>2. /\ DOMAIN ls = 1..m /\ Len(ls) = m /\ ls \in Seq(R)
      /\ \A x \in 1..m : ls[x] = Entry(ns[x], x) /\ ls[x].name = ns[x].name
  <2>1. DOMAIN ls = 1..m /\ \A x \in 1..m : ls[x] = Entry(ns[x], x)
    BY DEF TreeOf
  <2>2. Len(ls) = m /\ ls \in Seq(R)
    <3>1. ls \in [1..m -> R]
      BY DEF TreeOf
    <3> HIDE DEF R
    <3> QED
      BY <2>1, <3>1, SeqDef
  <2>3. ASSUME NEW x \in 1..m PROVE Entry(ns[x], x).name = ns[x].name
    <3> DEFINE e == ns[x]
    <3>1. x \in Nat
      OBVIOUS
    <3> HIDE DEF e
    <3>2. Entry(e, x).name = e.name
      BY <3>1, EntryIs
    <3> QED
      BY <3>2 DEF e
  <2> QED
    BY <2>1, <2>2, <2>3
<1> HIDE DEF R
<1>3. ASSUME NEW i \in 1..k
      PROVE  /\ ns[m + i].asked = Wanted(n, i) /\ ns[m + i].name = Tree!Stored(Wanted(n, i))
             /\ \A y \in 1..(m + i - 1) : ns[y].name # Wanted(n, i)
  <2>1. /\ ns[m + i].asked = Wanted(n, i) /\ ns[m + i].name = Tree!Stored(Wanted(n, i))
        /\ NewAt(ns, m + i, Wanted(n, i))
    BY Zenon DEF Made
  <2>2. \A y \in 1..((m + i) - 1) : ns[y].name # Wanted(n, i)
    BY <2>1, Zenon DEF NewAt
  <2> QED
    BY <2>1, <2>2
\* The list after the first i of the new loggers have joined it.
<1>4. ASSUME NEW i \in 1..k
      PROVE  /\ DOMAIN Joined(i) = 1..(m + i) /\ Len(Joined(i)) = m + i
             /\ \A x \in 1..m : Joined(i)[x] = ls[x]
             /\ \A x \in (m + 1)..(m + i) : Joined(i)[x] = NewLogger(Wanted(n, x - m), x + 1)
             /\ \A x \in 1..(m + i) : Joined(i)[x].name = ns[x].name
  <2> DEFINE l == ls
             new == Joined(i)
  <2>1. /\ Len(l) = m /\ l \in Seq(R)
        /\ Len(n) \in Nat /\ i \in 1..Len(n) /\ new = Tree!Joined(l, n, Len(n) - i + 1)
    BY <1>1, <1>2
  <2> HIDE DEF l, L, Joined, new
  <2>2. /\ DOMAIN new = 1..(m + i) /\ Len(new) = m + i
        /\ \A x \in 1..m : new[x] = l[x]
        /\ \A x \in (m + 1)..(m + i) : new[x] = NewLogger(Wanted(n, x - m), x + 1)
    BY <2>1, JoinedIs, SMTT(30)
  <2>3. ASSUME NEW x \in 1..(m + i) PROVE new[x].name = ns[x].name
    <3>1. CASE x <= m
      <4>1. x \in 1..m
        BY <3>1
      <4> QED
        BY <1>2, <2>2, <4>1 DEF l
    <3>2. CASE ~(x <= m)
      <4> DEFINE h == x - m
                 p == x + 1
                 w == Wanted(n, h)
      <4>1. x \in (m + 1)..(m + i) /\ h \in 1..k /\ m + h = x
        BY <1>1, <3>2
      <4>2. new[x] = NewLogger(w, p)
        BY <2>2, <4>1
      <4>3. ns[x].name = Tree!Stored(w)
        <5> HIDE DEF h
        <5> QED
          BY <1>3, <4>1
      <4> HIDE DEF p, w
      <4>4. NewLogger(w, p).name = Tree!Stored(w)
        BY MadeIs
      <4> QED
        BY <4>2, <4>3, <4>4
    <3> QED
      BY <3>1, <3>2
  <2> QED
    BY <2>2, <2>3 DEF new, l
<1> HIDE DEF Joined
\* The name is not in the list.
<1>5. Tree!Lookup(ls, n) = 0
  <2>1. 1 \in 1..k /\ 1 \in 1..L /\ m + 1 - 1 = m
    BY <1>1
  <2>2. Wanted(n, 1) = n
    BY <2>1, WantedIs
  <2>3. \A y \in 1..m : ls[y].name # n
    BY <1>2, <1>3, <2>1, <2>2
  <2> QED
    BY <1>2, <2>3, NoneFound
\* None of the prefixes is, but perhaps the one after the k-th.
<1>6. ASSUME NEW j \in 1..(L - 1), j > L - k PROVE Tree!FoundAt(ls, n, j) = 0
  <2> DEFINE i == L - j
             w == Wanted(n, i + 1)
             js == Joined(i)
             b == m + i
  <2>1. i \in 1..k /\ i + 1 \in 1..k /\ j + 1 = L - i + 1 /\ j = L - (i + 1) + 1 /\ b \in Nat
        /\ m + (i + 1) - 1 = b
    BY <1>1, <1>6
  <2>2. Tree!FoundAt(ls, n, j) = Tree!Lookup(js, w)
    BY <2>1 DEF Tree!FoundAt, Joined, Wanted
  <2>3. DOMAIN js = 1..b /\ \A y \in 1..b : js[y].name # w
    <3>1. \A y \in 1..b : ns[y].name # w
      <4> HIDE DEF i, b
      <4> QED
        BY <1>3, <2>1
    <3> HIDE DEF i
    <3> QED
      BY <1>4, <2>1, <3>1
  <2> HIDE DEF js, w, b, i
  <2>4. Tree!Lookup(js, w) = 0
    BY <2>3, NoneFound
  <2> QED
    BY <2>2, <2>4
<1> DEFINE top == ns[m + k].parent
           found == {j \in 1..(L - 1) : Tree!FoundAt(ls, n, j) # 0}
<1>7. k < L => Tree!FoundAt(ls, n, L - k) = top /\ top # 0
  <2> SUFFICES ASSUME k < L PROVE Tree!FoundAt(ls, n, L - k) = top /\ top # 0
    OBVIOUS
  <2> DEFINE w == Wanted(n, k + 1)
             js == Joined(k)
             b == m + k
             p == top
  <2>1. k \in 1..k /\ (L - k) + 1 = L - k + 1 /\ L - k = L - (k + 1) + 1 /\ b \in Nat
        /\ ~(k < k) /\ k # L
    BY <1>1
  <2>2. Tree!FoundAt(ls, n, L - k) = Tree!Lookup(js, w)
    <3>1. Tree!Prefix(n, L - k) = w
      BY <2>1 DEF Wanted
    <3>2. Tree!Joined(ls, n, L - k + 1) = js
      BY SMTT(30) DEF Joined
    <3> QED
      BY <2>1, <3>1, <3>2, ZenonT(60) DEF Tree!FoundAt
  <2>3. p \in 1..b /\ ns[p].name = w /\ NewAt(ns, p, w)
    BY <2>1, ZenonT(60) DEF ParentOf
  <2>4. DOMAIN js = 1..b /\ \A y \in 1..b : js[y].name = ns[y].name
    BY <1>4, <2>1, ZenonT(60)
  <2>5. b \in Nat /\ Tree!FoundAt(ls, n, L - k) = Tree!Lookup(js, w)
    BY <2>1, <2>2
  <2> HIDE DEF js, w, b, p, L, top, found
  <2>6. Tree!Lookup(js, w) = p /\ p # 0
    <3>1. b \in Nat
      BY <2>5
    <3>2. \A y \in 1..b : js[y].name = ns[y].name
      BY <2>4
    <3>3. ns[p].name = w /\ p \in 1..b
      BY <2>3
    <3>4. p # 0
      BY <3>1, <3>3
    <3>5. NewAt(ns, p, w)
      BY <2>3
    <3>6. DOMAIN js = 1..b
      BY <2>4
    <3> QED
      BY <3>1, <3>2, <3>3, <3>5, <3>6, FoundIs, ZenonT(60)
  <2> QED
    BY <2>5, <2>6 DEF p
<1>8. Tree!Ancestor(ls, n) = L - k
  <2>1. Tree!Ancestor(ls, n) = IF found = {} THEN 0 ELSE CHOOSE j \in found : \A i \in found : i <= j
    BY DEF Tree!Ancestor
  <2>2. \A j \in found : j \in Nat /\ j <= L - k /\ j # 0
    <3>1. ASSUME NEW j \in found PROVE j \in Nat /\ j <= L - k /\ j # 0
      <4>1. j \in 1..(L - 1) /\ Tree!FoundAt(ls, n, j) # 0
        BY <3>1
      <4>2. ~(j > L - k)
        BY <1>6, <4>1
      <4> QED
        BY <1>1, <4>1, <4>2
    <3> QED
      BY <3>1
  <2>3. CASE k < L
    <3>1. L - k \in found
      <4>1. L - k \in 1..(L - 1)
        BY <1>1, <2>3
      <4> HIDE DEF top
      <4> QED
        BY <1>7, <2>3, <4>1
    <3> HIDE DEF found
    <3>2. \A j \in found : (\A i \in found : i <= j) => j = L - k
      BY <1>1, <2>2, <3>1
    <3>3. \A i \in found : i <= L - k
      BY <2>2
    <3> QED
      BY <2>1, <3>1, <3>2, <3>3
  <2>4. CASE ~(k < L)
    <3>1. L - k = 0
      BY <1>1, <2>4
    <3>2. found = {}
      <4> HIDE DEF found
      <4> QED
        BY <2>2, <3>1
    <3> QED
      BY <2>1, <3>1, <3>2
  <2> QED
    BY <2>3, <2>4
<1> HIDE DEF found
<1> DEFINE new == Joined(k)
           result == [new EXCEPT ![m + k] = [new[m + k] EXCEPT !.parent = top]]
<1>9. Tree!WithLogger(ls, n) = result
  <2>1. k \in 1..k
    BY <1>1
  <2>2. Len(new) = m + k
    BY <1>4, <2>1
  <2>3. Tree!Joined(ls, n, L - k + 1) = new
    BY DEF Joined
  <2>4. (IF L - k = 0 THEN Root ELSE Tree!FoundAt(ls, n, L - k)) = top
    <3>1. CASE k < L
      <4>1. L - k # 0
        BY <1>1, <3>1
      <4> QED
        BY <1>7, <3>1, <4>1
    <3>2. CASE ~(k < L)
      <4>1. k = L /\ L - k = 0
        BY <1>1, <3>2
      <4>2. top = Root
        BY <2>1, <3>2, <4>1 DEF ParentOf
      <4> QED
        BY <4>1, <4>2
    <3> QED
      BY <3>1, <3>2
  <2> HIDE DEF new, top, L
  <2>5. Tree!WithLogger(ls, n) = [new EXCEPT ![Len(new)].parent = top]
    BY <1>5, <1>8, <2>3, <2>4 DEF Tree!WithLogger, Tree!Root, Root
  <2> QED
    BY <2>2, <2>5
<1>10. ASSUME NEW x \in 1..(m + k) PROVE result[x] = Entry(ns[x], x)
  <2>1. CASE x <= m
    <3>1. x \in 1..m /\ x # m + k /\ k \in 1..k
      BY <1>1, <2>1
    <3>2. new[x] = ls[x] /\ x \in DOMAIN new
      BY <1>4, <3>1
    <3> HIDE DEF new, top
    <3> QED
      BY <1>2, <3>1, <3>2
  <2>2. CASE ~(x <= m)
    <3> DEFINE i == x - m
               e == ns[x]
               w == Wanted(n, i)
               q == x + 1
    <3>1. i \in 1..k /\ x = m + i /\ x \in (m + 1)..(m + k)
      BY <1>1, <2>2
    <3> HIDE DEF i
    <3>2. x > 2 /\ x \in Nat /\ e.name = Tree!Stored(e.asked) /\ e.asked = w
      <4>1. x > 2 /\ x \in Nat
        BY <1>1, <3>1
      <4>2. ns[m + i].asked = Wanted(n, i) /\ ns[m + i].name = Tree!Stored(Wanted(n, i))
        BY <1>3, <3>1
      <4>3. e = ns[m + i]
        BY <3>1
      <4> HIDE DEF e
      <4> QED
        BY <4>1, <4>2, <4>3
    <3>3. Entry(e, x) = NewLogger(w, e.parent)
      <4>1. Entry(e, x) = NewLogger(e.asked, e.parent)
        <5> HIDE DEF e
        <5> QED
          BY <3>2, EntryIs
      <4> HIDE DEF e, w
      <4> QED
        BY <3>2, <4>1
    <3>4. new[x] = NewLogger(w, q) /\ DOMAIN new = 1..(m + k)
      <4>1. k \in 1..k
        BY <1>1
      <4> QED
        BY <1>4, <3>1, <4>1 DEF i
    <3>5. CASE i < k
      <4>1. x # m + k
        BY <1>1, <3>1, <3>5
      <4>2. e.parent = q
        BY <3>1, <3>5 DEF ParentOf
      <4>3. result[x] = new[x]
        <5> HIDE DEF new, top
        <5> QED
          BY <3>4, <4>1
      <4> HIDE DEF new, e, q, result
      <4> QED
        BY <3>3, <3>4, <4>2, <4>3 DEF e
    <3>6. CASE ~(i < k)
      <4>1. x = m + k
        BY <1>1, <3>1, <3>6
      <4>2. e.parent = top
        BY <4>1
      <4>3. result[x] = [new[x] EXCEPT !.parent = top]
        <5> HIDE DEF new, top
        <5> QED
          BY <3>4, <4>1
      <4>4. [NewLogger(w, q) EXCEPT !.parent = top] = NewLogger(w, top)
        <5> HIDE DEF w, q, top
        <5> QED
          BY MadeIs
      <4> HIDE DEF new, e, q, result, top
      <4> QED
        BY <3>3, <3>4, <4>2, <4>3, <4>4 DEF e
    <3> QED
      BY <3>5, <3>6
  <2> QED
    BY <2>1, <2>2
<1>11. DOMAIN result = 1..(m + k) /\ result = [x \in DOMAIN result |-> result[x]]
  <2>1. DOMAIN new = 1..(m + k)
    <3>1. k \in 1..k
      BY <1>1
    <3> QED
      BY <1>4, <3>1
  <2> HIDE DEF new, top
  <2> QED
    BY <2>1
<1>12. TreeOf(ns, m + k) = result
  <2> HIDE DEF result
  <2> QED
    BY <1>10, <1>11 DEF TreeOf
<1>13. Tree!LoggerNamed(ls, n) = m + 1
  BY <1>2, <1>5 DEF Tree!LoggerNamed
<1> QED
  BY <1>9, <1>12, <1>13

-----------------------------------------------------------------------------
(* The invariant of calls that do not overlap *)

\* set_logger_name of the outermost call: the list is what LoggerTree makes of
\* the one that the call found.
LEMMA LastParentAsOne ==
  ASSUME IInv, AsOne, clean, NEW t \in Threads, Parent(t), Len(thread[t].stack) = 1
  PROVE  /\ AsOne'
         /\ calm' = Tree!WithLogger(calm, thread[t].call)
         /\ thread'[t].got = Tree!LoggerNamed(calm, thread[t].call)
<1> DEFINE r == thread[t]
           q == thread'[t]
           n == r.call
           m == Len(calm)
           d == Len(r.stack)
           len == Len(nodes)
           k == len - m
           ms == nodes'
<1>1. /\ Moved(t) /\ Lone(t) /\ last' = len
      /\ len \in Nat /\ m \in 2..len /\ d \in 1..k /\ k \in Nat /\ k <= Len(n)
      /\ n \in Seq(Words) /\ Len(n) \in Nat
      /\ Len(ms) = len /\ ms \in Seq(NodeType) /\ InOrder(ms, len)
      /\ \A x \in 1..m : ms[x] = nodes[x]
      /\ \A x \in 1..len : ms[x].parent \in 0..len
      /\ Made(ms, m, n, k)
      /\ \A i \in d..k : ParentOf(ms, m, n, k, i, ms[m + i].parent)
      /\ q.pc = "outside" /\ q.stack = << >> /\ q.got = m + 1
  BY ParentStep
<1>2. calm' = View(nodes')
  BY <1>1 DEF Parent, Return, Lone, Others
<1>3. View(ms) = TreeOf(ms, len)
  <2>1. Len(ms) \in Nat \ {0} /\ DOMAIN ms = 1..Len(ms)
    BY <1>1, LenProperties
  <2>2. Len(ms) = len /\ InOrder(ms, Len(ms)) /\ \A x \in 1..Len(ms) : ms[x].parent \in 0..Len(ms)
    BY <1>1
  <2> HIDE DEF ms, len
  <2>3. View(ms) = [x \in 1..Len(ms) |-> Entry(ms[x], x)]
    BY <2>1, <2>2, ViewInOrder
  <2> QED
    BY <2>2, <2>3 DEF TreeOf
<1>4. calm = TreeOf(ms, m)
  <2>1. calm = [x \in 1..m |-> Entry(nodes[x], x)]
    BY DEF AsOne, CalmInv
  <2>2. \A x \in 1..m : Entry(ms[x], x) = Entry(nodes[x], x)
    BY <1>1
  <2> HIDE DEF ms, m
  <2> QED
    BY <2>1, <2>2 DEF TreeOf
<1>5. /\ TreeOf(ms, m + k) = Tree!WithLogger(calm, n)
      /\ Tree!LoggerNamed(calm, n) = m + 1
  <2> DEFINE ls == calm
  <2>1. /\ m \in Nat /\ n \in Seq(Words) /\ k \in 1..Len(n) /\ m >= 2 /\ Len(ms) = m + k
        /\ Made(ms, m, n, k) /\ \A i \in 1..k : ParentOf(ms, m, n, k, i, ms[m + i].parent)
        /\ ls = TreeOf(ms, m)
    <3>1. d = 1 /\ m \in Nat /\ m >= 2 /\ len = m + k /\ k \in 1..Len(n)
      <4>1. d = 1 /\ m \in 2..len /\ len \in Nat /\ d \in 1..k /\ k \in Nat /\ k <= Len(n) /\ Len(n) \in Nat
        BY <1>1
      <4> HIDE DEF d, m, len, n
      <4> QED
        BY <4>1
    <3> QED
      BY <1>1, <1>4, <3>1
  <2> HIDE DEF ls, ms, k, m, n
  <2>2. /\ TreeOf(ms, m + k) = Tree!WithLogger(ls, n)
        /\ Tree!LoggerNamed(ls, n) = m + 1
    BY <2>1, MadeAsOne
  <2> QED
    BY <2>2 DEF ls
<1>6. len = m + k
  <2>1. len \in Nat /\ m \in Nat
    BY <1>1
  <2> QED
    BY <2>1
<1>7. calm' = Tree!WithLogger(calm, n) /\ q.got = Tree!LoggerNamed(calm, n)
  <2> HIDE DEF k, m, len, n, q
  <2> QED
    BY <1>1, <1>2, <1>3, <1>5, <1>6
<1>8. CalmInv'
  <2>1. calm' = [x \in 1..len |-> Entry(nodes'[x], x)]
    BY <1>2, <1>3 DEF TreeOf
  <2>2. Len(calm') = len
    BY <1>1, <2>1
  <2>3. len \in 2..len /\ Len(nodes') = len /\ \A x \in 1..len : nodes'[x].parent \in 0..len
    BY <1>1
  <2> HIDE DEF len
  <2> QED
    BY <2>1, <2>2, <2>3 DEF CalmInv, Nodes
<1>9. AloneInv' /\ OrderInv' /\ RecursionInv'
  <2>1. ~Inside(t)'
    BY <1>1 DEF Inside
  <2>2. OrderOf(nodes', last', thread'[t])
    BY <1>1 DEF OrderOf
  <2> QED
    BY <1>1, <2>1, <2>2, LoneStep DEF IInv
<1> QED
  BY <1>7, <1>8, <1>9 DEF AsOne

\* What LoggerTree says of a step that changes the list between the calls.
OneCall ==
  \E t \in Threads : /\ calm' = Tree!WithLogger(calm, thread[t].call)
                     /\ thread'[t].got = Tree!LoggerNamed(calm, thread[t].call)

\* A step is plain only after plain ones.
LEMMA PlainBefore ==
  ASSUME IInv, Next, Plain'
  PROVE  Plain /\ \A t \in Threads : ~AllocFails(t)
<1>1. failures \in Nat
  BY DEF IInv, TypeOK
<1>2. ASSUME NEW t \in Threads PROVE ~AllocFails(t)
  <2>1. failures' = 0 /\ failures + 1 # 0
    BY <1>1, SMTT(30) DEF Plain
  <2> QED
    BY <2>1 DEF AllocFails
<1>3. clean /\ failures = 0
  BY <1>2 DEF Plain, Next, Begin, ComparePrefix, CompareEnd, Advance, InitLogger, ReadLast, Link, SetLast, Name, Parent
<1> QED
  BY <1>2, <1>3 DEF Plain

\* While the calls are plain, each step keeps the invariant, and changes the
\* list between the calls as one call does.
LEMMA NextAsOne ==
  ASSUME IInv, PlainInv, Next
  PROVE  Plain' => (AsOne' /\ (calm' = calm \/ OneCall))
<1> SUFFICES ASSUME Plain' PROVE AsOne' /\ (calm' = calm \/ OneCall)
  OBVIOUS
<1>1. AsOne /\ clean /\ clean' /\ \A t \in Threads : ~AllocFails(t)
  BY PlainBefore DEF PlainInv, Plain
<1>2. ASSUME NEW t \in Threads, NEW n \in LoggerNames, Begin(t, n) PROVE AsOne' /\ calm' = calm
  BY <1>1, <1>2, BeginAsOne
<1>3. ASSUME NEW t \in Threads, ComparePrefix(t) PROVE AsOne' /\ calm' = calm
  BY <1>1, <1>3, PrefixAsOne
<1>3a. ASSUME NEW t \in Threads, CompareEnd(t) PROVE AsOne' /\ calm' = calm
  BY <1>1, <1>3a, EndAsOne
<1>4. ASSUME NEW t \in Threads, Advance(t) PROVE AsOne' /\ calm' = calm
  BY <1>1, <1>4, AdvanceAsOne
<1>5. ASSUME NEW t \in Threads, InitLogger(t) PROVE AsOne' /\ calm' = calm
  BY <1>1, <1>5, InitLoggerAsOne
<1>6. ASSUME NEW t \in Threads, ReadLast(t) PROVE AsOne' /\ calm' = calm
  BY <1>1, <1>6, ReadLastAsOne
<1>7. ASSUME NEW t \in Threads, Link(t) PROVE AsOne' /\ calm' = calm
  BY <1>1, <1>7, LinkAsOne
<1>8. ASSUME NEW t \in Threads, SetLast(t) PROVE AsOne' /\ calm' = calm
  BY <1>1, <1>8, SetLastAsOne
<1>9. ASSUME NEW t \in Threads, Name(t) PROVE AsOne' /\ calm' = calm
  BY <1>1, <1>9, NameAsOne
<1>10. ASSUME NEW t \in Threads, Parent(t) PROVE AsOne' /\ (calm' = calm \/ OneCall)
  <2>1. CASE Len(thread[t].stack) = 1
    BY <1>1, <1>10, <2>1, LastParentAsOne DEF OneCall
  <2>2. CASE Len(thread[t].stack) # 1
    BY <1>1, <1>10, <2>2, ParentAsOne
  <2> QED
    BY <2>1, <2>2
<1> QED
  BY <1>1, <1>2, <1>3, <1>3a, <1>4, <1>5, <1>6, <1>7, <1>8, <1>9, <1>10 DEF Next

\* The predefined loggers are the list between the calls.
LEMMA InitPlainInv ==
  ASSUME Init
  PROVE  PlainInv
<1> DEFINE a == Node(<<"rootlogger">>, <<"rootlogger">>, 0, 2)
           b == Node(<<"l4sclog">>, <<"l4sclog">>, Root, 0)
<1>1. nodes = <<a, b>> /\ last = 2 /\ calm = View(nodes)
  BY DEF Init, Predefined
<1>2. a.next = 2 /\ b.next = 0 /\ a.parent = 0 /\ b.parent = 1
  BY DEF Node, Root
<1> HIDE DEF a, b
<1>3. Len(nodes) = 2 /\ DOMAIN nodes = 1..Len(nodes) /\ nodes[1] = a /\ nodes[2] = b
  BY <1>1
<1>4. InOrder(nodes, Len(nodes))
  BY <1>2, <1>3 DEF InOrder
<1>5. \A x \in 1..Len(nodes) : nodes[x].parent \in 0..Len(nodes)
  BY <1>2, <1>3
<1>6. View(nodes) = [x \in 1..Len(nodes) |-> Entry(nodes[x], x)]
  <2> DEFINE ns == nodes
  <2>1. Len(ns) \in Nat \ {0} /\ DOMAIN ns = 1..Len(ns) /\ InOrder(ns, Len(ns))
        /\ \A x \in 1..Len(ns) : ns[x].parent \in 0..Len(ns)
    BY <1>3, <1>4, <1>5
  <2> HIDE DEF ns
  <2>2. View(ns) = [x \in 1..Len(ns) |-> Entry(ns[x], x)]
    BY <2>1, ViewInOrder
  <2> QED
    BY <2>2 DEF ns
<1>7. Len(calm) = Len(nodes) /\ calm = [x \in 1..Len(calm) |-> Entry(nodes[x], x)]
  <2>1. calm = [x \in 1..2 |-> Entry(nodes[x], x)]
    BY <1>1, <1>3, <1>6
  <2>2. Len(calm) = 2
    BY <2>1
  <2> QED
    BY <1>3, <2>1, <2>2
<1>8. \A t \in Threads : thread[t].pc = "outside"
  BY DEF Init, Outside
<1>9. CalmInv
  <2>1. Len(calm) \in 2..Len(nodes)
    BY <1>3, <1>7
  <2> QED
    BY <1>5, <1>7, <2>1 DEF CalmInv, Nodes
<1>10. AloneInv /\ RecursionInv
  BY <1>8 DEF AloneInv, RecursionInv, Inside
<1>11. OrderInv
  BY <1>1, <1>3, <1>4, <1>8 DEF OrderInv, Pending
<1> QED
  BY <1>9, <1>10, <1>11 DEF PlainInv, AsOne

\* Every step keeps it.
LEMMA NextPlainInv ==
  ASSUME IInv, PlainInv, [Next]_vars
  PROVE  PlainInv'
<1>1. CASE UNCHANGED vars
  BY <1>1 DEF vars, PlainInv, Plain, AsOne, CalmInv, AloneInv, OrderInv, RecursionInv, Creating,
              Inside, Pending, Nodes
<1>2. CASE Next
  BY <1>2, NextAsOne DEF PlainInv
<1> QED
  BY <1>1, <1>2

\* While no logger is created during another search and no allocation fails,
\* the steps of l4sc_get_logger amount to the single step of LoggerTree,
\* however many threads call it and whatever they ask for.
THEOREM AsOneCallCorrect == Spec => AsOneCall
<1>1. Init => IInv /\ PlainInv
  BY InitIInv, InitPlainInv
<1>2. IInv /\ PlainInv /\ [Next]_vars => IInv' /\ PlainInv'
  BY NextIInv, NextPlainInv
<1>3. IInv /\ PlainInv /\ [Next]_vars =>
        [(clean' /\ failures' = 0) =>
           \E t \in Threads :
             /\ calm' = Tree!WithLogger(calm, thread[t].call)
             /\ thread'[t].got = Tree!LoggerNamed(calm, thread[t].call)]_calm
  <2>1. CASE UNCHANGED vars
    BY <2>1 DEF vars
  <2>2. ASSUME IInv, PlainInv, Next, clean', failures' = 0 PROVE calm' = calm \/ OneCall
    BY <2>2, NextAsOne DEF Plain
  <2> QED
    BY <2>1, <2>2 DEF OneCall
<1> QED
  BY <1>1, <1>2, <1>3, PTL DEF Spec, AsOneCall
=============================================================================
