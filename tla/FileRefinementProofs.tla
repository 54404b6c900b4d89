------------------------ MODULE FileRefinementProofs ------------------------
(***************************************************************************)
(* Proof that the file appender implements a rotating log, for any sizes   *)
(* of messages, any limits and any number of messages, when one thread     *)
(* logs and nothing fails: the initial state is one of the rotating log,   *)
(* and every step is one of its steps or changes nothing in it.            *)
(***************************************************************************)
EXTENDS FileAppenderRefinement, FileAppenderProofs, WellFoundedInduction,
        NaturalsInduction

-----------------------------------------------------------------------------
(* Sets of naturals in order *)

\* Every set of naturals that is not empty has a least element.
LEMMA Least ==
  ASSUME NEW S, S \subseteq Nat, S # {}
  PROVE  \E x \in S : \A y \in S : x <= y
<1> DEFINE less == OpToRel(<, Nat)
<1>1. \E x \in S : \A y \in S : <<y, x>> \notin less
  BY WFMin, NatLessThanWellFounded, Zenon
<1>2. \A x, y \in Nat : y < x => <<y, x>> \in less
  BY DEF OpToRel
<1> HIDE DEF less
<1>3. PICK x \in S : \A y \in S : <<y, x>> \notin less
  BY <1>1
<1>4. ASSUME NEW y \in S PROVE x <= y
  <2>1. x \in Nat /\ y \in Nat /\ ~(y < x)
    BY <1>2, <1>3
  <2> QED
    BY <2>1
<1> QED
  BY <1>4

\* e lists its values in ascending order; e lists all of S so.
Increasing(n, e) == \A j, k \in 1..n : j < k => e[j] < e[k]
Enumerates(n, e, S) == e \in [1..n -> S] /\ Increasing(n, e) /\ \A x \in S : \E k \in 1..n : e[k] = x

\* A set with an enumeration has as many elements as that has.
LEMMA EnumeratesAll ==
  ASSUME NEW S \in SUBSET Nat, NEW n \in Nat, NEW e, Enumerates(n, e, S)
  PROVE  IsFiniteSet(S) /\ Cardinality(S) = n
<1>1. e \in [1..n -> S]
  BY DEF Enumerates
<1>2. e \in Surjection(1..n, S)
  BY <1>1 DEF Enumerates, Surjection
<1>3. \A j, k \in 1..n : e[j] = e[k] => j = k
  <2> SUFFICES ASSUME NEW j \in 1..n, NEW k \in 1..n, e[j] = e[k], j # k
               PROVE  FALSE
    OBVIOUS
  <2>1. e[j] \in Nat /\ e[k] \in Nat
    <3>1. e[j] \in S /\ e[k] \in S
      BY <1>1
    <3> QED
      BY <3>1
  <2>3. j < k \/ k < j
    OBVIOUS
  <2>2. e[j] < e[k] \/ e[k] < e[j]
    BY <2>3 DEF Enumerates, Increasing
  <2> QED
    BY <2>1, <2>2
<1>4. e \in Injection(1..n, S)
  BY <1>1, <1>3 DEF Injection, IsInjective
<1>5. IsFiniteSet(1..n) /\ Cardinality(1..n) = n
  BY FS_Interval
<1> QED
  BY <1>2, <1>4, <1>5, FS_Surjection

\* Of two enumerations of a set none begins with a smaller element first.
LEMMA EnumerationsAgree ==
  ASSUME NEW S \in SUBSET Nat, NEW n \in Nat, NEW e, NEW f,
         Enumerates(n, e, S), Enumerates(n, f, S)
  PROVE  e = f
<1> DEFINE D == {k \in 1..n : e[k] # f[k]}
<1> SUFFICES D = {}
  BY DEF Enumerates
<1> SUFFICES ASSUME D # {}
             PROVE  FALSE
  OBVIOUS
<1>1. D \subseteq Nat
  OBVIOUS
<1> HIDE DEF D
<1>2. PICK m \in D : \A k \in D : m <= k
  BY <1>1, Least
<1> USE DEF D
<1>3. ASSUME NEW g, NEW h, Enumerates(n, g, S), Enumerates(n, h, S), g[m] < h[m],
             \A k \in 1..n : k < m => g[k] = h[k]
      PROVE  FALSE
  <2>1. g[m] \in S /\ h[m] \in S /\ m \in 1..n
    BY <1>3 DEF Enumerates
  <2>2. PICK k \in 1..n : h[k] = g[m]
    BY <1>3, <2>1 DEF Enumerates
  <2>3. g[m] \in Nat /\ h[m] \in Nat /\ h[k] \in Nat /\ m \in Nat /\ k \in Nat
    <3> HIDE DEF D
    <3>1. \A x \in S : x \in Nat
      OBVIOUS
    <3>2. \A j \in 1..n : j \in Nat
      OBVIOUS
    <3>3. g[m] \in Nat /\ h[m] \in Nat
      BY <2>1, <3>1
    <3>4. h[k] \in Nat
      BY <2>2, <3>3
    <3>5. m \in Nat /\ k \in Nat
      BY <2>1, <2>2, <3>2
    <3> QED
      BY <3>3, <3>4, <3>5
  <2>4. k # m /\ ~(m < k)
    <3>1. m < k => h[m] < h[k]
      BY <1>3, <2>1 DEF Enumerates, Increasing
    <3> QED
      BY <1>3, <2>2, <2>3, <3>1
  <2>5. k < m
    BY <2>3, <2>4
  <2>6. g[k] = g[m] /\ g[k] < g[m]
    BY <1>3, <2>1, <2>2, <2>5 DEF Enumerates, Increasing
  <2> QED
    BY <2>3, <2>6
<1>4. m \in 1..n /\ \A k \in 1..n : k < m => e[k] = f[k]
  BY <1>2
<1>5. e[m] \in Nat /\ f[m] \in Nat /\ e[m] # f[m]
  BY <1>2 DEF Enumerates
<1> HIDE DEF D
<1>6. CASE e[m] < f[m]
  BY <1>3, <1>4, <1>6
<1>7. CASE f[m] < e[m]
  BY <1>3, <1>4, <1>7
<1> QED
  BY <1>5, <1>6, <1>7

\* A smaller element comes before all the others.
LEMMA EnumerateMore ==
  ASSUME NEW S \in SUBSET Nat, NEW n \in Nat, NEW e, Enumerates(n, e, S),
         NEW x \in Nat, \A y \in S : x < y
  PROVE  Enumerates(n + 1, [k \in 1..(n + 1) |-> IF k = 1 THEN x ELSE e[k - 1]], S \union {x})
<1> DEFINE f == [k \in 1..(n + 1) |-> IF k = 1 THEN x ELSE e[k - 1]]
           T == S \union {x}
<1>1. \A k \in 1..(n + 1) : k # 1 => k - 1 \in 1..n /\ f[k] = e[k - 1] /\ f[k] \in S
  BY DEF Enumerates
<1>2. 1 \in 1..(n + 1) /\ f[1] = x
  OBVIOUS
<1>3. f \in [1..(n + 1) -> T]
  BY <1>1
<1>4. Increasing(n + 1, f)
  <2> SUFFICES ASSUME NEW j \in 1..(n + 1), NEW k \in 1..(n + 1), j < k
               PROVE  f[j] < f[k]
    BY DEF Increasing
  <2>1. k # 1 /\ f[k] \in S /\ k - 1 \in 1..n
    BY <1>1
  <2>2. CASE j = 1
    BY <1>2, <2>1, <2>2
  <2>3. CASE j # 1
    <3>1. j - 1 \in 1..n /\ f[j] = e[j - 1] /\ f[k] = e[k - 1]
      BY <1>1, <2>1, <2>3
    <3>2. j - 1 < k - 1
      OBVIOUS
    <3> HIDE DEF f
    <3> QED
      BY <2>1, <3>1, <3>2 DEF Enumerates, Increasing
  <2> QED
    BY <2>2, <2>3
<1>5. ASSUME NEW y \in T
      PROVE  \E k \in 1..(n + 1) : f[k] = y
  <2>1. CASE y = x
    BY <1>2, <2>1
  <2>2. CASE y # x
    <3>1. PICK j \in 1..n : e[j] = y
      BY <2>2 DEF Enumerates
    <3>2. j + 1 \in 1..(n + 1) /\ j + 1 # 1 /\ (j + 1) - 1 = j
      OBVIOUS
    <3> QED
      BY <3>1, <3>2
  <2> QED
    BY <2>1, <2>2
<1> QED
  BY <1>3, <1>4, <1>5 DEF Enumerates

\* The greatest element comes last.
LEMMA EnumerateLess ==
  ASSUME NEW S \in SUBSET Nat, NEW n \in Nat, NEW e, Enumerates(n, e, S),
         NEW x \in S, \A y \in S : y <= x
  PROVE  /\ n > 0 /\ e[n] = x
         /\ Enumerates(n - 1, [k \in 1..(n - 1) |-> e[k]], S \ {x})
<1> DEFINE f == [k \in 1..(n - 1) |-> e[k]]
           T == S \ {x}
<1>a. \A y \in S : y \in Nat
  OBVIOUS
<1>b. \A k \in 1..n : e[k] \in S
  BY DEF Enumerates
<1>1. PICK m \in 1..n : e[m] = x
  BY DEF Enumerates
<1>2. n > 0 /\ n \in 1..n /\ m \in Nat
  OBVIOUS
<1>3. m = n
  <2> SUFFICES ASSUME m # n PROVE FALSE
    OBVIOUS
  <2>1. m < n
    BY <1>2
  <2>2. e[m] < e[n]
    BY <1>2, <2>1 DEF Enumerates, Increasing
  <2>3. e[n] \in S /\ e[n] <= x
    BY <1>b, <1>2
  <2>4. e[n] \in Nat /\ x \in Nat
    BY <1>a, <2>3
  <2> QED
    BY <1>1, <2>2, <2>3, <2>4
<1>4. \A k \in 1..(n - 1) : k \in 1..n /\ k < n /\ f[k] = e[k]
  OBVIOUS
<1>5. ASSUME NEW k \in 1..(n - 1) PROVE f[k] \in T
  <2>1. e[k] < e[n] /\ e[k] \in S
    BY <1>b, <1>2, <1>4 DEF Enumerates, Increasing
  <2>2. x \in Nat /\ e[n] = x
    BY <1>1, <1>3, <1>a
  <2> QED
    BY <1>4, <2>1, <2>2
<1>6. f \in [1..(n - 1) -> T]
  BY <1>5
<1>7. Increasing(n - 1, f)
  BY <1>4 DEF Enumerates, Increasing
<1>8. ASSUME NEW y \in T
      PROVE  \E k \in 1..(n - 1) : f[k] = y
  <2>1. PICK k \in 1..n : e[k] = y
    BY DEF Enumerates
  <2>2. k # n
    BY <1>1, <1>3, <2>1
  <2>3. k \in 1..(n - 1)
    BY <2>2
  <2> QED
    BY <1>4, <2>1, <2>3
<1> HIDE DEF f, T
<1>9. Enumerates(n - 1, f, T)
  BY <1>6, <1>7, <1>8 DEF Enumerates
<1> QED
  BY <1>1, <1>2, <1>3, <1>9 DEF f, T

\* An element that becomes greater by one keeps its place.
LEMMA EnumerateMoved ==
  ASSUME NEW S \in SUBSET Nat, NEW n \in Nat, NEW e, Enumerates(n, e, S),
         NEW x \in S, x + 1 \notin S
  PROVE  Enumerates(n, [k \in 1..n |-> IF e[k] = x THEN x + 1 ELSE e[k]], (S \ {x}) \union {x + 1})
<1> DEFINE f == [k \in 1..n |-> IF e[k] = x THEN x + 1 ELSE e[k]]
           T == (S \ {x}) \union {x + 1}
<1>a. x \in Nat /\ \A y \in S : y \in Nat
  OBVIOUS
<1>b. \A k \in 1..n : e[k] \in S /\ e[k] # x + 1 /\ f[k] = IF e[k] = x THEN x + 1 ELSE e[k]
  BY DEF Enumerates
<1>1. f \in [1..n -> T]
  BY <1>b
<1>2. Increasing(n, f)
  <2> SUFFICES ASSUME NEW j \in 1..n, NEW k \in 1..n, j < k
               PROVE  f[j] < f[k]
    BY DEF Increasing
  <2>1. e[j] < e[k]
    BY DEF Enumerates, Increasing
  <2>2. e[j] \in Nat /\ e[k] \in Nat /\ e[j] # x + 1 /\ e[k] # x + 1
    BY <1>a, <1>b
  <2>3. f[j] = (IF e[j] = x THEN x + 1 ELSE e[j]) /\ f[k] = (IF e[k] = x THEN x + 1 ELSE e[k])
    BY <1>b
  <2> HIDE DEF f
  <2> QED
    BY <1>a, <2>1, <2>2, <2>3
<1>3. ASSUME NEW y \in T
      PROVE  \E k \in 1..n : f[k] = y
  <2>1. CASE y = x + 1
    <3>1. PICK k \in 1..n : e[k] = x
      BY DEF Enumerates
    <3> QED
      BY <1>b, <2>1, <3>1
  <2>2. CASE y # x + 1
    <3>1. y \in S /\ y # x
      BY <2>2
    <3>2. PICK k \in 1..n : e[k] = y
      BY <3>1 DEF Enumerates
    <3> QED
      BY <1>b, <3>1, <3>2
  <2> QED
    BY <2>1, <2>2
<1> HIDE DEF f, T
<1>4. Enumerates(n, f, T)
  BY <1>1, <1>2, <1>3 DEF Enumerates
<1> QED
  BY <1>4 DEF f, T

\* Every finite set of naturals can be enumerated.
LEMMA EnumerationExists ==
  ASSUME NEW S \in SUBSET Nat, IsFiniteSet(S)
  PROVE  \E e : Enumerates(Cardinality(S), e, S)
<1> DEFINE Bad(n) == \E T \in SUBSET Nat : IsFiniteSet(T) /\ Cardinality(T) = n
                                           /\ \A e : ~Enumerates(n, e, T)
           N == {n \in Nat : Bad(n)}
<1>1. SUFFICES N = {}
  <2>1. Cardinality(S) \in Nat
    BY FS_CardinalityType
  <2>2. ~Bad(Cardinality(S))
    BY <1>1, <2>1
  <2> QED
    BY <2>2
<1> SUFFICES ASSUME N # {}
             PROVE  FALSE
  OBVIOUS
<1>2. N \subseteq Nat
  OBVIOUS
<1> HIDE DEF N
<1>3. PICK n \in N : \A m \in N : n <= m
  BY <1>2, Least
<1>4. n \in Nat /\ Bad(n) /\ \A m \in Nat : m < n => ~Bad(m)
  <2>1. n \in Nat /\ Bad(n)
    BY <1>3 DEF N
  <2>2. ASSUME NEW m \in Nat, m < n, Bad(m)
        PROVE  FALSE
    <3>1. m \in N
      BY <2>2 DEF N
    <3> QED
      BY <1>3, <2>1, <2>2, <3>1
  <2> QED
    BY <2>1, <2>2
<1>5. PICK T \in SUBSET Nat : /\ IsFiniteSet(T) /\ Cardinality(T) = n
                              /\ \A e : ~Enumerates(n, e, T)
  BY <1>4
<1>6. CASE T = {}
  <2>1. n = 0
    BY <1>5, <1>6, FS_EmptySet
  <2>2. Enumerates(0, [k \in 1..0 |-> 0], {})
    BY DEF Enumerates, Increasing
  <2> QED
    BY <1>5, <1>6, <2>1, <2>2
<1>7. CASE T # {}
  <2>1. PICK x \in T : \A y \in T : x <= y
    BY <1>7, Least
  <2> DEFINE U == T \ {x}
  <2>2. IsFiniteSet(U) /\ Cardinality(U) = n - 1 /\ U \in SUBSET Nat /\ n > 0 /\ n - 1 \in Nat
    <3>1. IsFiniteSet(U) /\ Cardinality(U) = n - 1
      BY <1>5, <2>1, FS_RemoveElement
    <3>2. Cardinality(U) \in Nat
      BY <3>1, FS_CardinalityType
    <3> QED
      BY <1>4, <3>1, <3>2
  <2>3. PICK e : Enumerates(n - 1, e, U)
    <3>1. ~Bad(n - 1)
      BY <1>4, <2>2
    <3> HIDE DEF U
    <3> QED
      BY <2>2, <3>1
  <2>4. \A y \in U : x < y
    BY <2>1
  <2>5. PICK m \in Nat : m + 1 = n /\ m = n - 1
    BY <1>4, <2>2
  <2>6. U \union {x} = T /\ x \in Nat /\ U \in SUBSET Nat /\ Enumerates(m, e, U)
    BY <2>2, <2>3, <2>5
  <2> HIDE DEF U
  <2>7. Enumerates(m + 1, [k \in 1..(m + 1) |-> IF k = 1 THEN x ELSE e[k - 1]], U \union {x})
    BY <2>4, <2>6, EnumerateMore
  <2> QED
    BY <1>5, <2>5, <2>6, <2>7
<1> QED
  BY <1>6, <1>7

\* The indexes in order are the enumeration of the set.
LEMMA InOrderEnumerates ==
  ASSUME NEW S \in SUBSET Nat, IsFiniteSet(S)
  PROVE  Enumerates(Cardinality(S), InOrder(S), S)
<1> DEFINE n == Cardinality(S)
<1>1. n \in Nat
  BY FS_CardinalityType
<1>2. PICK e : Enumerates(n, e, S)
  BY EnumerationExists
<1>3. InOrder(S) \in [1..n -> S] /\ Increasing(n, InOrder(S))
  BY <1>2 DEF Enumerates, Increasing, InOrder
<1>4. \A x \in S : \E k \in 1..n : InOrder(S)[k] = x
  <2> DEFINE f == InOrder(S)
  <2> HIDE DEF f
  <2>1. \A j, k \in 1..n : f[j] = f[k] => j = k
    <3> SUFFICES ASSUME NEW j \in 1..n, NEW k \in 1..n, f[j] = f[k], j # k
                 PROVE  FALSE
      OBVIOUS
    <3>1. f[j] \in S /\ f[k] \in S
      BY <1>3 DEF f
    <3>2. \A x \in S : x \in Nat
      OBVIOUS
    <3>3. j < k \/ k < j
      BY <1>1
    <3>4. f[j] < f[k] \/ f[k] < f[j]
      BY <1>3, <3>3 DEF f, Increasing
    <3>5. f[j] \in Nat /\ f[k] \in Nat
      BY <3>1, <3>2
    <3> QED
      BY <3>4, <3>5
  <2>2. f \in Injection(1..n, S)
    BY <1>3, <2>1 DEF f, Injection, IsInjective
  <2>3. Cardinality(1..n) = Cardinality(S)
    BY <1>1, FS_Interval
  <2> HIDE DEF n
  <2>4. f \in Surjection(1..n, S)
    BY <2>2, <2>3, FS_Injection
  <2> QED
    BY <2>4 DEF Surjection, f
<1> QED
  BY <1>3, <1>4 DEF Enumerates

\* What is listed is what the set has in order.
LEMMA InOrderIs ==
  ASSUME NEW S \in SUBSET Nat, NEW n \in Nat, NEW e, Enumerates(n, e, S)
  PROVE  Cardinality(S) = n /\ InOrder(S) = e
<1>1. IsFiniteSet(S) /\ Cardinality(S) = n
  BY EnumeratesAll
<1>2. Enumerates(n, InOrder(S), S)
  BY <1>1, InOrderEnumerates
<1> QED
  BY <1>1, <1>2, EnumerationsAgree

-----------------------------------------------------------------------------
(* The invariant of a turn *)

\* The records of the files are whole but the one that is being written.
Whole(t) ==
  \A i \in Inodes : \A a \in 1..Len(runs[i]) :
    \/ runs[i][a].bytes = runs[i][a].len
    \/ pc[t] = "write" /\ written[t] > 0 /\ i = fd /\ a = Len(runs[i])

\* What the one thread finds at each of its statements when no call fails: the
\* log is open from the check to the end of the write, the rename is reached
\* only with a message that does not fit.
TurnsOK(t) ==
  /\ ~stdinFree
  /\ pc[t] \in {"check", "rename", "close", "write"} => fd # NONE
  /\ pc[t] = "rename" => NeedRollover(msg[t].len)
  /\ pc[t] \in BeforeWrite => msg[t].len \in MsgLens
  /\ Whole(t)

\* Thread t is the only one, no call fails, and descriptor 0 is never free.
Alone(t) == OneThread(t) /\ StdinStates = {FALSE}
\* What holds of the files and of the one thread that writes them.
TurnInv(t) ==
  QuietInv(t) /\ RecordInv /\ FilesizeAccurate /\ SizeInv /\ TurnsOK(t)

\* No call fails and nothing crashes.
LEMMA NoFault ==
  ASSUME NEW t, Alone(t), TurnInv(t), [Next]_vars
  PROVE  /\ t \in Threads /\ Threads = {t} /\ ~Fault /\ ~Crash
         /\ pc \in [Threads -> Locked \union Unlocked]
         /\ msg \in [Threads -> Message] /\ written \in [Threads -> Nat]
         /\ rolling \in [Threads -> BOOLEAN] /\ index \in [Threads -> Indexes]
         /\ sent \in [Threads -> Nat]
         /\ size \in Seq(Nat) /\ runs \in Seq(Seq(Run))
         /\ Len(size) \in Nat /\ Len(runs) = Len(size)
         /\ fd \in OrNone(Inodes) /\ log \in OrNone(Inodes) /\ NONE \notin Inodes
         /\ backup \in [Indexes -> OrNone(Inodes)]
         /\ pc[t] \in Locked <=> lock = t
         /\ lock \in {t, NONE} /\ t # NONE
         /\ faults = 0 /\ crashes = 0
<1>1. MaxFaults = 0 /\ MaxCrashes = 0 /\ t \in Threads /\ Threads = {t}
  BY DEF Alone, OneThread
<1>2. IInv /\ faults = 0 /\ crashes = 0
  BY DEF TurnInv, QuietInv
<1>3. ~Fault /\ ~Crash
  BY <1>1, <1>2 DEF Fault, Crash
<1>4. Len(size) \in Nat
  BY <1>2 DEF IInv, TypeOK
<1> QED
  BY <1>1, <1>2, <1>3, <1>4, NoneAssumption DEF IInv, TypeOK, LockDiscipline, OrNone, Inodes

\* Once the write loop is entered, nothing happens but write().
LEMMA OnlyWrites ==
  ASSUME NEW t, Alone(t), TurnInv(t), [Next]_vars, pc[t] = "write", ~WriteSome(t)
  PROVE  UNCHANGED vars
<1>1. /\ t \in Threads /\ Threads = {t} /\ ~Fault /\ ~Crash /\ lock = t /\ t # NONE
  BY NoFault DEF Locked
<1>2. fd # NONE
  BY DEF TurnInv, TurnsOK
<1> HIDE DEF TurnInv, Alone, Fault, Crash
<1>3. ~Reconfigure
  BY <1>1 DEF Reconfigure
<1>4. ~WriteFails(t) /\ ~SkipWrite(t)
  BY <1>1, <1>2 DEF WriteFails, SkipWrite, IsOpen
<1>5. ~Format(t) /\ ~Work(t)
  BY <1>4 DEF Format, Work, Goto, LockAppender, OpenIfClosed, CheckRollover, UnlockAppender,
     RenameLog, CloseLog, ReopenLog, RemoveLast, ShiftBackup
<1> QED
  BY <1>1, <1>3, <1>5 DEF Next

\* The write loop ends only with a record that is complete, so the files hold
\* whole records but for the one in hand.
LEMMA NextWhole ==
  ASSUME NEW t, Alone(t), TurnInv(t), [Next]_vars
  PROVE  Whole(t)'
<1>a. Whole(t) /\ IInv /\ RecordInv
  BY DEF TurnInv, TurnsOK, QuietInv
<1>b. /\ t \in Threads /\ Threads = {t}
      /\ written \in [Threads -> Nat] /\ msg \in [Threads -> Message]
      /\ pc \in [Threads -> Locked \union Unlocked]
  BY NoFault
<1>1. CASE WriteSome(t)
  <2> DEFINE len == msg[t].len
             old == runs[fd]
             new == runs'[fd]
             w == written[t]
  <2>1. PICK k \in 1..(len - w) :
           /\ fd \in Inodes /\ fd' = fd /\ Inodes' = Inodes
           /\ \A i \in Inodes \ {fd} : runs'[i] = runs[i]
           /\ written' = [written EXCEPT ![t] = w + k]
           /\ Len(new) = IF w = 0 THEN Len(old) + 1 ELSE Len(old)
           /\ Len(new) > 0
           /\ new[Len(new)] = [by |-> t, n |-> sent[t], len |-> len, bytes |-> w + k]
           /\ \A a \in 1..(Len(new) - 1) : a \in 1..Len(old) /\ new[a] = old[a]
           /\ pc' = IF w + k = len THEN [pc EXCEPT ![t] = "unlock"] ELSE pc
    BY <1>1, <1>a, <1>b, WriteSomeEffect
  <2>2. pc[t] = "write"
    BY <1>1 DEF WriteSome
  <2>3. w \in Nat /\ k \in Nat /\ k > 0 /\ written'[t] = w + k
    <3>1. w \in Nat /\ len \in Nat
      BY <1>b DEF Message
    <3> QED
      BY <1>b, <2>1, <3>1
  <2>4. Len(old) \in Nat
    <3>1. runs \in Seq(Seq(Run)) /\ fd \in 1..Len(runs)
      BY <2>1, NoFault DEF Inodes
    <3>2. old \in Seq(Run)
      BY <3>1, ElementOfSeq
    <3> QED
      BY <3>2
  <2> SUFFICES ASSUME NEW i \in Inodes', NEW a \in 1..Len(runs'[i])
               PROVE  \/ runs'[i][a].bytes = runs'[i][a].len
                      \/ pc'[t] = "write" /\ written'[t] > 0 /\ i = fd' /\ a = Len(runs'[i])
    BY DEF Whole
  <2> HIDE DEF len, w, old, new
  <2>5. CASE i # fd
    <3>1. runs'[i] = runs[i] /\ i \in Inodes
      BY <2>1, <2>5
    <3>2. runs[i][a].bytes = runs[i][a].len
      BY <1>a, <2>5, <3>1 DEF Whole
    <3> QED
      BY <3>1, <3>2
  <2>6. CASE i = fd /\ a = Len(new)
    <3>1. runs'[i][a].bytes = w + k /\ runs'[i][a].len = len
      BY <2>1, <2>6 DEF new
    <3>2. CASE w + k = len
      BY <3>1, <3>2
    <3>3. CASE w + k # len
      <4>1. pc'[t] = "write"
        BY <2>1, <2>2, <3>3
      <4>2. written'[t] > 0
        BY <2>3
      <4> QED
        BY <2>1, <2>6, <4>1, <4>2 DEF new
    <3> QED
      BY <3>2, <3>3
  <2>7. CASE i = fd /\ a # Len(new)
    <3>1. a \in 1..Len(new) /\ Len(new) \in Nat
      BY <2>1, <2>4, <2>7 DEF new
    <3>2. a \in 1..(Len(new) - 1)
      BY <2>7, <3>1
    <3>3. a \in 1..Len(old) /\ new[a] = old[a]
      BY <2>1, <3>2
    <3>4. ~(w > 0 /\ a = Len(old))
      BY <2>1, <2>3, <2>4, <3>2
    <3>5. old[a].bytes = old[a].len
      BY <1>a, <2>1, <3>3, <3>4 DEF Whole, old, w
    <3> QED
      BY <2>7, <3>3, <3>5 DEF new
  <2> QED
    BY <2>5, <2>6, <2>7
<1>2. CASE ~WriteSome(t) /\ pc[t] = "write"
  <2>1. UNCHANGED vars
    BY <1>2, OnlyWrites
  <2> QED
    BY <1>a, <2>1 DEF Whole, vars, locals, appender, disk, Inodes
<1>3. CASE ~WriteSome(t) /\ pc[t] # "write"
  <2>1. NothingWritten
    BY <1>3, <1>a, <1>b, OnlyWriteWrites DEF IInv
  <2> SUFFICES ASSUME NEW i \in Inodes', NEW a \in 1..Len(runs'[i])
               PROVE  runs'[i][a].bytes = runs'[i][a].len
    BY DEF Whole
  <2>2. CASE i \in Inodes
    BY <1>3, <1>a, <2>1, <2>2 DEF NothingWritten, Whole
  <2>3. CASE i \notin Inodes
    <3>1. runs'[i] = << >>
      BY <2>1, <2>3 DEF NothingWritten
    <3> QED
      BY <3>1
  <2> QED
    BY <2>2, <2>3
<1> QED
  BY <1>1, <1>2, <1>3

\* The log is open whenever it is to be written, and rolled over only when the
\* message does not fit.
LEMMA NextTurnInv ==
  ASSUME NEW t, Alone(t)
  PROVE  TurnInv(t) /\ [Next]_vars => TurnInv(t)'
<1> SUFFICES ASSUME TurnInv(t), [Next]_vars PROVE TurnInv(t)'
  OBVIOUS
<1>1. QuietInv(t)'
  BY NextQuietInv DEF TurnInv, Alone
<1>2. RecordInv' /\ FilesizeAccurate' /\ SizeInv'
  BY NextRecordInv, NextFilesizeAccurate, NextSizeInv DEF TurnInv, QuietInv
<1>3. Whole(t)'
  BY NextWhole
<1> DEFINE Goal == /\ ~stdinFree'
                   /\ pc'[t] \in {"check", "rename", "close", "write"} => fd' # NONE
                   /\ pc'[t] = "rename" => NeedRollover(msg[t].len)'
                   /\ pc'[t] \in BeforeWrite => msg'[t].len \in MsgLens
<1> SUFFICES Goal
  BY <1>1, <1>2, <1>3 DEF TurnInv, TurnsOK
<1>a. /\ t \in Threads /\ Threads = {t} /\ ~Fault /\ ~Crash /\ NONE \notin Nat
      /\ pc \in [Threads -> Locked \union Unlocked]
      /\ msg \in [Threads -> Message] /\ Len(size) \in Nat
      /\ pc[t] \in Locked <=> lock = t
      /\ t # NONE
  BY NoFault, NoneAssumption
<1>b. /\ ~stdinFree
      /\ pc[t] \in {"check", "rename", "close", "write"} => fd # NONE
      /\ pc[t] = "rename" => NeedRollover(msg[t].len)
      /\ pc[t] \in BeforeWrite => msg[t].len \in MsgLens
  BY DEF TurnInv, TurnsOK
<1>c. ASSUME OpenAppender PROVE fd' = log' /\ fd' # NONE /\ ~stdinFree'
  <2>1. CreateIfMissing /\ fd' = log' /\ stdinFree' = stdinFree
    BY <1>a, <1>b, <1>c DEF OpenAppender
  <2>2. log' # NONE
    BY <1>a, <2>1 DEF CreateIfMissing
  <2> QED
    BY <1>b, <2>1, <2>2
<1> HIDE DEF TurnInv, Alone, Fault, Crash
<1> USE DEF Goto, Locked, BeforeWrite, NeedRollover, locals, appender, disk, bounds
<1>4. CASE Format(t)
  <2>1. pc'[t] = "lock" /\ stdinFree' = stdinFree
    BY <1>a, <1>4 DEF Format
  <2>2. PICK len \in MsgLens : msg' = [msg EXCEPT ![t] = [n |-> sent[t] + 1, len |-> len]]
    BY <1>4 DEF Format
  <2>3. msg'[t].len \in MsgLens
    BY <1>a, <2>2
  <2> QED
    BY <1>b, <2>1, <2>3
<1>5. CASE LockAppender(t)
  BY <1>a, <1>b, <1>5 DEF LockAppender
<1>6. CASE OpenIfClosed(t)
  <2>1. pc[t] = "open" /\ pc'[t] = "check" /\ msg' = msg
    BY <1>a, <1>6 DEF OpenIfClosed
  <2>2. fd' # NONE /\ ~stdinFree'
    BY <1>b, <1>c, <1>6 DEF OpenIfClosed, IsOpen
  <2> QED
    BY <1>b, <2>1, <2>2
<1>7. CASE CheckRollover(t)
  <2>1. /\ pc[t] = "check" /\ pc'[t] = IF NeedRollover(msg[t].len) THEN "rename" ELSE "write"
        /\ UNCHANGED <<msg, appender, stdinFree>>
    BY <1>a, <1>7 DEF CheckRollover
  <2> QED
    BY <1>b, <2>1
<1>8. CASE WriteSome(t)
  <2>1. /\ pc[t] = "write" /\ pc'[t] \in {"write", "unlock"}
        /\ UNCHANGED <<msg, fd, stdinFree>>
    BY <1>a, <1>8 DEF WriteSome
  <2> QED
    BY <1>b, <2>1
<1>9. CASE ~WriteSome(t) /\ pc[t] = "write"
  <2>1. UNCHANGED vars
    BY <1>9, OnlyWrites
  <2> QED
    BY <1>b, <2>1 DEF vars
<1>10. CASE UnlockAppender(t)
  <2>1. pc'[t] \in {"remove", "idle"} /\ UNCHANGED stdinFree
    BY <1>a, <1>10 DEF UnlockAppender
  <2> QED
    BY <1>b, <2>1
<1>11. CASE RenameLog(t)
  BY <1>a, <1>b, <1>11 DEF RenameLog
<1>12. CASE CloseLog(t)
  BY <1>a, <1>b, <1>12 DEF CloseLog
<1>13. CASE ReopenLog(t)
  <2>1. pc[t] = "reopen" /\ pc'[t] = "write" /\ msg' = msg
    BY <1>a, <1>13 DEF ReopenLog
  <2>2. fd' # NONE /\ ~stdinFree'
    BY <1>c, <1>13 DEF ReopenLog
  <2> QED
    BY <1>b, <2>1, <2>2
<1>14. CASE RemoveLast(t) \/ ShiftBackup(t)
  <2>1. pc'[t] \in {"shift", "idle"} /\ UNCHANGED stdinFree
    BY <1>a, <1>14 DEF RemoveLast, ShiftBackup, ContinueShift
  <2> QED
    BY <1>b, <2>1
<1>15. CASE Reconfigure
  <2>1. pc' = pc /\ pc[t] \notin Locked /\ msg' = msg /\ UNCHANGED stdinFree
    BY <1>a, <1>15 DEF Reconfigure
  <2> QED
    BY <1>b, <2>1
<1>16. CASE UNCHANGED vars
  BY <1>b, <1>16 DEF vars
<1>17. pc[t] # "write" => ~WriteFails(t) /\ ~SkipWrite(t)
  BY DEF WriteFails, SkipWrite
<1> HIDE DEF Goal
<1> QED
  BY <1>a, <1>4, <1>5, <1>6, <1>7, <1>8, <1>9, <1>10, <1>11, <1>12, <1>13, <1>14, <1>15, <1>16,
     <1>17 DEF Next, Work

\* The invariant holds before the first message.
LEMMA InitTurnInv ==
  ASSUME NEW t, Alone(t)
  PROVE  Init => TurnInv(t)
<1> SUFFICES ASSUME Init PROVE TurnInv(t)
  OBVIOUS
<1>1. QuietInv(t)
  BY InitQuietInv DEF Alone
<1>2. RecordInv /\ SizeInv /\ FilesizeAccurate
  BY InitRecordInv, InitSizeInv DEF Init, FilesizeAccurate
<1>3. t \in Threads
  BY DEF Alone, OneThread
<1>4. TurnsOK(t)
  BY <1>3 DEF Init, TurnsOK, Whole, BeforeWrite, Inodes, Alone
<1> QED
  BY <1>1, <1>2, <1>4 DEF TurnInv

-----------------------------------------------------------------------------
(* The files as the rotating log has them *)

Logs == [by : Threads, n : Nat, len : Nat]
Contents == [messages : Seq(Logs), bytes : Nat]

\* The messages of records.
LEMMA MessagesType ==
  ASSUME NEW records \in Seq(Run), NEW n \in Nat, n <= Len(records)
  PROVE  /\ Messages(records, n) \in Seq(Logs)
         /\ Len(Messages(records, n)) = n
         /\ n = 0 => Messages(records, n) = << >>
<1>1. \A a \in 1..n : records[a] \in Run
  BY ElementOfSeq
<1>2. \A a \in 1..n : [by |-> records[a].by, n |-> records[a].n, len |-> records[a].len] \in Logs
  BY <1>1 DEF Run, Logs
<1>3. Messages(records, n) \in [1..n -> Logs]
  BY <1>2 DEF Messages
<1>4. Messages(records, n) \in Seq(Logs)
  BY <1>3, IsASeq
<1>5. Len(Messages(records, n)) = n
  BY <1>3, <1>4, LenProperties
<1>6. n = 0 => Messages(records, n) = << >>
  BY <1>4, <1>5, EmptySeq
<1> QED
  BY <1>4, <1>5, <1>6

\* A file that nobody is writing shows all of its records.
LEMMA FinishedWhole ==
  ASSUME NEW records \in Seq(Run), NEW bytes,
         \A a \in 1..Len(records) : records[a].bytes = records[a].len
  PROVE  Finished(records, bytes) = [messages |-> Messages(records, Len(records)), bytes |-> bytes]
<1>1. Len(records) > 0 => records[Len(records)] \in Run /\ Len(records) \in 1..Len(records)
  BY ElementOfSeq
<1>2. Len(records) > 0 => ~(records[Len(records)].bytes < records[Len(records)].len)
  BY <1>1 DEF Run
<1> QED
  BY <1>2 DEF Finished

\* A file without its unfinished record has the messages before that one.
LEMMA FileAt ==
  ASSUME NEW t, Alone(t), TurnInv(t), [Next]_vars, NEW i \in Inodes
  PROVE  LET cut == pc[t] = "write" /\ written[t] > 0 /\ i = fd
             n == IF cut THEN Len(runs[i]) - 1 ELSE Len(runs[i])
             b == IF cut THEN size[i] - written[t] ELSE size[i]
         IN  /\ runs[i] \in Seq(Run) /\ Len(runs[i]) \in Nat /\ size[i] \in Nat
             /\ cut => Len(runs[i]) > 0
             /\ n \in Nat /\ b \in Nat
             /\ File(i) = [messages |-> Messages(runs[i], n), bytes |-> b]
<1> DEFINE cut == pc[t] = "write" /\ written[t] > 0 /\ i = fd
           n == IF cut THEN Len(runs[i]) - 1 ELSE Len(runs[i])
           b == IF cut THEN size[i] - written[t] ELSE size[i]
<1>a. /\ runs \in Seq(Seq(Run)) /\ size \in Seq(Nat) /\ Len(runs) = Len(size)
      /\ t \in Threads /\ (pc[t] \in Locked <=> lock = t) /\ t # NONE /\ NONE \notin Inodes
      /\ written \in [Threads -> Nat] /\ msg \in [Threads -> Message]
  BY NoFault
<1>1. runs[i] \in Seq(Run) /\ size[i] \in Nat
  BY <1>a, ElementOfSeq DEF Inodes
<1>2. Len(runs[i]) \in Nat
  BY <1>1
<1>3. Whole(t) /\ Writing(t) /\ FilesizeAccurate
  BY <1>a DEF TurnInv, TurnsOK, RecordInv
<1> HIDE DEF TurnInv, Alone
<1>4. CASE cut
  <2>1. /\ Len(runs[i]) > 0
        /\ runs[i][Len(runs[i])] = [by |-> t, n |-> sent[t], len |-> msg[t].len, bytes |-> written[t]]
    BY <1>3, <1>4 DEF Writing
  <2>2. written[t] < msg[t].len
    BY <1>a, <1>4 DEF TurnInv, QuietInv, IInv, LocalsOK
  <2>3. size[i] = filesize + written[t]
    <3>1. size[i] = filesize + unmeasured + written[t] /\ filesize \in Nat
      BY <1>3, <1>4, <1>a DEF FilesizeAccurate, Locked, TurnInv, QuietInv, IInv, TypeOK
    <3>2. unmeasured = 0
      BY DEF TurnInv, QuietInv, SizeInv, Measured
    <3> QED
      BY <3>1, <3>2
  <2>4. filesize \in Nat /\ written[t] \in Nat
    BY <1>a DEF TurnInv, QuietInv, IInv, TypeOK
  <2>5. n \in Nat /\ b \in Nat
    BY <1>1, <1>2, <1>4, <2>1, <2>3, <2>4
  <2>6. File(i) = [messages |-> Messages(runs[i], n), bytes |-> b]
    BY <1>4, <2>1, <2>2 DEF File, Finished
  <2> QED
    BY <1>1, <1>2, <1>4, <2>1, <2>5, <2>6
<1>5. CASE ~cut
  <2>1. \A a \in 1..Len(runs[i]) : runs[i][a].bytes = runs[i][a].len
    BY <1>3, <1>5 DEF Whole
  <2>2. File(i) = [messages |-> Messages(runs[i], Len(runs[i])), bytes |-> size[i]]
    BY <1>1, <2>1, FinishedWhole DEF File
  <2> QED
    BY <1>1, <1>2, <1>5, <2>2
<1> QED
  BY <1>4, <1>5

\* Every file has contents, so that none of them passes for a missing file.
LEMMA FileType ==
  ASSUME NEW t, Alone(t), TurnInv(t), [Next]_vars, NEW i \in Inodes
  PROVE  File(i) \in Contents /\ File(i) # NoFile
<1>1. PICK n \in Nat, b \in Nat :
        /\ runs[i] \in Seq(Run) /\ n <= Len(runs[i])
        /\ File(i) = [messages |-> Messages(runs[i], n), bytes |-> b]
  <2> DEFINE cut == pc[t] = "write" /\ written[t] > 0 /\ i = fd
             n == IF cut THEN Len(runs[i]) - 1 ELSE Len(runs[i])
             b == IF cut THEN size[i] - written[t] ELSE size[i]
  <2>1. /\ runs[i] \in Seq(Run) /\ Len(runs[i]) \in Nat
        /\ n \in Nat /\ b \in Nat
        /\ File(i) = [messages |-> Messages(runs[i], n), bytes |-> b]
    BY FileAt
  <2>2. n <= Len(runs[i])
    BY <2>1
  <2> HIDE DEF n, b
  <2> QED
    BY <2>1, <2>2
<1>2. Messages(runs[i], n) \in Seq(Logs)
  BY <1>1, MessagesType
<1>3. File(i) \in Contents
  BY <1>1, <1>2 DEF Contents
<1> QED
  BY <1>3, NoFileAssumption DEF Contents, Logs

\* The message of one more record.
LEMMA MessagesAppend ==
  ASSUME NEW records \in Seq(Run), NEW n \in Nat, n + 1 <= Len(records)
  PROVE  LET r == records[n + 1] IN
         Messages(records, n + 1) = Append(Messages(records, n), [by |-> r.by, n |-> r.n, len |-> r.len])
<1> DEFINE m == [by |-> records[n + 1].by, n |-> records[n + 1].n, len |-> records[n + 1].len]
           s == Messages(records, n)
           u == Messages(records, n + 1)
<1>1. s \in Seq(Logs) /\ Len(s) = n /\ u \in Seq(Logs) /\ Len(u) = n + 1
  <2>1. n <= Len(records) /\ n + 1 \in Nat
    OBVIOUS
  <2> QED
    BY <2>1, MessagesType
<1>2. m \in Logs
  <2>1. records[n + 1] \in Run
    BY ElementOfSeq
  <2> QED
    BY <2>1 DEF Run, Logs
<1>3. u[n + 1] = m /\ \A a \in 1..n : u[a] = s[a]
  BY DEF Messages
<1> HIDE DEF m, s, u
<1>4. /\ Append(s, m) \in Seq(Logs) /\ Len(Append(s, m)) = n + 1
      /\ \A a \in 1..n : Append(s, m)[a] = s[a]
      /\ Append(s, m)[n + 1] = m
  BY <1>1, <1>2, AppendProperties
<1>5. \A a \in 1..(n + 1) : u[a] = Append(s, m)[a]
  BY <1>3, <1>4
<1>6. u = Append(s, m)
  BY <1>1, <1>4, <1>5, SeqEqual
<1> QED
  BY <1>6 DEF u, s, m

\* A write that is not the last one of its message shows nothing; the last one
\* shows the message, which fits or is the first of its file.
LEMMA WriteShows ==
  ASSUME NEW t, Alone(t), TurnInv(t), [Next]_vars, WriteSome(t)
  PROVE  LET m == [by |-> t, n |-> sent[t], len |-> msg[t].len] IN
         /\ fd \in Inodes
         /\ \A i \in Inodes \ {fd} : File(i)' = File(i)
         /\ \/ pc' = pc /\ File(fd)' = File(fd)
            \/ /\ pc' = [pc EXCEPT ![t] = "unlock"]
               /\ File(fd)' = [messages |-> Append(File(fd).messages, m),
                               bytes |-> File(fd).bytes + msg[t].len]
               /\ \/ File(fd).messages = << >>
                  \/ MaxFileSize = 0
                  \/ File(fd).bytes + msg[t].len <= MaxFileSize
<1> DEFINE len == msg[t].len
           m == [by |-> t, n |-> sent[t], len |-> len]
           old == runs[fd]
           new == runs'[fd]
           w == written[t]
           p == Len(new) - 1
<1>a. /\ t \in Threads /\ written \in [Threads -> Nat] /\ msg \in [Threads -> Message]
      /\ faults = 0
  BY NoFault
<1>b. IInv /\ RecordInv /\ Fits(t)
  BY <1>a DEF TurnInv, QuietInv, SizeInv
<1>c. pc[t] = "write" /\ w < len /\ w \in Nat /\ len \in Nat
  <2>1. pc[t] = "write"
    BY DEF WriteSome
  <2>2. w \in Nat /\ len \in Nat
    BY <1>a DEF Message
  <2> QED
    BY <1>a, <1>b, <2>1, <2>2 DEF IInv, LocalsOK
<1>1. PICK k \in 1..(len - w) :
         /\ fd \in Inodes
         /\ \A i \in Inodes \ {fd} : runs'[i] = runs[i] /\ size'[i] = size[i]
         /\ size'[fd] = size[fd] + k
         /\ Len(new) = IF w = 0 THEN Len(old) + 1 ELSE Len(old)
         /\ Len(new) > 0
         /\ new[Len(new)] = [by |-> t, n |-> sent[t], len |-> len, bytes |-> w + k]
         /\ \A a \in 1..(Len(new) - 1) : a \in 1..Len(old) /\ new[a] = old[a]
         /\ pc' = IF w + k = len THEN [pc EXCEPT ![t] = "unlock"] ELSE pc
  BY <1>a, <1>b, WriteSomeEffect
<1>2. \A i \in Inodes \ {fd} : File(i)' = File(i)
  BY <1>1 DEF File
<1>3. new \in Seq(Run)
  <2>1. runs' \in Seq(Seq(Run)) /\ Len(runs') = Len(size')
    BY <1>b, NextIInv DEF IInv, TypeOK
  <2>2. Inodes' = Inodes
    BY <1>a, <1>b, WriteSomeEffect
  <2>3. fd \in 1..Len(runs')
    BY <1>1, <2>1, <2>2 DEF Inodes
  <2> QED
    BY <2>1, <2>3, ElementOfSeq
<1>4. /\ old \in Seq(Run) /\ Len(old) \in Nat /\ size[fd] \in Nat /\ p \in Nat
      /\ File(fd) = [messages |-> Messages(old, p), bytes |-> size[fd] - w]
      /\ size[fd] - w \in Nat
  <2> DEFINE cut == pc[t] = "write" /\ written[t] > 0 /\ fd = fd
             n == IF cut THEN Len(runs[fd]) - 1 ELSE Len(runs[fd])
             b == IF cut THEN size[fd] - written[t] ELSE size[fd]
  <2>1. /\ runs[fd] \in Seq(Run) /\ Len(runs[fd]) \in Nat /\ size[fd] \in Nat
        /\ n \in Nat /\ b \in Nat
        /\ File(fd) = [messages |-> Messages(runs[fd], n), bytes |-> b]
    BY <1>1, FileAt
  <2>2. n = p /\ b = size[fd] - w
    BY <1>1, <1>c, <2>1
  <2> HIDE DEF n, b, p
  <2> QED
    BY <2>1, <2>2
<1>5. Messages(new, p) = Messages(old, p)
  <2>1. \A a \in 1..p : new[a] = old[a]
    BY <1>1
  <2> QED
    BY <2>1 DEF Messages
<1>d. fd' = fd
  BY DEF WriteSome
<1> HIDE DEF new, old, w, len
<1>e. k \in Nat /\ size[fd] \in Nat /\ Len(old) \in Nat
  BY <1>1, <1>4, <1>c
<1>6. CASE w + k < len
  <2>1. pc' = pc
    <3>1. w + k # len
      BY <1>6, <1>c, <1>e
    <3> QED
      BY <1>1, <3>1
  <2>2. File(fd)' = Finished(new, size[fd] + k)
    BY <1>1, <1>d DEF File, new
  <2>3. Finished(new, size[fd] + k) = [messages |-> Messages(new, p), bytes |-> (size[fd] + k) - (w + k)]
    BY <1>1, <1>6 DEF Finished
  <2>4. (size[fd] + k) - (w + k) = size[fd] - w
    BY <1>4, <1>c
  <2>5. File(fd)' = File(fd)
    BY <1>4, <1>5, <2>2, <2>3, <2>4
  <2> QED
    BY <1>1, <1>2, <2>1, <2>5
<1>7. CASE w + k = len
  <2>1. pc' = [pc EXCEPT ![t] = "unlock"]
    BY <1>1, <1>7
  <2>2. File(fd)' = Finished(new, size[fd] + k)
    BY <1>1, <1>d DEF File, new
  <2>3. ~(new[Len(new)].bytes < new[Len(new)].len)
    BY <1>1, <1>7, <1>c
  <2>4. Finished(new, size[fd] + k) = [messages |-> Messages(new, Len(new)), bytes |-> size[fd] + k]
    BY <2>3 DEF Finished
  <2>5. Messages(new, Len(new)) = Append(Messages(old, p), m)
    <3>1. Len(new) \in Nat /\ Len(new) = p + 1
      BY <1>3, <1>4
    <3>2. /\ new[p + 1].by = t /\ new[p + 1].n = sent[t] /\ new[p + 1].len = len
      BY <1>1, <3>1
    <3> QED
      BY <1>3, <1>4, <1>5, <3>1, <3>2, MessagesAppend
  <2>6. size[fd] + k = (size[fd] - w) + len
    BY <1>7, <1>c, <1>e
  <2>7. File(fd).messages = Messages(old, p) /\ File(fd).bytes = size[fd] - w
    BY <1>4
  <2>8. File(fd)' = [messages |-> Append(File(fd).messages, m), bytes |-> File(fd).bytes + len]
    BY <2>2, <2>4, <2>5, <2>6, <2>7
  <2>9. Messages(old, p) = << >> \/ MaxFileSize = 0 \/ (size[fd] - w) + len <= MaxFileSize
    <3>1. CASE MaxFileSize = 0
      BY <3>1
    <3>2. CASE MaxFileSize > 0
      <4>1. fd # NONE
        BY <1>1, NoFault
      <4>2. size[fd] + (len - w) <= MaxFileSize \/ Len(old) = IF w = 0 THEN 0 ELSE 1
        BY <1>a, <1>b, <1>c, <3>2, <4>1 DEF Fits, w, len, old
      <4>3. CASE size[fd] + (len - w) <= MaxFileSize
        BY <1>4, <1>c, <4>3
      <4>4. CASE Len(old) = IF w = 0 THEN 0 ELSE 1
        <5>1. p = 0
          <6>1. Len(new) = IF w = 0 THEN Len(old) + 1 ELSE Len(old)
            BY <1>1
          <6> QED
            BY <1>e, <4>4, <6>1
        <5>2. old \in Seq(Run) /\ 0 \in Nat /\ 0 <= Len(old)
          BY <1>4, <1>e
        <5> HIDE DEF p
        <5>3. Messages(old, 0) = << >>
          BY <5>2, MessagesType
        <5> QED
          BY <5>1, <5>3
      <4> QED
        BY <4>2, <4>3, <4>4
    <3> QED
      BY <3>1, <3>2, MaxFileSizeAssumption
  <2> QED
    BY <1>1, <1>2, <2>1, <2>7, <2>8, <2>9 DEF len
<1>8. w + k < len \/ w + k = len
  BY <1>c
<1> QED
  BY <1>6, <1>7, <1>8

-----------------------------------------------------------------------------
(* The generations *)

\* The generations are the files of the existing indexes, in their order.
LEMMA GenerationsAt ==
  ASSUME NEW t, Alone(t), TurnInv(t), [Next]_vars
  PROVE  LET n == Cardinality(Existing)
             e == InOrder(Existing)
         IN  /\ Existing \in SUBSET Nat /\ n \in Nat /\ Enumerates(n, e, Existing)
             /\ \A k \in 1..n : e[k] \in Indexes /\ backup[e[k]] \in Inodes
             /\ Generations = [k \in 1..n |-> File(backup[e[k]])]
             /\ Generations \in Seq(Contents) /\ Len(Generations) = n
<1> DEFINE n == Cardinality(Existing)
           e == InOrder(Existing)
<1>1. Existing \in SUBSET Nat /\ IsFiniteSet(Existing)
  <2>1. Indexes \in SUBSET Nat /\ IsFiniteSet(Indexes)
    BY MaxBackupIndexAssumption, FS_Interval DEF Indexes
  <2>2. Existing \in SUBSET Indexes
    BY DEF Existing
  <2>3. IsFiniteSet(Existing)
    BY <2>1, <2>2, FS_Subset
  <2> QED
    BY <2>1, <2>2, <2>3
<1>2. n \in Nat /\ Enumerates(n, e, Existing)
  BY <1>1, FS_CardinalityType, InOrderEnumerates
<1>3. \A i \in Indexes : backup[i] # NONE => backup[i] \in Inodes
  BY NoFault DEF OrNone
<1>4. ASSUME NEW k \in 1..n PROVE e[k] \in Indexes /\ backup[e[k]] \in Inodes
  <2>1. e[k] \in Existing
    BY <1>2 DEF Enumerates
  <2> QED
    BY <2>1, <1>3 DEF Existing
<1>5. Generations = [k \in 1..n |-> File(backup[e[k]])]
  BY DEF Generations
<1> HIDE DEF n, e
<1>6. \A k \in 1..n : File(backup[e[k]]) \in Contents
  BY <1>4, FileType
<1>7. Generations \in [1..n -> Contents]
  BY <1>5, <1>6
<1>8. Generations \in Seq(Contents)
  BY <1>2, <1>7, IsASeq
<1>9. Len(Generations) = n
  BY <1>2, <1>7, <1>8, LenProperties
<1> QED
  BY <1>1, <1>2, <1>4, <1>5, <1>8, <1>9 DEF n, e

\* An enumeration of the indexes that exist after a step gives the generations
\* after it.
LEMMA GenerationsNext ==
  ASSUME Existing' \in SUBSET Nat, NEW n \in Nat, NEW e, Enumerates(n, e, Existing')
  PROVE  Generations' = [k \in 1..n |-> Finished(runs'[backup'[e[k]]], size'[backup'[e[k]]])]
<1>1. Cardinality(Existing') = n /\ InOrder(Existing') = e
  BY InOrderIs
<1> QED
  BY <1>1 DEF Generations, File

\* No file changes in what it shows.
Shown == \A i \in Inodes : Finished(runs'[i], size'[i]) = File(i)

\* The generations stay when the backups keep their names and contents.
LEMMA GenerationsStay ==
  ASSUME NEW t, Alone(t), TurnInv(t), [Next]_vars, backup' = backup,
         \A i \in Indexes : backup[i] # NONE => Finished(runs'[backup[i]], size'[backup[i]]) = File(backup[i])
  PROVE  Generations' = Generations
<1> DEFINE n == Cardinality(Existing)
           e == InOrder(Existing)
<1>1. /\ Existing \in SUBSET Nat /\ n \in Nat /\ Enumerates(n, e, Existing)
      /\ Generations = [k \in 1..n |-> File(backup[e[k]])]
      /\ \A k \in 1..n : e[k] \in Indexes /\ backup[e[k]] \in Inodes
  BY GenerationsAt
<1>2. Existing' = Existing
  BY DEF Existing
<1> HIDE DEF n, e
<1>3. Generations' = [k \in 1..n |-> Finished(runs'[backup'[e[k]]], size'[backup'[e[k]]])]
  BY <1>1, <1>2, GenerationsNext
<1>4. NONE \notin Inodes
  BY NoFault
<1>5. \A k \in 1..n : Finished(runs'[backup'[e[k]]], size'[backup'[e[k]]]) = File(backup[e[k]])
  BY <1>1, <1>4
<1> QED
  BY <1>1, <1>3, <1>5

\* What is written nowhere changes no file.
LEMMA NothingShown ==
  ASSUME NothingWritten
  PROVE  Shown /\ \A i \in Inodes' \ Inodes : Finished(runs'[i], size'[i]) = Abstract!NewFile
<1>1. Shown
  BY DEF NothingWritten, Shown, File
<1>2. Finished(<< >>, 0) = [messages |-> << >>, bytes |-> 0]
  BY DEF Finished, Messages
<1> QED
  BY <1>1, <1>2 DEF NothingWritten, Abstract!NewFile

\* A step that writes nothing and moves no file changes nothing in the rotating
\* log, if it does not end a message.
LEMMA Stutters ==
  ASSUME NEW t, Alone(t), TurnInv(t), [Next]_vars, NothingWritten,
         log' = log, backup' = backup, Logged' = Logged
  PROVE  UNCHANGED Abstract!vars
<1>1. Shown
  BY NothingShown
<1>2. LogFile' = LogFile
  <2>1. log # NONE => log \in Inodes
    BY NoFault DEF OrNone
  <2> QED
    BY <1>1, <2>1 DEF LogFile, File, Shown
<1>3. Generations' = Generations
  <2>1. \A i \in Indexes : backup[i] # NONE => backup[i] \in Inodes
    BY NoFault DEF OrNone
  <2>2. \A i \in Indexes : backup[i] # NONE => Finished(runs'[backup[i]], size'[backup[i]]) = File(backup[i])
    BY <1>1, <2>1 DEF Shown
  <2> QED
    BY <2>2, GenerationsStay
<1> QED
  BY <1>2, <1>3 DEF Abstract!vars

\* A step that opens the log creates it if it does not exist.
LEMMA OpenShows ==
  ASSUME NEW t, Alone(t), TurnInv(t), [Next]_vars, NothingWritten,
         CreateIfMissing, backup' = backup, Logged' = Logged
  PROVE  Abstract!Create \/ UNCHANGED Abstract!vars
<1>1. CASE log # NONE
  BY <1>1, Stutters DEF CreateIfMissing
<1>2. CASE log = NONE
  <2>1. /\ log' \in Inodes' \ Inodes /\ log' # NONE
    <3>1. /\ log' = Len(size) + 1 /\ size' = Append(size, 0) /\ size \in Seq(Nat)
          /\ Len(size) \in Nat /\ NONE \notin Nat
      BY <1>2, NoFault, NoneAssumption DEF CreateIfMissing
    <3>2. Len(size') = Len(size) + 1
      BY <3>1, AppendProperties
    <3> QED
      BY <3>1, <3>2 DEF Inodes
  <2>2. LogFile = NoFile /\ LogFile' = Abstract!NewFile
    BY <1>2, <2>1, NothingShown DEF LogFile, File
  <2>3. Generations' = Generations
    <3>1. Shown
      BY NothingShown
    <3>2. \A i \in Indexes : backup[i] # NONE => backup[i] \in Inodes
      BY NoFault DEF OrNone
    <3>3. \A i \in Indexes : backup[i] # NONE => Finished(runs'[backup[i]], size'[backup[i]]) = File(backup[i])
      BY <3>1, <3>2 DEF Shown
    <3> QED
      BY <3>3, GenerationsStay
  <2> QED
    BY <2>2, <2>3 DEF Abstract!Create, Abstract!NewFile
<1> QED
  BY <1>1, <1>2

\* The rename of the live file is the rotation.
LEMMA RenameShows ==
  ASSUME NEW t, Alone(t), TurnInv(t), [Next]_vars, NothingWritten, RenameLog(t), Logged' = Logged
  PROVE  Abstract!Rotate
<1> DEFINE n == Cardinality(Existing)
           e == InOrder(Existing)
           f == [k \in 1..(n + 1) |-> IF k = 1 THEN 0 ELSE e[k - 1]]
<1>a. /\ t \in Threads /\ lock = t /\ t # NONE /\ NONE \notin Inodes
      /\ backup \in [Indexes -> OrNone(Inodes)] /\ log \in OrNone(Inodes) /\ fd \in OrNone(Inodes)
      /\ pc[t] = "rename"
  <2>1. pc[t] = "rename"
    BY DEF RenameLog, Goto
  <2> QED
    BY <2>1, NoFault DEF Locked
<1>b. log # NONE /\ fd # NONE /\ backup[0] = NONE /\ NeedRollover(msg[t].len) /\ msg[t].len \in MsgLens
  BY <1>a DEF TurnInv, TurnsOK, QuietInv, LiveFile, NoGaps, MidRollover, Hole, BeforeWrite
<1>c. backup' = [backup EXCEPT ![0] = log] /\ log' = NONE
  BY <1>b, NoFault DEF RenameLog
<1>d. 0 \in Indexes /\ \A i \in Indexes : i \in Nat /\ i <= MaxBackupIndex
  BY MaxBackupIndexAssumption DEF Indexes
<1>e. /\ Existing \in SUBSET Nat /\ n \in Nat /\ Enumerates(n, e, Existing)
      /\ \A k \in 1..n : e[k] \in Indexes /\ backup[e[k]] \in Inodes
      /\ Generations = [k \in 1..n |-> File(backup[e[k]])]
      /\ Generations \in Seq(Contents) /\ Len(Generations) = n
  BY GenerationsAt
<1>f. /\ \A i \in Inodes : Finished(runs'[i], size'[i]) = File(i)
      /\ log \in Inodes /\ File(log) \in Contents /\ File(log) # NoFile
  <2>1. log \in Inodes
    BY <1>a, <1>b DEF OrNone
  <2> QED
    BY <2>1, NothingShown, FileType DEF Shown
<1> HIDE DEF n, e
<1>1. \A i \in Indexes : backup'[i] = IF i = 0 THEN log ELSE backup[i]
  BY <1>a, <1>c, <1>d
<1>2. Existing' = Existing \union {0} /\ \A i \in Existing : 0 < i
  <2>1. 0 \notin Existing
    BY <1>b DEF Existing
  <2>2. Existing' = Existing \union {0}
    BY <1>1, <1>b, <1>d DEF Existing
  <2>3. \A i \in Existing : i \in Nat
    BY <1>e
  <2>4. \A i \in Existing : 0 < i
    BY <2>1, <2>3
  <2> QED
    BY <2>2, <2>4
<1>3. Enumerates(n + 1, f, Existing') /\ n + 1 \in Nat /\ Existing' \in SUBSET Nat
  <2>1. Enumerates(n + 1, f, Existing \union {0})
    BY <1>2, <1>e, EnumerateMore
  <2> QED
    BY <1>2, <1>e, <2>1
<1>4. \A k \in 1..(n + 1) : f[k] = (IF k = 1 THEN 0 ELSE e[k - 1]) /\ (k # 1 => k - 1 \in 1..n)
  BY <1>e
<1> HIDE DEF f
<1>5. Generations' = [k \in 1..(n + 1) |-> Finished(runs'[backup'[f[k]]], size'[backup'[f[k]]])]
  BY <1>3, GenerationsNext
<1>6. \A k \in 1..(n + 1) :
        Finished(runs'[backup'[f[k]]], size'[backup'[f[k]]]) = IF k = 1 THEN File(log) ELSE Generations[k - 1]
  <2> SUFFICES ASSUME NEW k \in 1..(n + 1)
               PROVE  Finished(runs'[backup'[f[k]]], size'[backup'[f[k]]])
                        = IF k = 1 THEN File(log) ELSE Generations[k - 1]
    OBVIOUS
  <2>1. CASE k = 1
    <3>1. backup'[f[k]] = log
      BY <1>1, <1>4, <1>d, <2>1
    <3> QED
      BY <3>1, <1>f, <2>1
  <2>2. CASE k # 1
    <3>1. k - 1 \in 1..n /\ f[k] = e[k - 1]
      BY <1>4, <2>2
    <3>2. backup[f[k]] \in Inodes /\ f[k] \in Indexes /\ Generations[k - 1] = File(backup[f[k]])
      BY <1>e, <3>1
    <3>3. backup'[f[k]] = backup[f[k]]
      BY <1>1, <1>a, <1>b, <3>2
    <3> QED
      BY <1>f, <2>2, <3>2, <3>3
  <2> QED
    BY <2>1, <2>2
<1>7. Generations' = <<File(log)>> \o Generations
  <2> DEFINE s == <<File(log)>>
             u == s \o Generations
  <2>1. s \in Seq(Contents) /\ Len(s) = 1 /\ s[1] = File(log)
    BY <1>f
  <2> HIDE DEF s
  <2>9. Generations \in Seq(Contents) /\ Len(Generations) = n
    BY <1>e
  <2>10. /\ u \in Seq(Contents) /\ Len(u) = Len(s) + Len(Generations)
         /\ \A k \in 1..(Len(s) + Len(Generations)) :
              u[k] = IF k <= Len(s) THEN s[k] ELSE Generations[k - Len(s)]
    BY <2>1, <2>9, ConcatProperties
  <2>2. /\ u \in Seq(Contents) /\ Len(u) = 1 + n
        /\ \A k \in 1..(1 + n) : u[k] = IF k <= 1 THEN s[k] ELSE Generations[k - 1]
    BY <2>1, <2>9, <2>10
  <2> HIDE DEF u
  <2>3. \A k \in 1..(n + 1) : Generations'[k] = u[k]
    <3> SUFFICES ASSUME NEW k \in 1..(n + 1) PROVE Generations'[k] = u[k]
      OBVIOUS
    <3>1. Generations'[k] = IF k = 1 THEN File(log) ELSE Generations[k - 1]
      BY <1>5, <1>6
    <3>2. k \in 1..(1 + n) /\ (k <= 1 <=> k = 1)
      BY <1>e
    <3> QED
      BY <2>1, <2>2, <3>1, <3>2
  <2>4. \A k \in 1..(n + 1) : u[k] \in Contents
    BY <2>2, ElementOfSeq, <1>e
  <2>5. Generations' \in [1..(n + 1) -> Contents]
    BY <1>5, <2>3, <2>4
  <2>6. Generations' \in Seq(Contents)
    BY <1>3, <2>5, IsASeq
  <2>7. Len(Generations') = n + 1
    BY <1>3, <2>5, <2>6, LenProperties
  <2>8. Generations' = u
    BY <1>e, <2>2, <2>3, <2>6, <2>7, SeqEqual
  <2> QED
    BY <2>8 DEF u, s
<1>8. Len(Generations) <= MaxBackupIndex
  <2>1. Existing \in SUBSET (1..MaxBackupIndex)
    BY <1>2, <1>d DEF Existing
  <2>2. IsFiniteSet(1..MaxBackupIndex) /\ Cardinality(1..MaxBackupIndex) = MaxBackupIndex
    BY MaxBackupIndexAssumption, FS_Interval
  <2>3. Cardinality(Existing) <= Cardinality(1..MaxBackupIndex)
    BY <2>1, <2>2, FS_Subset
  <2> QED
    BY <1>e, <2>2, <2>3 DEF n
<1>9. ~(MaxFileSize = 0 \/ File(log).bytes + msg[t].len <= MaxFileSize)
  <2>1. File(log).bytes = size[log] /\ size[log] \in Nat
    BY <1>a, <1>f, FileAt
  <2>2. fd = log
    BY <1>b DEF TurnInv, RecordInv, Newest
  <2>3. size[fd] = filesize /\ filesize \in Nat
    <3>1. FilesizeAccurate /\ filesize \in Nat
      BY DEF TurnInv, QuietInv, IInv, TypeOK
    <3>2. unmeasured = 0
      BY DEF TurnInv, QuietInv, SizeInv, Measured
    <3>3. size[fd] = filesize + 0 + 0
      BY <1>a, <1>b, <3>1, <3>2 DEF FilesizeAccurate
    <3> QED
      BY <3>1, <3>3
  <2>4. MaxFileSize > 0 /\ MaxFileSize < filesize + msg[t].len /\ MaxFileSize \in Nat
    BY <1>b, MaxFileSizeAssumption DEF NeedRollover
  <2>5. msg[t].len \in Nat
    BY <1>b, MsgLensAssumption
  <2>6. MaxFileSize # 0 /\ ~(filesize + msg[t].len <= MaxFileSize)
    BY <2>3, <2>4, <2>5
  <2> QED
    BY <2>1, <2>2, <2>3, <2>6
<1>10. LogFile = File(log) /\ LogFile' = NoFile
  BY <1>b, <1>c DEF LogFile
<1> QED
  BY <1>7, <1>8, <1>9, <1>10, <1>b, <1>f DEF Abstract!Rotate, Abstract!Fits

\* The unlink of the last index is the expiry, when there is such a backup.
LEMMA RemoveShows ==
  ASSUME NEW t, Alone(t), TurnInv(t), [Next]_vars, NothingWritten, RemoveLast(t), Logged' = Logged
  PROVE  Abstract!Expire \/ UNCHANGED Abstract!vars
<1> DEFINE n == Cardinality(Existing)
           e == InOrder(Existing)
           f == [k \in 1..(n - 1) |-> e[k]]
           m == MaxBackupIndex
<1>a. /\ backup \in [Indexes -> OrNone(Inodes)] /\ log \in OrNone(Inodes) /\ NONE \notin Inodes
      /\ pc[t] = "remove"
  BY NoFault DEF RemoveLast
<1>b. backup' = [backup EXCEPT ![m] = NONE] /\ log' = log
  BY NoFault DEF RemoveLast
<1>c. m \in Nat /\ m \in Indexes /\ \A i \in Indexes : i \in Nat /\ i <= m
  BY MaxBackupIndexAssumption DEF Indexes
<1>1. CASE backup[m] = NONE
  <2>1. backup' = backup
    BY <1>1, <1>a, <1>b
  <2> QED
    BY <1>b, <2>1, Stutters
<1>2. CASE backup[m] # NONE
  <2>a. /\ Existing \in SUBSET Nat /\ n \in Nat /\ Enumerates(n, e, Existing)
        /\ \A k \in 1..n : e[k] \in Indexes /\ backup[e[k]] \in Inodes
        /\ Generations = [k \in 1..n |-> File(backup[e[k]])]
        /\ Generations \in Seq(Contents) /\ Len(Generations) = n
    BY GenerationsAt
  <2>b. Shown
    BY NothingShown
  <2>1. Existing = Indexes
    <3>1. \A i, j \in Indexes : (i < j /\ backup[j] # NONE) => backup[i] # NONE
      BY <1>a DEF TurnInv, QuietInv, NoGaps, MidRollover
    <3>2. \A i \in Indexes : backup[i] # NONE
      BY <1>2, <1>c, <3>1
    <3> QED
      BY <3>2 DEF Existing
  <2>2. n = m + 1
    <3>1. Cardinality(0..m) = m - 0 + 1
      BY <1>c, FS_Interval
    <3> QED
      BY <1>c, <2>1, <3>1 DEF Indexes
  <2> HIDE DEF n, e, m
  <2>3. \A i \in Indexes : backup'[i] = IF i = m THEN NONE ELSE backup[i]
    BY <1>a, <1>b, <1>c
  <2>4. Existing' = Existing \ {m} /\ m \in Existing /\ \A i \in Existing : i <= m
    <3>1. Existing' = Existing \ {m}
      BY <2>3 DEF Existing
    <3> QED
      BY <3>1, <2>1, <1>c
  <2>5. n > 0 /\ e[n] = m /\ Enumerates(n - 1, f, Existing') /\ n - 1 \in Nat /\ Existing' \in SUBSET Nat
    <3>1. n > 0 /\ e[n] = m /\ Enumerates(n - 1, f, Existing \ {m})
      BY <2>a, <2>4, EnumerateLess
    <3> QED
      BY <2>a, <2>4, <3>1
  <2>6. \A k \in 1..(n - 1) : f[k] = e[k] /\ k \in 1..n
    BY <2>a
  <2> HIDE DEF f
  <2>7. Generations' = [k \in 1..(n - 1) |-> Finished(runs'[backup'[f[k]]], size'[backup'[f[k]]])]
    BY <2>5, GenerationsNext
  <2>8. ASSUME NEW k \in 1..(n - 1)
        PROVE  Finished(runs'[backup'[f[k]]], size'[backup'[f[k]]]) = Generations[k]
    <3>1. f[k] = e[k] /\ k \in 1..n /\ f[k] \in Existing'
      BY <2>5, <2>6 DEF Enumerates
    <3>2. backup'[f[k]] = backup[e[k]]
      BY <2>3, <2>4, <2>1, <3>1
    <3>3. backup[e[k]] \in Inodes /\ Generations[k] = File(backup[e[k]])
      BY <2>a, <3>1
    <3> QED
      BY <2>b, <3>2, <3>3 DEF Shown
  <2> DEFINE s == SubSeq(Generations, 1, n - 1)
  <2>9. s \in Seq(Contents) /\ Len(s) = n - 1 /\ \A k \in 1..(n - 1) : s[k] = Generations[k]
    <3>1. \A k \in 1..(n - 1) : Generations[k] \in Contents
      BY <2>a, <2>6, ElementOfSeq
    <3>2. 1 \in Int /\ n - 1 \in Int
      BY <2>a
    <3>3. /\ s \in Seq(Contents) /\ Len(s) = (IF 1 <= n - 1 THEN (n - 1) - 1 + 1 ELSE 0)
          /\ \A k \in 1..((n - 1) - 1 + 1) : s[k] = Generations[1 + k - 1]
      BY <3>1, <3>2, SubSeqProperties
    <3>4. Len(s) = n - 1 /\ (n - 1) - 1 + 1 = n - 1 /\ \A k \in 1..(n - 1) : 1 + k - 1 = k
      BY <2>a, <2>5, <3>3
    <3> QED
      BY <3>3, <3>4
  <2> HIDE DEF s
  <2>10. Generations' \in [1..(n - 1) -> Contents] /\ \A k \in 1..(n - 1) : Generations'[k] = s[k]
    <3>1. \A k \in 1..(n - 1) : s[k] \in Contents
      BY <2>9, ElementOfSeq
    <3> QED
      BY <2>7, <2>8, <2>9, <3>1
  <2>11. Generations' \in Seq(Contents)
    BY <2>5, <2>10, IsASeq
  <2>12. Len(Generations') = n - 1
    BY <2>5, <2>10, <2>11, LenProperties
  <2>13. Generations' = s
    BY <2>9, <2>10, <2>11, <2>12, SeqEqual
  <2>14. LogFile' = LogFile
    <3>1. log # NONE => log \in Inodes
      BY <1>a DEF OrNone
    <3> QED
      BY <1>b, <2>b, <3>1 DEF LogFile, File, Shown
  <2>15. Len(Generations) = n /\ n > MaxBackupIndex
    BY <1>c, <2>a, <2>2 DEF m
  <2> QED
    BY <2>13, <2>14, <2>15 DEF s, Abstract!Expire
<1> QED
  BY <1>1, <1>2

\* A rename of the shift loop gives a generation another index and changes
\* nothing else.
LEMMA ShiftShows ==
  ASSUME NEW t, Alone(t), TurnInv(t), [Next]_vars, NothingWritten, ShiftBackup(t), Logged' = Logged
  PROVE  UNCHANGED Abstract!vars
<1> DEFINE n == Cardinality(Existing)
           e == InOrder(Existing)
           h == index[t]
           x == h - 1
           f == [k \in 1..n |-> IF e[k] = x THEN x + 1 ELSE e[k]]
<1>a. /\ backup \in [Indexes -> OrNone(Inodes)] /\ log \in OrNone(Inodes) /\ NONE \notin Inodes
      /\ pc[t] = "shift" /\ h \in Indexes /\ h > 0 /\ backup[h] = NONE
  <2>1. pc[t] = "shift"
    BY DEF ShiftBackup
  <2>2. /\ backup \in [Indexes -> OrNone(Inodes)] /\ log \in OrNone(Inodes) /\ NONE \notin Inodes
        /\ t \in Threads /\ h \in Indexes
    BY NoFault
  <2>3. h > 0 /\ backup[h] = NONE
    BY <2>1, <2>2 DEF TurnInv, QuietInv, IInv, LocalsOK, NoGaps, MidRollover, Hole
  <2> QED
    BY <2>1, <2>2, <2>3
<1>b. /\ backup' = (IF backup[x] # NONE THEN [backup EXCEPT ![h] = backup[x], ![x] = NONE] ELSE backup)
      /\ log' = log
  BY NoFault DEF ShiftBackup
<1>c. h \in Nat /\ x \in Indexes /\ x + 1 = h /\ x # h
  BY <1>a, MaxBackupIndexAssumption DEF Indexes
<1>1. CASE backup[x] = NONE
  BY <1>1, <1>b, Stutters
<1>2. CASE backup[x] # NONE
  <2>a. /\ Existing \in SUBSET Nat /\ n \in Nat /\ Enumerates(n, e, Existing)
        /\ \A k \in 1..n : e[k] \in Indexes /\ backup[e[k]] \in Inodes
        /\ Generations = [k \in 1..n |-> File(backup[e[k]])]
    BY GenerationsAt
  <2>b. Shown
    BY NothingShown
  <2> HIDE DEF n, e, h, x
  <2>1. \A i \in Indexes : backup'[i] = IF i = h THEN backup[x] ELSE IF i = x THEN NONE ELSE backup[i]
    BY <1>a, <1>b, <1>c, <1>2
  <2>2. Existing' = (Existing \ {x}) \union {x + 1} /\ x \in Existing /\ x + 1 \notin Existing
    <3>1. Existing' = (Existing \ {x}) \union {h}
      BY <1>a, <1>c, <1>2, <2>1 DEF Existing
    <3>2. x \in Existing /\ h \notin Existing
      BY <1>a, <1>c, <1>2 DEF Existing
    <3> QED
      BY <1>c, <3>1, <3>2
  <2>3. Enumerates(n, f, Existing') /\ Existing' \in SUBSET Nat
    <3>1. Enumerates(n, f, (Existing \ {x}) \union {x + 1})
      BY <2>a, <2>2, EnumerateMoved
    <3>2. Existing' \in SUBSET Nat
      BY <2>a, <2>2, <1>c
    <3> QED
      BY <2>2, <3>1, <3>2
  <2>4. \A k \in 1..n : f[k] = IF e[k] = x THEN h ELSE e[k]
    BY <1>c
  <2> HIDE DEF f
  <2>5. Generations' = [k \in 1..n |-> Finished(runs'[backup'[f[k]]], size'[backup'[f[k]]])]
    BY <2>a, <2>3, GenerationsNext
  <2>6. ASSUME NEW k \in 1..n
        PROVE  Finished(runs'[backup'[f[k]]], size'[backup'[f[k]]]) = File(backup[e[k]])
    <3>1. e[k] \in Indexes /\ backup[e[k]] \in Inodes
      BY <2>a
    <3>2. e[k] # h
      BY <1>a, <3>1
    <3>3. backup'[f[k]] = backup[e[k]]
      <4>1. CASE e[k] = x
        BY <1>a, <2>1, <2>4, <4>1
      <4>2. CASE e[k] # x
        BY <2>1, <2>4, <3>1, <3>2, <4>2
      <4> QED
        BY <4>1, <4>2
    <3> QED
      BY <2>b, <3>1, <3>3 DEF Shown
  <2>7. Generations' = Generations
    BY <2>a, <2>5, <2>6
  <2>8. LogFile' = LogFile
    <3>1. log # NONE => log \in Inodes
      BY <1>a DEF OrNone
    <3> QED
      BY <1>b, <2>b, <3>1 DEF LogFile, File, Shown
  <2> QED
    BY <2>7, <2>8 DEF Abstract!vars
<1> QED
  BY <1>1, <1>2

\* The last write of a message appends it, the ones before it change nothing.
LEMMA WriteAppends ==
  ASSUME NEW t, Alone(t), TurnInv(t), [Next]_vars, WriteSome(t)
  PROVE  \/ msg[t].len \in MsgLens /\ Abstract!Write(t, msg[t].len)
         \/ UNCHANGED Abstract!vars
<1> DEFINE len == msg[t].len
           m == [by |-> t, n |-> sent[t], len |-> len]
<1>a. /\ t \in Threads /\ Threads = {t} /\ NONE \notin Inodes
      /\ backup \in [Indexes -> OrNone(Inodes)] /\ log \in OrNone(Inodes) /\ fd \in OrNone(Inodes)
      /\ pc \in [Threads -> Locked \union Unlocked] /\ sent \in [Threads -> Nat]
  BY NoFault
<1>b. pc[t] = "write" /\ fd # NONE /\ fd' = fd /\ log' = log /\ backup' = backup /\ sent' = sent
  BY DEF WriteSome, IsOpen, bounds
<1>c. log # NONE /\ len \in MsgLens
  BY <1>b DEF TurnInv, TurnsOK, QuietInv, LiveFile, BeforeWrite
<1>d. fd = log /\ log \in Inodes
  <2>1. fd = log
    BY <1>b, <1>c DEF TurnInv, RecordInv, Newest
  <2> QED
    BY <2>1, <1>a, <1>c DEF OrNone
<1>1. /\ \A i \in Inodes \ {fd} : File(i)' = File(i)
      /\ \/ pc' = pc /\ File(fd)' = File(fd)
         \/ /\ pc' = [pc EXCEPT ![t] = "unlock"]
            /\ File(fd)' = [messages |-> Append(File(fd).messages, m), bytes |-> File(fd).bytes + len]
            /\ \/ File(fd).messages = << >>
               \/ MaxFileSize = 0
               \/ File(fd).bytes + len <= MaxFileSize
  BY WriteShows
<1>2. LogFile = File(fd) /\ LogFile' = File(fd)' /\ LogFile # NoFile
  <2>1. File(log) # NoFile
    BY <1>d, FileType
  <2> QED
    BY <1>b, <1>c, <1>d, <2>1 DEF LogFile, File
<1>3. Generations' = Generations
  <2>1. ASSUME NEW i \in Indexes, backup[i] # NONE
        PROVE  Finished(runs'[backup[i]], size'[backup[i]]) = File(backup[i])
    <3>1. backup[i] \in Inodes
      BY <1>a, <2>1 DEF OrNone
    <3>2. backup[i] < log
      BY <1>c, <2>1 DEF TurnInv, QuietInv, BackupsInAgeOrder
    <3>3. backup[i] # fd
      <4>1. log \in Nat
        BY <1>d, NoFault DEF Inodes
      <4> QED
        BY <1>d, <3>2, <4>1
    <3> QED
      BY <1>1, <3>1, <3>3 DEF File
  <2> QED
    BY <1>b, <2>1, GenerationsStay
<1>4. CASE pc' = pc /\ File(fd)' = File(fd)
  <2>1. Logged' = Logged
    BY <1>4, <1>b DEF Logged
  <2> QED
    BY <1>2, <1>3, <1>4, <2>1 DEF Abstract!vars
<1>5. CASE /\ pc' = [pc EXCEPT ![t] = "unlock"]
           /\ File(fd)' = [messages |-> Append(File(fd).messages, m), bytes |-> File(fd).bytes + len]
           /\ \/ File(fd).messages = << >>
              \/ MaxFileSize = 0
              \/ File(fd).bytes + len <= MaxFileSize
  <2>1. Logged[t] = sent[t] - 1 /\ Logged'[t] = sent[t] /\ sent[t] \in Nat
    BY <1>5, <1>a, <1>b DEF Logged, BeforeWrite
  <2>2. Logged' = [Logged EXCEPT ![t] = @ + 1]
    <3>1. Logged'[t] = Logged[t] + 1
      BY <2>1
    <3>2. Logged = [u \in Threads |-> Logged[u]] /\ Logged' = [u \in Threads |-> Logged'[u]]
      BY DEF Logged
    <3> QED
      BY <1>a, <3>1, <3>2
  <2>3. LogFile' = [messages |-> Append(LogFile.messages, [by |-> t, n |-> Logged'[t], len |-> len]),
                    bytes |-> LogFile.bytes + len]
    BY <1>2, <1>5, <2>1
  <2>4. LogFile.messages = << >> \/ Abstract!Fits(LogFile, len)
    BY <1>2, <1>5 DEF Abstract!Fits
  <2> HIDE DEF len, m
  <2>5. Abstract!Write(t, len)
    BY <1>2, <1>3, <2>2, <2>3, <2>4 DEF Abstract!Write
  <2> QED
    BY <1>c, <2>5 DEF len
<1> QED
  BY <1>1, <1>4, <1>5

-----------------------------------------------------------------------------
(* The implementation *)

\* A step that does not end the write loop logs nothing.
LEMMA LoggedStays ==
  ASSUME NEW t, Threads = {t}, sent' = sent, pc[t] \in BeforeWrite <=> pc'[t] \in BeforeWrite
  PROVE  Logged' = Logged
BY DEF Logged

\* Every step of the appender is a step of the rotating log or changes nothing
\* in it.
LEMMA NextAbstract ==
  ASSUME NEW t, Alone(t), TurnInv(t), [Next]_vars
  PROVE  [Abstract!Next]_(Abstract!vars)
<1>a. /\ t \in Threads /\ Threads = {t} /\ ~Fault /\ ~Crash
      /\ pc \in [Threads -> Locked \union Unlocked] /\ sent \in [Threads -> Nat]
  BY NoFault
<1>b. ~stdinFree /\ TypeOK
  BY DEF TurnInv, TurnsOK, QuietInv, IInv
<1>1. CASE WriteSome(t)
  <2>1. \/ msg[t].len \in MsgLens /\ Abstract!Write(t, msg[t].len)
        \/ UNCHANGED Abstract!vars
    BY <1>1, WriteAppends
  <2> QED
    BY <1>a, <2>1 DEF Abstract!Next
<1>2. CASE ~WriteSome(t) /\ pc[t] = "write"
  <2>1. UNCHANGED vars
    BY <1>2, OnlyWrites
  <2>2. NothingWritten
    BY <1>a, <1>b, <1>2, OnlyWriteWrites
  <2>3. log' = log /\ backup' = backup /\ Logged' = Logged
    BY <2>1 DEF vars, locals, disk, bounds, Logged
  <2> QED
    BY <2>2, <2>3, Stutters
<1>3. CASE pc[t] # "write"
  <2>a. NothingWritten
    <3>1. \A u \in Threads : ~WriteSome(u)
      BY <1>a, <1>3 DEF WriteSome
    <3> QED
      BY <1>b, <3>1, OnlyWriteWrites
  <2>b. ASSUME OpenAppender PROVE CreateIfMissing /\ backup' = backup
    BY <1>a, <1>b, <2>b DEF OpenAppender
  <2> USE DEF Goto, BeforeWrite, locals, appender, disk, bounds
  <2>1. CASE Format(t)
    <3>1. Logged' = Logged
      <4>1. pc[t] = "idle" /\ pc'[t] = "lock" /\ sent'[t] = sent[t] + 1 /\ sent[t] \in Nat
        BY <1>a, <2>1 DEF Format
      <4>2. (sent[t] + 1) - 1 = sent[t]
        BY <4>1
      <4> QED
        BY <1>a, <4>1, <4>2 DEF Logged
    <3> QED
      BY <2>a, <2>1, <3>1, Stutters DEF Format
  <2>2. CASE LockAppender(t)
    <3>1. Logged' = Logged
      BY <1>a, <2>2, LoggedStays DEF LockAppender
    <3> QED
      BY <2>a, <2>2, <3>1, Stutters DEF LockAppender
  <2>3. CASE OpenIfClosed(t)
    <3>1. Logged' = Logged
      <4>1. pc[t] = "open" /\ pc'[t] = "check" /\ sent' = sent
        BY <1>a, <2>3 DEF OpenIfClosed
      <4> QED
        BY <1>a, <4>1, LoggedStays
    <3>2. CASE IsOpen
      <4>1. log' = log /\ backup' = backup
        BY <2>3, <3>2 DEF OpenIfClosed
      <4> QED
        BY <2>a, <3>1, <4>1, Stutters
    <3>3. CASE ~IsOpen
      <4>1. CreateIfMissing /\ backup' = backup
        BY <2>3, <2>b, <3>3 DEF OpenIfClosed
      <4>2. Abstract!Create \/ UNCHANGED Abstract!vars
        BY <2>a, <3>1, <4>1, OpenShows
      <4> QED
        BY <4>2 DEF Abstract!Next
    <3> QED
      BY <3>2, <3>3
  <2>4. CASE CheckRollover(t)
    <3>1. Logged' = Logged
      <4>1. pc[t] = "check" /\ pc'[t] \in {"rename", "write"} /\ sent' = sent
        BY <1>a, <2>4 DEF CheckRollover
      <4> QED
        BY <1>a, <4>1, LoggedStays
    <3> QED
      BY <2>a, <2>4, <3>1, Stutters DEF CheckRollover
  <2>5. CASE UnlockAppender(t)
    <3>1. Logged' = Logged
      <4>1. pc[t] = "unlock" /\ pc'[t] \in {"remove", "idle"} /\ sent' = sent
        BY <1>a, <2>5 DEF UnlockAppender
      <4> QED
        BY <1>a, <4>1, LoggedStays
    <3> QED
      BY <2>a, <2>5, <3>1, Stutters DEF UnlockAppender
  <2>6. CASE RenameLog(t)
    <3>1. Logged' = Logged
      <4>1. pc[t] = "rename" /\ pc'[t] = "close" /\ sent' = sent
        BY <1>a, <2>6 DEF RenameLog
      <4> QED
        BY <1>a, <4>1, LoggedStays
    <3>2. Abstract!Rotate
      BY <2>a, <2>6, <3>1, RenameShows
    <3> QED
      BY <3>2 DEF Abstract!Next
  <2>7. CASE CloseLog(t)
    <3>1. Logged' = Logged
      <4>1. pc[t] = "close" /\ pc'[t] = "reopen" /\ sent' = sent
        BY <1>a, <2>7 DEF CloseLog
      <4> QED
        BY <1>a, <4>1, LoggedStays
    <3> QED
      BY <2>a, <2>7, <3>1, Stutters DEF CloseLog
  <2>8. CASE ReopenLog(t)
    <3>1. Logged' = Logged
      <4>1. pc[t] = "reopen" /\ pc'[t] = "write" /\ sent' = sent
        BY <1>a, <2>8 DEF ReopenLog
      <4> QED
        BY <1>a, <4>1, LoggedStays
    <3>2. CreateIfMissing /\ backup' = backup
      BY <2>8, <2>b DEF ReopenLog
    <3>3. Abstract!Create \/ UNCHANGED Abstract!vars
      BY <2>a, <3>1, <3>2, OpenShows
    <3> QED
      BY <3>3 DEF Abstract!Next
  <2>9. ASSUME RemoveLast(t) \/ ShiftBackup(t) PROVE Logged' = Logged
    <3>1. pc[t] \in {"remove", "shift"} /\ pc'[t] \in {"shift", "idle"} /\ sent' = sent
      BY <1>a, <2>9 DEF RemoveLast, ShiftBackup, ContinueShift
    <3> QED
      BY <1>a, <3>1, LoggedStays
  <2>10. CASE RemoveLast(t)
    <3>1. Abstract!Expire \/ UNCHANGED Abstract!vars
      BY <2>a, <2>9, <2>10, RemoveShows
    <3> QED
      BY <3>1 DEF Abstract!Next
  <2>11. CASE ShiftBackup(t)
    BY <2>a, <2>9, <2>11, ShiftShows
  <2>12. CASE Reconfigure \/ UNCHANGED vars
    <3>1. Logged' = Logged /\ log' = log /\ backup' = backup
      BY <2>12 DEF Reconfigure, vars, Logged
    <3> QED
      BY <2>a, <3>1, Stutters
  <2>13. ~WriteSome(t) /\ ~WriteFails(t) /\ ~SkipWrite(t)
    BY <1>3 DEF WriteSome, WriteFails, SkipWrite
  <2> QED
    BY <1>a, <2>1, <2>2, <2>3, <2>4, <2>5, <2>6, <2>7, <2>8, <2>10, <2>11, <2>12, <2>13
    DEF Next, Work
<1> QED
  BY <1>1, <1>2, <1>3

\* A log that does not exist yet is a rotating log without messages.
LEMMA InitAbstract ==
  ASSUME NEW t, Alone(t)
  PROVE  Init => Abstract!Init
<1> SUFFICES ASSUME Init PROVE Abstract!Init
  OBVIOUS
<1>1. LogFile = NoFile
  BY DEF Init, LogFile
<1>2. Existing = {}
  BY DEF Init, Existing
<1>3. Cardinality(Existing) = 0
  BY <1>2, FS_EmptySet
<1>4. Generations = << >>
  <2>1. Generations \in [1..0 -> Contents]
    BY <1>3 DEF Generations
  <2>2. Generations \in Seq(Contents)
    BY <2>1, IsASeq
  <2>3. Len(Generations) = 0
    BY <2>1, <2>2, LenProperties
  <2> QED
    BY <2>2, <2>3, EmptySeq
<1>5. Logged = [u \in Threads |-> 0]
  BY DEF Init, Logged, BeforeWrite
<1> QED
  BY <1>1, <1>4, <1>5 DEF Abstract!Init

\* When one thread logs and nothing fails, the appender is a rotating log:
\* messages are appended whole, each once and in order, a message that does not
\* fit starts a new file, the renames of the backups move no file past another
\* and lose none, and only the oldest of too many backups goes, whatever the
\* lengths, the limits and the number of messages and reconfigurations.
THEOREM RotatesCorrect ==
  ASSUME NEW t, Alone(t)
  PROVE  Spec => Abstract!Safety
<1>1. TurnInv(t) /\ [Next]_vars => [Abstract!Next]_(Abstract!vars)
  BY NextAbstract
<1> QED
  BY <1>1, InitTurnInv, NextTurnInv, InitAbstract, PTL DEF Spec, Abstract!Safety
=============================================================================
