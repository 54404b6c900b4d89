--------------------------- MODULE LoggerRegistry ---------------------------
(***************************************************************************)
(* l4sc_get_logger (src/log4stdc/logger.c) called by several threads.  The *)
(* list of loggers has no lock, so the scan, the creation of a logger and  *)
(* the stores of BFC_SLIST_APPEND (src/bareftc/lnkdlist.h) are steps of    *)
(* their own.  LoggerTree takes a call as one step; this module says when  *)
(* that is right and what is left when it is not.                          *)
(*                                                                         *)
(* A logger is an address: 1 and 2 are the predefined ones, the others are *)
(* numbered as they are allocated.  0 is NULL.  Stores become visible in   *)
(* the order of the program.                                               *)
(***************************************************************************)
EXTENDS Naturals, Sequences, FiniteSets

CONSTANTS
  Threads,
  LoggerNames,   \* names that are asked for, sequences of their parts
  NameSize,      \* sizeof(namebuf), 40
  MaxCalls,      \* bound: calls of each thread
  MaxFailures    \* bound: allocations that fail

ASSUME CountsAssumption == MaxCalls \in Nat /\ MaxFailures \in Nat
ASSUME NameSizeAssumption == NameSize \in Nat \ {0, 1, 2}

Root == 1
Unnamed == <<"logger">>   \* what init_logger calls a logger
\* The names of which "logger" has the characters, and maybe more.
Beginnings == {<<p>> : p \in {"l", "lo", "log", "logg", "logge", "logger"}}

\* The parts of the names that are asked for.
NameParts == UNION {{n[i] : i \in DOMAIN n} : n \in LoggerNames}
ASSUME LoggerNamesAssumption == \A n \in LoggerNames : n \in Seq(NameParts) /\ n # << >>

VARIABLES
  nodes,     \* the loggers: name, parent, next, and the name asked for (history)
  last,      \* l4sc_loggers.last; first is never changed
  thread,    \* the locals of each thread
  calls,     \* calls begun by each thread
  failures,  \* allocations that have failed
  clean,     \* history: no logger was created while another thread searched
  calm       \* history: the list when no thread was in a call, as LoggerTree has it

vars == <<nodes, last, thread, calls, failures, clean, calm>>

Node(asked, name, parent, next) ==
  [asked |-> asked, name |-> name, parent |-> parent, next |-> next]

\* pc is the next statement, asked the name of the innermost call, at the
\* logger under comparison, own the new one, seen the end of the list as it was
\* read, stack the loggers whose parents the calls further out wait for, answer
\* what the innermost call returned; call and got are what the outermost call
\* was asked for and returned.
Outside(call, got) ==
  [pc |-> "outside", asked |-> << >>, at |-> 0, own |-> 0, seen |-> 0,
   stack |-> << >>, answer |-> 0, call |-> call, got |-> got]

Inside(t) == thread[t].pc # "outside"
At(t, pc) == thread[t].pc = pc
Creating(t) == \/ thread[t].pc \in {"readlast", "link", "setlast", "name", "parent"}
               \/ thread[t].stack # << >>

-----------------------------------------------------------------------------
(* The list as a sequence *)

Following(ns, next) ==
  LET chain[i \in 1..(Len(ns) + 1)] ==
        IF i = 1 THEN Root
        ELSE IF chain[i - 1] = 0 THEN 0 ELSE next[chain[i - 1]]
  IN chain

Links(ns) == [i \in DOMAIN ns |-> ns[i].next]
\* The scan comes to an end.
Ends(ns) == Following(ns, Links(ns))[Len(ns) + 1] = 0
Chain(ns) ==
  LET chain == Following(ns, Links(ns))
      met == {i \in 1..Len(ns) : chain[i] # 0} IN
  [i \in 1..Cardinality(met) |-> chain[i]]

-----------------------------------------------------------------------------
(* The list in terms of LoggerTree *)

Tree == INSTANCE LoggerTree WITH
  loggers <- calm, adopted <- {}, appenders <- << >>, extra <- << >>,
  AppenderNames <- {}, KeptName <- << >>, Obsolete <- "obsolete_appender", ExtraClasses <- {},
  Kinds <- {}, MaxExtraClasses <- 0, MaxAppenders <- 0, Parts <- {}, CustomNames <- {},
  Levels <- {}, Additivities <- {}, MaxSlots <- 1, MaxRecursions <- NameSize,
  CustomLevel <- 0, MaxLoggers <- 0, MaxAdopted <- 0

Predefined ==
  << Node(<<"rootlogger">>, <<"rootlogger">>, 0, 2), Node(<<"l4sclog">>, <<"l4sclog">>, Root, 0) >>

View(ns) ==
  LET chain == Chain(ns)
      Place(x) == IF x = 0 THEN 0 ELSE CHOOSE i \in DOMAIN chain : chain[i] = x
      Logger(x) ==
        LET kept == IF x <= 2 THEN Tree!Logger(ns[x].asked, "root", IF x = Root THEN Tree!ERROR_LEVEL ELSE Tree!WARN_LEVEL, FALSE, Place(ns[x].parent))
                    ELSE Tree!Logger(ns[x].asked, "logger", Tree!INHERIT_LEVEL, TRUE, Place(ns[x].parent)) IN
        [kept EXCEPT !.name = ns[x].name] IN
  [i \in DOMAIN chain |-> Logger(chain[i])]

Init ==
  /\ nodes = Predefined
  /\ last = 2
  /\ thread = [t \in Threads |-> Outside(<< >>, 0)]
  /\ calls = [t \in Threads |-> 0]
  /\ failures = 0
  /\ clean = TRUE
  /\ calm = View(Predefined)

-----------------------------------------------------------------------------
(* Steps of a call *)

Others(t) == Threads \ {t}

\* The outermost call returns the logger x.
Return(t, x) ==
  /\ thread' = [thread EXCEPT ![t] = Outside(thread[t].call, x)]
  /\ calm' = IF clean /\ \A u \in Others(t) : ~Inside(u) THEN View(nodes') ELSE calm

\* The innermost call returns x, the outermost one to the program and any other
\* to set_logger_name.
Answer(t, x) ==
  IF thread[t].stack = << >> THEN Return(t, x)
  ELSE /\ thread' = [thread EXCEPT ![t].pc = "parent", ![t].answer = x]
       /\ UNCHANGED calm

Begin(t, n) ==
  /\ ~Inside(t)
  /\ calls[t] < MaxCalls
  /\ calls' = [calls EXCEPT ![t] = @ + 1]
  /\ thread' = [thread EXCEPT ![t] =
       [Outside(n, 0) EXCEPT !.pc = "compare", !.asked = n, !.at = Root]]
  /\ clean' = (clean /\ \A u \in Others(t) : ~Creating(u))
  /\ UNCHANGED <<nodes, last, failures, calm>>

\* strncasecmp(logger->name, name, nlen) == 0.  Left out are names that part of
\* another part begins, of a list where no name changes: they differ in the end.
BeginsWith(name, asked) == Len(asked) <= Len(name) /\ asked = SubSeq(name, 1, Len(asked))
Begins(t) ==
  LET name == nodes[thread[t].at].name
      asked == thread[t].asked IN
  BeginsWith(name, asked) \/ (name = Unnamed /\ asked \in Beginnings)

ComparePrefix(t) ==
  /\ At(t, "compare")
  /\ thread' = [thread EXCEPT ![t].pc = IF Begins(t) THEN "end" ELSE "advance"]
  /\ UNCHANGED <<nodes, last, calls, failures, clean, calm>>

\* Faulty variant: the end of the name in the list is not tested.
Found_Prefix(t) ==
  LET n == nodes[thread[t].at].name
      asked == thread[t].asked IN
  Len(asked) <= Len(n) /\ asked = SubSeq(n, 1, Len(asked))

\* logger->name[nlen] == '\0', of a name that begins with the one asked for.
Found(t) == nodes[thread[t].at].name = thread[t].asked

\* The name is read again for that, and another thread may have set it since it
\* was compared and was "logger".  The zeroes behind a name that is no longer
\* than the one asked for pass the test too; lengths are not modelled, so any
\* name may be as short.
Changed(t) ==
  LET name == nodes[thread[t].at].name
      asked == thread[t].asked IN
  asked \in Beginnings /\ name # Unnamed /\ ~BeginsWith(name, asked)

CompareEnd(t) ==
  /\ At(t, "end")
  /\ UNCHANGED <<nodes, last, calls, failures, clean>>
  /\ \/ (Found(t) \/ Changed(t)) /\ Answer(t, thread[t].at)
     \/ ~Found(t) /\ thread' = [thread EXCEPT ![t].pc = "advance"] /\ UNCHANGED calm

Advance(t) ==
  LET next == nodes[thread[t].at].next IN
  /\ At(t, "advance")
  /\ thread' = [thread EXCEPT ![t].at = next,
                              ![t].pc = IF next # 0 THEN "compare" ELSE "alloc"]
  /\ UNCHANGED <<nodes, last, calls, failures, clean, calm>>

AllocFails(t) ==
  /\ At(t, "alloc")
  /\ failures < MaxFailures
  /\ failures' = failures + 1
  /\ UNCHANGED <<nodes, last, calls, clean>>
  /\ Answer(t, 0)

\* Faulty variant: the new end of the list leads to its beginning.
InitLogger_Ring(t) ==
  /\ At(t, "alloc")
  /\ nodes' = Append(nodes, Node(thread[t].asked, Unnamed, 0, Root))
  /\ thread' = [thread EXCEPT ![t].own = Len(nodes'), ![t].pc = "readlast"]
  /\ clean' = (clean /\ \A u \in Others(t) : ~Inside(u))
  /\ UNCHANGED <<last, calls, failures, calm>>

\* mempool_alloc and init_logger up to the list
InitLogger(t) ==
  /\ At(t, "alloc")
  /\ nodes' = Append(nodes, Node(thread[t].asked, Unnamed, 0, 0))
  /\ thread' = [thread EXCEPT ![t].own = Len(nodes'), ![t].pc = "readlast"]
  /\ clean' = (clean /\ \A u \in Others(t) : ~Inside(u))
  /\ UNCHANGED <<last, calls, failures, calm>>

\* BFC_SLIST_INSERT_LAST; first and last are never NULL.
ReadLast(t) ==
  /\ At(t, "readlast")
  /\ thread' = [thread EXCEPT ![t].seen = last, ![t].pc = "link"]
  /\ UNCHANGED <<nodes, last, calls, failures, clean, calm>>

Link(t) ==
  /\ At(t, "link")
  /\ nodes' = [nodes EXCEPT ![thread[t].seen].next = thread[t].own]
  /\ thread' = [thread EXCEPT ![t].pc = "setlast"]
  /\ UNCHANGED <<last, calls, failures, clean, calm>>

SetLast(t) ==
  /\ At(t, "setlast")
  /\ last' = thread[t].own
  /\ thread' = [thread EXCEPT ![t].pc = "name"]
  /\ UNCHANGED <<nodes, calls, failures, clean, calm>>

\* set_logger_name up to the parent: the root for a name of one part, for
\* others the answer of another call.
Name(t) ==
  LET n == thread[t].asked
      own == thread[t].own
      waits == [thread[t] EXCEPT !.stack = Append(thread[t].stack, own)] IN
  /\ At(t, "name")
  /\ nodes' = [nodes EXCEPT ![own].name = Tree!Stored(n)]
  /\ thread' = [thread EXCEPT ![t] =
       IF Len(n) = 1 THEN [waits EXCEPT !.answer = Root, !.pc = "parent"]
       ELSE [waits EXCEPT !.asked = Tree!Front(n), !.at = Root, !.pc = "compare"]]
  /\ UNCHANGED <<last, calls, failures, clean, calm>>

Parent(t) ==
  LET stack == thread[t].stack
      own == stack[Len(stack)] IN
  /\ At(t, "parent")
  /\ nodes' = [nodes EXCEPT ![own].parent = thread[t].answer]
  /\ IF Len(stack) = 1 THEN Return(t, own)
     ELSE /\ thread' = [thread EXCEPT ![t].stack = Tree!Front(stack), ![t].answer = own]
          /\ UNCHANGED calm
  /\ UNCHANGED <<last, calls, failures, clean>>

Next ==
  \E t \in Threads :
    \/ \E n \in LoggerNames : Begin(t, n)
    \/ ComparePrefix(t) \/ CompareEnd(t) \/ Advance(t) \/ AllocFails(t) \/ InitLogger(t)
    \/ ReadLast(t) \/ Link(t) \/ SetLast(t) \/ Name(t) \/ Parent(t)

Spec == Init /\ [][Next]_vars

-----------------------------------------------------------------------------
(* Properties *)

\* A scan of the list comes to an end and meets the predefined loggers first,
\* though other loggers may be lost.
ScanEnds == Ends(nodes) /\ nodes[Root].next = 2

\* A call answers with a logger of the name it was asked for, never with one
\* that still waits for another name.  Left out are the six names that "logger"
\* begins with: who asks for one of them may get a logger that is still called
\* so, or one that was when its name was compared (logger.c:516).
AnswersNamed ==
  \A t \in Threads :
    (thread[t].got # 0 /\ thread[t].call \notin Beginnings) =>
      nodes[thread[t].got].name = Tree!Stored(thread[t].call)

\* Once all calls have returned, every logger, lost or not, has the parent its
\* name says, never another; after an allocation has failed it may have none,
\* and any where that has one of the six names.
ParentNamed(x) ==
  LET name == nodes[x].asked
      parent == nodes[x].parent IN
  IF Len(name) = 1 THEN parent = Root
  ELSE IF parent = 0 THEN failures > 0
  ELSE nodes[parent].name = Tree!Stored(Tree!Front(name)) \/ Tree!Front(name) \in Beginnings
ParentsNamed == (\A t \in Threads : ~Inside(t)) => \A x \in 3..Len(nodes) : ParentNamed(x)

\* What is left when calls overlap in any way.
RacesContained == ScanEnds /\ AnswersNamed /\ ParentsNamed

\* While no logger is created during another search, the steps amount to the
\* atomic lookup of LoggerTree (its GetLogger, without the bound for TLC): each
\* time all calls have returned, the list is what that makes of it, and the one
\* call that changed it answered likewise.
AsOneCall ==
  [][(clean' /\ failures' = 0) =>
       \E t \in Threads :
         /\ calm' = Tree!WithLogger(calm, thread[t].call)
         /\ thread'[t].got = Tree!LoggerNamed(calm, thread[t].call)]_calm
=============================================================================
