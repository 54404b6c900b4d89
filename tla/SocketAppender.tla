---------------------------- MODULE SocketAppender ----------------------------
(***************************************************************************)
(* The socket appender (src/log4stdc/sockappd.c) with a stream layout.     *)
(* Threads append records without a lock; each append estimates a buffer,  *)
(* connects if there is no connection, formats the record and sends it.    *)
(* The server goes down and comes back, hangs up, and takes records in     *)
(* part.  A descriptor number is used again once it is closed.             *)
(*                                                                         *)
(* Nothing is claimed of a connection that appends of several threads      *)
(* shared: its reader is not followed, and formatting is one step.         *)
(***************************************************************************)
EXTENDS JavaStream, FiniteSets

CONSTANTS
  Logging,    \* threads that go on logging
  Visiting,   \* threads that use the appender MaxVisits times
  MaxVisits,
  MaxFds      \* descriptors the process can have for this appender

ASSUME MaxFdsAssumption == MaxFds \in Nat \ {0}
ASSUME ThreadsAssumption ==
  /\ Logging \intersect Visiting = {} /\ MaxVisits \in Nat
  /\ IsFiniteSet(Logging) /\ IsFiniteSet(Visiting)

Threads == Logging \union Visiting

Fds == 1..MaxFds
Closed == 0       \* fu.fh = NULL

VARIABLES
  layout,       \* class of appender->layout
  stream,       \* appender->layout.u.jstrm
  fd,           \* appender->fu.fd
  conns,        \* the connection of each descriptor
  server,       \* whether the server accepts connections
  faulty,       \* whether the server may still fail
  pc, roomy, record, sock,    \* of each thread
  visits,       \* bound: uses left to the visiting threads
  \* history:
  overlapped,   \* appends of two threads have overlapped
  lost,         \* records lost since one arrived or the last fault
  arrived       \* a record arrived after the last fault

vars == <<layout, stream, fd, conns, server, faulty, pc, roomy, record, sock, visits,
          overlapped, lost, arrived>>
locals == <<roomy, record, sock, visits>>
history == <<overlapped, lost, arrived>>
environment == <<layout, server, faulty>>

NoRecord == [reset |-> FALSE, items |-> << >>, outgrown |-> FALSE]
NoConn == [open |-> FALSE, peer |-> "dead", reader |-> NewReader, sent |-> FALSE, cut |-> FALSE,
           outgrown |-> "no", shared |-> FALSE, late |-> FALSE]

Init ==
  /\ layout \in Layouts
  /\ stream = Fresh
  /\ fd = Closed
  /\ conns = [d \in Fds |-> NoConn]
  /\ server = TRUE
  /\ faulty = TRUE
  /\ pc = [t \in Threads |-> "idle"]
  /\ roomy = [t \in Threads |-> FALSE]
  /\ record = [t \in Threads |-> NoRecord]
  /\ sock = [t \in Threads |-> 0]
  /\ visits = [t \in Visiting |-> MaxVisits]
  /\ overlapped = FALSE
  /\ lost = 0
  /\ arrived = FALSE

Busy(t) == \E u \in Threads \ {t} : pc[u] # "idle"
Goto(t, from, to) == pc[t] = from /\ pc' = [pc EXCEPT ![t] = to]

Unfollowed(c) == [NoConn EXCEPT !.open = c.open, !.peer = c.peer, !.shared = TRUE]

\* A thread enters the appender: what is connected is shared from now on when
\* another one is in it.
Enter(t) ==
  /\ conns' = IF Busy(t) THEN [d \in Fds |-> Unfollowed(conns[d])] ELSE conns
  /\ overlapped' = (overlapped \/ Busy(t))
  /\ lost' = IF Busy(t) THEN 0 ELSE lost
  /\ IF t \in Visiting
       THEN visits[t] > 0 /\ visits' = [visits EXCEPT ![t] = @ - 1]
       ELSE UNCHANGED visits
  /\ UNCHANGED arrived

-----------------------------------------------------------------------------
(* append_to_output *)

\* The buffer is sized before the appender is opened.
Estimate(t) ==
  /\ Goto(t, "idle", "is open")
  /\ Enter(t)
  /\ roomy' = [roomy EXCEPT ![t] = Roomy(layout, stream)]
  /\ UNCHANGED <<stream, fd, record, sock, environment>>

TestOpen(t) ==
  /\ Goto(t, "is open", IF fd = Closed THEN "open" ELSE "format")
  /\ UNCHANGED <<stream, fd, conns, environment, locals, history>>

FreeFds == {d \in Fds : ~conns[d].open}

\* open_appender: socket(), bind() and connect() fail, with no way back; the
\* caller goes on without a connection.
ConnectFails(t) ==
  /\ ~server \/ FreeFds = {}
  /\ Goto(t, "open", "format")
  /\ lost' = 0
  /\ UNCHANGED <<stream, fd, conns, environment, locals, overlapped, arrived>>

\* The system gives the lowest descriptor that is free.
Connect(t) ==
  /\ server
  /\ Goto(t, "open", "header")
  /\ \E d \in FreeFds :
       /\ \A e \in FreeFds : d <= e
       /\ conns' = [conns EXCEPT ![d] =
                      [NoConn EXCEPT !.open = TRUE, !.peer = "alive", !.shared = Busy(t),
                                     !.late = stream # Fresh /\ ~Busy(t)]]
       /\ sock' = [sock EXCEPT ![t] = d]
  /\ UNCHANGED <<stream, fd, environment, roomy, record, visits, history>>

\* format_header resets the stream; the result of the send is not looked at.
SendHeader(t) ==
  /\ Goto(t, "header", "publish")
  /\ stream' = Fresh
  /\ conns' = [conns EXCEPT ![sock[t]].reader.header =
                                  conns[sock[t]].peer = "alive" /\ ~conns[sock[t]].shared]
  /\ UNCHANGED <<fd, environment, locals, history>>

\* Faulty variant: the descriptor is never stored.
Publish_Never(t) ==
  /\ Goto(t, "publish", "init layout")
  /\ UNCHANGED <<stream, fd, conns, environment, locals, history>>

Publish(t) ==
  /\ Goto(t, "publish", "init layout")
  /\ fd' = sock[t]
  /\ UNCHANGED <<stream, conns, environment, locals, history>>

InitLayout(t) ==
  /\ Goto(t, "init layout", "format")
  /\ stream' = Fresh
  /\ UNCHANGED <<fd, conns, environment, locals, history>>

\* The layout counts the record as written, whether it is sent or not.
Format(t) ==
  /\ Goto(t, "format", "is still open")
  /\ record' = [record EXCEPT ![t] = Record(layout, stream, roomy[t])]
  /\ stream' = Written(layout, stream, roomy[t])
  /\ UNCHANGED <<fd, conns, environment, roomy, sock, visits, history>>

\* The call returns; its variables are no more.
Return(t) ==
  /\ record' = [record EXCEPT ![t] = NoRecord]
  /\ roomy' = [roomy EXCEPT ![t] = FALSE]
  /\ sock' = [sock EXCEPT ![t] = Closed]
  /\ UNCHANGED visits

\* The record is dropped when there is no connection.
Drop(t) ==
  /\ fd = Closed
  /\ Goto(t, "is still open", "idle")
  /\ Return(t)
  /\ UNCHANGED <<stream, fd, conns, environment, history>>

TestStillOpen(t) ==
  /\ fd # Closed
  /\ Goto(t, "is still open", "get socket")
  /\ UNCHANGED <<stream, fd, conns, environment, locals, history>>

GetSocket(t) ==
  /\ Goto(t, "get socket", "send")
  /\ sock' = [sock EXCEPT ![t] = fd]
  /\ UNCHANGED <<stream, fd, conns, environment, roomy, record, visits, history>>

Connected(t) == sock[t] # Closed /\ conns[sock[t]].open
Lost == IF overlapped THEN 0 ELSE lost + 1

\* The server takes the whole record.  What lies beyond the end of the buffer
\* is not the record, and not what a reader understands.
SendWhole(t) ==
  LET c == conns[sock[t]]
      r == record[t] IN
  /\ Connected(t) /\ c.peer = "alive"
  /\ Goto(t, "send", "idle")
  /\ conns' = IF c.shared THEN conns ELSE [conns EXCEPT ![sock[t]] =
       [c EXCEPT !.reader = IF r.outgrown THEN Broken ELSE ReadRecord(@, r),
                 !.outgrown = IF ~r.outgrown THEN @ ELSE IF c.sent THEN "later" ELSE "first",
                 !.sent = TRUE]]
  /\ lost' = 0
  /\ arrived' = ~faulty
  /\ Return(t)
  /\ UNCHANGED <<stream, fd, environment, overlapped>>

\* A short send counts as success.
SendPart(t) ==
  /\ faulty
  /\ Connected(t) /\ conns[sock[t]].peer = "alive"
  /\ Goto(t, "send", "idle")
  /\ conns' = IF conns[sock[t]].shared THEN conns
              ELSE [conns EXCEPT ![sock[t]].cut = TRUE, ![sock[t]].reader = Broken]
  /\ Return(t)
  /\ UNCHANGED <<stream, fd, environment, history>>

\* The system takes one more record after the server has hung up.
SendLost(t) ==
  /\ Connected(t) /\ conns[sock[t]].peer = "gone"
  /\ Goto(t, "send", "idle")
  /\ conns' = [conns EXCEPT ![sock[t]].peer = "dead"]
  /\ Return(t)
  /\ lost' = Lost
  /\ UNCHANGED <<stream, fd, environment, overlapped, arrived>>

\* Faulty variant: a failed send is ignored, as a short one is.
SendFails_Ignored(t) ==
  /\ Connected(t) => conns[sock[t]].peer = "dead"
  /\ Goto(t, "send", "idle")
  /\ Return(t)
  /\ lost' = Lost
  /\ UNCHANGED <<stream, fd, conns, environment, overlapped, arrived>>

\* send() returns -1.
SendFails(t) ==
  /\ Connected(t) => conns[sock[t]].peer = "dead"
  /\ Goto(t, "send", "close")
  /\ record' = [record EXCEPT ![t] = NoRecord]
  /\ lost' = Lost
  /\ UNCHANGED <<stream, fd, conns, environment, roomy, sock, visits, overlapped, arrived>>

-----------------------------------------------------------------------------
(* close_appender *)

\* l4sc_close_appenders, called by a configurator.
CloseAppender(t) ==
  /\ Goto(t, "idle", "close")
  /\ Enter(t)
  /\ UNCHANGED <<stream, fd, environment, roomy, record, sock>>

TakeSocket(t) ==
  /\ Goto(t, "close", "close socket")
  /\ sock' = [sock EXCEPT ![t] = fd]
  /\ UNCHANGED <<stream, fd, conns, environment, roomy, record, visits, history>>

\* Faulty variant: the descriptor is forgotten and not closed.
CloseSocket_Leak(t) ==
  /\ Goto(t, "close socket", "idle")
  /\ Return(t)
  /\ fd' = Closed
  /\ UNCHANGED <<stream, conns, environment, history>>

\* The appender forgets its descriptor and closes the one it has read.
CloseSocket(t) ==
  /\ Goto(t, "close socket", "idle")
  /\ Return(t)
  /\ fd' = Closed
  /\ conns' = IF sock[t] = Closed THEN conns ELSE [conns EXCEPT ![sock[t]] = NoConn]
  /\ UNCHANGED <<stream, environment, history>>

-----------------------------------------------------------------------------
(* The server *)

ServerGoesDown ==
  /\ faulty /\ server
  /\ server' = FALSE
  /\ conns' = [d \in Fds |-> [conns[d] EXCEPT !.peer = IF @ = "alive" THEN "gone" ELSE @]]
  /\ lost' = 0
  /\ UNCHANGED <<layout, stream, fd, faulty, pc, locals, overlapped, arrived>>

ServerComesUp ==
  /\ ~server
  /\ server' = TRUE
  /\ lost' = 0
  /\ UNCHANGED <<layout, stream, fd, conns, faulty, pc, locals, overlapped, arrived>>

HangUp(d) ==
  /\ faulty
  /\ conns[d].peer = "alive"
  /\ conns' = [conns EXCEPT ![d].peer = "gone"]
  /\ lost' = 0
  /\ UNCHANGED <<stream, fd, environment, pc, locals, overlapped, arrived>>

LastFault ==
  /\ faulty
  /\ faulty' = FALSE
  /\ arrived' = FALSE
  /\ UNCHANGED <<layout, stream, fd, conns, server, pc, locals, overlapped, lost>>

AppendToOutput(t) ==
  \/ Estimate(t) \/ TestOpen(t)
  \/ ConnectFails(t) \/ Connect(t) \/ SendHeader(t) \/ Publish(t) \/ InitLayout(t)
  \/ Format(t) \/ Drop(t) \/ TestStillOpen(t) \/ GetSocket(t)
  \/ SendWhole(t) \/ SendLost(t) \/ SendFails(t)
  \/ TakeSocket(t) \/ CloseSocket(t)

Next ==
  \/ \E t \in Threads : AppendToOutput(t) \/ SendPart(t) \/ CloseAppender(t)
  \/ ServerGoesDown \/ ServerComesUp \/ LastFault
  \/ \E d \in Fds : HangUp(d)

\* A thread that runs goes on, and the program goes on logging whatever else it
\* does; the server comes up again.
Fairness ==
  /\ \A t \in Logging : WF_vars(AppendToOutput(t)) /\ SF_vars(Estimate(t))
  /\ WF_vars(ServerComesUp)

Spec == Init /\ [][Next]_vars /\ Fairness

-----------------------------------------------------------------------------
(* Properties *)

PCs == {"idle", "is open", "open", "header", "publish", "init layout", "format",
        "is still open", "get socket", "send", "close", "close socket"}

\* The type of every variable; it is checked with the handles below.
TypeOK ==
  /\ layout \in Layouts
  /\ stream.handle \in Nat
  /\ fd \in Fds \union {Closed}
  /\ \A d \in Fds : conns[d].peer \in {"alive", "gone", "dead"}
  /\ pc \in [Threads -> PCs]
  /\ roomy \in [Threads -> BOOLEAN]
  /\ sock \in [Threads -> Fds \union {Closed}]

\* Handles mean the same on both sides: what a server receives it can read, on
\* every connection and through every reset of the numbers, unless a record
\* was cut by a short send or outgrew its buffer, or two threads appended at
\* the same time.
StreamReadable ==
  \A d \in Fds :
    LET c == conns[d] IN c.reader.ok \/ c.cut \/ c.outgrown # "no" \/ c.shared

\* The handles that the longest record takes, with all descriptions.
LongestRecord == 33

\* A stream is reset before its handles grow beyond one record for each thread
\* that can have made its estimate.  Only the first record of a connection ever
\* outgrows its buffer, and only when a record was formatted before the
\* connection was made: the estimate is from the state that the header then
\* resets.
OutgrownOnlyAfterReset ==
  /\ TypeOK /\ stream.handle <= ResetAfter + LongestRecord * Cardinality(Threads)
  /\ \A d \in Fds :
       LET c == conns[d] IN
       ~c.shared => c.outgrown = "no" \/ (c.outgrown = "first" /\ c.late)

\* A descriptor in use is the appender's own, or that of a thread that is
\* opening or closing it: losing one takes two threads at the same time.
NoDescriptorLost ==
  \A d \in Fds :
    conns[d].open =>
      \/ d = fd \/ conns[d].shared
      \/ \E t \in Threads : sock[t] = d /\ pc[t] \in {"header", "publish"}

\* While the server is up, no failure costs more than two records in a row:
\* the one the system took for a dead connection and the one whose send failed.
FewLostInARow == lost <= 2

\* After the last fault a record reaches the server again, as long as appends
\* of two threads never overlapped (they may leak all descriptors).
Recovers == ~faulty ~> (arrived \/ overlapped)

\* The test of this appender compares the stream a server receives, byte by
\* byte, with what log4cxx wrote: an append with no other at the same time
\* sends a record that a reader can read, whole sends assumed.
StreamAsReference ==
  \A d \in Fds : conns[d].reader.ok \/ conns[d].cut \/ conns[d].shared
=============================================================================
