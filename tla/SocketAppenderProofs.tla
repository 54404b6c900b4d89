-------------------------- MODULE SocketAppenderProofs --------------------------
(***************************************************************************)
(* Proofs about SocketAppender, for any number of threads and descriptors: *)
(* a connection is lost only where appends of two threads have overlapped, *)
(* and without an overlap a failure of the server costs two records at     *)
(* most; what arrives over a connection of the appender's own can be read, *)
(* and only the first record behind a header outgrows its buffer.          *)
(***************************************************************************)
EXTENDS SocketAppender, SequenceTheorems, FiniteSetTheorems, WellFoundedInduction, TLAPS

Peers == {"alive", "gone", "dead"}

\* A connection, whatever its reader is.
ConnType(readers) ==
  [open : BOOLEAN, peer : Peers, reader : readers, sent : BOOLEAN, cut : BOOLEAN,
   outgrown : {"no", "first", "later"}, shared : BOOLEAN, late : BOOLEAN]
IsConn(c) == c \in ConnType({c.reader}) /\ (c.peer # "dead" => c.open)

Types ==
  /\ fd \in Fds \union {Closed}
  /\ DOMAIN conns = Fds /\ \A d \in Fds : IsConn(conns[d])
  /\ pc \in [Threads -> PCs]
  /\ sock \in [Threads -> Fds \union {Closed}]
  /\ overlapped \in BOOLEAN
  /\ lost \in Nat

\* Connections that no two threads have had to do with.
Own(d) == conns[d].open /\ ~conns[d].shared

Opening == {"header", "publish"}

\* Two threads in the appender have made all connections shared; and one that
\* is not shared is the appender's, or in the hands of the thread that opens
\* it, which found no other.
OwnInv ==
  /\ \A t, u \in Threads : (t # u /\ pc[t] # "idle" /\ pc[u] # "idle") =>
       \A d \in Fds : ~Own(d)
  /\ \A t \in Threads : pc[t] \in Opening => sock[t] # Closed
  /\ \A d \in Fds : Own(d) =>
       /\ (\A t \in Threads : pc[t] \notin Opening) => d = fd
       /\ \A t \in Threads :
            /\ pc[t] # "open"
            /\ pc[t] \in Opening => sock[t] = d
            /\ pc[t] = "close socket" => sock[t] = d

\* As long as no two appends have overlapped, there is at most one connection,
\* and the records lost are bounded by what the system knows of the server:
\* none while it has not been told that the server hung up, one when it has.
Orderly ==
  /\ \A t, u \in Threads : (pc[t] # "idle" /\ pc[u] # "idle") => t = u
  /\ \A d \in Fds : ~conns[d].shared
  /\ fd # Closed => conns[fd].open
  /\ \A t \in Threads :
       /\ pc[t] \in {"open"} \union Opening => fd = Closed
       /\ pc[t] \in Opening => conns[sock[t]].open /\ conns[sock[t]].peer # "dead"
       /\ pc[t] = "get socket" => fd # Closed
       /\ pc[t] = "send" => fd # Closed /\ sock[t] = fd
  /\ lost <= 2
  /\ \A d \in Fds : conns[d].peer = "gone" => lost = 0
  /\ (fd # Closed /\ conns[fd].peer = "dead"
        /\ \A t \in Threads : pc[t] \notin {"close", "close socket"}) => lost <= 1

LossInv == IF overlapped THEN lost = 0 ELSE Orderly

SocketInv == Types /\ OwnInv /\ LossInv

-----------------------------------------------------------------------------
(* Connections *)

\* A connection with another reader is one.
LEMMA ConnIs ==
  ASSUME NEW R, NEW c \in ConnType(R), c.peer # "dead" => c.open
  PROVE  IsConn(c)
BY DEF IsConn, ConnType

\* What appends write into a connection leaves one in the same state: a record
\* sent, a record cut.
LEMMA ConnSent ==
  ASSUME NEW c, IsConn(c), NEW r, NEW o \in {"no", "first", "later"}
  PROVE  LET e == [c EXCEPT !.reader = r, !.outgrown = o, !.sent = TRUE] IN
         IsConn(e) /\ e.open = c.open /\ e.shared = c.shared /\ e.peer = c.peer
<1> DEFINE R == {c.reader, r}
           e == [c EXCEPT !.reader = r, !.outgrown = o, !.sent = TRUE]
<1>1. c \in ConnType(R) /\ r \in R /\ (c.peer # "dead" => c.open)
  BY DEF IsConn, ConnType
<1> HIDE DEF R
<1>2. e \in ConnType(R) /\ e.open = c.open /\ e.shared = c.shared /\ e.peer = c.peer
  BY <1>1 DEF ConnType
<1> QED
  BY <1>1, <1>2, ConnIs

\* A record that was sent in part leaves a connection.
LEMMA ConnCut ==
  ASSUME NEW c, IsConn(c), NEW r, NEW b \in BOOLEAN
  PROVE  LET e == [c EXCEPT !.cut = b, !.reader = r] IN
         IsConn(e) /\ e.open = c.open /\ e.shared = c.shared /\ e.peer = c.peer
<1> DEFINE R == {c.reader, r}
           e == [c EXCEPT !.cut = b, !.reader = r]
<1>1. c \in ConnType(R) /\ r \in R /\ (c.peer # "dead" => c.open)
  BY DEF IsConn, ConnType
<1> HIDE DEF R
<1>2. e \in ConnType(R) /\ e.open = c.open /\ e.shared = c.shared /\ e.peer = c.peer
  BY <1>1 DEF ConnType
<1> QED
  BY <1>1, <1>2, ConnIs

\* What the header leaves of a connection.
LEMMA ConnHeader ==
  ASSUME NEW c, IsConn(c), NEW r
  PROVE  LET e == [c EXCEPT !.reader = r] IN
         IsConn(e) /\ e.open = c.open /\ e.shared = c.shared /\ e.peer = c.peer
<1> DEFINE R == {c.reader, r}
           e == [c EXCEPT !.reader = r]
<1>1. c \in ConnType(R) /\ r \in R /\ (c.peer # "dead" => c.open)
  BY DEF IsConn, ConnType
<1> HIDE DEF R
<1>2. e \in ConnType(R) /\ e.open = c.open /\ e.shared = c.shared /\ e.peer = c.peer
  BY <1>1 DEF ConnType
<1> QED
  BY <1>1, <1>2, ConnIs

\* A server that hangs up, or a system that notices, leaves a connection.
LEMMA ConnPeer ==
  ASSUME NEW c, IsConn(c), NEW p \in Peers, p # "dead" => c.open
  PROVE  LET e == [c EXCEPT !.peer = p] IN
         IsConn(e) /\ e.open = c.open /\ e.shared = c.shared /\ e.peer = p
BY DEF IsConn, ConnType

\* No connection, and a new one.
LEMMA ConnNew ==
  ASSUME NEW s \in BOOLEAN, NEW l \in BOOLEAN
  PROVE  LET e == [NoConn EXCEPT !.open = TRUE, !.peer = "alive", !.shared = s, !.late = l] IN
         IsConn(e) /\ e.open /\ e.shared = s /\ e.peer = "alive"
<1> DEFINE R == {NewReader}
           e == [NoConn EXCEPT !.open = TRUE, !.peer = "alive", !.shared = s, !.late = l]
<1>1. NoConn \in ConnType(R)
  BY DEF NoConn, ConnType, Peers
<1> HIDE DEF R
<1>2. e \in ConnType(R) /\ e.open /\ e.shared = s /\ e.peer = "alive"
  BY <1>1 DEF ConnType, Peers
<1> QED
  BY <1>2, ConnIs

\* A descriptor that is not in use is no open connection.
LEMMA ConnNone ==
  IsConn(NoConn) /\ ~NoConn.open /\ ~NoConn.shared /\ NoConn.peer = "dead"
BY DEF NoConn, IsConn, ConnType, Peers

\* What is shared is open, or not, and its server as it was.
LEMMA ConnUnfollowed ==
  ASSUME NEW c, IsConn(c)
  PROVE  LET e == Unfollowed(c) IN
         IsConn(e) /\ e.open = c.open /\ e.shared /\ e.peer = c.peer
<1> DEFINE R == {NewReader}
           e == Unfollowed(c)
<1>1. NoConn \in ConnType(R)
  BY DEF NoConn, ConnType, Peers
<1>2. c.open \in BOOLEAN /\ c.peer \in Peers /\ (c.peer # "dead" => c.open)
  BY DEF IsConn, ConnType
<1> HIDE DEF R
<1>3. e \in ConnType(R) /\ e.open = c.open /\ e.shared /\ e.peer = c.peer
  BY <1>1, <1>2 DEF ConnType, Unfollowed
<1> QED
  BY <1>2, <1>3, ConnIs

-----------------------------------------------------------------------------
(* What a step keeps of the connections *)

\* They are connections, as many in use, and shared as before; or their server
\* is as before, too.
ConnsTyped == DOMAIN conns' = Fds /\ \A d \in Fds : IsConn(conns'[d])
SameUse ==
  /\ ConnsTyped
  /\ \A d \in Fds : conns'[d].open <=> conns[d].open
  /\ \A d \in Fds : conns'[d].shared <=> conns[d].shared
SamePeers == \A d \in Fds : conns'[d].peer = conns[d].peer

\* A step that does not touch the connections.
LEMMA ConnsUntouched ==
  ASSUME Types, UNCHANGED conns
  PROVE  SameUse /\ SamePeers
BY DEF Types, SameUse, SamePeers, ConnsTyped

\* A step that touches one connection, and leaves it in the state it had.
LEMMA ConnTouched ==
  ASSUME Types, NEW s \in Fds, NEW e, IsConn(e), conns' = [conns EXCEPT ![s] = e],
         e.open = conns[s].open, e.shared = conns[s].shared
  PROVE  /\ SameUse
         /\ e.peer = conns[s].peer => SamePeers
         /\ conns'[s] = e /\ \A d \in Fds : d # s => conns'[d] = conns[d]
BY DEF Types, SameUse, SamePeers, ConnsTyped

\* The own connections follow from the use.
LEMMA SameUseOwn ==
  ASSUME SameUse
  PROVE  \A d \in Fds : Own(d)' <=> Own(d)
BY DEF SameUse, Own

\* A thread goes on, and leaves what the others hold.
Moves(t, from, to) ==
  /\ pc[t] = from /\ pc' = [pc EXCEPT ![t] = to]
  /\ \A u \in Threads \ {t} : sock'[u] = sock[u]

\* A step of a thread that keeps the connections typed keeps the types.
LEMMA TypesKept ==
  ASSUME Types, NEW t \in Threads, NEW from \in PCs, NEW to \in PCs, Moves(t, from, to),
         ConnsTyped, fd' \in Fds \union {Closed}, lost' \in Nat, overlapped' \in BOOLEAN,
         sock' = sock \/ \E d \in Fds \union {Closed} : sock' = [sock EXCEPT ![t] = d]
  PROVE  Types'
BY DEF Types, Moves, ConnsTyped

-----------------------------------------------------------------------------
(* What a step of a thread has to show *)

\* A thread that comes in finds nobody, or leaves every connection shared.
ComesIn(t) == pc[t] = "idle" => ~Busy(t) \/ \A d \in Fds : ~Own(d)'

\* A step that makes no connection of the appender's own keeps who holds them,
\* when the appender keeps what it had and the thread does not begin to open.
LEMMA OwnKept ==
  ASSUME Types, OwnInv, NEW t \in Threads, NEW from \in PCs, NEW to \in PCs,
         Moves(t, from, to), ComesIn(t),
         \A d \in Fds : Own(d)' => Own(d),
         to # "header", to = "open" => \A d \in Fds : ~Own(d)',
         to = "publish" => from = "header" /\ sock'[t] = sock[t],
         to \notin Opening => \A d \in Fds : Own(d)' =>
           /\ (\A u \in Threads : pc'[u] \notin Opening) => d = fd'
           /\ to = "close socket" => sock'[t] = d
  PROVE  OwnInv'
<1>1. /\ pc \in [Threads -> PCs] /\ pc[t] = from
      /\ \A u \in Threads : pc'[u] = IF u = t THEN to ELSE pc[u]
      /\ \A u \in Threads : u # t => sock'[u] = sock[u]
  BY DEF Types, Moves
<1>2. to \in Opening => to = "publish" /\ from \in Opening /\ sock'[t] = sock[t]
  BY DEF Opening
<1>3. ASSUME NEW u \in Threads, NEW v \in Threads, u # v, pc'[u] # "idle", pc'[v] # "idle",
             NEW d \in Fds
      PROVE  ~Own(d)'
  <2>1. CASE pc[t] # "idle" \/ (u # t /\ v # t)
    BY <1>1, <1>3, <2>1 DEF OwnInv
  <2>2. CASE pc[t] = "idle" /\ (u = t \/ v = t)
    BY <1>1, <1>3, <2>2 DEF ComesIn, Busy
  <2> QED
    BY <2>1, <2>2
<1>4. ASSUME NEW u \in Threads, pc'[u] \in Opening
      PROVE  sock'[u] # Closed
  BY <1>1, <1>2, <1>4 DEF OwnInv
<1>5. ASSUME NEW d \in Fds, Own(d)', \A u \in Threads : pc'[u] \notin Opening
      PROVE  d = fd'
  <2>1. to \notin Opening
    BY <1>1, <1>5
  <2> QED
    BY <1>5, <2>1
<1>6. ASSUME NEW d \in Fds, Own(d)', NEW u \in Threads
      PROVE  /\ pc'[u] # "open"
             /\ pc'[u] \in Opening => sock'[u] = d
             /\ pc'[u] = "close socket" => sock'[u] = d
  <2>1. Own(d)
    BY <1>6
  <2>2. CASE u # t
    BY <1>1, <2>1, <2>2 DEF OwnInv
  <2>3. CASE u = t
    <3>1. pc'[t] # "open"
      BY <1>1, <1>6
    <3>2. pc'[t] \in Opening => sock'[t] = d
      BY <1>1, <1>2, <2>1 DEF OwnInv
    <3>3. pc'[t] = "close socket" => sock'[t] = d
      BY <1>1, <1>6 DEF Opening
    <3> QED
      BY <2>3, <3>1, <3>2, <3>3
  <2> QED
    BY <2>2, <2>3
<1> QED
  BY <1>3, <1>4, <1>5, <1>6 DEF OwnInv

\* What is asked of the only thread that is in the appender.
OrderlyAt(t) ==
  /\ \A d \in Fds : ~conns[d].shared
  /\ fd # Closed => conns[fd].open
  /\ pc[t] \in {"open"} \union Opening => fd = Closed
  /\ pc[t] \in Opening => conns[sock[t]].open /\ conns[sock[t]].peer # "dead"
  /\ pc[t] = "get socket" => fd # Closed
  /\ pc[t] = "send" => fd # Closed /\ sock[t] = fd
  /\ lost <= 2
  /\ \A d \in Fds : conns[d].peer = "gone" => lost = 0
  /\ (fd # Closed /\ conns[fd].peer = "dead" /\ pc[t] \notin {"close", "close socket"})
       => lost <= 1

\* A thread that comes in where there is none is the only one.
LEMMA TheOnlyThread ==
  ASSUME Types, Orderly, NEW t \in Threads, NEW from \in PCs, NEW to \in PCs,
         Moves(t, from, to), from = "idle" => ~Busy(t)
  PROVE  /\ OrderlyAt(t)
         /\ OrderlyAt(t)' => Orderly'
<1>1. /\ pc \in [Threads -> PCs] /\ pc[t] = from
      /\ \A u \in Threads : pc'[u] = IF u = t THEN to ELSE pc[u]
  BY DEF Types, Moves
<1>2. \A u \in Threads : u # t => pc[u] = "idle" /\ pc'[u] = "idle"
  BY <1>1 DEF Orderly, Busy
<1>3. OrderlyAt(t)
  <2>1. pc[t] \notin {"close", "close socket"} =>
          \A u \in Threads : pc[u] \notin {"close", "close socket"}
    BY <1>2
  <2> QED
    BY <2>1 DEF Orderly, OrderlyAt
<1>4. ASSUME OrderlyAt(t)'
      PROVE  Orderly'
  <2>1. \A u, v \in Threads : (pc'[u] # "idle" /\ pc'[v] # "idle") => u = v
    BY <1>2
  <2>2. ASSUME NEW u \in Threads
        PROVE  /\ pc'[u] \in {"open"} \union Opening => fd' = Closed
               /\ pc'[u] \in Opening => conns'[sock'[u]].open /\ conns'[sock'[u]].peer # "dead"
               /\ pc'[u] = "get socket" => fd' # Closed
               /\ pc'[u] = "send" => fd' # Closed /\ sock'[u] = fd'
    <3>1. CASE u = t
      BY <1>4, <3>1 DEF OrderlyAt
    <3>2. CASE u # t
      BY <1>2, <3>2 DEF Opening
    <3> QED
      BY <3>1, <3>2
  <2> QED
    BY <1>4, <2>1, <2>2 DEF Orderly, OrderlyAt
<1> QED
  BY <1>3, <1>4

\* The appender's own connection, seen by a thread that is in the appender and
\* does not open it.
LEMMA OwnIsFd ==
  ASSUME OwnInv, NEW t \in Threads, pc[t] # "idle", pc[t] \notin Opening
  PROVE  \A d \in Fds : Own(d) => d = fd
<1> SUFFICES ASSUME NEW d \in Fds, Own(d)
             PROVE  d = fd
  OBVIOUS
<1>1. ASSUME NEW u \in Threads, pc[u] \in Opening
      PROVE  FALSE
  <2>1. u # t /\ pc[u] # "idle"
    BY <1>1 DEF Opening
  <2> QED
    BY <2>1 DEF OwnInv
<1> QED
  BY <1>1 DEF OwnInv

\* The loss is bounded after a step of a thread that is in the appender, when it
\* keeps what is asked of the only one.
LEMMA LossKept ==
  ASSUME Types, LossInv, NEW t \in Threads, NEW from \in PCs, NEW to \in PCs,
         Moves(t, from, to), from # "idle", overlapped' = overlapped,
         overlapped /\ lost = 0 => lost' = 0,
         ~overlapped /\ OrderlyAt(t) => OrderlyAt(t)'
  PROVE  LossInv'
<1>1. CASE overlapped
  BY <1>1 DEF LossInv
<1>2. CASE ~overlapped
  BY <1>2, TheOnlyThread DEF LossInv
<1> QED
  BY <1>1, <1>2 DEF Types

-----------------------------------------------------------------------------
(* Steps of an append between opening and closing *)

\* What a thread reads of the appender's descriptor.
Reads(t, from, to) ==
  /\ to \in {"send", "close socket"} => sock'[t] = fd
  /\ to = "get socket" => fd # Closed
  /\ to = "send" => from = "get socket"
  /\ from \in {"close", "close socket"} => from = "close" /\ to = "close socket"

\* A thread that is in the appender and does not open or close it.
LEMMA QuietStep ==
  ASSUME SocketInv, NEW t \in Threads, NEW from \in PCs, NEW to \in PCs, Moves(t, from, to),
         SameUse, SamePeers, UNCHANGED <<fd, overlapped>>,
         from \notin {"idle"} \union Opening, to \notin {"open"} \union Opening,
         sock' = sock \/ \E d \in Fds \union {Closed} : sock' = [sock EXCEPT ![t] = d],
         lost' = lost \/ lost' = 0,
         Reads(t, from, to)
  PROVE  SocketInv'
<1>1. Types /\ lost \in Nat /\ fd \in Fds \union {Closed} /\ pc[t] = from /\ pc'[t] = to
  BY DEF SocketInv, Types, Moves
<1>2. lost' \in Nat
  BY <1>1
<1>3. Types'
  BY <1>1, <1>2, TypesKept DEF SameUse, Types
<1>4. \A d \in Fds : Own(d)' => Own(d) /\ d = fd
  BY <1>1, SameUseOwn, OwnIsFd DEF SocketInv
<1>5. OwnInv'
  <2>1. ComesIn(t)
    BY <1>1 DEF ComesIn
  <2>2. to # "header" /\ to # "open" /\ to # "publish"
    BY DEF Opening
  <2> QED
    BY <1>1, <1>4, <2>1, <2>2, OwnKept DEF SocketInv, Reads
<1>6. ASSUME OrderlyAt(t)
      PROVE  OrderlyAt(t)'
  <2>1. \A d \in Fds : ~conns'[d].shared
    BY <1>6 DEF OrderlyAt, SameUse
  <2>2. fd' # Closed => conns'[fd'].open
    BY <1>1, <1>6 DEF OrderlyAt, SameUse
  <2>3. pc'[t] = "get socket" => fd' # Closed
    BY <1>1 DEF Reads
  <2>4. pc'[t] = "send" => fd' # Closed /\ sock'[t] = fd'
    BY <1>1, <1>6 DEF OrderlyAt, Reads
  <2>5. lost <= 2 /\ \A d \in Fds : conns'[d].peer = "gone" => lost = 0
    BY <1>6 DEF OrderlyAt, SamePeers
  <2>6. lost' <= 2 /\ \A d \in Fds : conns'[d].peer = "gone" => lost' = 0
    <3>1. CASE lost' = lost
      BY <2>5, <3>1
    <3>2. CASE lost' = 0
      BY <3>2
    <3> QED
      BY <3>1, <3>2
  <2>7. (fd' # Closed /\ conns'[fd'].peer = "dead" /\ pc'[t] \notin {"close", "close socket"})
           => lost' <= 1
    <3>1. ASSUME fd' # Closed, conns'[fd'].peer = "dead", to \notin {"close", "close socket"}
          PROVE  lost <= 1
      <4>1. from \notin {"close", "close socket"}
        BY <3>1 DEF Reads
      <4>2. fd \in Fds /\ fd # Closed
        BY <1>1, <3>1
      <4>3. conns[fd].peer = "dead"
        BY <3>1, <4>2 DEF SamePeers
      <4> QED
        BY <1>1, <1>6, <4>1, <4>2, <4>3 DEF OrderlyAt
    <3>2. CASE lost' = lost
      BY <1>1, <3>1, <3>2
    <3>3. CASE lost' = 0
      <4>1. lost' <= 1
        BY <3>3
      <4> QED
        BY <4>1
    <3> QED
      BY <3>2, <3>3
  <2>8. pc'[t] \notin {"open"} \union Opening
    BY <1>1
  <2> QED
    BY <2>1, <2>2, <2>3, <2>4, <2>6, <2>7, <2>8 DEF OrderlyAt
<1>7. LossInv'
  <2>1. from # "idle" /\ overlapped' = overlapped /\ (overlapped /\ lost = 0 => lost' = 0)
    OBVIOUS
  <2> QED
    BY <1>1, <1>6, <2>1, LossKept DEF SocketInv
<1> QED
  BY <1>3, <1>5, <1>7 DEF SocketInv

\* A thread that finds the appender open formats its record, and so does one
\* that could not connect, or has connected; it looks for the connection once
\* more, and reads the descriptor.
LEMMA WalksOn ==
  ASSUME SocketInv, NEW t \in Threads,
         \/ TestOpen(t) /\ fd # Closed
         \/ ConnectFails(t) \/ InitLayout(t) \/ Format(t) \/ Drop(t) \/ TestStillOpen(t)
         \/ GetSocket(t) \/ TakeSocket(t)
  PROVE  SocketInv'
<1>1. Types /\ t \in DOMAIN pc /\ fd \in Fds \union {Closed}
  BY DEF SocketInv, Types
<1>2. ASSUME UNCHANGED conns
      PROVE  SameUse /\ SamePeers
  BY <1>1, <1>2, ConnsUntouched
<1>3. CASE TestOpen(t) /\ fd # Closed
  <2>1. /\ Moves(t, "is open", "format") /\ UNCHANGED <<fd, overlapped, conns>>
        /\ sock' = sock /\ lost' = lost
    BY <1>3 DEF TestOpen, Goto, Moves, locals, history
  <2>2. Reads(t, "is open", "format")
    BY DEF Reads
  <2> QED
    BY <1>2, <2>1, <2>2, QuietStep DEF PCs, Opening
<1>4. CASE ConnectFails(t)
  <2>1. /\ Moves(t, "open", "format") /\ UNCHANGED <<fd, overlapped, conns>>
        /\ sock' = sock /\ lost' = 0
    BY <1>4 DEF ConnectFails, Goto, Moves, locals
  <2>2. Reads(t, "open", "format")
    BY DEF Reads
  <2> QED
    BY <1>2, <2>1, <2>2, QuietStep DEF PCs, Opening
<1>5. CASE InitLayout(t)
  <2>1. /\ Moves(t, "init layout", "format") /\ UNCHANGED <<fd, overlapped, conns>>
        /\ sock' = sock /\ lost' = lost
    BY <1>5 DEF InitLayout, Goto, Moves, locals, history
  <2>2. Reads(t, "init layout", "format")
    BY DEF Reads
  <2> QED
    BY <1>2, <2>1, <2>2, QuietStep DEF PCs, Opening
<1>6. CASE Format(t)
  <2>1. /\ Moves(t, "format", "is still open") /\ UNCHANGED <<fd, overlapped, conns>>
        /\ sock' = sock /\ lost' = lost
    BY <1>6 DEF Format, Goto, Moves, history
  <2>2. Reads(t, "format", "is still open")
    BY DEF Reads
  <2> QED
    BY <1>2, <2>1, <2>2, QuietStep DEF PCs, Opening
<1>7. CASE Drop(t)
  <2>1. /\ Moves(t, "is still open", "idle") /\ UNCHANGED <<fd, overlapped, conns>>
        /\ sock' = [sock EXCEPT ![t] = Closed] /\ lost' = lost
    BY <1>1, <1>7 DEF Drop, Return, Goto, Moves, history, SocketInv, Types
  <2>2. Reads(t, "is still open", "idle")
    BY DEF Reads
  <2>3. \E d \in Fds \union {Closed} : sock' = [sock EXCEPT ![t] = d]
    BY <2>1
  <2> QED
    BY <1>2, <2>1, <2>2, <2>3, QuietStep DEF PCs, Opening
<1>8. CASE TestStillOpen(t)
  <2>1. /\ Moves(t, "is still open", "get socket") /\ UNCHANGED <<fd, overlapped, conns>>
        /\ sock' = sock /\ lost' = lost /\ fd # Closed
    BY <1>8 DEF TestStillOpen, Goto, Moves, locals, history
  <2>2. Reads(t, "is still open", "get socket")
    BY <2>1 DEF Reads
  <2> QED
    BY <1>2, <2>1, <2>2, QuietStep DEF PCs, Opening
<1>9. CASE GetSocket(t)
  <2>1. /\ Moves(t, "get socket", "send") /\ UNCHANGED <<fd, overlapped, conns>>
        /\ sock' = [sock EXCEPT ![t] = fd] /\ lost' = lost
    BY <1>1, <1>9 DEF GetSocket, Goto, Moves, history, SocketInv, Types
  <2>2. Reads(t, "get socket", "send")
    BY <1>1, <2>1 DEF Reads, SocketInv, Types
  <2>3. \E d \in Fds \union {Closed} : sock' = [sock EXCEPT ![t] = d]
    BY <1>1, <2>1
  <2> QED
    BY <1>2, <2>1, <2>2, <2>3, QuietStep DEF PCs, Opening
<1>10. CASE TakeSocket(t)
  <2>1. /\ Moves(t, "close", "close socket") /\ UNCHANGED <<fd, overlapped, conns>>
        /\ sock' = [sock EXCEPT ![t] = fd] /\ lost' = lost
    BY <1>1, <1>10 DEF TakeSocket, Goto, Moves, history, SocketInv, Types
  <2>2. Reads(t, "close", "close socket")
    BY <1>1, <2>1 DEF Reads, SocketInv, Types
  <2>3. \E d \in Fds \union {Closed} : sock' = [sock EXCEPT ![t] = d]
    BY <1>1, <2>1
  <2> QED
    BY <1>2, <2>1, <2>2, <2>3, QuietStep DEF PCs, Opening
<1> QED
  BY <1>3, <1>4, <1>5, <1>6, <1>7, <1>8, <1>9, <1>10

\* A record that the server takes, whole or in part, leaves the connection as
\* open and as alive as it was.
LEMMA Sends ==
  ASSUME SocketInv, NEW t \in Threads, SendWhole(t) \/ SendPart(t)
  PROVE  SocketInv'
<1> DEFINE s == sock[t]
           c == conns[s]
<1>1. Types /\ t \in DOMAIN pc /\ t \in DOMAIN sock /\ fd \in Fds \union {Closed}
  BY DEF SocketInv, Types
<1>2. Connected(t) /\ s \in Fds /\ IsConn(c)
  <2>1. Connected(t)
    BY DEF SendWhole, SendPart
  <2> QED
    BY <1>1, <2>1 DEF Types, Connected
<1>3. SameUse /\ SamePeers
  <2>1. CASE UNCHANGED conns
    BY <1>1, <2>1, ConnsUntouched
  <2>2. CASE SendWhole(t) /\ conns' # conns
    <3> DEFINE r == IF record[t].outgrown THEN Broken ELSE ReadRecord(c.reader, record[t])
               o == IF ~record[t].outgrown THEN c.outgrown
                    ELSE IF c.sent THEN "later" ELSE "first"
               e == [c EXCEPT !.reader = r, !.outgrown = o, !.sent = TRUE]
    <3>1. conns' = [conns EXCEPT ![s] = e]
      BY <2>2 DEF SendWhole
    <3>2. o \in {"no", "first", "later"}
      BY <1>2 DEF IsConn, ConnType
    <3> HIDE DEF r, o, c, s
    <3>3. IsConn(e) /\ e.open = c.open /\ e.shared = c.shared /\ e.peer = c.peer
      BY <1>2, <3>2, ConnSent
    <3> HIDE DEF e
    <3> QED
      BY <1>1, <1>2, <3>1, <3>3, ConnTouched DEF c
  <2>3. CASE SendPart(t) /\ conns' # conns
    <3> DEFINE e == [c EXCEPT !.cut = TRUE, !.reader = Broken]
    <3>1. conns' = [conns EXCEPT ![s] = e]
      BY <1>1, <1>2, <2>3 DEF SendPart, Types
    <3> HIDE DEF c, s
    <3>2. IsConn(e) /\ e.open = c.open /\ e.shared = c.shared /\ e.peer = c.peer
      BY <1>2, ConnCut
    <3> HIDE DEF e
    <3> QED
      BY <1>1, <1>2, <3>1, <3>2, ConnTouched DEF c
  <2> QED
    BY <2>1, <2>2, <2>3
<1>4. /\ Moves(t, "send", "idle") /\ UNCHANGED <<fd, overlapped>>
      /\ sock' = [sock EXCEPT ![t] = Closed] /\ (lost' = lost \/ lost' = 0)
  BY <1>1 DEF SendWhole, SendPart, Return, Goto, Moves, history, Types
<1>5. Reads(t, "send", "idle")
  BY DEF Reads
<1>6. \E d \in Fds \union {Closed} : sock' = [sock EXCEPT ![t] = d]
  BY <1>4
<1> QED
  BY <1>3, <1>4, <1>5, <1>6, QuietStep DEF PCs, Opening

\* A record that is lost was sent into the only connection there is, and adds
\* to the loss what the server allows.
LEMMA Loses ==
  ASSUME SocketInv, NEW t \in Threads, SendLost(t) \/ SendFails(t)
  PROVE  SocketInv'
<1> DEFINE s == sock[t]
<1>1. /\ Types /\ fd \in Fds \union {Closed} /\ s \in Fds \union {Closed} /\ lost \in Nat
      /\ overlapped \in BOOLEAN
  BY DEF SocketInv, Types
<1>2. PICK to \in {"idle", "close"} :
        /\ Moves(t, "send", to) /\ (to = "idle" <=> SendLost(t))
        /\ sock' = sock \/ \E d \in Fds \union {Closed} : sock' = [sock EXCEPT ![t] = d]
  <2>1. CASE SendLost(t)
    <3>1. Moves(t, "send", "idle") /\ sock' = [sock EXCEPT ![t] = Closed]
      BY <1>1, <2>1 DEF SendLost, Goto, Moves, Return, Types
    <3> QED
      BY <2>1, <3>1
  <2>2. CASE ~SendLost(t)
    <3>1. Moves(t, "send", "close") /\ sock' = sock
      BY <1>1, <2>2 DEF SendFails, Goto, Moves
    <3> QED
      BY <2>2, <3>1
  <2> QED
    BY <2>1, <2>2
<1>3. fd' = fd /\ overlapped' = overlapped /\ lost' = Lost /\ lost' \in Nat
  BY <1>1 DEF SendLost, SendFails, Lost
<1>4. pc[t] = "send" /\ pc'[t] = to /\ to \in PCs /\ to \notin {"open", "close socket"} \union Opening
  BY <1>1, <1>2 DEF Moves, Types, PCs, Opening
<1>5. /\ SameUse
      /\ SendLost(t) => \A d \in Fds : conns'[d].peer = IF d = s THEN "dead" ELSE conns[d].peer
      /\ ~SendLost(t) => SamePeers
      /\ s \in Fds => /\ SendLost(t) => conns[s].peer = "gone"
                      /\ ~SendLost(t) => (conns[s].open => conns[s].peer = "dead")
  <2>1. CASE SendLost(t)
    <3> DEFINE c == conns[s]
               e == [c EXCEPT !.peer = "dead"]
    <3>1. /\ s \in Fds /\ IsConn(c) /\ conns' = [conns EXCEPT ![s] = e]
          /\ conns[s].peer = "gone"
      BY <1>1, <2>1 DEF SendLost, Connected, Types
    <3> HIDE DEF c
    <3>2. IsConn(e) /\ e.open = c.open /\ e.shared = c.shared /\ e.peer = "dead"
      BY <3>1, ConnPeer DEF Peers
    <3> HIDE DEF e, s
    <3>3. SameUse /\ conns'[s] = e /\ \A d \in Fds : d # s => conns'[d] = conns[d]
      BY <1>1, <3>1, <3>2, ConnTouched DEF c
    <3> QED
      BY <2>1, <3>1, <3>2, <3>3
  <2>2. CASE ~SendLost(t)
    <3>1. UNCHANGED conns /\ (Connected(t) => conns[s].peer = "dead")
      BY <2>2 DEF SendFails
    <3>2. SameUse /\ SamePeers
      BY <1>1, <3>1, ConnsUntouched
    <3>3. Closed \notin Fds
      BY MaxFdsAssumption DEF Fds, Closed
    <3> QED
      BY <2>2, <3>1, <3>2, <3>3 DEF Connected
  <2> QED
    BY <2>1, <2>2
<1> HIDE DEF s
<1>6. Types'
  <2>1. /\ "send" \in PCs /\ to \in PCs /\ ConnsTyped /\ fd' \in Fds \union {Closed}
        /\ overlapped' \in BOOLEAN /\ lost' \in Nat
    BY <1>1, <1>3, <1>4, <1>5 DEF SameUse, PCs
  <2> QED
    BY <1>1, <1>2, <2>1, TypesKept
<1>7. \A d \in Fds : Own(d) => d = fd
  BY <1>4, OwnIsFd DEF SocketInv, Opening
<1>8. OwnInv'
  <2>1. ComesIn(t) /\ \A d \in Fds : Own(d)' => Own(d) /\ d = fd
    BY <1>4, <1>5, <1>7, SameUseOwn DEF ComesIn
  <2>2. to # "header" /\ to # "open" /\ to # "publish" /\ to # "close socket" /\ "send" \in PCs
    BY <1>4 DEF Opening, PCs
  <2> QED
    BY <1>1, <1>2, <1>3, <1>4, <2>1, <2>2, OwnKept DEF SocketInv
<1>9. ASSUME ~overlapped, OrderlyAt(t)
      PROVE  OrderlyAt(t)'
  <2>1. s = fd /\ fd \in Fds /\ fd # Closed /\ conns[fd].open /\ \A d \in Fds : ~conns[d].shared
    BY <1>1, <1>4, <1>9 DEF OrderlyAt, s
  <2>2. \A d \in Fds : conns'[d].peer # "gone"
    <3>1. ASSUME NEW d \in Fds, d # fd
          PROVE  conns'[d].peer = "dead"
      <4>1. ~Own(d)
        BY <1>7, <3>1
      <4>2. conns[d].peer = "dead" /\ IsConn(conns[d])
        BY <1>1, <2>1, <4>1 DEF Own, Types, IsConn
      <4> QED
        BY <1>5, <2>1, <3>1, <4>2 DEF SamePeers
    <3>2. conns'[fd].peer = "dead"
      BY <1>5, <2>1 DEF SamePeers
    <3> QED
      BY <3>1, <3>2
  <2>3. lost' = lost + 1
    BY <1>3, <1>9 DEF Lost
  <2>4. CASE SendLost(t)
    <3>1. lost = 0
      BY <1>5, <1>9, <2>1, <2>4 DEF OrderlyAt
    <3>2. lost' <= 1 /\ lost' <= 2
      BY <2>3, <3>1
    <3> QED
      BY <1>3, <1>4, <1>5, <2>1, <2>2, <3>2 DEF OrderlyAt, SameUse
  <2>5. CASE ~SendLost(t)
    <3>1. lost <= 1
      BY <1>4, <1>5, <1>9, <2>1, <2>5 DEF OrderlyAt
    <3>2. lost' <= 2
      BY <1>1, <2>3, <3>1
    <3>3. to = "close"
      BY <1>2, <2>5
    <3> QED
      BY <1>3, <1>4, <1>5, <2>1, <2>2, <3>2, <3>3 DEF OrderlyAt, SameUse
  <2> QED
    BY <2>4, <2>5
<1>10. LossInv'
  <2>1. overlapped => lost' = 0
    BY <1>3 DEF Lost
  <2>2. LossInv /\ "send" \in PCs /\ overlapped' = overlapped /\ to \in PCs
        /\ Moves(t, "send", to)
    BY <1>2, <1>3, <1>4 DEF SocketInv, PCs
  <2>3. overlapped /\ lost = 0 => lost' = 0
    BY <2>1
  <2>4. ~overlapped /\ OrderlyAt(t) => OrderlyAt(t)'
    BY <1>9
  <2>5. "send" # "idle" /\ Types
    BY <1>1
  <2> QED
    BY <2>2, <2>3, <2>4, <2>5, LossKept
<1> QED
  BY <1>6, <1>8, <1>10 DEF SocketInv

-----------------------------------------------------------------------------
(* Opening and closing *)

\* A thread begins to open where nothing is connected; a connection of another
\* thread that is opening would be shared.
LEMMA BeginsToOpen ==
  ASSUME SocketInv, NEW t \in Threads, TestOpen(t), fd = Closed
  PROVE  SocketInv'
<1>1. /\ Types /\ Moves(t, "is open", "open") /\ UNCHANGED <<fd, overlapped, conns, lost, sock>>
      /\ "is open" \in PCs /\ "open" \in PCs
  <2>1. Moves(t, "is open", "open") /\ UNCHANGED <<fd, overlapped, conns, lost, sock>>
    BY DEF TestOpen, Goto, Moves, locals, history
  <2> QED
    BY <2>1 DEF SocketInv, PCs
<1>2. SameUse /\ SamePeers
  BY <1>1, ConnsUntouched
<1>3. pc[t] = "is open" /\ pc'[t] = "open" /\ Closed \notin Fds
  <2>1. Closed \notin Fds
    BY MaxFdsAssumption DEF Fds, Closed
  <2> QED
    BY <1>1, <2>1 DEF Moves, Types
<1>4. Types'
  <2>1. ConnsTyped /\ fd' \in Fds \union {Closed} /\ overlapped' \in BOOLEAN /\ lost' \in Nat
    BY <1>1, <1>2 DEF SameUse, Types
  <2> QED
    BY <1>1, <2>1, TypesKept
<1>5. OwnInv'
  <2>1. \A d \in Fds : ~Own(d) /\ ~Own(d)'
    BY <1>2, <1>3, SameUseOwn, OwnIsFd DEF SocketInv, Opening
  <2>2. ComesIn(t)
    BY <1>3 DEF ComesIn
  <2> QED
    BY <1>1, <2>1, <2>2, OwnKept DEF SocketInv
<1>6. LossInv'
  <2>1. ASSUME OrderlyAt(t)
        PROVE  OrderlyAt(t)'
    <3>1. fd' = Closed /\ lost' = lost /\ conns' = conns /\ pc'[t] = "open"
      BY <1>1, <1>3
    <3> QED
      BY <2>1, <3>1 DEF OrderlyAt, Opening
  <2>2. LossInv /\ (overlapped /\ lost = 0 => lost' = 0)
    BY <1>1 DEF SocketInv
  <2> QED
    BY <1>1, <2>1, <2>2, LossKept
<1> QED
  BY <1>4, <1>5, <1>6 DEF SocketInv

\* A connection that is made belongs to the thread that makes it, if no other
\* is in the appender; there was none before, or it is shared.
LEMMA Connects ==
  ASSUME SocketInv, NEW t \in Threads, Connect(t)
  PROVE  SocketInv'
<1>1. /\ Types /\ Moves(t, "open", "header") /\ UNCHANGED <<fd, overlapped, lost>>
      /\ "open" \in PCs /\ "header" \in PCs
  BY DEF SocketInv, Connect, Goto, Moves, history, PCs, Types
<1>2. PICK s \in Fds :
        /\ conns' = [conns EXCEPT ![s] =
                       [NoConn EXCEPT !.open = TRUE, !.peer = "alive", !.shared = Busy(t),
                                      !.late = stream # Fresh /\ ~Busy(t)]]
        /\ sock' = [sock EXCEPT ![t] = s]
  BY DEF Connect, FreeFds
<1>3. /\ ConnsTyped /\ conns'[s].open /\ (conns'[s].shared <=> Busy(t))
      /\ conns'[s].peer = "alive"
      /\ \A d \in Fds : d # s => conns'[d] = conns[d]
  <2> DEFINE b == Busy(t)
             l == stream # Fresh /\ ~Busy(t)
             e == [NoConn EXCEPT !.open = TRUE, !.peer = "alive", !.shared = b, !.late = l]
  <2>1. b \in BOOLEAN /\ l \in BOOLEAN
    BY DEF Busy
  <2>2. conns' = [conns EXCEPT ![s] = e]
    BY <1>2
  <2> HIDE DEF b, l
  <2>3. IsConn(e) /\ e.open /\ e.shared = b /\ e.peer = "alive"
    BY <2>1, ConnNew
  <2> HIDE DEF e
  <2>4. ConnsTyped /\ conns'[s] = e /\ \A d \in Fds : d # s => conns'[d] = conns[d]
    BY <1>1, <2>2, <2>3 DEF Types, ConnsTyped
  <2> QED
    BY <2>3, <2>4 DEF b
<1>4. /\ pc \in [Threads -> PCs] /\ pc[t] = "open"
      /\ \A u \in Threads : pc'[u] = IF u = t THEN "header" ELSE pc[u]
      /\ sock'[t] = s /\ s # Closed /\ \A u \in Threads : u # t => sock'[u] = sock[u]
  <2>1. Closed \notin Fds
    BY MaxFdsAssumption DEF Fds, Closed
  <2> QED
    BY <1>1, <1>2, <2>1 DEF Moves, Types
<1>5. Types'
  <2>1. /\ fd' \in Fds \union {Closed} /\ overlapped' \in BOOLEAN /\ lost' \in Nat
        /\ \E d \in Fds \union {Closed} : sock' = [sock EXCEPT ![t] = d]
    BY <1>1, <1>2 DEF Types
  <2> QED
    BY <1>1, <1>3, <2>1, TypesKept
<1>6. /\ \A d \in Fds : ~Own(d)
      /\ \A d \in Fds : Own(d)' => d = s /\ ~Busy(t)
  <2>1. \A d \in Fds : ~Own(d)
    BY <1>4 DEF SocketInv, OwnInv
  <2> QED
    BY <1>3, <2>1 DEF Own
<1>7. OwnInv'
  <2>1. ASSUME NEW u \in Threads, NEW v \in Threads, u # v, pc'[u] # "idle", pc'[v] # "idle",
               NEW d \in Fds
        PROVE  ~Own(d)'
    <3>1. Busy(t)
      BY <1>4, <2>1 DEF Busy
    <3> QED
      BY <1>6, <3>1
  <2>2. ASSUME NEW u \in Threads, pc'[u] \in Opening
        PROVE  sock'[u] # Closed
    BY <1>4, <2>2 DEF SocketInv, OwnInv
  <2>3. ASSUME NEW d \in Fds, Own(d)'
        PROVE  /\ (\A u \in Threads : pc'[u] \notin Opening) => d = fd'
               /\ \A u \in Threads :
                    /\ pc'[u] # "open"
                    /\ pc'[u] \in Opening => sock'[u] = d
                    /\ pc'[u] = "close socket" => sock'[u] = d
    <3>1. d = s /\ \A u \in Threads : u # t => pc'[u] = "idle"
      BY <1>4, <1>6, <2>3 DEF Busy
    <3>2. pc'[t] = "header" /\ sock'[t] = d
      BY <1>4, <3>1
    <3> QED
      BY <3>1, <3>2 DEF Opening
  <2> QED
    BY <2>1, <2>2, <2>3 DEF OwnInv
<1>8. LossInv'
  <2>1. ASSUME ~overlapped, OrderlyAt(t)
        PROVE  OrderlyAt(t)'
    <3>1. ~Busy(t)
      BY <1>4, <2>1 DEF SocketInv, LossInv, Orderly, Busy
    <3>2. fd' = Closed /\ fd = Closed
      BY <1>1, <1>4, <2>1 DEF OrderlyAt
    <3>3. /\ \A d \in Fds : ~conns'[d].shared
          /\ \A d \in Fds : conns'[d].peer = "gone" => lost' = 0
      BY <1>1, <1>3, <2>1, <3>1 DEF OrderlyAt
    <3>4. lost' <= 2
      BY <1>1, <2>1 DEF OrderlyAt
    <3> QED
      BY <1>3, <1>4, <3>2, <3>3, <3>4 DEF OrderlyAt
  <2>2. LossInv /\ (overlapped /\ lost = 0 => lost' = 0)
    BY <1>1 DEF SocketInv
  <2>3. ~overlapped /\ OrderlyAt(t) => OrderlyAt(t)'
    BY <2>1
  <2> QED
    BY <1>1, <2>2, <2>3, LossKept
<1> QED
  BY <1>5, <1>7, <1>8 DEF SocketInv

\* The header is sent on the connection of the thread that opens it.
LEMMA SendsHeader ==
  ASSUME SocketInv, NEW t \in Threads, SendHeader(t)
  PROVE  SocketInv'
<1> DEFINE s == sock[t]
<1>1. /\ Types /\ Moves(t, "header", "publish") /\ UNCHANGED <<fd, overlapped, lost, sock>>
      /\ "header" \in PCs /\ "publish" \in PCs /\ pc[t] = "header" /\ pc'[t] = "publish"
  BY DEF SocketInv, SendHeader, Goto, Moves, locals, history, PCs, Types
<1>2. s \in Fds
  BY <1>1 DEF SocketInv, OwnInv, Types, Opening
<1>3. SameUse /\ SamePeers
  <2> DEFINE c == conns[s]
             b == c.peer = "alive" /\ ~c.shared
             r == [c.reader EXCEPT !.header = b]
             e == [c EXCEPT !.reader = r]
  <2>1. IsConn(c) /\ conns' = [conns EXCEPT ![s] = e]
    BY <1>1, <1>2 DEF SendHeader, Types
  <2> HIDE DEF r, c
  <2>2. IsConn(e) /\ e.open = c.open /\ e.shared = c.shared /\ e.peer = c.peer
    BY <2>1, ConnHeader
  <2> HIDE DEF e, s
  <2> QED
    BY <1>1, <1>2, <2>1, <2>2, ConnTouched DEF c
<1> HIDE DEF s
<1>4. Types'
  <2>1. ConnsTyped /\ fd' \in Fds \union {Closed} /\ overlapped' \in BOOLEAN /\ lost' \in Nat
    BY <1>1, <1>3 DEF SameUse, Types
  <2> QED
    BY <1>1, <2>1, TypesKept
<1>5. OwnInv'
  <2>1. ComesIn(t) /\ \A d \in Fds : Own(d)' => Own(d)
    BY <1>1, <1>3, SameUseOwn DEF ComesIn
  <2>2. "publish" \in Opening
    BY DEF Opening
  <2> QED
    BY <1>1, <2>1, <2>2, OwnKept DEF SocketInv
<1>6. LossInv'
  <2>1. ASSUME OrderlyAt(t)
        PROVE  OrderlyAt(t)'
    <3>1. fd' = fd /\ lost' = lost /\ sock'[t] = s /\ sock[t] = s /\ fd = Closed
      BY <1>1, <2>1 DEF OrderlyAt, Opening, s
    <3>2. conns'[s].open /\ conns'[s].peer # "dead"
      BY <1>1, <1>2, <1>3, <2>1, <3>1 DEF OrderlyAt, Opening, SameUse, SamePeers
    <3>3. /\ \A d \in Fds : ~conns'[d].shared
          /\ \A d \in Fds : conns'[d].peer = "gone" => lost' = 0
          /\ lost' <= 2
      BY <1>1, <1>3, <2>1 DEF OrderlyAt, SameUse, SamePeers
    <3> QED
      BY <1>1, <3>1, <3>2, <3>3 DEF OrderlyAt, Opening
  <2>2. LossInv /\ (overlapped /\ lost = 0 => lost' = 0)
    BY <1>1 DEF SocketInv
  <2> QED
    BY <1>1, <2>1, <2>2, LossKept
<1> QED
  BY <1>4, <1>5, <1>6 DEF SocketInv

\* The thread that has connected hands its connection to the appender.
LEMMA Publishes ==
  ASSUME SocketInv, NEW t \in Threads, Publish(t)
  PROVE  SocketInv'
<1>1. /\ Types /\ Moves(t, "publish", "init layout") /\ fd' = sock[t]
      /\ UNCHANGED <<conns, overlapped, lost, sock>>
      /\ "publish" \in PCs /\ "init layout" \in PCs
      /\ pc[t] = "publish" /\ pc'[t] = "init layout"
  BY DEF SocketInv, Publish, Goto, Moves, locals, history, PCs, Types
<1>2. sock[t] \in Fds
  BY <1>1 DEF SocketInv, OwnInv, Types, Opening
<1>3. SameUse /\ SamePeers
  BY <1>1, ConnsUntouched
<1>4. Types'
  <2>1. ConnsTyped /\ fd' \in Fds \union {Closed} /\ overlapped' \in BOOLEAN /\ lost' \in Nat
    BY <1>1, <1>2, <1>3 DEF SameUse, Types
  <2> QED
    BY <1>1, <2>1, TypesKept
<1>5. OwnInv'
  <2>1. ComesIn(t) /\ \A d \in Fds : Own(d)' => Own(d)
    BY <1>1, <1>3, SameUseOwn DEF ComesIn
  <2>2. \A d \in Fds : Own(d)' => d = fd'
    BY <1>1, <2>1 DEF SocketInv, OwnInv, Opening
  <2> QED
    BY <1>1, <2>1, <2>2, OwnKept DEF SocketInv
<1>6. LossInv'
  <2>1. ASSUME OrderlyAt(t)
        PROVE  OrderlyAt(t)'
    <3>1. conns'[fd'].open /\ conns'[fd'].peer # "dead" /\ lost' <= 2
      BY <1>1, <2>1 DEF OrderlyAt, Opening
    <3>2. /\ \A d \in Fds : ~conns'[d].shared
          /\ \A d \in Fds : conns'[d].peer = "gone" => lost' = 0
      BY <1>1, <2>1 DEF OrderlyAt
    <3> QED
      BY <1>1, <3>1, <3>2 DEF OrderlyAt, Opening
  <2>2. LossInv /\ (overlapped /\ lost = 0 => lost' = 0)
    BY <1>1 DEF SocketInv
  <2> QED
    BY <1>1, <2>1, <2>2, LossKept
<1> QED
  BY <1>4, <1>5, <1>6 DEF SocketInv

\* The appender closes its own connection, or one that is shared.
LEMMA Closes ==
  ASSUME SocketInv, NEW t \in Threads, CloseSocket(t)
  PROVE  SocketInv'
<1> DEFINE s == sock[t]
<1>1. /\ Types /\ Moves(t, "close socket", "idle") /\ fd' = Closed
      /\ UNCHANGED <<overlapped, lost>> /\ sock' = [sock EXCEPT ![t] = Closed]
      /\ conns' = IF s = Closed THEN conns ELSE [conns EXCEPT ![s] = NoConn]
      /\ "close socket" \in PCs /\ "idle" \in PCs
      /\ pc[t] = "close socket" /\ pc'[t] = "idle" /\ s \in Fds \union {Closed}
  BY DEF SocketInv, CloseSocket, Return, Goto, Moves, history, PCs, Types
<1>2. /\ ConnsTyped
      /\ \A d \in Fds : conns'[d] = conns[d] \/ (d = s /\ conns'[d] = NoConn)
      /\ s \in Fds => conns'[s] = NoConn
  <2>1. IsConn(NoConn)
    BY ConnNone
  <2>2. Closed \notin Fds
    BY MaxFdsAssumption DEF Fds, Closed
  <2> QED
    BY <1>1, <2>1, <2>2 DEF ConnsTyped, Types
<1>3. ~NoConn.open /\ ~NoConn.shared /\ NoConn.peer = "dead"
  BY ConnNone
<1> HIDE DEF s
<1>4. Types'
  <2>1. /\ fd' \in Fds \union {Closed} /\ overlapped' \in BOOLEAN /\ lost' \in Nat
        /\ \E d \in Fds \union {Closed} : sock' = [sock EXCEPT ![t] = d]
    BY <1>1 DEF Types
  <2> QED
    BY <1>1, <1>2, <2>1, TypesKept
<1>5. OwnInv'
  <2>1. \A d \in Fds : ~Own(d)'
    <3>1. ASSUME NEW d \in Fds, Own(d)'
          PROVE  FALSE
      <4>1. conns'[d] # NoConn
        BY <1>3, <3>1 DEF Own
      <4>2. conns'[d] = conns[d] /\ d # s
        BY <1>2, <4>1
      <4>3. Own(d)
        BY <3>1, <4>2 DEF Own
      <4> QED
        BY <1>1, <4>2, <4>3 DEF SocketInv, OwnInv, s
    <3> QED
      BY <3>1
  <2>2. ComesIn(t) /\ "idle" \notin Opening
    BY <1>1 DEF ComesIn, Opening
  <2> QED
    BY <1>1, <2>1, <2>2, OwnKept DEF SocketInv
<1>6. LossInv'
  <2>1. ASSUME OrderlyAt(t)
        PROVE  OrderlyAt(t)'
    <3>1. /\ \A d \in Fds : ~conns'[d].shared
          /\ \A d \in Fds : conns'[d].peer = "gone" => lost' = 0
      BY <1>1, <1>2, <1>3, <2>1 DEF OrderlyAt
    <3>2. lost' <= 2
      BY <1>1, <2>1 DEF OrderlyAt
    <3> QED
      BY <1>1, <3>1, <3>2 DEF OrderlyAt, Opening
  <2>2. LossInv /\ (overlapped /\ lost = 0 => lost' = 0)
    BY <1>1 DEF SocketInv
  <2> QED
    BY <1>1, <2>1, <2>2, LossKept
<1> QED
  BY <1>4, <1>5, <1>6 DEF SocketInv

-----------------------------------------------------------------------------
(* Coming in *)

\* A thread that comes in finds the appender empty, or leaves every connection
\* shared and the loss without account.
LEMMA Enters ==
  ASSUME SocketInv, NEW t \in Threads, Estimate(t) \/ CloseAppender(t)
  PROVE  SocketInv'
<1>1. Types
  BY DEF SocketInv
<1>2. PICK to \in {"is open", "close"} : Moves(t, "idle", to) /\ UNCHANGED <<fd, sock>>
  <2>1. CASE Estimate(t)
    <3>1. Moves(t, "idle", "is open") /\ UNCHANGED <<fd, sock>>
      BY <2>1 DEF Estimate, Goto, Moves
    <3> QED
      BY <3>1
  <2>2. CASE CloseAppender(t)
    <3>1. Moves(t, "idle", "close") /\ UNCHANGED <<fd, sock>>
      BY <2>2 DEF CloseAppender, Goto, Moves
    <3> QED
      BY <3>1
  <2> QED
    BY <2>1, <2>2
<1>3. Enter(t)
  BY DEF Estimate, CloseAppender
<1>4. "idle" \in PCs /\ to \in PCs /\ to \notin {"open", "close socket", "send", "get socket"}
      /\ to \notin Opening
  BY DEF PCs, Opening
<1>5. pc[t] = "idle" /\ pc'[t] = to
  BY <1>1, <1>2 DEF Types, Moves
<1>6. CASE ~Busy(t)
  <2>1. UNCHANGED <<conns, overlapped, lost>>
    BY <1>1, <1>3, <1>6 DEF Enter, Types
  <2>2. SameUse /\ SamePeers
    BY <1>1, <2>1, ConnsUntouched
  <2>3. Types'
    <3>1. ConnsTyped /\ fd' \in Fds \union {Closed} /\ overlapped' \in BOOLEAN /\ lost' \in Nat
      BY <1>1, <1>2, <2>1, <2>2 DEF SameUse, Types
    <3> QED
      BY <1>1, <1>2, <1>4, <3>1, TypesKept
  <2>4. OwnInv'
    <3>1. ComesIn(t) /\ \A d \in Fds : Own(d)' => Own(d)
      BY <1>6, <2>2, SameUseOwn DEF ComesIn
    <3>2. ASSUME NEW d \in Fds, Own(d)', \A u \in Threads : pc'[u] \notin Opening
          PROVE  d = fd'
      <4>1. \A u \in Threads : pc[u] \notin Opening
        BY <1>1, <1>2, <1>5, <3>2 DEF Moves, Types, Opening
      <4> QED
        BY <1>2, <3>1, <3>2, <4>1 DEF SocketInv, OwnInv
    <3> QED
      BY <1>1, <1>2, <1>4, <3>1, <3>2, OwnKept DEF SocketInv, Opening
  <2>5. LossInv'
    <3>1. CASE overlapped
      BY <2>1, <3>1 DEF SocketInv, LossInv
    <3>2. CASE ~overlapped
      <4>1. Orderly
        BY <3>2 DEF SocketInv, LossInv
      <4>2. OrderlyAt(t) /\ (OrderlyAt(t)' => Orderly')
        BY <1>1, <1>2, <1>4, <1>6, <4>1, TheOnlyThread
      <4>3. \A d \in Fds : conns[d].peer = "gone" => lost = 0
        BY <4>1 DEF Orderly
      <4>4. (fd # Closed /\ conns[fd].peer = "dead") => lost <= 1
        BY <1>5, <4>2 DEF OrderlyAt
      <4>5. OrderlyAt(t)'
        BY <1>2, <1>4, <1>5, <2>1, <4>2, <4>4 DEF OrderlyAt
      <4> QED
        BY <2>1, <3>2, <4>2, <4>5 DEF LossInv
    <3> QED
      BY <3>1, <3>2
  <2> QED
    BY <2>3, <2>4, <2>5 DEF SocketInv
<1>7. CASE Busy(t)
  <2>1. conns' = [d \in Fds |-> Unfollowed(conns[d])] /\ overlapped' = TRUE /\ lost' = 0
    BY <1>1, <1>3, <1>7 DEF Enter, Types
  <2>2. ConnsTyped /\ \A d \in Fds : conns'[d].shared
    <3>1. \A d \in Fds : conns'[d] = Unfollowed(conns[d]) /\ IsConn(conns[d])
      BY <1>1, <2>1 DEF Types
    <3>2. \A d \in Fds : IsConn(conns'[d]) /\ conns'[d].shared
      BY <3>1, ConnUnfollowed
    <3>3. DOMAIN conns' = Fds
      BY <2>1
    <3> QED
      BY <3>2, <3>3 DEF ConnsTyped
  <2>3. Types'
    <3>1. fd' \in Fds \union {Closed} /\ overlapped' \in BOOLEAN /\ lost' \in Nat
      BY <1>1, <1>2, <2>1 DEF Types
    <3> QED
      BY <1>1, <1>2, <1>4, <2>2, <3>1, TypesKept
  <2>4. OwnInv'
    <3>1. \A d \in Fds : ~Own(d)'
      BY <2>2 DEF Own
    <3>2. ComesIn(t)
      BY <3>1 DEF ComesIn
    <3> QED
      BY <1>1, <1>2, <1>4, <3>1, <3>2, OwnKept DEF SocketInv, Opening
  <2>5. LossInv'
    BY <2>1 DEF LossInv
  <2> QED
    BY <2>3, <2>4, <2>5 DEF SocketInv
<1> QED
  BY <1>6, <1>7

-----------------------------------------------------------------------------
(* The server *)

\* The server goes down or comes up, or hangs up; the faults end.  No thread
\* moves, and a connection that the system has not given up it has not given up.
LEMMA ServerStep ==
  ASSUME SocketInv, UNCHANGED <<pc, fd, sock, overlapped>>, SameUse,
         \A d \in Fds : conns'[d].peer = "dead" <=> conns[d].peer = "dead",
         lost' = 0 \/ (lost' = lost /\ SamePeers)
  PROVE  SocketInv'
<1>1. Types' /\ Types
  <2>1. lost' \in Nat
    BY DEF SocketInv, Types
  <2> QED
    BY <2>1 DEF SocketInv, Types, SameUse, ConnsTyped
<1>2. OwnInv'
  BY SameUseOwn DEF SocketInv, OwnInv
<1>3. ASSUME ~overlapped, Orderly
      PROVE  Orderly'
  <2>1. /\ \A t, u \in Threads : (pc'[t] # "idle" /\ pc'[u] # "idle") => t = u
        /\ \A d \in Fds : ~conns'[d].shared
    BY <1>3 DEF Orderly, SameUse
  <2>2. fd' # Closed => conns'[fd'].open
    <3>1. fd' = fd /\ (fd # Closed => fd \in Fds)
      BY <1>1 DEF Types
    <3> QED
      BY <1>3, <3>1 DEF Orderly, SameUse
  <2>3. ASSUME NEW t \in Threads
        PROVE  /\ pc'[t] \in {"open"} \union Opening => fd' = Closed
               /\ pc'[t] = "get socket" => fd' # Closed
               /\ pc'[t] = "send" => fd' # Closed /\ sock'[t] = fd'
    BY <1>3 DEF Orderly
  <2>4. ASSUME NEW t \in Threads, pc'[t] \in Opening
        PROVE  conns'[sock'[t]].open /\ conns'[sock'[t]].peer # "dead"
    <3>1. sock[t] \in Fds /\ pc[t] \in Opening /\ sock' = sock
      BY <1>1, <2>4 DEF SocketInv, OwnInv, Types
    <3>2. conns[sock[t]].open /\ conns[sock[t]].peer # "dead"
      BY <1>3, <3>1 DEF Orderly
    <3> QED
      BY <3>1, <3>2 DEF SameUse
  <2>5. lost' <= 2 /\ \A d \in Fds : conns'[d].peer = "gone" => lost' = 0
    <3>1. CASE lost' = 0
      BY <3>1
    <3>2. CASE lost' = lost /\ SamePeers
      BY <1>3, <3>2 DEF Orderly, SamePeers
    <3> QED
      BY <3>1, <3>2
  <2>6. ASSUME fd' # Closed, conns'[fd'].peer = "dead",
               \A t \in Threads : pc'[t] \notin {"close", "close socket"}
        PROVE  lost' <= 1
    <3>1. fd' = fd /\ fd # Closed /\ fd \in Fds /\ pc' = pc
      BY <1>1, <2>6 DEF Types
    <3>2. conns[fd].peer = "dead"
      BY <2>6, <3>1
    <3>3. lost <= 1
      BY <1>3, <2>6, <3>1, <3>2 DEF Orderly
    <3>4. CASE lost' = 0
      BY <3>4
    <3>5. CASE lost' = lost
      BY <3>3, <3>5
    <3> QED
      BY <3>4, <3>5
  <2> QED
    BY <2>1, <2>2, <2>3, <2>4, <2>5, <2>6 DEF Orderly
<1>4. LossInv'
  <2>1. CASE overlapped
    BY <2>1 DEF SocketInv, LossInv
  <2>2. CASE ~overlapped
    BY <1>3, <2>2 DEF SocketInv, LossInv
  <2> QED
    BY <1>1, <2>1, <2>2 DEF Types
<1> QED
  BY <1>1, <1>2, <1>4 DEF SocketInv

\* Whatever the server does, descriptors stay with who has them, and a loss is
\* possible only after it hung up.
LEMMA ServerSteps ==
  ASSUME SocketInv,
         \/ ServerGoesDown \/ ServerComesUp \/ LastFault
         \/ \E d \in Fds : HangUp(d)
  PROVE  SocketInv'
<1>1. Types
  BY DEF SocketInv
<1>2. CASE ServerGoesDown
  <2> DEFINE p(d) == IF conns[d].peer = "alive" THEN "gone" ELSE conns[d].peer
  <2>1. /\ UNCHANGED <<pc, fd, sock, overlapped>> /\ lost' = 0 /\ DOMAIN conns' = Fds
        /\ \A d \in Fds : conns'[d] = [conns[d] EXCEPT !.peer = p(d)]
    BY <1>2 DEF ServerGoesDown, locals
  <2>2. \A d \in Fds : /\ p(d) \in Peers /\ (p(d) # "dead" => conns[d].open)
                       /\ (p(d) = "dead" <=> conns[d].peer = "dead") /\ IsConn(conns[d])
    BY <1>1 DEF Types, IsConn, ConnType, Peers
  <2> HIDE DEF p
  <2>3. \A d \in Fds : /\ IsConn(conns'[d]) /\ conns'[d].open = conns[d].open
                       /\ conns'[d].shared = conns[d].shared /\ conns'[d].peer = p(d)
    <3> SUFFICES ASSUME NEW d \in Fds
                 PROVE  /\ IsConn(conns'[d]) /\ conns'[d].open = conns[d].open
                        /\ conns'[d].shared = conns[d].shared /\ conns'[d].peer = p(d)
      OBVIOUS
    <3> DEFINE c == conns[d]
               q == p(d)
    <3>1. IsConn(c) /\ q \in Peers /\ (q # "dead" => c.open) /\ conns'[d] = [c EXCEPT !.peer = q]
      BY <2>1, <2>2
    <3> HIDE DEF c, q
    <3>2. LET e == [c EXCEPT !.peer = q] IN
          IsConn(e) /\ e.open = c.open /\ e.shared = c.shared /\ e.peer = q
      BY <3>1, ConnPeer
    <3> QED
      BY <3>1, <3>2 DEF c, q
  <2>4. SameUse
    BY <2>1, <2>3 DEF SameUse, ConnsTyped
  <2> QED
    BY <2>1, <2>2, <2>3, <2>4, ServerStep
<1>3. CASE ServerComesUp
  <2>1. UNCHANGED <<pc, fd, sock, overlapped, conns>> /\ lost' = 0
    BY <1>3 DEF ServerComesUp, locals
  <2> QED
    BY <1>1, <2>1, ConnsUntouched, ServerStep
<1>4. CASE LastFault
  <2>1. UNCHANGED <<pc, fd, sock, overlapped, conns, lost>>
    BY <1>4 DEF LastFault, locals
  <2> QED
    BY <1>1, <2>1, ConnsUntouched, ServerStep
<1>5. ASSUME NEW s \in Fds, HangUp(s)
      PROVE  SocketInv'
  <2> DEFINE c == conns[s]
             e == [c EXCEPT !.peer = "gone"]
  <2>1. /\ UNCHANGED <<pc, fd, sock, overlapped>> /\ lost' = 0
        /\ conns' = [conns EXCEPT ![s] = e] /\ c.peer = "alive" /\ IsConn(c) /\ c.open
    BY <1>1, <1>5 DEF HangUp, locals, Types, IsConn
  <2> HIDE DEF c
  <2>2. IsConn(e) /\ e.open = c.open /\ e.shared = c.shared /\ e.peer = "gone"
    BY <2>1, ConnPeer DEF Peers
  <2> HIDE DEF e
  <2>3. SameUse /\ conns'[s] = e /\ \A d \in Fds : d # s => conns'[d] = conns[d]
    BY <1>1, <2>1, <2>2, ConnTouched DEF c
  <2>4. \A d \in Fds : conns'[d].peer = "dead" <=> conns[d].peer = "dead"
    BY <2>1, <2>2, <2>3 DEF c
  <2> QED
    BY <2>1, <2>3, <2>4, ServerStep
<1> QED
  BY <1>2, <1>3, <1>4, <1>5

-----------------------------------------------------------------------------
(* The invariant *)

\* Nothing is connected at first.
LEMMA InitSocketInv == Init => SocketInv
<1> SUFFICES ASSUME Init
             PROVE  SocketInv
  OBVIOUS
<1>1. /\ fd = Closed /\ conns = [d \in Fds |-> NoConn] /\ pc = [t \in Threads |-> "idle"]
      /\ sock = [t \in Threads |-> Closed] /\ overlapped = FALSE /\ lost = 0
  BY DEF Init, Closed
<1>2. IsConn(NoConn) /\ ~NoConn.open /\ ~NoConn.shared /\ NoConn.peer = "dead"
  BY ConnNone
<1>3. Types
  BY <1>1, <1>2 DEF Types, PCs
<1>4. OwnInv
  BY <1>1, <1>2 DEF OwnInv, Own, Opening
<1>5. Orderly
  BY <1>1, <1>2 DEF Orderly, Opening
<1> QED
  BY <1>1, <1>3, <1>4, <1>5 DEF SocketInv, LossInv

\* Every statement of append_to_output and close_appender, in any thread, keeps
\* the invariant of the connections.
LEMMA NextSocketInv == SocketInv /\ [Next]_vars => SocketInv'
<1> SUFFICES ASSUME SocketInv, [Next]_vars
             PROVE  SocketInv'
  OBVIOUS
<1>1. ASSUME NEW t \in Threads, AppendToOutput(t)
      PROVE  SocketInv'
  <2>1. CASE TestOpen(t)
    BY <2>1, WalksOn, BeginsToOpen
  <2>2. CASE Estimate(t)
    BY <2>2, Enters
  <2>3. CASE Connect(t)
    BY <2>3, Connects
  <2>4. CASE SendHeader(t)
    BY <2>4, SendsHeader
  <2>5. CASE Publish(t)
    BY <2>5, Publishes
  <2>6. CASE SendWhole(t)
    BY <2>6, Sends
  <2>7. CASE SendLost(t) \/ SendFails(t)
    BY <2>7, Loses
  <2>8. CASE CloseSocket(t)
    BY <2>8, Closes
  <2>9. CASE \/ ConnectFails(t) \/ InitLayout(t) \/ Format(t) \/ Drop(t) \/ TestStillOpen(t)
             \/ GetSocket(t) \/ TakeSocket(t)
    BY <2>9, WalksOn
  <2> QED
    BY <1>1, <2>1, <2>2, <2>3, <2>4, <2>5, <2>6, <2>7, <2>8, <2>9 DEF AppendToOutput
<1>2. ASSUME NEW t \in Threads, SendPart(t)
      PROVE  SocketInv'
  BY <1>2, Sends
<1>3. ASSUME NEW t \in Threads, CloseAppender(t)
      PROVE  SocketInv'
  BY <1>3, Enters
<1>4. CASE ServerGoesDown \/ ServerComesUp \/ LastFault \/ \E d \in Fds : HangUp(d)
  BY <1>4, ServerSteps
<1>5. CASE UNCHANGED vars
  <2>1. UNCHANGED <<pc, fd, sock, overlapped, conns, lost>>
    BY <1>5 DEF vars
  <2>2. Types
    BY DEF SocketInv
  <2> QED
    BY <2>1, <2>2, ConnsUntouched, ServerStep
<1> QED
  BY <1>1, <1>2, <1>3, <1>4, <1>5 DEF Next

\* Whatever threads append and close at the same time, a connection of which no
\* two threads had a hand is the appender's or in the hands of one thread.
THEOREM SocketInvCorrect == Spec => []SocketInv
<1> QED
  BY InitSocketInv, NextSocketInv, PTL DEF Spec

\* open_appender and close_appender use the descriptor outside any lock.  A
\* connection is nobody's only when appends of two threads have shared it.
THEOREM NoDescriptorLostCorrect == Spec => []NoDescriptorLost
<1>1. SocketInv => NoDescriptorLost
  <2> SUFFICES ASSUME SocketInv, NEW d \in Fds, conns[d].open, d # fd, ~conns[d].shared
               PROVE  \E t \in Threads : sock[t] = d /\ pc[t] \in {"header", "publish"}
    BY DEF NoDescriptorLost
  <2>1. Own(d)
    BY DEF Own
  <2>2. PICK t \in Threads : pc[t] \in Opening
    BY <2>1 DEF SocketInv, OwnInv
  <2> QED
    BY <2>1, <2>2 DEF SocketInv, OwnInv, Opening
<1> QED
  BY <1>1, SocketInvCorrect, PTL

\* append_to_output closes the appender when send() fails, so a server that has
\* hung up costs the record that the system took and the one that failed.
THEOREM FewLostInARowCorrect == Spec => []FewLostInARow
<1>1. SocketInv => FewLostInARow
  <2> SUFFICES ASSUME SocketInv
               PROVE  lost <= 2
    BY DEF FewLostInARow
  <2>1. CASE overlapped
    <3>1. lost = 0
      BY <2>1 DEF SocketInv, LossInv
    <3> QED
      BY <3>1
  <2>2. CASE ~overlapped
    BY <2>2 DEF SocketInv, LossInv, Orderly
  <2> QED
    BY <2>1, <2>2
<1> QED
  BY <1>1, SocketInvCorrect, PTL

-----------------------------------------------------------------------------
(* The elements of a record *)

ClassNames == {"String", "LoggingEvent", "LocationInfo", "LogEvent", "EmptyMap", "EmptyThreadContextStack",
               "Level", "StandardLevel", "SimpleMessage", "StackTraceElement"}
Element == [class : ClassNames, handles : Nat]

\* A record: its objects are of different classes, and the first is described
\* with enough strings for the later descriptions to refer to one.
Shape(es) ==
  /\ es \in Seq(Element) /\ Len(es) > 0
  /\ \A i \in 1..Len(es) : es[i].class # "String" => es[i].handles \in Nat \ {0}
  /\ \A i, j \in 1..Len(es) : (es[i].class # "String" /\ es[i].class = es[j].class) => i = j
  /\ es[1].class # "String" /\ es[1].handles > StringHandle /\ es[1].class \notin StringTyped

\* The records of both layouts have that shape, and one of their elements is the
\* description that tells whether the stream was begun.
LEMMA RecordShape ==
  ASSUME NEW l \in Layouts
  PROVE  Shape(Elements(l)) /\ \E i \in 1..Len(Elements(l)) : Elements(l)[i].class = KeyClass(l)
<1> DEFINE es == Elements(l)
<1> HIDE DEF es
<1>1. CASE l = "log4j"
  <2>1. es = Log4jElements /\ KeyClass(l) = "LoggingEvent"
    BY <1>1 DEF es, Elements, KeyClass
  <2>2. Len(es) = 6
    BY <2>1 DEF Log4jElements
  <2>3. \A i \in 1..6 : i = 1 \/ i = 2 \/ i = 3 \/ i = 4 \/ i = 5 \/ i = 6
    OBVIOUS
  <2>4. es[1] = LoggingEvent /\ es[2] = String /\ es[3] = LocationInfo
        /\ es[4] = String /\ es[5] = String /\ es[6] = String
    BY <2>1 DEF Log4jElements
  <2>5. LoggingEvent \in Element /\ LocationInfo \in Element /\ String \in Element
    BY DEF LoggingEvent, LocationInfo, Element, ClassNames, String, Object
  <2>6. es \in Seq(Element)
    BY <2>1, <2>5 DEF Log4jElements
  <2>7. /\ String.class = "String" /\ LoggingEvent.class = "LoggingEvent" /\ LoggingEvent.handles = 8
        /\ LocationInfo.class = "LocationInfo" /\ LocationInfo.handles = 2
    BY DEF LoggingEvent, LocationInfo, String, Object
  <2>8. \A i \in 1..6 : es[i].class # "String" => i = 1 \/ i = 3
    BY <2>3, <2>4, <2>7
  <2>9. \A i \in 1..6 : es[i].class # "String" => es[i].handles \in Nat \ {0}
    BY <2>4, <2>7, <2>8
  <2>10. \A i, j \in 1..6 : (es[i].class # "String" /\ es[i].class = es[j].class) => i = j
    BY <2>4, <2>7, <2>8
  <2>12. es[1].class # "String" /\ es[1].class \notin StringTyped
    BY <2>4, <2>7 DEF StringTyped
  <2>13. es[1].handles > StringHandle
    BY <2>4, <2>7 DEF StringHandle
  <2>14. \E i \in 1..Len(es) : es[i].class = KeyClass(l)
    BY <2>1, <2>2, <2>4, <2>7
  <2> QED
    BY <2>2, <2>6, <2>9, <2>10, <2>12, <2>13, <2>14 DEF Shape, es
<1>2. CASE l = "log4j2"
  <2>1. es = Log4j2Elements /\ KeyClass(l) = "SimpleMessage"
    BY <1>2 DEF es, Elements, KeyClass
  <2>2. Len(es) = 16
    BY <2>1 DEF Log4j2Elements
  <2>3. \A i \in 1..16 : i = 1 \/ i = 2 \/ i = 3 \/ i = 4 \/ i = 5 \/ i = 6 \/ i = 7 \/ i = 8
           \/ i = 9 \/ i = 10 \/ i = 11 \/ i = 12 \/ i = 13 \/ i = 14 \/ i = 15 \/ i = 16
    OBVIOUS
  <2>4. es[1] = LogEvent /\ es[2] = ContextMap /\ es[3] = ContextStack /\ es[4] = LevelObject
        /\ es[5] = String /\ es[6] = StandardLevel /\ es[7] = String /\ es[8] = String
        /\ es[9] = String /\ es[10] = MessageObject /\ es[11] = String /\ es[12] = SourceObject
        /\ es[13] = String /\ es[14] = String /\ es[15] = String /\ es[16] = String
    BY <2>1 DEF Log4j2Elements
  <2>5. /\ LogEvent \in Element /\ ContextMap \in Element /\ ContextStack \in Element
        /\ LevelObject \in Element /\ StandardLevel \in Element /\ MessageObject \in Element
        /\ SourceObject \in Element /\ String \in Element
    BY DEF Element, ClassNames, String, Object, LogEvent, ContextMap, ContextStack, LevelObject,
           StandardLevel, MessageObject, SourceObject
  <2>6. es \in Seq(Element)
    BY <2>1, <2>5 DEF Log4j2Elements
  <2>7. /\ String.class = "String" /\ LogEvent.class = "LogEvent" /\ LogEvent.handles = 9
        /\ ContextMap.class = "EmptyMap" /\ ContextMap.handles = 1
        /\ ContextStack.class = "EmptyThreadContextStack" /\ ContextStack.handles = 1
        /\ LevelObject.class = "Level" /\ LevelObject.handles = 2
        /\ StandardLevel.class = "StandardLevel" /\ StandardLevel.handles = 2
        /\ MessageObject.class = "SimpleMessage" /\ MessageObject.handles = 1
        /\ SourceObject.class = "StackTraceElement" /\ SourceObject.handles = 1
    BY DEF LogEvent, ContextMap, ContextStack, LevelObject, StandardLevel, MessageObject,
           SourceObject, String, Object
  <2>8. \A i \in 1..16 : es[i].class # "String" =>
          i = 1 \/ i = 2 \/ i = 3 \/ i = 4 \/ i = 6 \/ i = 10 \/ i = 12
    BY <2>3, <2>4, <2>7
  <2>9. \A i \in 1..16 : es[i].class # "String" => es[i].handles \in Nat \ {0}
    BY <2>4, <2>7, <2>8
  <2> DEFINE at(c) == IF c = "LogEvent" THEN 1
                     ELSE IF c = "EmptyMap" THEN 2
                     ELSE IF c = "EmptyThreadContextStack" THEN 3
                     ELSE IF c = "Level" THEN 4
                     ELSE IF c = "StandardLevel" THEN 6
                     ELSE IF c = "SimpleMessage" THEN 10 ELSE 12
  <2>10. \A i \in 1..16 : es[i].class # "String" => at(es[i].class) = i
    BY <2>4, <2>7, <2>8
  <2>11. \A i, j \in 1..16 : (es[i].class # "String" /\ es[i].class = es[j].class) => i = j
    <3> HIDE DEF at
    <3> QED
      BY <2>10
  <2>12. es[1].class # "String" /\ es[1].class \notin StringTyped
    BY <2>4, <2>7 DEF StringTyped
  <2>13. es[1].handles > StringHandle
    BY <2>4, <2>7 DEF StringHandle
  <2>14. \E i \in 1..Len(es) : es[i].class = KeyClass(l)
    BY <2>1, <2>2, <2>4, <2>7
  <2>15. Shape(es)
    <3> HIDE DEF at
    <3>1. \A i \in 1..Len(es) : es[i].class # "String" => es[i].handles \in Nat \ {0}
      BY <2>2, <2>9
    <3>2. \A i, j \in 1..Len(es) : (es[i].class # "String" /\ es[i].class = es[j].class) => i = j
      BY <2>2, <2>11
    <3>3. Len(es) > 0
      BY <2>2
    <3> QED
      BY <2>6, <2>12, <2>13, <3>1, <3>2, <3>3 DEF Shape
  <2> QED
    BY <2>14, <2>15 DEF es
<1> QED
  BY <1>1, <1>2 DEF Layouts

\* A set of numbers that is not empty has a least one.
LEMMA Least ==
  ASSUME NEW S, S \subseteq Nat, S # {}
  PROVE  \E x \in S : \A y \in S : x <= y
<1> DEFINE less == OpToRel(<, Nat)
<1>1. \E x \in S : \A y \in S : <<y, x>> \notin less
  BY WFMin, NatLessThanWellFounded, Zenon
<1>2. \A x, y \in Nat : y < x => <<y, x>> \in less
  BY DEF OpToRel
<1> HIDE DEF less
<1>3. PICK x \in S : \A y \in S : <<y, x>> \notin less
  BY <1>1
<1>4. ASSUME NEW y \in S PROVE x <= y
  <2>1. x \in Nat /\ y \in Nat /\ ~(y < x)
    BY <1>2, <1>3
  <2> QED
    BY <2>1
<1> QED
  BY <1>4

\* Induction over 0..m: a set that holds 0 and with every number the next one
\* holds all of them.
LEMMA Climb ==
  ASSUME NEW m \in Nat, NEW S, 0 \in S, \A k \in 0..m : k \in S /\ k < m => k + 1 \in S
  PROVE  \A k \in 0..m : k \in S
<1> DEFINE T == {k \in 0..m : k \notin S}
<1> SUFFICES ASSUME T # {} PROVE FALSE
  OBVIOUS
<1>1. T \subseteq Nat
  OBVIOUS
<1>2. PICK k \in T : \A j \in T : k <= j
  <2> HIDE DEF T
  <2> QED
    BY <1>1, Least
<1>3. k \in 0..m /\ k # 0 /\ k \notin S
  BY <1>2
<1>4. k - 1 \in 0..m /\ k - 1 < m /\ ~(k <= k - 1) /\ (k - 1) + 1 = k
  BY <1>3
<1>5. k - 1 \in S
  BY <1>2, <1>4
<1> QED
  BY <1>3, <1>4, <1>5

\* What a function that takes the m steps, one after the other, has at k.
Reached(step, a, f, k) == IF k = 0 THEN a ELSE step[k][f[k - 1]]

\* The steps can be taken.
Steps(S, step, a, m) == step \in [1..m -> [S -> S]] /\ a \in S /\ m \in Nat

\* There is such a function, if the steps can be taken.
LEMMA Walk ==
  ASSUME NEW S, NEW step, NEW a, NEW m, Steps(S, step, a, m)
  PROVE  \E f \in [0..m -> S] : \A k \in 0..m : f[k] = Reached(step, a, f, k)
<1> DEFINE Has(n) == \E f \in [0..n -> S] : \A k \in 0..n : f[k] = Reached(step, a, f, k)
           T == {n \in 0..m : Has(n)}
<1> USE DEF Steps
<1>1. Has(0)
  <2> DEFINE f == [k \in 0..0 |-> a]
  <2>1. f \in [0..0 -> S] /\ \A k \in 0..0 : f[k] = Reached(step, a, f, k)
    BY DEF Reached
  <2> QED
    BY <2>1
<1>2. ASSUME NEW n \in 0..m, n < m, Has(n) PROVE Has(n + 1)
  <2>1. PICK f \in [0..n -> S] : \A k \in 0..n : f[k] = Reached(step, a, f, k)
    BY <1>2
  <2> DEFINE g == [k \in 0..(n + 1) |-> IF k = n + 1 THEN step[n + 1][f[n]] ELSE f[k]]
  <2>2. g \in [0..(n + 1) -> S]
    <3>1. n \in 0..n /\ n + 1 \in 1..m
      BY <1>2
    <3>2. step[n + 1] \in [S -> S] /\ f[n] \in S
      BY <2>1, <3>1
    <3>3. step[n + 1][f[n]] \in S
      BY <3>2
    <3> QED
      BY <2>1, <3>3
  <2>3. ASSUME NEW k \in 0..(n + 1) PROVE g[k] = Reached(step, a, g, k)
    <3>1. CASE k = n + 1
      <4>1. k - 1 = n /\ n \in 0..(n + 1) /\ n # n + 1 /\ k # 0
        BY <3>1
      <4>2. g[n] = f[n] /\ g[k] = step[k][f[n]]
        BY <3>1, <4>1
      <4> HIDE DEF g
      <4> QED
        BY <4>1, <4>2 DEF Reached
    <3>2. CASE k # n + 1
      <4>1. k \in 0..n /\ (k # 0 => k - 1 \in 0..(n + 1) /\ k - 1 # n + 1)
        BY <3>2
      <4>2. g[k] = f[k] /\ (k # 0 => g[k - 1] = f[k - 1])
        BY <3>2, <4>1
      <4>3. f[k] = Reached(step, a, f, k)
        BY <2>1, <4>1
      <4> HIDE DEF g
      <4> QED
        BY <4>2, <4>3 DEF Reached
    <3> QED
      BY <3>1, <3>2
  <2> HIDE DEF g
  <2> QED
    BY <2>2, <2>3
<1> HIDE DEF Has
<1>3. 0 \in T
  BY <1>1
<1>4. \A n \in 0..m : n \in T /\ n < m => n + 1 \in T
  BY <1>2
<1>5. m \in T
  <2> HIDE DEF T
  <2>1. m \in 0..m
    OBVIOUS
  <2> QED
    BY <1>3, <1>4, <2>1, Climb
<1>6. Has(m)
  BY <1>5
<1> QED
  BY <1>6 DEF Has

-----------------------------------------------------------------------------
(* The handles of a record *)

\* A state of a stream: fresh, or with all descriptions of its layout.
Classes(l) == {Elements(l)[i].class : i \in {j \in 1..Len(Elements(l)) : ~IsString(Elements(l)[j])}}
StreamOf(l, s) ==
  /\ s.handle \in Nat
  /\ s = Fresh \/ DOMAIN s.refs = Classes(l)

\* What is known of an element of a record.

\* An element of a record has a class and a number of handles; a description takes
\* at least one, and its class is one of its layout.
LEMMA ElementIs ==
  ASSUME NEW l \in Layouts, NEW i \in 1..Len(Elements(l))
  PROVE  LET e == Elements(l)[i] IN
         /\ e \in Element /\ e.class \in ClassNames /\ e.handles \in Nat
         /\ ~IsString(e) => e.handles \in Nat \ {0} /\ e.class \in Classes(l)
<1> DEFINE es == Elements(l)
<1>1. es \in Seq(Element) /\ (es[i].class # "String" => es[i].handles \in Nat \ {0})
  BY RecordShape DEF Shape
<1>2. es[i] \in Element
  BY <1>1
<1>3. ~IsString(es[i]) => es[i].class \in Classes(l)
  BY DEF Classes
<1> HIDE DEF es
<1>4. es[i].class \in ClassNames /\ es[i].handles \in Nat
  BY <1>2 DEF Element
<1> QED
  BY <1>1, <1>2, <1>3, <1>4 DEF es, IsString

\* Every element takes a handle at least.
LEMMA TakesType ==
  ASSUME NEW l \in Layouts, NEW i \in 1..Len(Elements(l)), NEW s
  PROVE  Takes(s, Elements(l)[i]) \in Nat \ {0}
BY ElementIs DEF Takes

\* The handle goes up from element to element by what each takes.
LEMMA HandlesIs ==
  ASSUME NEW l \in Layouts, NEW s, s.handle \in Nat
  PROVE  \A k \in 0..Len(Elements(l)) :
           /\ Handles(l, s)[k] \in Nat
           /\ Handles(l, s)[k] = IF k = 0 THEN s.handle
                                 ELSE Handles(l, s)[k - 1] + Takes(s, Elements(l)[k])
<1> DEFINE m == Len(Elements(l))
           T(k) == Takes(s, Elements(l)[k])
           h == CHOOSE f : f = [k \in 0..m |-> IF k = 0 THEN s.handle ELSE f[k - 1] + T(k)]
           a == s.handle
           step == [k \in 1..m |-> [x \in Nat |-> x + T(k)]]
<1>1. Handles(l, s) = h
  BY DEF Handles
<1>2. m \in Nat /\ \A k \in 1..m : T(k) \in Nat
  BY RecordShape, TakesType DEF Shape
<1> HIDE DEF T
<1>3. Steps(Nat, step, a, m)
  BY <1>2 DEF Steps
<1>4. \A k \in 1..m : \A x \in Nat : step[k][x] = x + T(k)
  OBVIOUS
<1> HIDE DEF step, a, m
<1>5. PICK f \in [0..m -> Nat] : \A k \in 0..m : f[k] = Reached(step, a, f, k)
  BY <1>3, Walk
<1>6. \A k \in 0..m : k # 0 => k \in 1..m /\ k - 1 \in 0..m
  BY <1>2
<1>7. \A k \in 0..m : f[k] = IF k = 0 THEN s.handle ELSE f[k - 1] + T(k)
  BY <1>4, <1>5, <1>6 DEF Reached, a
<1>8. f = [k \in 0..m |-> IF k = 0 THEN s.handle ELSE f[k - 1] + T(k)]
  BY <1>7
<1>9. h = [k \in 0..m |-> IF k = 0 THEN s.handle ELSE h[k - 1] + T(k)]
  BY <1>8
<1> HIDE DEF h
<1> DEFINE S == {k \in 0..m : h[k] \in Nat}
<1>10. \A k \in 0..m : h[k] = IF k = 0 THEN s.handle ELSE h[k - 1] + T(k)
  BY <1>9
<1>11. 0 \in S
  BY <1>2, <1>10
<1>12. \A k \in 0..m : k \in S /\ k < m => k + 1 \in S
  BY <1>2, <1>10, SMTT(30)
<1>13. \A k \in 0..m : k \in S
  <2> HIDE DEF S
  <2> QED
    BY <1>2, <1>11, <1>12, Climb
<1> QED
  BY <1>1, <1>10, <1>13 DEF m, T

\* What an element takes at most.
Most(e) == IF IsString(e) THEN 1 ELSE e.handles + 1

\* It takes no more, whatever the stream knows.
LEMMA TakesMost ==
  ASSUME NEW l \in Layouts, NEW i \in 1..Len(Elements(l)), NEW s
  PROVE  Takes(s, Elements(l)[i]) \in Nat /\ Takes(s, Elements(l)[i]) <= Most(Elements(l)[i])
<1> DEFINE e == Elements(l)[i]
<1>1. e.handles \in Nat
  BY ElementIs
<1> HIDE DEF e
<1>2. Takes(s, e) \in Nat /\ Takes(s, e) <= Most(e)
  BY <1>1 DEF Takes, Most
<1> QED
  BY <1>2 DEF e

\* A record takes no more handles than the longest.
LEMMA RecordBounded ==
  ASSUME NEW l \in Layouts, NEW s, s.handle \in Nat
  PROVE  Handles(l, s)[Len(Elements(l))] <= s.handle + LongestRecord
<1> DEFINE es == Elements(l)
           a == s.handle
           h == Handles(l, s)
<1>1. /\ Len(es) \in Nat /\ h[0] = a /\ a \in Nat
      /\ \A k \in 1..Len(es) : h[k] \in Nat /\ h[k - 1] \in Nat /\ h[k] <= h[k - 1] + Most(es[k])
  <2>1. Len(es) \in Nat
    BY RecordShape DEF Shape
  <2>2. ASSUME NEW k \in 1..Len(es)
        PROVE  h[k] \in Nat /\ h[k - 1] \in Nat /\ h[k] <= h[k - 1] + Most(es[k])
    <3>1. k \in 0..Len(es) /\ k - 1 \in 0..Len(es) /\ k # 0
      BY <2>1
    <3>2. Takes(s, es[k]) \in Nat /\ Takes(s, es[k]) <= Most(es[k])
      BY TakesMost
    <3>3. h[k] \in Nat /\ h[k - 1] \in Nat /\ h[k] = h[k - 1] + Takes(s, es[k])
      BY <3>1, HandlesIs
    <3>4. Most(es[k]) \in Nat
      BY ElementIs DEF Most
    <3> HIDE DEF h, es
    <3> QED
      BY <3>2, <3>3, <3>4
  <2>3. h[0] = a
    BY <2>1, HandlesIs
  <2> QED
    BY <2>1, <2>2, <2>3
<1> HIDE DEF es, a, h
<1>2. CASE l = "log4j"
  <2>1. es = Log4jElements
    BY <1>2 DEF es, Elements
  <2>2. Len(es) = 6
    BY <2>1 DEF Log4jElements
  <2>3. Most(String) = 1 /\ Most(LoggingEvent) = 9 /\ Most(LocationInfo) = 3
    BY DEF Most, IsString, String, LoggingEvent, LocationInfo, Object
  <2>4. /\ Most(es[1]) = 9 /\ Most(es[2]) = 1 /\ Most(es[3]) = 3
        /\ Most(es[4]) = 1 /\ Most(es[5]) = 1 /\ Most(es[6]) = 1
    BY <2>1, <2>3 DEF Log4jElements
  <2>5. /\ h[1] <= a + 9 /\ h[2] <= a + 10 /\ h[3] <= a + 13
        /\ h[4] <= a + 14 /\ h[5] <= a + 15 /\ h[6] <= a + 16
    BY <1>1, <2>2, <2>4
  <2>6. h[6] <= a + LongestRecord
    BY <1>1, <2>2, <2>5 DEF LongestRecord
  <2> QED
    BY <2>2, <2>6 DEF h, a, es
<1>3. CASE l = "log4j2"
  <2>1. es = Log4j2Elements
    BY <1>3 DEF es, Elements
  <2>2. Len(es) = 16
    BY <2>1 DEF Log4j2Elements
  <2>3. /\ Most(String) = 1 /\ Most(LogEvent) = 10 /\ Most(ContextMap) = 2
        /\ Most(ContextStack) = 2 /\ Most(LevelObject) = 3 /\ Most(StandardLevel) = 3
        /\ Most(MessageObject) = 2 /\ Most(SourceObject) = 2
    BY DEF Most, IsString, String, Object, LogEvent, ContextMap, ContextStack, LevelObject,
           StandardLevel, MessageObject, SourceObject
  <2>4. /\ Most(es[1]) = 10 /\ Most(es[2]) = 2 /\ Most(es[3]) = 2 /\ Most(es[4]) = 3
        /\ Most(es[5]) = 1 /\ Most(es[6]) = 3 /\ Most(es[7]) = 1 /\ Most(es[8]) = 1
        /\ Most(es[9]) = 1 /\ Most(es[10]) = 2 /\ Most(es[11]) = 1 /\ Most(es[12]) = 2
        /\ Most(es[13]) = 1 /\ Most(es[14]) = 1 /\ Most(es[15]) = 1 /\ Most(es[16]) = 1
    BY <2>1, <2>3 DEF Log4j2Elements
  <2>5. /\ h[1] <= a + 10 /\ h[2] <= a + 12 /\ h[3] <= a + 14 /\ h[4] <= a + 17 /\ h[4] \in Nat
    BY <1>1, <2>2, <2>4
  <2>6. /\ h[5] <= a + 18 /\ h[6] <= a + 21 /\ h[7] <= a + 22 /\ h[8] <= a + 23 /\ h[8] \in Nat
    BY <1>1, <2>2, <2>4, <2>5
  <2>7. /\ h[9] <= a + 24 /\ h[10] <= a + 26 /\ h[11] <= a + 27 /\ h[12] <= a + 29 /\ h[12] \in Nat
    BY <1>1, <2>2, <2>4, <2>6
  <2>8. /\ h[13] <= a + 30 /\ h[14] <= a + 31 /\ h[15] <= a + 32 /\ h[16] <= a + 33 /\ h[16] \in Nat
    BY <1>1, <2>2, <2>4, <2>7
  <2>9. h[16] <= a + LongestRecord
    BY <2>8 DEF LongestRecord
  <2> QED
    BY <2>2, <2>9 DEF h, a, es
<1> QED
  BY <1>2, <1>3 DEF Layouts

\* A fresh stream has no handles and knows no class.
LEMMA FreshIs == Fresh.handle = 0 /\ DOMAIN Fresh.refs = {} /\ \A c : ~Known(Fresh, c)
BY DEF Fresh, Known

\* The class that tells whether the stream was begun is one of its layout.
LEMMA KeyKnown ==
  ASSUME NEW l \in Layouts
  PROVE  KeyClass(l) \in Classes(l)
<1>1. PICK i \in 1..Len(Elements(l)) : Elements(l)[i].class = KeyClass(l)
  BY RecordShape
<1>2. KeyClass(l) # "String"
  BY DEF KeyClass
<1> QED
  BY <1>1, <1>2 DEF Classes, IsString

\* The state a record starts from.
LEMMA StartIs ==
  ASSUME NEW l \in Layouts, NEW s, StreamOf(l, s), NEW b \in BOOLEAN
  PROVE  LET f == Start(l, s, b) IN
         /\ StreamOf(l, f) /\ f.handle \in Nat
         /\ f = Fresh \/ (f = s /\ ~Resets(l, s, b) /\ DOMAIN f.refs = Classes(l))
         /\ f.handle <= s.handle /\ (b => f.handle <= ResetAfter)
<1>1. CASE Start(l, s, b) = Fresh
  BY <1>1, FreshIs, ResetAfterAssumption DEF StreamOf
<1>2. CASE Start(l, s, b) # Fresh
  <2>1. Start(l, s, b) = s /\ Known(s, KeyClass(l)) /\ ~Resets(l, s, b) /\ s # Fresh
    BY <1>2, FreshIs DEF Start
  <2>2. b => s.handle <= ResetAfter
    BY <2>1, ResetAfterAssumption DEF Resets, StreamOf
  <2> QED
    BY <2>1, <2>2 DEF StreamOf
<1> QED
  BY <1>1, <1>2

\* The state a record leaves behind: every class is described.
LEMMA WrittenIs ==
  ASSUME NEW l \in Layouts, NEW s, StreamOf(l, s), NEW b \in BOOLEAN
  PROVE  LET w == Written(l, s, b) IN
         /\ StreamOf(l, w) /\ w # Fresh /\ DOMAIN w.refs = Classes(l)
         /\ w.handle <= Start(l, s, b).handle + LongestRecord
<1> DEFINE f == Start(l, s, b)
           es == Elements(l)
           w == Written(l, s, b)
           new == {i \in DOMAIN es : ~IsString(es[i]) /\ ~Known(f, es[i].class)}
<1>1. StreamOf(l, f) /\ f.handle \in Nat /\ (f = Fresh \/ DOMAIN f.refs = Classes(l))
  BY StartIs
<1>2. Len(es) \in Nat /\ DOMAIN es = 1..Len(es)
  BY RecordShape DEF Shape
<1>3. w.handle = Handles(l, f)[Len(es)]
  BY DEF Written
<1>4. w.handle \in Nat /\ w.handle <= f.handle + LongestRecord
  BY <1>1, <1>2, <1>3, HandlesIs, RecordBounded
<1>5. DOMAIN w.refs = DOMAIN f.refs \union {es[i].class : i \in new}
  BY DEF Written
<1>6. DOMAIN f.refs \union {es[i].class : i \in new} = Classes(l)
  <2>1. CASE f = Fresh
    <3>1. DOMAIN f.refs = {} /\ \A c : ~Known(f, c)
      BY <2>1, FreshIs
    <3>2. new = {j \in 1..Len(es) : ~IsString(es[j])}
      BY <1>2, <3>1
    <3> QED
      BY <3>1, <3>2 DEF Classes
  <2>2. CASE DOMAIN f.refs = Classes(l)
    <3>1. \A i \in new : es[i].class \in Classes(l)
      BY <1>2 DEF Classes
    <3> QED
      BY <2>2, <3>1
  <2> QED
    BY <1>1, <2>1, <2>2
<1>7. w # Fresh
  BY <1>5, <1>6, KeyKnown, FreshIs
<1> HIDE DEF w, f
<1>8. StreamOf(l, w)
  BY <1>4, <1>5, <1>6 DEF StreamOf
<1> QED
  BY <1>4, <1>5, <1>6, <1>7, <1>8 DEF w, f

\* A record outgrows its buffer only when it was estimated without room and
\* the stream was fresh.
LEMMA OutgrowsFresh ==
  ASSUME NEW l \in Layouts, NEW s, StreamOf(l, s), NEW b \in BOOLEAN,
         Record(l, s, b).outgrown
  PROVE  ~b /\ s = Fresh
<1> DEFINE f == Start(l, s, b)
           es == Elements(l)
           items == [i \in DOMAIN es |-> Item(f, es[i])]
<1>1. ~b /\ \E i \in DOMAIN items : items[i].kind = "desc"
  BY DEF Record, Outgrows
<1>2. PICK i \in DOMAIN es : Item(f, es[i]).kind = "desc"
  BY <1>1
<1>3. ~IsString(es[i]) /\ ~Known(f, es[i].class)
  BY <1>2 DEF Item
<1>4. i \in 1..Len(es)
  BY RecordShape DEF Shape
<1>5. es[i].class \in Classes(l)
  BY <1>3, <1>4 DEF Classes
<1>6. f = Fresh
  BY <1>3, <1>5, StartIs DEF Known
<1>7. s = Fresh \/ Known(s, KeyClass(l))
  BY KeyKnown DEF StreamOf, Known
<1>8. ~Resets(l, s, b)
  BY <1>1 DEF Resets
<1> QED
  BY <1>1, <1>6, <1>7, <1>8 DEF Start

-----------------------------------------------------------------------------
(* The reader *)

\* What a reader has seen: classes, strings and objects.
Things == ClassNames \union {"string", "object"}

StringSeen(seen) == Len(seen) > StringHandle /\ seen[StringHandle + 1] = "string"

\* What the writer describes as known the reader has seen, at the handle that
\* the writer has for it.
Agrees(s, seen) ==
  /\ seen \in Seq(Things) /\ Len(seen) = s.handle
  /\ \A c \in DOMAIN s.refs : s.refs[c] \in Nat /\ s.refs[c] < Len(seen) /\ seen[s.refs[c] + 1] = c
  /\ DOMAIN s.refs # {} => StringSeen(seen)
Readers == [header : BOOLEAN, ok : BOOLEAN, seen : Seq(Things)]
Sync(s, r) == r \in Readers /\ r.ok /\ r.header /\ Agrees(s, r.seen)

\* A reader forgets nothing.
Extends(q, p) == Len(p) <= Len(q) /\ \A j \in 1..Len(p) : q[j] = p[j]

\* A reader that has seen nothing agrees with a fresh stream.
LEMMA FreshAgrees == Agrees(Fresh, << >>)
BY FreshIs DEF Agrees

\* What stands where in two sequences, one behind the other.
IsConcat(S, a, b, q) ==
  /\ q \in Seq(S) /\ Len(q) = Len(a) + Len(b) /\ Len(a) \in Nat /\ Len(b) \in Nat
  /\ \A j \in 1..Len(a) : q[j] = a[j]
  /\ \A j \in 1..Len(b) : q[Len(a) + j] = b[j]

\* Two sequences of a set make one of that set, with the elements of each where
\* they belong.
LEMMA Concat ==
  ASSUME NEW S, NEW a \in Seq(S), NEW b \in Seq(S)
  PROVE  IsConcat(S, a, b, a \o b)
<1>1. /\ a \o b \in Seq(S) /\ Len(a \o b) = Len(a) + Len(b) /\ Len(a) \in Nat /\ Len(b) \in Nat
  BY ConcatProperties
<1>2. \A i \in 1..(Len(a) + Len(b)) : (a \o b)[i] = IF i <= Len(a) THEN a[i] ELSE b[i - Len(a)]
  BY ConcatProperties
<1> DEFINE m == Len(a)
           n == Len(b)
           q == a \o b
<1>3. \A i \in 1..(m + n) : q[i] = IF i <= m THEN a[i] ELSE b[i - m]
  BY <1>2
<1>4. m \in Nat /\ n \in Nat
  BY <1>1
<1> HIDE DEF m, n, q
<1>5. \A j \in 1..m : q[j] = a[j]
  BY <1>3, <1>4
<1>6. \A j \in 1..n : q[m + j] = b[j]
  <2> SUFFICES ASSUME NEW j \in 1..n PROVE q[m + j] = b[j]
    OBVIOUS
  <2>1. m + j \in 1..(m + n) /\ ~(m + j <= m) /\ (m + j) - m = j
    BY <1>4
  <2> QED
    BY <1>3, <2>1
<1> QED
  BY <1>1, <1>5, <1>6 DEF m, n, q, IsConcat

\* What a description adds.
LEMMA DescriptionAdds ==
  ASSUME NEW class \in ClassNames, NEW n \in Nat \ {0}
  PROVE  LET add == <<class>> \o [j \in 1..(n - 1) |-> "string"] \o <<"object">> IN
         /\ add \in Seq(Things) /\ Len(add) = n + 1
         /\ add[1] = class /\ \A j \in 2..n : add[j] = "string"
<1> DEFINE a == <<class>>
           b == [j \in 1..(n - 1) |-> "string"]
           z == <<"object">>
           ab == a \o b
           add == ab \o z
<1>1. a \in Seq(Things) /\ Len(a) = 1 /\ a[1] = class
  <2>1. class \in Things
    BY DEF Things
  <2> QED
    BY <2>1
<1>2. z \in Seq(Things) /\ Len(z) = 1
  <2>1. "object" \in Things
    BY DEF Things
  <2> QED
    BY <2>1
<1>3. b \in Seq(Things) /\ Len(b) = n - 1 /\ \A j \in 1..(n - 1) : b[j] = "string"
  <2>1. "string" \in Things /\ n - 1 \in Nat
    BY DEF Things
  <2> QED
    BY <2>1
<1> HIDE DEF a, b, z
<1>4. IsConcat(Things, a, b, ab)
  BY <1>1, <1>3, Concat
<1> HIDE DEF ab
<1>5. Len(ab) = n /\ ab[1] = class /\ ab \in Seq(Things)
  BY <1>1, <1>3, <1>4 DEF IsConcat
<1>6. \A j \in 2..n : ab[j] = "string"
  <2> SUFFICES ASSUME NEW j \in 2..n PROVE ab[j] = "string"
    OBVIOUS
  <2>1. j - 1 \in 1..(n - 1) /\ 1 + (j - 1) = j
    OBVIOUS
  <2> QED
    BY <1>1, <1>3, <1>4, <2>1 DEF IsConcat
<1>7. IsConcat(Things, ab, z, add)
  BY <1>2, <1>5, Concat
<1> HIDE DEF add
<1>8. add \in Seq(Things) /\ Len(add) = n + 1 /\ \A j \in 1..n : add[j] = ab[j]
  BY <1>2, <1>5, <1>7 DEF IsConcat
<1>9. add[1] = class /\ \A j \in 2..n : add[j] = "string"
  BY <1>5, <1>6, <1>8
<1> QED
  BY <1>8, <1>9 DEF add, a, b, z, ab

\* An element adds as much to what is seen as the writer counts for it; the
\* first thing is the class that is described, and its strings follow.
AddsAsCounted(s, e, add) ==
  /\ add \in Seq(Things) /\ Len(add) = Takes(s, e) /\ Takes(s, e) \in Nat \ {0}
  /\ ~IsString(e) /\ ~Known(s, e.class) =>
       add[1] = e.class /\ \A j \in 2..e.handles : add[j] = "string"

\* This holds for every element of a record, whatever the stream knows.
LEMMA AddsIs ==
  ASSUME NEW l \in Layouts, NEW s, NEW i \in 1..Len(Elements(l))
  PROVE  AddsAsCounted(s, Elements(l)[i], Adds(Item(s, Elements(l)[i])))
<1> DEFINE e == Elements(l)[i]
           add == Adds(Item(s, e))
<1>1. /\ e.class \in ClassNames /\ e.handles \in Nat
      /\ ~IsString(e) => e.handles \in Nat \ {0}
  BY ElementIs
<1> HIDE DEF e
<1>2. CASE IsString(e) \/ Known(s, e.class)
  <2>1. Item(s, e).kind = "string" \/ Item(s, e).kind = "ref"
    BY <1>2 DEF Item
  <2>2. add = <<"string">> \/ add = <<"object">>
    BY <2>1 DEF Adds
  <2>3. Takes(s, e) = 1
    BY <1>2 DEF Takes
  <2>4. "string" \in Things /\ "object" \in Things
    BY DEF Things
  <2> HIDE DEF add
  <2>5. \A x \in Things : <<x>> \in Seq(Things) /\ Len(<<x>>) = 1
    OBVIOUS
  <2>6. add \in Seq(Things) /\ Len(add) = 1
    BY <2>2, <2>4, <2>5
  <2> QED
    BY <1>2, <2>3, <2>6 DEF e, add, AddsAsCounted
<1>3. CASE ~IsString(e) /\ ~Known(s, e.class)
  <2> DEFINE n == e.handles
             c == e.class
  <2> DEFINE item == Item(s, e)
  <2>1. item = [kind |-> "desc", class |-> c, handle |-> n]
    BY <1>3 DEF Item
  <2> HIDE DEF item
  <2>10. item.kind = "desc" /\ item.class = c /\ item.handle = n
    BY <2>1
  <2>11. Adds(item) = <<c>> \o [j \in 1..(n - 1) |-> "string"] \o <<"object">>
    BY <2>10 DEF Adds
  <2>2. add = <<c>> \o [j \in 1..(n - 1) |-> "string"] \o <<"object">>
    BY <2>11 DEF item
  <2>3. Takes(s, e) = n + 1 /\ n \in Nat \ {0} /\ c \in ClassNames
    BY <1>1, <1>3 DEF Takes
  <2> HIDE DEF n, c, add
  <2>4. add \in Seq(Things) /\ Len(add) = n + 1 /\ add[1] = c /\ \A j \in 2..n : add[j] = "string"
    BY <2>2, <2>3, DescriptionAdds, ZenonT(60)
  <2>5. Takes(s, e) \in Nat \ {0}
    BY <2>3
  <2> QED
    BY <2>3, <2>4, <2>5 DEF n, c, e, add, AddsAsCounted
<1> QED
  BY <1>2, <1>3

\* What a reader of a record has seen after i of its items, from p on.
SeenAt(l, s, p, f, i) == IF i = 0 THEN p ELSE f[i - 1] \o Adds(Item(s, Elements(l)[i]))
ReadsOn(l, s, p, f) ==
  /\ f \in [0..Len(Elements(l)) -> Seq(Things)]
  /\ \A i \in 0..Len(Elements(l)) : f[i] = SeenAt(l, s, p, f, i)

\* One item more.
OneMore(s, e, q, r) ==
  /\ q \in Seq(Things) /\ r \in Seq(Things)
  /\ Len(r) = Len(q) + Takes(s, e)
  /\ Extends(r, q)
  /\ ~IsString(e) /\ ~Known(s, e.class) =>
       /\ Len(q) < Len(r) /\ r[Len(q) + 1] = e.class
       /\ \A j \in 2..e.handles : r[Len(q) + j] = "string"

\* So it is with every item of a record.
LEMMA SeenMore ==
  ASSUME NEW l \in Layouts, NEW s, NEW p \in Seq(Things), NEW f, ReadsOn(l, s, p, f),
         NEW i \in 1..Len(Elements(l))
  PROVE  OneMore(s, Elements(l)[i], f[i - 1], f[i])
<1> DEFINE e == Elements(l)[i]
           add == Adds(Item(s, e))
           q == f[i - 1]
           r == f[i]
<1>1. i \in 0..Len(Elements(l)) /\ i - 1 \in 0..Len(Elements(l)) /\ i # 0
  BY RecordShape DEF Shape
<1>2. q \in Seq(Things) /\ r = q \o add
  BY <1>1 DEF ReadsOn, SeenAt
<1>3. /\ add \in Seq(Things) /\ Len(add) = Takes(s, e) /\ Takes(s, e) \in Nat \ {0}
      /\ ~IsString(e) /\ ~Known(s, e.class) =>
           add[1] = e.class /\ \A j \in 2..e.handles : add[j] = "string"
  <2> HIDE DEF e, add
  <2>1. AddsAsCounted(s, e, add)
    BY AddsIs DEF e, add
  <2> QED
    BY <2>1 DEF AddsAsCounted
<1>4. e.handles \in Nat /\ (~IsString(e) /\ ~Known(s, e.class) => Takes(s, e) = e.handles + 1)
  BY ElementIs DEF Takes
<1> HIDE DEF e, add, q
<1>9. IsConcat(Things, q, add, r)
  BY <1>2, <1>3, Concat
<1> HIDE DEF r
<1>5. /\ r \in Seq(Things) /\ Len(r) = Len(q) + Takes(s, e) /\ Len(q) \in Nat
      /\ \A j \in 1..Len(q) : r[j] = q[j]
      /\ \A j \in 1..Takes(s, e) : r[Len(q) + j] = add[j]
  BY <1>2, <1>3, <1>9 DEF IsConcat
<1>6. Extends(r, q)
  BY <1>3, <1>5 DEF Extends
<1>7. ASSUME ~IsString(e), ~Known(s, e.class)
      PROVE  /\ Len(q) < Len(r) /\ r[Len(q) + 1] = e.class
             /\ \A j \in 2..e.handles : r[Len(q) + j] = "string"
  <2> DEFINE n == e.handles
             c == e.class
             t == Takes(s, e)
  <2>1. n \in Nat /\ t = n + 1 /\ add[1] = c /\ \A j \in 2..n : add[j] = "string"
    BY <1>3, <1>4, <1>7
  <2>2. /\ Len(r) = Len(q) + t /\ Len(q) \in Nat /\ \A j \in 1..t : r[Len(q) + j] = add[j]
    BY <1>5
  <2> HIDE DEF n, c, t
  <2>3. Len(q) < Len(r) /\ r[Len(q) + 1] = c
    BY <2>1, <2>2
  <2>4. \A j \in 2..n : r[Len(q) + j] = "string"
    <3> SUFFICES ASSUME NEW j \in 2..n PROVE r[Len(q) + j] = "string"
      OBVIOUS
    <3>1. j \in 1..t
      BY <2>1
    <3> QED
      BY <2>1, <2>2, <3>1
  <2> QED
    BY <2>3, <2>4 DEF n, c
<1> QED
  BY <1>2, <1>5, <1>6, <1>7 DEF e, q, r, OneMore

\* What i items tell a reader that agreed with the writer before.
Along(l, s, p, f, i) ==
  LET h == Handles(l, s) IN
  /\ Len(f[i]) = h[i]
  /\ Extends(f[i], p)
  /\ \A j \in 1..i : ~IsString(Elements(l)[j]) /\ ~Known(s, Elements(l)[j].class) =>
       h[j - 1] < Len(f[i]) /\ f[i][h[j - 1] + 1] = Elements(l)[j].class
  /\ i > 0 => StringSeen(f[i])

\* What a reader has seen stays where it was, however much it sees after it.
LEMMA ExtendsKeeps ==
  ASSUME NEW S, NEW p \in Seq(S), NEW q \in Seq(S), NEW r \in Seq(S), Extends(q, p), Extends(r, q)
  PROVE  /\ Extends(r, p)
         /\ StringSeen(p) => StringSeen(q)
         /\ \A j \in Nat : \A c : j < Len(p) /\ p[j + 1] = c => j < Len(q) /\ q[j + 1] = c
<1>1. Len(p) \in Nat /\ Len(q) \in Nat /\ Len(r) \in Nat /\ Len(p) <= Len(q) /\ Len(q) <= Len(r)
  BY DEF Extends
<1>2. \A j \in 1..Len(p) : j \in 1..Len(q) /\ q[j] = p[j]
  BY <1>1 DEF Extends
<1>3. \A j \in 1..Len(q) : r[j] = q[j]
  BY DEF Extends
<1>4. Extends(r, p)
  BY <1>1, <1>2, <1>3 DEF Extends
<1>5. \A j \in Nat : j < Len(p) => j < Len(q) /\ q[j + 1] = p[j + 1]
  BY <1>1, <1>2
<1>6. StringSeen(p) => StringSeen(q)
  BY <1>5 DEF StringSeen, StringHandle
<1> QED
  BY <1>4, <1>5, <1>6

\* This holds before the first item.
LEMMA AlongBegins ==
  ASSUME NEW l \in Layouts, NEW s, StreamOf(l, s), NEW p, Agrees(s, p), NEW f, ReadsOn(l, s, p, f)
  PROVE  Along(l, s, p, f, 0)
<1>1. Len(Elements(l)) \in Nat /\ 0 \in 0..Len(Elements(l))
  BY RecordShape DEF Shape
<1>2. f[0] = p /\ p \in Seq(Things)
  BY <1>1 DEF ReadsOn, SeenAt, Agrees
<1>3. Handles(l, s)[0] = s.handle
  BY <1>1, HandlesIs DEF StreamOf
<1>4. Len(p) = s.handle /\ Len(p) \in Nat
  BY <1>2 DEF Agrees
<1>5. Extends(p, p)
  BY <1>4 DEF Extends
<1> QED
  BY <1>2, <1>3, <1>4, <1>5 DEF Along

\* With one item it holds for the next.
LEMMA AlongGoesOn ==
  ASSUME NEW l \in Layouts, NEW s, StreamOf(l, s), NEW p, Agrees(s, p), NEW f, ReadsOn(l, s, p, f),
         NEW k \in 0..Len(Elements(l)), k < Len(Elements(l)), Along(l, s, p, f, k)
  PROVE  Along(l, s, p, f, k + 1)
<1> DEFINE es == Elements(l)
           h == Handles(l, s)
           i == k + 1
           q == f[k]
           r == f[i]
           e == es[i]
           New(j) == ~IsString(es[j]) /\ ~Known(s, es[j].class)
<1>1. Len(es) \in Nat /\ k \in Nat /\ i \in 1..Len(es) /\ i - 1 = k /\ i \in 0..Len(es) /\ i # 0
  BY RecordShape DEF Shape
<1>2. p \in Seq(Things)
  BY DEF Agrees
<1>3. /\ q \in Seq(Things) /\ r \in Seq(Things) /\ Len(r) = Len(q) + Takes(s, e) /\ Extends(r, q)
      /\ New(i) => Len(q) < Len(r) /\ r[Len(q) + 1] = e.class
                   /\ \A j \in 2..e.handles : r[Len(q) + j] = "string"
  <2>1. OneMore(s, es[i], f[i - 1], f[i])
    BY <1>1, <1>2, SeenMore
  <2> QED
    BY <1>1, <2>1 DEF OneMore
<1>4. h[i] = h[k] + Takes(s, e) /\ h[k] \in Nat /\ \A j \in 1..i : h[j - 1] \in Nat
  <2>1. \A j \in 1..i : j - 1 \in 0..Len(es)
    BY <1>1
  <2> QED
    BY <1>1, <2>1, HandlesIs DEF StreamOf
<1>5. /\ Len(q) = h[k] /\ Extends(q, p) /\ (k > 0 => StringSeen(q))
      /\ \A j \in 1..k : New(j) => h[j - 1] < Len(q) /\ q[h[j - 1] + 1] = es[j].class
  BY DEF Along
<1>6. Extends(r, p) /\ (StringSeen(p) => StringSeen(q))
  BY <1>2, <1>3, <1>5, ExtendsKeeps
<1>7. Extends(r, r)
  BY <1>3 DEF Extends
<1>8. (StringSeen(q) => StringSeen(r))
      /\ \A j \in Nat : \A c : j < Len(q) /\ q[j + 1] = c => j < Len(r) /\ r[j + 1] = c
  BY <1>3, <1>7, ExtendsKeeps
<1>9. es[1] \in Element /\ ~IsString(es[1]) /\ es[1].handles > StringHandle /\ es[1].handles \in Nat
      /\ es[1].class \in Classes(l)
  <2>1. 1 \in 1..Len(es)
    BY <1>1
  <2>2. es[1].class # "String" /\ es[1].handles > StringHandle
    BY RecordShape DEF Shape
  <2> QED
    BY <2>1, <2>2, ElementIs DEF IsString
<1>10. StringSeen(r)
  <2>1. CASE k > 0
    BY <1>5, <1>8, <2>1
  <2>2. CASE DOMAIN s.refs # {}
    BY <1>6, <1>8, <2>2 DEF Agrees
  <2>3. CASE k = 0 /\ DOMAIN s.refs = {}
    <3>1. s.handle = 0 /\ New(1) /\ i = 1
      BY <1>9, <2>3, FreshIs DEF StreamOf, Known
    <3>2. h[0] = 0
      BY <1>1, <3>1, HandlesIs
    <3>3. Len(q) = 0 /\ e.handles > StringHandle /\ e.handles \in Nat
      BY <1>5, <1>9, <2>3, <3>1, <3>2
    <3>4. \A j \in 2..e.handles : r[0 + j] = "string"
      BY <1>3, <3>1, <3>3
    <3>5. Takes(s, e) = e.handles + 1
      BY <3>1 DEF Takes
    <3>6. Len(r) = e.handles + 1
      BY <1>3, <3>3, <3>5
    <3> HIDE DEF e, r
    <3>7. Len(r) > 4 /\ 5 \in 2..e.handles /\ 0 + 5 = 5
      BY <3>3, <3>6 DEF StringHandle
    <3>8. r[5] = "string"
      BY <3>4, <3>7
    <3> QED
      BY <3>7, <3>8 DEF StringSeen, StringHandle
  <2> QED
    BY <1>1, <2>1, <2>2, <2>3
<1>11. ASSUME NEW j \in 1..i, New(j)
       PROVE  h[j - 1] < Len(r) /\ r[h[j - 1] + 1] = es[j].class
  <2>1. CASE j = i
    BY <1>1, <1>3, <1>5, <1>11, <2>1
  <2>2. CASE j # i
    <3>1. j \in 1..k
      BY <1>1, <2>2
    <3> QED
      BY <1>4, <1>5, <1>8, <1>11, <3>1
  <2> QED
    BY <2>1, <2>2
<1>12. Len(r) = h[i]
  BY <1>3, <1>4, <1>5
<1> QED
  BY <1>6, <1>10, <1>11, <1>12 DEF Along

\* So it holds for every item of the record.
LEMMA AlongAll ==
  ASSUME NEW l \in Layouts, NEW s, StreamOf(l, s), NEW p, Agrees(s, p), NEW f, ReadsOn(l, s, p, f)
  PROVE  \A i \in 0..Len(Elements(l)) : Along(l, s, p, f, i)
<1> DEFINE m == Len(Elements(l))
           S == {i \in 0..m : Along(l, s, p, f, i)}
<1>1. m \in Nat
  BY RecordShape DEF Shape
<1>2. 0 \in S
  BY <1>1, AlongBegins
<1>3. ASSUME NEW k \in 0..m, k \in S, k < m PROVE k + 1 \in S
  <2>1. Along(l, s, p, f, k + 1)
    BY <1>3, AlongGoesOn
  <2> QED
    BY <1>1, <1>3, <2>1
<1> HIDE DEF m
<1>4. \A k \in 0..m : k \in S
  <2> HIDE DEF S
  <2> QED
    BY <1>1, <1>2, <1>3, Climb
<1> QED
  BY <1>4 DEF m

\* A reader of a record can be followed item by item.
LEMMA ReadsExist ==
  ASSUME NEW l \in Layouts, NEW s, NEW p \in Seq(Things)
  PROVE  \E f : ReadsOn(l, s, p, f)
<1> DEFINE m == Len(Elements(l))
           A(k) == Adds(Item(s, Elements(l)[k]))
           step == [k \in 1..m |-> [x \in Seq(Things) |-> x \o A(k)]]
<1>1. m \in Nat
  BY RecordShape DEF Shape
<1>2. \A k \in 1..m : A(k) \in Seq(Things)
  BY AddsIs DEF AddsAsCounted
<1> HIDE DEF A
<1>3. Steps(Seq(Things), step, p, m)
  <2>1. ASSUME NEW k \in 1..m, NEW x \in Seq(Things)
        PROVE  x \o A(k) \in Seq(Things)
    <3> DEFINE a == A(k)
    <3>1. a \in Seq(Things)
      BY <1>2
    <3> HIDE DEF a
    <3>2. x \o a \in Seq(Things)
      BY <3>1, Concat DEF IsConcat
    <3> QED
      BY <3>2 DEF a
  <2> QED
    BY <1>1, <2>1 DEF Steps
<1>4. \A k \in 1..m : \A x \in Seq(Things) : step[k][x] = x \o A(k)
  OBVIOUS
<1> HIDE DEF step, m
<1>5. PICK f \in [0..m -> Seq(Things)] : \A k \in 0..m : f[k] = Reached(step, p, f, k)
  BY <1>3, Walk
<1>6. \A k \in 0..m : k # 0 => k \in 1..m /\ k - 1 \in 0..m
  BY <1>1
<1>7. \A k \in 0..m : f[k] = IF k = 0 THEN p ELSE f[k - 1] \o A(k)
  BY <1>4, <1>5, <1>6 DEF Reached
<1> QED
  BY <1>5, <1>7 DEF ReadsOn, SeenAt, m, A

\* A reader that agrees with the writer understands every item.
LEMMA ItemUnderstood ==
  ASSUME NEW l \in Layouts, NEW s, StreamOf(l, s), NEW p, Agrees(s, p), NEW f, ReadsOn(l, s, p, f),
         NEW i \in 1..Len(Elements(l))
  PROVE  Understood(f[i - 1], Item(s, Elements(l)[i]))
<1> DEFINE es == Elements(l)
           e == es[i]
           q == f[i - 1]
           item == Item(s, e)
<1>1. i - 1 \in 0..Len(es) /\ (i # 1 => i - 1 > 0)
  BY RecordShape DEF Shape
<1>2. Along(l, s, p, f, i - 1)
  BY <1>1, AlongAll
<1>3. Extends(q, p) /\ (i # 1 => StringSeen(q)) /\ p \in Seq(Things) /\ q \in Seq(Things)
  BY <1>1, <1>2 DEF Along, Agrees, ReadsOn
<1>4. ASSUME item.kind = "ref"
      PROVE  item.handle < Len(q) /\ q[item.handle + 1] = item.class
  <2>1. Known(s, e.class) /\ item.handle = s.refs[e.class] /\ item.class = e.class
    BY <1>4 DEF Item
  <2>2. item.handle \in Nat /\ item.handle < Len(p) /\ p[item.handle + 1] = item.class
    BY <2>1 DEF Known, Agrees
  <2>3. Extends(q, q)
    BY <1>3 DEF Extends
  <2> HIDE DEF item, q
  <2> QED
    BY <1>3, <2>2, <2>3, ExtendsKeeps
<1>5. ASSUME item.kind = "desc", item.class \in StringTyped
      PROVE  StringSeen(q)
  <2>1. item.class = e.class
    BY <1>5 DEF Item
  <2>2. es[1].class \notin StringTyped
    BY RecordShape DEF Shape
  <2> QED
    BY <1>3, <1>5, <2>1, <2>2
<1> HIDE DEF item, q
<1>6. Understood(q, item)
  BY <1>4, <1>5 DEF Understood, StringSeen
<1> QED
  BY <1>6 DEF q, item

\* Behind the record the reader agrees with the writer again.
LEMMA AgreesBehind ==
  ASSUME NEW l \in Layouts, NEW s, StreamOf(l, s), NEW b \in BOOLEAN, NEW p,
         Agrees(Start(l, s, b), p), NEW f, ReadsOn(l, Start(l, s, b), p, f)
  PROVE  Agrees(Written(l, s, b), f[Len(Elements(l))])
<1> DEFINE from == Start(l, s, b)
           es == Elements(l)
           m == Len(es)
           w == Written(l, s, b)
           h == Handles(l, from)
           q == f[m]
           new == {i \in DOMAIN es : ~IsString(es[i]) /\ ~Known(from, es[i].class)}
           place(c) == CHOOSE i \in new : es[i].class = c
<1>1. m \in Nat /\ m > 0 /\ m \in 0..m /\ DOMAIN es = 1..m
  BY RecordShape DEF Shape
<1>2. StreamOf(l, from)
  BY StartIs
<1>3. Along(l, from, p, f, m)
  BY <1>1, <1>2, AlongAll
<1>4. p \in Seq(Things) /\ q \in Seq(Things)
  BY <1>1 DEF Agrees, ReadsOn
<1>5. Len(q) = h[m] /\ Extends(q, p) /\ StringSeen(q)
      /\ \A j \in new : h[j - 1] < Len(q) /\ q[h[j - 1] + 1] = es[j].class
  BY <1>1, <1>3 DEF Along
<1>6. w.handle = h[m]
  BY DEF Written
<1>7. /\ DOMAIN w.refs = DOMAIN from.refs \union {es[i].class : i \in new}
      /\ \A c \in DOMAIN w.refs :
           w.refs[c] = IF Known(from, c) THEN from.refs[c] ELSE h[place(c) - 1]
  BY DEF Written
<1>8. ASSUME NEW c \in DOMAIN w.refs
      PROVE  w.refs[c] \in Nat /\ w.refs[c] < Len(q) /\ q[w.refs[c] + 1] = c
  <2>1. CASE Known(from, c)
    <3> DEFINE k == from.refs[c]
    <3>1. k \in Nat /\ k < Len(p) /\ p[k + 1] = c
      BY <2>1 DEF Known, Agrees
    <3>2. w.refs[c] = k
      BY <1>7, <2>1
    <3> HIDE DEF k, q
    <3>3. Extends(q, q)
      BY <1>4 DEF Extends
    <3>4. k < Len(q) /\ q[k + 1] = c
      BY <1>4, <1>5, <3>1, <3>3, ExtendsKeeps
    <3> QED
      BY <3>1, <3>2, <3>4
  <2>2. CASE ~Known(from, c)
    <3>1. \E i \in new : es[i].class = c
      BY <1>7, <2>2 DEF Known
    <3> DEFINE j == place(c)
    <3>2. j \in new /\ es[j].class = c
      BY <3>1
    <3>3. w.refs[c] = h[j - 1]
      BY <1>7, <2>2
    <3> HIDE DEF place
    <3>4. j - 1 \in 0..m
      BY <1>1, <3>2
    <3>5. h[j - 1] \in Nat
      BY <1>2, <3>4, HandlesIs DEF StreamOf
    <3> QED
      BY <1>5, <3>2, <3>3, <3>5
  <2> QED
    BY <2>1, <2>2
<1> HIDE DEF w, q
<1> QED
  BY <1>4, <1>5, <1>6, <1>8 DEF Agrees, w, q

\* A reader that is in step with the stream reads the next record, whatever the
\* estimate of it was, and is in step again (write_layout and the reader of it).
LEMMA RecordRead ==
  ASSUME NEW l \in Layouts, NEW s, StreamOf(l, s), NEW b \in BOOLEAN, NEW r, Sync(s, r)
  PROVE  Sync(Written(l, s, b), ReadRecord(r, Record(l, s, b)))
<1> DEFINE from == Start(l, s, b)
           es == Elements(l)
           m == Len(es)
           rec == Record(l, s, b)
           p == IF rec.reset THEN << >> ELSE r.seen
           seen == CHOOSE f : f = [i \in 0..Len(rec.items) |->
                      IF i = 0 THEN IF rec.reset THEN << >> ELSE r.seen
                      ELSE f[i - 1] \o Adds(rec.items[i])]
           read == IF /\ r.ok /\ r.header
                      /\ \A i \in DOMAIN rec.items : Understood(seen[i - 1], rec.items[i])
                     THEN [r EXCEPT !.seen = seen[Len(rec.items)]]
                     ELSE Broken
<1>1. ReadRecord(r, rec) = read
  BY DEF ReadRecord
<1>2. rec.items = [i \in DOMAIN es |-> Item(from, es[i])] /\ rec.reset = Resets(l, s, b)
  BY DEF Record
<1>3. m \in Nat /\ DOMAIN es = 1..m
  BY RecordShape DEF Shape
<1>4. DOMAIN rec.items = 1..m /\ Len(rec.items) = m /\ \A i \in 1..m : rec.items[i] = Item(from, es[i])
  BY <1>2, <1>3
<1>5. Agrees(from, p)
  <2>1. CASE Resets(l, s, b)
    <3>1. from = Fresh /\ p = << >>
      BY <1>2, <2>1 DEF Start
    <3> QED
      BY <3>1, FreshAgrees
  <2>2. CASE ~Resets(l, s, b)
    <3>1. from = s
      BY <2>2, KeyKnown DEF Start, StreamOf, Known
    <3>2. p = r.seen
      BY <1>2, <2>2
    <3> QED
      BY <3>1, <3>2 DEF Sync
  <2> QED
    BY <2>1, <2>2
<1>6. StreamOf(l, from)
  BY StartIs
<1> HIDE DEF rec, p, from
<1>7. ReadsOn(l, from, p, seen)
  <2>1. PICK f : ReadsOn(l, from, p, f)
    BY <1>5, ReadsExist DEF Agrees
  <2>2. f = [i \in 0..m |-> IF i = 0 THEN p ELSE f[i - 1] \o Adds(Item(from, es[i]))]
    BY <2>1 DEF ReadsOn, SeenAt
  <2>3. \A i \in 0..m : i # 0 => i \in 1..m
    BY <1>3
  <2>4. f = [i \in 0..Len(rec.items) |-> IF i = 0 THEN IF rec.reset THEN << >> ELSE r.seen
                                         ELSE f[i - 1] \o Adds(rec.items[i])]
    BY <1>4, <2>2, <2>3 DEF p
  <2>5. seen = [i \in 0..Len(rec.items) |-> IF i = 0 THEN IF rec.reset THEN << >> ELSE r.seen
                                         ELSE seen[i - 1] \o Adds(rec.items[i])]
    BY <2>4
  <2> HIDE DEF seen
  <2>6. seen = [i \in 0..m |-> IF i = 0 THEN p ELSE seen[i - 1] \o Adds(Item(from, es[i]))]
    BY <1>4, <2>3, <2>5 DEF p
  <2> DEFINE S == {i \in 0..m : seen[i] = f[i]}
  <2>7. \A i \in 0..m : seen[i] = IF i = 0 THEN p ELSE seen[i - 1] \o Adds(Item(from, es[i]))
    BY <2>6
  <2>8. \A i \in 0..m : f[i] = IF i = 0 THEN p ELSE f[i - 1] \o Adds(Item(from, es[i]))
    BY <2>1 DEF ReadsOn, SeenAt
  <2>9. 0 \in S
    BY <1>3, <2>7, <2>8
  <2>10. ASSUME NEW k \in 0..m, k \in S, k < m PROVE k + 1 \in S
    <3>1. k + 1 \in 0..m /\ k + 1 # 0 /\ (k + 1) - 1 = k
      BY <1>3, <2>10
    <3>2. seen[k] = f[k]
      BY <2>10
    <3>3. seen[k + 1] = seen[k] \o Adds(Item(from, es[k + 1]))
      BY <2>7, <3>1
    <3>4. f[k + 1] = f[k] \o Adds(Item(from, es[k + 1]))
      BY <2>8, <3>1
    <3> QED
      BY <3>1, <3>2, <3>3, <3>4
  <2>11. \A k \in 0..m : k \in S
    <3> HIDE DEF S, m
    <3> QED
      BY <1>3, <2>9, <2>10, Climb
  <2>12. \A k \in 0..m : seen[k] = f[k]
    BY <2>11
  <2>13. seen \in [0..m -> Seq(Things)]
    <3>1. f \in [0..m -> Seq(Things)] /\ DOMAIN seen = 0..m /\ seen = [k \in 0..m |-> seen[k]]
      BY <2>1, <2>6 DEF ReadsOn
    <3> QED
      BY <2>12, <3>1
  <2> QED
    BY <2>7, <2>13 DEF ReadsOn, SeenAt
<1> HIDE DEF seen
<1>8. \A i \in DOMAIN rec.items : Understood(seen[i - 1], rec.items[i])
  BY <1>4, <1>5, <1>6, <1>7, ItemUnderstood
<1>9. Agrees(Written(l, s, b), seen[m])
  BY <1>5, <1>7, AgreesBehind DEF from
<1>10. read = [r EXCEPT !.seen = seen[m]] /\ r \in Readers /\ r.ok /\ r.header
  BY <1>4, <1>8 DEF Sync
<1>11. seen[m] \in Seq(Things)
  BY <1>9 DEF Agrees
<1> DEFINE q == seen[m]
           x == [r EXCEPT !.seen = q]
<1> HIDE DEF q
<1>12. x \in Readers /\ x.ok /\ x.header /\ x.seen = q
  BY <1>10, <1>11 DEF Readers, q
<1>13. Sync(Written(l, s, b), x)
  BY <1>9, <1>12 DEF Sync, q
<1> QED
  BY <1>1, <1>10, <1>13 DEF rec, q

-----------------------------------------------------------------------------
(* What an append knows of the stream *)

StreamTypes ==
  /\ layout \in Layouts /\ StreamOf(layout, stream)
  /\ roomy \in [Threads -> BOOLEAN] /\ DOMAIN record = Threads

\* Threads that have made their estimate and not formatted: some have to open
\* the appender, some are behind the header.
Waiting == {"is open", "open", "header"}
Begun == {"publish", "init layout", "format"}
Estimated == Waiting \union Begun
Tight == {t \in Threads : pc[t] \in Estimated /\ ~roomy[t]}

\* Each thread that estimated without room adds one record before the stream is
\* reset.
HandleInv ==
  stream.handle + LongestRecord * Cardinality(Tight)
    <= ResetAfter + LongestRecord * Cardinality(Threads)

\* Nobody has estimated without room for a stream that is fresh, unless the
\* header was written since.
FreshInv ==
  (stream = Fresh /\ \A u \in Threads : pc[u] \notin Begun) =>
    \A t \in Threads : pc[t] \in Waiting => roomy[t]

Goal(c) ==
  /\ c.outgrown = "no" \/ (c.outgrown = "first" /\ c.late)
  /\ c.reader.ok \/ c.cut \/ c.outgrown # "no"
  /\ ~c.open => c.reader \in Readers
GoalInv == \A d \in Fds : ~conns[d].shared => Goal(conns[d])

\* A connection that is still worth reading.
Followed(c) == c.peer = "alive" /\ ~c.cut /\ c.outgrown = "no"
InStep == {"idle", "is open", "publish", "init layout", "format"}
Ready == {"is still open", "get socket", "send"}

\* What holds of the stream s and a connection c of the appender's own, of
\* which the only thread that is in the appender is at p, with the estimate b
\* and the record r.
Phase(c, s, p, b, r) ==
  /\ p = "is open" => b \/ s # Fresh
  /\ p = "header" => c.reader = NewReader /\ ~c.cut
  /\ p \in {"header", "publish", "init layout"} => ~c.sent /\ c.outgrown = "no" /\ (b \/ c.late)
  /\ p \in {"publish", "init layout"} => s = Fresh
  /\ p = "format" => b \/ s # Fresh \/ (c.late /\ ~c.sent)
  /\ p \in Ready /\ r.outgrown => c.late /\ ~c.sent
  /\ Followed(c) /\ p \in InStep => Sync(s, c.reader)
  /\ Followed(c) /\ p \in Ready /\ ~r.outgrown => Sync(s, ReadRecord(c.reader, r))
PhaseAt(d, t) ==
  /\ Phase(conns[d], stream, pc[t], roomy[t], record[t])
  /\ pc[t] = "send" => sock[t] = d
ReadInv == \A d \in Fds, t \in Threads : Own(d) /\ ~Busy(t) => PhaseAt(d, t)

StreamInv == StreamTypes /\ HandleInv /\ FreshInv /\ GoalInv /\ ReadInv

-----------------------------------------------------------------------------
(* Steps that format nothing *)

\* A step of one thread, to which the estimates of the others do not matter.
Walks(t, from, to) ==
  /\ Moves(t, from, to) /\ from \in PCs /\ to \in PCs
  /\ \A u \in Threads : u # t => roomy'[u] = roomy[u]
  /\ StreamTypes'

\* What such a step does to the threads.
LEMMA WalksIs ==
  ASSUME Types, NEW t \in Threads, NEW from, NEW to, Walks(t, from, to)
  PROVE  /\ pc[t] = from /\ pc'[t] = to /\ \A u \in Threads : u # t => pc'[u] = pc[u]
         /\ Busy(t)' <=> Busy(t)
<1>1. pc[t] = from /\ pc'[t] = to /\ \A u \in Threads : u # t => pc'[u] = pc[u]
  BY DEF Types, Walks, Moves
<1> QED
  BY <1>1 DEF Busy

\* There are finitely many threads with an estimate without room.
LEMMA TightIs ==
  /\ IsFiniteSet(Threads) /\ IsFiniteSet(Tight) /\ Cardinality(Threads) \in Nat
  /\ Cardinality(Tight) \in Nat /\ Cardinality(Tight) <= Cardinality(Threads)
<1>1. IsFiniteSet(Threads)
  BY ThreadsAssumption, FS_Union DEF Threads
<1>2. Tight \subseteq Threads
  BY DEF Tight
<1> QED
  BY <1>1, <1>2, FS_Subset, FS_CardinalityType

\* Fewer threads with an estimate, and no more handles.
LEMMA HandleKept ==
  ASSUME StreamTypes, StreamTypes', HandleInv, Tight' \subseteq Tight,
         stream' = stream \/ stream' = Fresh
  PROVE  HandleInv'
<1> DEFINE k == Cardinality(Tight)
           k2 == Cardinality(Tight')
           n == Cardinality(Threads)
           a == stream.handle
           a2 == stream'.handle
<1>1. k \in Nat /\ n \in Nat /\ IsFiniteSet(Tight) /\ k <= n
  BY TightIs
<1>2. k2 \in Nat /\ k2 <= k
  BY <1>1, FS_Subset, FS_CardinalityType
<1>3. a \in Nat /\ a2 \in Nat /\ a2 <= a
  BY FreshIs DEF StreamTypes, StreamOf
<1>4. a + LongestRecord * k <= ResetAfter + LongestRecord * n
  BY DEF HandleInv
<1> HIDE DEF k, k2, n, a, a2
<1>5. a2 + LongestRecord * k2 <= ResetAfter + LongestRecord * n
  BY <1>1, <1>2, <1>3, <1>4, ResetAfterAssumption DEF LongestRecord
<1> QED
  BY <1>5 DEF HandleInv, k2, n, a2

\* The only thread that is in the appender, and what it knows, is all there is
\* to show of a step of it.
LEMMA ReadKept ==
  ASSUME Types, OwnInv, NEW t \in Threads, NEW from, NEW to, Walks(t, from, to),
         to = "idle" => from # "idle" /\ \A d \in Fds : Own(d)' => Own(d),
         \A d \in Fds : Own(d)' /\ ~Busy(t) => PhaseAt(d, t)'
  PROVE  ReadInv'
<1>1. /\ pc[t] = from /\ pc'[t] = to /\ \A u \in Threads : u # t => pc'[u] = pc[u]
      /\ Busy(t)' <=> Busy(t)
  BY WalksIs
<1> SUFFICES ASSUME NEW d \in Fds, NEW u \in Threads, Own(d)', ~Busy(u)'
             PROVE  PhaseAt(d, u)'
  BY DEF ReadInv
<1>2. CASE u = t
  BY <1>1, <1>2
<1>3. CASE u # t
  <2>1. pc'[t] = "idle" /\ to = "idle" /\ from # "idle" /\ Own(d)
    BY <1>1, <1>3 DEF Busy
  <2>2. pc'[u] = "idle"
    <3>1. pc'[u] = pc[u] /\ pc[t] # "idle"
      BY <1>1, <1>3, <2>1
    <3> QED
      BY <1>3, <2>1, <3>1 DEF OwnInv
  <2>3. \A v \in Threads : pc'[v] = "idle"
    BY <2>2 DEF Busy
  <2>4. ~Busy(t)
    BY <1>1, <2>3 DEF Busy
  <2>5. PhaseAt(d, t)'
    BY <2>4
  <2>6. Phase(conns'[d], stream', "idle", roomy'[t], record'[t])
    BY <2>1, <2>5 DEF PhaseAt
  <2>7. Phase(conns'[d], stream', "idle", roomy'[u], record'[u])
    BY <2>6 DEF Phase, Ready
  <2> QED
    BY <2>2, <2>7 DEF PhaseAt
<1> QED
  BY <1>2, <1>3

\* A step that formats nothing.
LEMMA StreamKept ==
  ASSUME SocketInv, StreamInv, NEW t \in Threads, NEW from, NEW to, Walks(t, from, to),
         from # "idle",
         stream' = stream \/ (stream' = Fresh /\ to \in Begun),
         to \in Estimated => from \in Estimated /\ roomy'[t] = roomy[t],
         to \in Waiting => from \in Waiting,
         from \in Begun => to \in Begun,
         GoalInv',
         to = "idle" => \A d \in Fds : Own(d)' => Own(d),
         \A d \in Fds : Own(d)' /\ ~Busy(t) => PhaseAt(d, t)'
  PROVE  StreamInv'
<1>1. /\ pc[t] = from /\ pc'[t] = to /\ \A u \in Threads : u # t => pc'[u] = pc[u]
      /\ Busy(t)' <=> Busy(t)
  BY WalksIs DEF SocketInv
<1>2. /\ \A u \in Threads : u # t => roomy'[u] = roomy[u]
      /\ StreamTypes'
  BY DEF Walks
<1>3. HandleInv'
  <2>1. Tight' \subseteq Tight
    BY <1>1, <1>2 DEF Tight
  <2> QED
    BY <1>2, <2>1, HandleKept DEF StreamInv
<1>4. FreshInv'
  <2> SUFFICES ASSUME stream' = Fresh, \A u \in Threads : pc'[u] \notin Begun,
                      NEW u \in Threads, pc'[u] \in Waiting
               PROVE  roomy'[u]
    BY DEF FreshInv
  <2>1. to \notin Begun /\ from \notin Begun /\ stream = Fresh
    BY <1>1
  <2>2. \A v \in Threads : pc[v] \notin Begun
    BY <1>1, <2>1
  <2>3. \A v \in Threads : pc[v] \in Waiting => roomy[v]
    BY <2>1, <2>2 DEF StreamInv, FreshInv
  <2> QED
    BY <1>1, <1>2, <2>3 DEF Estimated
<1>5. ReadInv'
  BY ReadKept DEF SocketInv
<1> QED
  BY <1>2, <1>3, <1>4, <1>5 DEF StreamInv

\* A step that touches no connection, either.
LEMMA PassesBy ==
  ASSUME SocketInv, StreamInv, NEW t \in Threads, NEW from, NEW to, Walks(t, from, to),
         from # "idle", UNCHANGED conns,
         stream' = stream \/ (stream' = Fresh /\ to \in Begun),
         to \in Estimated => from \in Estimated /\ roomy'[t] = roomy[t],
         to \in Waiting => from \in Waiting,
         from \in Begun => to \in Begun,
         \A d \in Fds : Own(d) /\ PhaseAt(d, t) => PhaseAt(d, t)'
  PROVE  StreamInv'
<1>1. GoalInv'
  BY DEF StreamInv, GoalInv
<1>2. \A d \in Fds : Own(d)' => Own(d)
  BY DEF Own
<1>3. \A d \in Fds : Own(d)' /\ ~Busy(t) => PhaseAt(d, t)'
  BY <1>2 DEF StreamInv, ReadInv
<1> QED
  BY <1>1, <1>2, <1>3, StreamKept

\* The types of what a step leaves alone, or resets when the call returns.
LEMMA StreamTypesKept ==
  ASSUME StreamTypes, NEW t \in Threads, layout' = layout,
         stream' = stream \/ stream' = Fresh,
         roomy' = roomy \/ roomy' = [roomy EXCEPT ![t] = FALSE],
         record' = record \/ \E r : record' = [record EXCEPT ![t] = r]
  PROVE  StreamTypes' /\ \A u \in Threads : u # t => roomy'[u] = roomy[u]
<1>1. StreamOf(layout, Fresh)
  BY FreshIs DEF StreamOf
<1>2. StreamOf(layout', stream')
  BY <1>1 DEF StreamTypes
<1> QED
  BY <1>2 DEF StreamTypes

\* The steps of append_to_output that neither format nor touch the connection keep
\* the invariant.
LEMMA PassesOn ==
  ASSUME SocketInv, StreamInv, NEW t \in Threads,
         \/ TestOpen(t) \/ ConnectFails(t) \/ Publish(t) \/ InitLayout(t) \/ Drop(t)
         \/ TestStillOpen(t) \/ GetSocket(t) \/ TakeSocket(t) \/ SendFails(t)
  PROVE  StreamInv'
<1>1. Types /\ OwnInv /\ StreamTypes /\ Closed \notin Fds
  BY MaxFdsAssumption DEF SocketInv, StreamInv, Fds, Closed
<1>2. UNCHANGED conns /\ layout' = layout /\ (stream' = stream \/ stream' = Fresh)
      /\ (roomy' = roomy \/ roomy' = [roomy EXCEPT ![t] = FALSE])
      /\ (record' = record \/ \E r : record' = [record EXCEPT ![t] = r])
  BY DEF TestOpen, ConnectFails, Publish, InitLayout, Drop, TestStillOpen, GetSocket, TakeSocket,
         SendFails, environment, locals, Return
<1>3. StreamTypes' /\ \A u \in Threads : u # t => roomy'[u] = roomy[u]
  BY <1>1, <1>2, StreamTypesKept
<1>4. ASSUME pc[t] # "idle", pc[t] \notin Opening
      PROVE  \A d \in Fds : Own(d) => d = fd /\ fd # Closed
  BY <1>1, <1>4, OwnIsFd
<1>5. CASE TestOpen(t)
  <2> DEFINE to == IF fd = Closed THEN "open" ELSE "format"
  <2>1. Moves(t, "is open", to) /\ stream' = stream /\ roomy' = roomy /\ record' = record
        /\ "is open" \in PCs /\ to \in PCs
    BY <1>5 DEF TestOpen, Goto, Moves, locals, PCs
  <2>2. Walks(t, "is open", to) /\ pc[t] = "is open" /\ pc'[t] = to
    BY <1>1, <1>3, <2>1, WalksIs DEF Walks
  <2>3. ASSUME NEW d \in Fds, Own(d), PhaseAt(d, t)
        PROVE  PhaseAt(d, t)'
    <3>1. to = "format" /\ pc[t] = "is open" /\ pc'[t] = "format"
      BY <1>4, <2>2, <2>3 DEF Opening
    <3> QED
      BY <1>2, <2>1, <2>3, <3>1 DEF PhaseAt, Phase, InStep, Ready
  <2> QED
    BY <1>2, <2>1, <2>2, <2>3, PassesBy DEF Estimated, Waiting, Begun
<1>6. CASE ConnectFails(t)
  <2>1. Moves(t, "open", "format") /\ stream' = stream /\ roomy' = roomy
        /\ "open" \in PCs /\ "format" \in PCs
    BY <1>6 DEF ConnectFails, Goto, Moves, locals, PCs
  <2>2. Walks(t, "open", "format") /\ pc[t] = "open"
    BY <1>1, <1>3, <2>1, WalksIs DEF Walks
  <2>3. \A d \in Fds : ~Own(d)
    BY <1>1, <2>2 DEF OwnInv
  <2> QED
    BY <1>2, <2>1, <2>2, <2>3, PassesBy DEF Estimated, Waiting, Begun
<1>7. CASE Publish(t)
  <2>1. Moves(t, "publish", "init layout") /\ stream' = stream /\ roomy' = roomy /\ record' = record
        /\ "publish" \in PCs /\ "init layout" \in PCs
    BY <1>7 DEF Publish, Goto, Moves, locals, PCs
  <2>2. Walks(t, "publish", "init layout") /\ pc[t] = "publish" /\ pc'[t] = "init layout"
    BY <1>1, <1>3, <2>1, WalksIs DEF Walks
  <2>3. ASSUME NEW d \in Fds, Own(d), PhaseAt(d, t)
        PROVE  PhaseAt(d, t)'
    BY <1>2, <2>1, <2>2, <2>3 DEF PhaseAt, Phase, InStep, Ready
  <2> QED
    BY <1>2, <2>1, <2>2, <2>3, PassesBy DEF Estimated, Waiting, Begun
<1>8. CASE InitLayout(t)
  <2>1. Moves(t, "init layout", "format") /\ stream' = Fresh /\ roomy' = roomy /\ record' = record
        /\ "init layout" \in PCs /\ "format" \in PCs
    BY <1>8 DEF InitLayout, Goto, Moves, locals, PCs
  <2>2. Walks(t, "init layout", "format") /\ pc[t] = "init layout" /\ pc'[t] = "format"
    BY <1>1, <1>3, <2>1, WalksIs DEF Walks
  <2>3. ASSUME NEW d \in Fds, Own(d), PhaseAt(d, t)
        PROVE  PhaseAt(d, t)'
    BY <1>2, <2>1, <2>2, <2>3 DEF PhaseAt, Phase, InStep, Ready
  <2> QED
    BY <1>2, <2>1, <2>2, <2>3, PassesBy DEF Estimated, Waiting, Begun
<1>9. CASE Drop(t)
  <2>1. Moves(t, "is still open", "idle") /\ stream' = stream /\ fd = Closed
        /\ "is still open" \in PCs /\ "idle" \in PCs
    BY <1>1, <1>9 DEF Drop, Return, Goto, Moves, PCs, Types
  <2>2. Walks(t, "is still open", "idle") /\ pc[t] = "is still open"
    BY <1>1, <1>3, <2>1, WalksIs DEF Walks
  <2>3. \A d \in Fds : ~Own(d)
    BY <1>4, <2>1, <2>2 DEF Opening
  <2> QED
    BY <1>2, <2>1, <2>2, <2>3, PassesBy DEF Estimated, Waiting, Begun
<1>10. CASE TestStillOpen(t)
  <2>1. Moves(t, "is still open", "get socket") /\ stream' = stream /\ record' = record
        /\ "is still open" \in PCs /\ "get socket" \in PCs
    BY <1>10 DEF TestStillOpen, Goto, Moves, locals, PCs
  <2>2. Walks(t, "is still open", "get socket") /\ pc[t] = "is still open" /\ pc'[t] = "get socket"
    BY <1>1, <1>3, <2>1, WalksIs DEF Walks
  <2>3. ASSUME NEW d \in Fds, Own(d), PhaseAt(d, t)
        PROVE  PhaseAt(d, t)'
    BY <1>2, <2>1, <2>2, <2>3 DEF PhaseAt, Phase, InStep, Ready
  <2> QED
    BY <1>2, <2>1, <2>2, <2>3, PassesBy DEF Estimated, Waiting, Begun
<1>11. CASE GetSocket(t)
  <2>1. Moves(t, "get socket", "send") /\ stream' = stream /\ record' = record /\ sock'[t] = fd
        /\ "get socket" \in PCs /\ "send" \in PCs
    BY <1>1, <1>11 DEF GetSocket, Goto, Moves, PCs, Types
  <2>2. Walks(t, "get socket", "send") /\ pc[t] = "get socket" /\ pc'[t] = "send"
    BY <1>1, <1>3, <2>1, WalksIs, ZenonT(60) DEF Walks
  <2>3. ASSUME NEW d \in Fds, Own(d), PhaseAt(d, t)
        PROVE  PhaseAt(d, t)'
    <3>1. d = fd
      BY <1>4, <2>2, <2>3 DEF Opening
    <3> QED
      BY <1>2, <2>1, <2>2, <2>3, <3>1 DEF PhaseAt, Phase, InStep, Ready
  <2> QED
    BY <1>2, <2>1, <2>2, <2>3, PassesBy DEF Estimated, Waiting, Begun
<1>12. CASE TakeSocket(t)
  <2>1. Moves(t, "close", "close socket") /\ stream' = stream
        /\ "close" \in PCs /\ "close socket" \in PCs
    BY <1>1, <1>12 DEF TakeSocket, Goto, Moves, PCs, Types
  <2>2. Walks(t, "close", "close socket") /\ pc[t] = "close" /\ pc'[t] = "close socket"
    BY <1>1, <1>3, <2>1, WalksIs, ZenonT(60) DEF Walks
  <2>3. ASSUME NEW d \in Fds, Own(d), PhaseAt(d, t)
        PROVE  PhaseAt(d, t)'
    BY <2>2 DEF PhaseAt, Phase, InStep, Ready
  <2> QED
    BY <1>2, <2>1, <2>2, <2>3, PassesBy DEF Estimated, Waiting, Begun
<1>13. CASE SendFails(t)
  <2>1. Moves(t, "send", "close") /\ stream' = stream
        /\ "send" \in PCs /\ "close" \in PCs
    BY <1>1, <1>13 DEF SendFails, Goto, Moves, PCs, Types
  <2>2. Walks(t, "send", "close") /\ pc[t] = "send" /\ pc'[t] = "close"
    BY <1>1, <1>3, <2>1, WalksIs DEF Walks
  <2>3. ASSUME NEW d \in Fds, Own(d), PhaseAt(d, t)
        PROVE  PhaseAt(d, t)'
    BY <2>2 DEF PhaseAt, Phase, InStep, Ready
  <2> QED
    BY <1>2, <2>1, <2>2, <2>3, PassesBy DEF Estimated, Waiting, Begun
<1> QED
  BY <1>5, <1>6, <1>7, <1>8, <1>9, <1>10, <1>11, <1>12, <1>13

-----------------------------------------------------------------------------
(* Steps that send *)

\* A thread in the appender that has a connection of its own is alone.
LEMMA OwnAlone ==
  ASSUME OwnInv, NEW t \in Threads, pc[t] # "idle", NEW d \in Fds, Own(d)
  PROVE  ~Busy(t)
BY DEF OwnInv, Busy

\* A record that arrives is read, unless it outgrew its buffer; and only the
\* first one does.
SentTo(c, r) ==
  [c EXCEPT !.reader = IF r.outgrown THEN Broken ELSE ReadRecord(@, r),
            !.outgrown = IF ~r.outgrown THEN @ ELSE IF c.sent THEN "later" ELSE "first",
            !.sent = TRUE]

\* The reader that was in step when the record was formatted reads it, and is in step
\* with the stream behind it.
LEMMA RecordArrives ==
  ASSUME NEW c, IsConn(c), c.open, c.peer = "alive", Goal(c), NEW s, NEW b, NEW r,
         Phase(c, s, "send", b, r)
  PROVE  /\ Goal(SentTo(c, r)) /\ (Followed(SentTo(c, r)) => Sync(s, SentTo(c, r).reader))
         /\ SentTo(c, r).open = c.open /\ SentTo(c, r).shared = c.shared
<1> DEFINE q == IF r.outgrown THEN Broken ELSE ReadRecord(c.reader, r)
           o == IF ~r.outgrown THEN c.outgrown ELSE IF c.sent THEN "later" ELSE "first"
           e == SentTo(c, r)
           R == {c.reader, q}
<1>1. e = [c EXCEPT !.reader = q, !.outgrown = o, !.sent = TRUE]
  BY DEF SentTo
<1>2. c \in ConnType(R) /\ q \in R
  BY DEF IsConn, ConnType
<1> HIDE DEF q, o, R, e
<1>3. /\ e.reader = q /\ e.outgrown = o /\ e.cut = c.cut /\ e.late = c.late /\ e.peer = c.peer
      /\ e.open = c.open /\ e.shared = c.shared
  BY <1>1, <1>2 DEF ConnType
<1>4. CASE r.outgrown
  <2>1. c.late /\ ~c.sent
    BY <1>4 DEF Phase, Ready
  <2>2. o = "first"
    BY <1>4, <2>1 DEF o
  <2> QED
    BY <1>3, <2>1, <2>2 DEF Goal, Followed, e
<1>5. CASE ~r.outgrown
  <2>1. o = c.outgrown /\ q = ReadRecord(c.reader, r)
    BY <1>5 DEF o, q
  <2>2. Followed(c) => Sync(s, q)
    BY <1>5, <2>1 DEF Phase, Ready
  <2>3. Followed(c) => q.ok
    BY <2>2 DEF Sync
  <2>4. c.outgrown = "no" \/ (c.outgrown = "first" /\ c.late)
    BY DEF Goal
  <2>5. Goal(e)
    BY <1>3, <2>1, <2>3, <2>4 DEF Goal, Followed
  <2> QED
    BY <1>3, <2>1, <2>2, <2>5 DEF Followed, e
<1> QED
  BY <1>4, <1>5

\* Sending a record, wholly, in part or in vain, keeps the invariant.
LEMMA SendsInStep ==
  ASSUME SocketInv, StreamInv, NEW t \in Threads, SendWhole(t) \/ SendPart(t) \/ SendLost(t)
  PROVE  StreamInv'
<1> DEFINE s == sock[t]
           c == conns[s]
<1>1. /\ Types /\ OwnInv /\ StreamTypes /\ DOMAIN conns = Fds
      /\ Moves(t, "send", "idle") /\ "send" \in PCs /\ "idle" \in PCs
      /\ layout' = layout /\ stream' = stream
      /\ roomy' = [roomy EXCEPT ![t] = FALSE] /\ record' = [record EXCEPT ![t] = NoRecord]
  <2>1. Types /\ OwnInv /\ StreamTypes /\ DOMAIN conns = Fds /\ "send" \in PCs /\ "idle" \in PCs
    BY DEF SocketInv, StreamInv, Types, PCs
  <2>2. Goto(t, "send", "idle") /\ Return(t) /\ layout' = layout /\ stream' = stream
    BY DEF SendWhole, SendPart, SendLost, environment
  <2>3. Moves(t, "send", "idle")
    BY <2>1, <2>2 DEF Goto, Return, Moves, Types
  <2> QED
    BY <2>1, <2>2, <2>3 DEF Return
<1>2. StreamTypes' /\ \A u \in Threads : u # t => roomy'[u] = roomy[u]
  BY <1>1, StreamTypesKept
<1>3. Walks(t, "send", "idle") /\ pc[t] = "send" /\ pc'[t] = "idle"
  <2>1. Walks(t, "send", "idle")
    BY <1>1, <1>2 DEF Walks
  <2> QED
    BY <1>1, <2>1, WalksIs
<1>4. s \in Fds /\ IsConn(c) /\ c.open
  <2>1. Connected(t)
    BY DEF SendWhole, SendPart, SendLost
  <2> QED
    BY <1>1, <2>1 DEF Types, Connected
<1>5. ~c.shared => Goal(c) /\ Phase(c, stream, "send", roomy[t], record[t])
  <2>1. ASSUME ~c.shared PROVE Own(s) /\ ~Busy(t)
    <3>1. Own(s)
      BY <1>4, <2>1 DEF Own
    <3> QED
      BY <1>1, <1>3, <1>4, <3>1, OwnAlone
  <2> QED
    BY <1>3, <1>4, <2>1 DEF StreamInv, GoalInv, ReadInv, PhaseAt
<1>6. /\ \A d \in Fds : d # s => conns'[d] = conns[d]
      /\ conns'[s].open = c.open /\ conns'[s].shared = c.shared
      /\ ~c.shared => Goal(conns'[s]) /\ (Followed(conns'[s]) => Sync(stream, conns'[s].reader))
  <2>1. CASE SendWhole(t)
    <3> DEFINE r == record[t]
               b == roomy[t]
               x == SentTo(c, r)
    <3>1. c.peer = "alive" /\ (c.shared => conns' = conns)
      BY <2>1 DEF SendWhole
    <3>2. ~c.shared => conns' = [conns EXCEPT ![s] = x]
      BY <2>1 DEF SendWhole, SentTo
    <3>3. ~c.shared => Goal(c) /\ Phase(c, stream, "send", b, r)
      BY <1>5
    <3> HIDE DEF c, s, r, b
    <3>4. ~c.shared => Goal(x) /\ (Followed(x) => Sync(stream, x.reader)) /\ x.open = c.open
                       /\ x.shared = c.shared
      BY <1>4, <3>1, <3>3, RecordArrives
    <3> HIDE DEF x
    <3>5. CASE c.shared
      BY <1>1, <1>4, <3>1, <3>5 DEF c
    <3>6. CASE ~c.shared
      <4>1. conns'[s] = x /\ \A d \in Fds : d # s => conns'[d] = conns[d]
        BY <1>1, <1>4, <3>2, <3>6
      <4> QED
        BY <3>4, <3>6, <4>1 DEF c
    <3> QED
      BY <3>5, <3>6
  <2>2. CASE SendPart(t)
    <3> DEFINE e == [c EXCEPT !.cut = TRUE, !.reader = Broken]
               R == {c.reader, Broken}
    <3>1. conns' = IF c.shared THEN conns ELSE [conns EXCEPT ![s] = e]
      <4>1. c.shared => conns' = conns
        BY <2>2 DEF SendPart
      <4>2. ~c.shared => conns' = [conns EXCEPT ![s] = e]
        BY <1>1, <1>4, <2>2 DEF SendPart
      <4> QED
        BY <4>1, <4>2
    <3>2. c \in ConnType(R) /\ Broken \in R
      BY <1>4 DEF IsConn, ConnType
    <3> HIDE DEF R, c, s
    <3>3. e.cut = TRUE /\ e.open = c.open /\ e.shared = c.shared /\ e.outgrown = c.outgrown
          /\ e.late = c.late
      BY <3>2 DEF ConnType
    <3>4. ~c.shared => Goal(e) /\ ~Followed(e)
      BY <1>4, <1>5, <3>3 DEF Goal, Followed
    <3> HIDE DEF e
    <3> QED
      BY <1>1, <1>4, <3>1, <3>3, <3>4 DEF c
  <2>3. CASE SendLost(t)
    <3> DEFINE e == [c EXCEPT !.peer = "dead"]
    <3>1. conns' = [conns EXCEPT ![s] = e]
      BY <1>1, <1>4, <2>3 DEF SendLost
    <3> HIDE DEF c, s
    <3>2. e.peer = "dead" /\ e.open = c.open /\ e.shared = c.shared /\ e.outgrown = c.outgrown
          /\ e.late = c.late /\ e.cut = c.cut /\ e.reader = c.reader
      BY <1>4 DEF IsConn, ConnType
    <3>3. ~c.shared => Goal(e) /\ ~Followed(e)
      BY <1>4, <1>5, <3>2 DEF Goal, Followed
    <3> HIDE DEF e
    <3> QED
      BY <1>1, <1>4, <3>1, <3>2, <3>3 DEF c
  <2> QED
    BY <2>1, <2>2, <2>3
<1>7. GoalInv'
  BY <1>6 DEF StreamInv, GoalInv
<1>8. \A d \in Fds : Own(d)' => Own(d)
  BY <1>6 DEF Own
<1>9. ASSUME NEW d \in Fds, Own(d)', ~Busy(t)
      PROVE  PhaseAt(d, t)'
  <2>1. Own(d) /\ PhaseAt(d, t)
    BY <1>8, <1>9 DEF StreamInv, ReadInv
  <2>2. d = s /\ ~c.shared
    BY <1>3, <2>1 DEF PhaseAt, Own
  <2>3. Followed(conns'[d]) => Sync(stream, conns'[d].reader)
    BY <1>6, <2>2
  <2> QED
    BY <1>1, <1>3, <2>3 DEF PhaseAt, Phase, Ready
<1> QED
  BY <1>1, <1>3, <1>7, <1>8, <1>9, StreamKept DEF Estimated, Waiting, Begun

-----------------------------------------------------------------------------
(* Opening and closing *)

\* A reader that waits for the header has seen nothing and refused nothing.
LEMMA NewReaderIs ==
  /\ NewReader \in Readers /\ NewReader.ok /\ NewReader.seen = << >>
  /\ Broken \in Readers
<1>1. << >> \in Seq(Things)
  OBVIOUS
<1> DEFINE none == << >>
<1>2. NewReader = [header |-> FALSE, ok |-> TRUE, seen |-> none]
  BY DEF NewReader
<1>3. none \in Seq(Things)
  BY <1>1
<1> HIDE DEF none
<1>4. NewReader \in Readers /\ NewReader.ok /\ NewReader.seen = none
  BY <1>2, <1>3 DEF Readers
<1>5. Broken \in Readers
  BY <1>4 DEF Broken, Readers
<1> QED
  BY <1>4, <1>5 DEF none

\* The header is the first that a server receives; the stream begins behind it.
LEMMA HeaderInStep ==
  ASSUME SocketInv, StreamInv, NEW t \in Threads, SendHeader(t)
  PROVE  StreamInv'
<1> DEFINE s == sock[t]
           c == conns[s]
           h == c.peer = "alive" /\ ~c.shared
           q == [c.reader EXCEPT !.header = h]
           e == [c EXCEPT !.reader = q]
<1>1. /\ Types /\ OwnInv /\ StreamTypes /\ DOMAIN conns = Fds
      /\ Moves(t, "header", "publish") /\ "header" \in PCs /\ "publish" \in PCs
      /\ layout' = layout /\ stream' = Fresh /\ roomy' = roomy /\ record' = record
  BY DEF SocketInv, StreamInv, Types, SendHeader, environment, locals, Goto, Moves, PCs
<1>2. StreamTypes' /\ \A u \in Threads : u # t => roomy'[u] = roomy[u]
  BY <1>1, StreamTypesKept
<1>3. Walks(t, "header", "publish") /\ pc[t] = "header" /\ pc'[t] = "publish"
  BY <1>1, <1>2, WalksIs DEF Walks
<1>4. s \in Fds /\ IsConn(c)
  BY <1>1, <1>3 DEF OwnInv, Opening, Types
<1>5. conns' = [conns EXCEPT ![s] = e]
  BY <1>1, <1>4 DEF SendHeader
<1>6. c \in ConnType({c.reader, q}) /\ q \in {c.reader, q}
  BY <1>4 DEF IsConn, ConnType
<1> DEFINE R == {c.reader, q}
<1> HIDE DEF q
<1>7. e.reader = q /\ e.outgrown = c.outgrown /\ e.cut = c.cut /\ e.late = c.late /\ e.peer = c.peer
      /\ e.open = c.open /\ e.shared = c.shared /\ e.sent = c.sent
  <2>1. c \in ConnType(R) /\ q \in R
    BY <1>6
  <2> HIDE DEF R, c
  <2> QED
    BY <2>1 DEF ConnType
<1> HIDE DEF c, s, e
<1>8. /\ \A d \in Fds : d # s => conns'[d] = conns[d]
      /\ conns'[s] = e
  BY <1>1, <1>4, <1>5
<1>9. ASSUME ~c.shared
      PROVE  Goal(c) /\ (c.open => Phase(c, stream, "header", roomy[t], record[t]))
  <2>1. Goal(c)
    BY <1>4, <1>9 DEF StreamInv, GoalInv, c
  <2>2. ASSUME c.open PROVE Phase(c, stream, "header", roomy[t], record[t])
    <3>1. Own(s)
      BY <1>9, <2>2 DEF Own, c
    <3>2. ~Busy(t)
      BY <1>1, <1>3, <1>4, <3>1, OwnAlone
    <3> QED
      BY <1>3, <1>4, <3>1, <3>2 DEF StreamInv, ReadInv, PhaseAt, c
  <2> QED
    BY <2>1, <2>2
<1>10. ASSUME ~c.shared PROVE Goal(e)
  <2>1. c.reader \in Readers
    <3>1. c.open => c.reader = NewReader
      BY <1>9, <1>10 DEF Phase
    <3>2. ~c.open => c.reader \in Readers
      BY <1>9, <1>10 DEF Goal
    <3> QED
      BY <3>1, <3>2, NewReaderIs
  <2>2. q \in Readers /\ q.ok = c.reader.ok
    BY <2>1 DEF q, Readers
  <2> QED
    BY <1>7, <1>9, <1>10, <2>2 DEF Goal
<1>11. GoalInv'
  BY <1>7, <1>8, <1>10 DEF StreamInv, GoalInv, c
<1>12. ASSUME NEW d \in Fds, Own(d)', ~Busy(t)
      PROVE  PhaseAt(d, t)'
  <2>1. Own(d)
    BY <1>7, <1>8, <1>12 DEF Own, c
  <2>2. d = s
    BY <1>1, <1>3, <2>1 DEF OwnInv, Opening, s
  <2>3. Phase(c, stream, "header", roomy[t], record[t])
    BY <1>9, <2>1, <2>2 DEF Own, c
  <2>4. Followed(e) => Sync(Fresh, q)
    <3>1. ASSUME Followed(e) PROVE Sync(Fresh, q)
      <4>1. h = TRUE /\ c.reader = NewReader
        BY <1>7, <2>1, <2>2, <2>3, <3>1 DEF Followed, Own, c, Phase
      <4>2. q = [NewReader EXCEPT !.header = TRUE]
        BY <4>1 DEF q
      <4>3. NewReader \in Readers /\ NewReader.ok /\ NewReader.seen = << >>
        BY NewReaderIs
      <4>4. q.header /\ q.ok /\ q.seen = << >> /\ q \in Readers
        BY <4>2, <4>3 DEF Readers
      <4> QED
        BY <4>4, FreshAgrees DEF Sync
    <3> QED
      BY <3>1
  <2>5. ~e.sent /\ e.outgrown = "no" /\ (roomy[t] \/ e.late)
    BY <1>7, <2>3 DEF Phase
  <2>6. Phase(e, Fresh, "publish", roomy[t], record[t])
    BY <1>7, <2>4, <2>5 DEF Phase, Ready
  <2> QED
    BY <1>1, <1>3, <1>8, <2>2, <2>6 DEF PhaseAt
<1> QED
  BY <1>1, <1>3, <1>11, <1>12, StreamKept DEF Estimated, Waiting, Begun

\* What is made of no connection has nothing of a former one.
LEMMA ConnBegins ==
  ASSUME NEW s \in BOOLEAN, NEW l \in BOOLEAN
  PROVE  LET e == [NoConn EXCEPT !.open = TRUE, !.peer = "alive", !.shared = s, !.late = l] IN
         /\ Goal(e) /\ e.reader = NewReader /\ ~e.cut /\ ~e.sent /\ e.outgrown = "no"
         /\ e.late = l /\ e.shared = s /\ e.open
<1> DEFINE R == {NewReader}
           e == [NoConn EXCEPT !.open = TRUE, !.peer = "alive", !.shared = s, !.late = l]
<1>1. NoConn \in ConnType(R) /\ NoConn.reader = NewReader /\ ~NoConn.cut /\ ~NoConn.sent
      /\ NoConn.outgrown = "no"
  BY DEF NoConn, ConnType, Peers
<1> HIDE DEF R
<1>2. e.reader = NewReader /\ ~e.cut /\ ~e.sent /\ e.outgrown = "no" /\ e.late = l /\ e.shared = s
      /\ e.open
  BY <1>1 DEF ConnType
<1> HIDE DEF e
<1>3. Goal(e)
  BY <1>2, NewReaderIs DEF Goal
<1> QED
  BY <1>2, <1>3 DEF e

\* Without a connection there is nothing to show.
LEMMA NoConnGoal == Goal(NoConn) /\ ~NoConn.open
<1>1. NoConn.reader = NewReader /\ NoConn.outgrown = "no" /\ ~NoConn.open
  BY DEF NoConn
<1> QED
  BY <1>1, NewReaderIs DEF Goal

\* The estimate was made before the connection: when it left no room, the
\* stream was not fresh, unless another thread has written a header since.
LEMMA ConnectsInStep ==
  ASSUME SocketInv, StreamInv, NEW t \in Threads, Connect(t)
  PROVE  StreamInv'
<1> DEFINE b == Busy(t)
           l == stream # Fresh /\ ~Busy(t)
           e == [NoConn EXCEPT !.open = TRUE, !.peer = "alive", !.shared = b, !.late = l]
<1>1. /\ Types /\ OwnInv /\ StreamTypes /\ DOMAIN conns = Fds
      /\ "open" \in PCs /\ "header" \in PCs
  BY DEF SocketInv, StreamInv, Types, PCs
<1>2. /\ Goto(t, "open", "header") /\ layout' = layout /\ stream' = stream
      /\ roomy' = roomy /\ record' = record
  BY DEF Connect, environment
<1>3. PICK s \in Fds : conns' = [conns EXCEPT ![s] = e] /\ sock' = [sock EXCEPT ![t] = s]
  BY DEF Connect, FreeFds
<1>4. Moves(t, "open", "header")
  BY <1>1, <1>2, <1>3 DEF Goto, Moves, Types
<1>5. StreamTypes' /\ \A u \in Threads : u # t => roomy'[u] = roomy[u]
  BY <1>1, <1>2, StreamTypesKept
<1>6. Walks(t, "open", "header")
  BY <1>1, <1>4, <1>5 DEF Walks
<1>7. pc[t] = "open" /\ pc'[t] = "header"
  BY <1>1, <1>6, WalksIs
<1>8. b \in BOOLEAN /\ l \in BOOLEAN
  BY DEF Busy
<1>9. l => ~b
  OBVIOUS
<1>10. ~b => roomy[t] \/ l
  <2>1. ASSUME ~b, stream = Fresh PROVE roomy[t]
    <3>1. \A u \in Threads : pc[u] \notin Begun
      BY <1>7, <2>1 DEF Busy, Begun
    <3> QED
      BY <1>7, <2>1, <3>1 DEF StreamInv, FreshInv, Waiting
  <2> QED
    BY <2>1
<1> HIDE DEF b, l
<1>11. /\ Goal(e) /\ e.reader = NewReader /\ ~e.cut /\ ~e.sent /\ e.outgrown = "no"
       /\ e.late = l /\ e.shared = b /\ e.open
  BY <1>8, ConnBegins
<1> HIDE DEF e
<1>12. conns'[s] = e /\ \A d \in Fds : d # s => conns'[d] = conns[d]
  BY <1>1, <1>3
<1>13. GoalInv'
  BY <1>11, <1>12 DEF StreamInv, GoalInv
<1>14. ASSUME NEW d \in Fds, Own(d)', ~Busy(t)
       PROVE  PhaseAt(d, t)'
  <2>1. ~Own(d)
    BY <1>1, <1>7 DEF OwnInv
  <2>2. d = s
    BY <1>12, <1>14, <2>1 DEF Own
  <2>3. Phase(e, stream, "header", roomy[t], record[t])
    BY <1>10, <1>11, <1>14 DEF Phase, InStep, Ready, b
  <2> QED
    BY <1>2, <1>7, <1>12, <2>2, <2>3 DEF PhaseAt
<1> QED
  BY <1>2, <1>6, <1>13, <1>14, StreamKept DEF Estimated, Waiting, Begun

\* Nothing is left of a connection that is closed.
LEMMA ClosesInStep ==
  ASSUME SocketInv, StreamInv, NEW t \in Threads, CloseSocket(t)
  PROVE  StreamInv'
<1> DEFINE s == sock[t]
<1>1. /\ Types /\ OwnInv /\ StreamTypes /\ DOMAIN conns = Fds
      /\ "close socket" \in PCs /\ "idle" \in PCs /\ Closed \notin Fds /\ s \in Fds \union {Closed}
  <2>1. Closed \notin Fds
    BY MaxFdsAssumption DEF Fds, Closed
  <2>2. Types /\ OwnInv /\ StreamTypes /\ DOMAIN conns = Fds /\ s \in Fds \union {Closed}
    BY DEF SocketInv, StreamInv, Types
  <2> QED
    BY <2>1, <2>2 DEF PCs
<1>2. /\ Goto(t, "close socket", "idle") /\ layout' = layout /\ stream' = stream /\ Return(t)
      /\ conns' = IF s = Closed THEN conns ELSE [conns EXCEPT ![s] = NoConn]
  BY DEF CloseSocket, environment
<1>3. Moves(t, "close socket", "idle")
  BY <1>1, <1>2 DEF Goto, Moves, Return, Types
<1>4. StreamTypes' /\ \A u \in Threads : u # t => roomy'[u] = roomy[u]
  BY <1>1, <1>2, StreamTypesKept DEF Return
<1>5. Walks(t, "close socket", "idle")
  BY <1>1, <1>3, <1>4 DEF Walks
<1>6. pc[t] = "close socket" /\ pc'[t] = "idle"
  BY <1>1, <1>5, WalksIs
<1>7. \A d \in Fds : conns'[d] = IF d = s THEN NoConn ELSE conns[d]
  BY <1>1, <1>2
<1>8. GoalInv'
  BY <1>7, NoConnGoal DEF StreamInv, GoalInv
<1>9. \A d \in Fds : ~Own(d)'
  <2>1. ASSUME NEW d \in Fds, Own(d)' PROVE FALSE
    <3>1. d # s /\ Own(d)
      BY <1>7, <2>1, NoConnGoal DEF Own
    <3> QED
      BY <1>1, <1>6, <3>1 DEF OwnInv
  <2> QED
    BY <2>1
<1> QED
  BY <1>2, <1>5, <1>8, <1>9, StreamKept DEF Estimated, Waiting, Begun

-----------------------------------------------------------------------------
(* Coming in *)

\* A connection that two threads have had to do with is shared.
LEMMA UnfollowedShared ==
  ASSUME NEW c
  PROVE  Unfollowed(c).shared
<1> DEFINE R == {NewReader}
           a == c.open
           p == c.peer
<1>1. NoConn \in ConnType(R)
  BY DEF NoConn, ConnType, Peers
<1> HIDE DEF R, a, p
<1>2. [NoConn EXCEPT !.open = a, !.peer = p, !.shared = TRUE].shared
  BY <1>1 DEF ConnType
<1> QED
  BY <1>2 DEF Unfollowed, a, p

\* A thread that comes in keeps the connections or shares all of them.
LEMMA EnterIs ==
  ASSUME Types, NEW t \in Threads, Enter(t)
  PROVE  /\ ~Busy(t) => conns' = conns
         /\ Busy(t) => \A d \in Fds : conns'[d].shared
<1>1. ASSUME Busy(t) PROVE \A d \in Fds : conns'[d].shared
  <2>1. \A d \in Fds : conns'[d] = Unfollowed(conns[d])
    BY <1>1 DEF Enter
  <2> QED
    BY <2>1, UnfollowedShared
<1>2. ~Busy(t) => conns' = conns
  BY DEF Enter
<1> QED
  BY <1>1, <1>2

\* A call of close keeps the invariant.
LEMMA ClosesIn ==
  ASSUME SocketInv, StreamInv, NEW t \in Threads, CloseAppender(t)
  PROVE  StreamInv'
<1>1. /\ Types /\ OwnInv /\ StreamTypes /\ "idle" \in PCs /\ "close" \in PCs
  BY DEF SocketInv, StreamInv, Types, PCs
<1>2. /\ Goto(t, "idle", "close") /\ layout' = layout /\ stream' = stream
      /\ roomy' = roomy /\ record' = record /\ sock' = sock /\ Enter(t)
  BY DEF CloseAppender, environment
<1>3. StreamTypes' /\ \A u \in Threads : u # t => roomy'[u] = roomy[u]
  BY <1>1, <1>2, StreamTypesKept
<1>4. Walks(t, "idle", "close")
  BY <1>1, <1>2, <1>3 DEF Walks, Moves, Goto
<1>5. pc[t] = "idle" /\ pc'[t] = "close" /\ \A u \in Threads : u # t => pc'[u] = pc[u]
  BY <1>1, <1>4, WalksIs
<1>6. /\ ~Busy(t) => conns' = conns
      /\ Busy(t) => \A d \in Fds : conns'[d].shared
  BY <1>1, <1>2, EnterIs
<1>7. GoalInv'
  BY <1>6 DEF StreamInv, GoalInv
<1>8. HandleInv'
  <2>1. Tight' \subseteq Tight
    BY <1>2, <1>5 DEF Tight, Estimated, Waiting, Begun
  <2> QED
    BY <1>2, <1>3, <2>1, HandleKept DEF StreamInv
<1>9. FreshInv'
  <2>1. \A u \in Threads : pc'[u] \in Waiting => pc[u] \in Waiting
    BY <1>5 DEF Waiting
  <2>2. \A u \in Threads : pc[u] \in Begun => pc'[u] \in Begun
    BY <1>5 DEF Begun
  <2> QED
    BY <1>2, <2>1, <2>2 DEF StreamInv, FreshInv
<1>10. ASSUME NEW d \in Fds, Own(d)', ~Busy(t)
       PROVE  PhaseAt(d, t)'
  BY <1>5 DEF PhaseAt, Phase, InStep, Ready
<1>11. ReadInv'
  BY <1>1, <1>4, <1>10, ReadKept
<1> QED
  BY <1>3, <1>7, <1>8, <1>9, <1>11 DEF StreamInv

\* An estimate without room is made only for a stream that was begun and that
\* is not too long.
LEMMA RoomyIs ==
  ASSUME NEW l \in Layouts, NEW s, StreamOf(l, s)
  PROVE  /\ Roomy(l, s) \in BOOLEAN
         /\ ~Roomy(l, s) => s # Fresh /\ s.handle <= ResetAfter
BY FreshIs, ResetAfterAssumption DEF Roomy, StreamOf, Known

\* Estimating the length of a record keeps the invariant.
LEMMA EstimatesInStep ==
  ASSUME SocketInv, StreamInv, NEW t \in Threads, Estimate(t)
  PROVE  StreamInv'
<1> DEFINE b == Roomy(layout, stream)
<1>1. /\ Types /\ OwnInv /\ StreamTypes /\ "idle" \in PCs /\ "is open" \in PCs
  BY DEF SocketInv, StreamInv, Types, PCs
<1>2. /\ Goto(t, "idle", "is open") /\ layout' = layout /\ stream' = stream
      /\ roomy' = [roomy EXCEPT ![t] = b] /\ record' = record /\ sock' = sock /\ Enter(t)
  BY DEF Estimate, environment
<1>3. b \in BOOLEAN /\ (~b => stream # Fresh /\ stream.handle <= ResetAfter)
  BY <1>1, RoomyIs DEF StreamTypes
<1> HIDE DEF b
<1>4. StreamTypes' /\ roomy'[t] = b /\ \A u \in Threads : u # t => roomy'[u] = roomy[u]
  BY <1>1, <1>2, <1>3 DEF StreamTypes
<1>5. Walks(t, "idle", "is open")
  BY <1>1, <1>2, <1>4 DEF Walks, Moves, Goto
<1>6. pc[t] = "idle" /\ pc'[t] = "is open" /\ \A u \in Threads : u # t => pc'[u] = pc[u]
  BY <1>1, <1>5, WalksIs
<1>7. /\ ~Busy(t) => conns' = conns
      /\ Busy(t) => \A d \in Fds : conns'[d].shared
  BY <1>1, <1>2, EnterIs
<1>8. GoalInv'
  BY <1>7 DEF StreamInv, GoalInv
<1>9. HandleInv'
  <2>1. CASE b
    <3>1. Tight' \subseteq Tight
      BY <1>4, <1>6, <2>1 DEF Tight, Estimated, Waiting, Begun
    <3> QED
      BY <1>1, <1>2, <1>4, <3>1, HandleKept DEF StreamInv
  <2>2. CASE ~b
    <3> DEFINE k == Cardinality(Tight')
               n == Cardinality(Threads)
               a == stream.handle
    <3>1. Tight' \subseteq Threads
      BY DEF Tight
    <3>2. k \in Nat /\ n \in Nat /\ k <= n
      BY <3>1, TightIs, FS_Subset, FS_CardinalityType
    <3>3. a \in Nat /\ a <= ResetAfter
      BY <1>1, <1>3, <2>2 DEF StreamTypes, StreamOf
    <3> HIDE DEF k, n, a
    <3>4. a + LongestRecord * k <= ResetAfter + LongestRecord * n
      BY <3>2, <3>3, ResetAfterAssumption DEF LongestRecord
    <3> QED
      BY <1>2, <3>4 DEF HandleInv, k, n, a
  <2> QED
    BY <2>1, <2>2
<1>10. FreshInv'
  <2> SUFFICES ASSUME stream = Fresh, \A u \in Threads : pc'[u] \notin Begun,
                      NEW u \in Threads, pc'[u] \in Waiting
               PROVE  roomy'[u]
    BY <1>2 DEF FreshInv
  <2>1. \A v \in Threads : pc[v] \notin Begun
    BY <1>6 DEF Begun
  <2>2. \A v \in Threads : pc[v] \in Waiting => roomy[v]
    BY <2>1 DEF StreamInv, FreshInv
  <2> QED
    BY <1>3, <1>4, <1>6, <2>2
<1>11. ASSUME NEW d \in Fds, Own(d)', ~Busy(t)
       PROVE  PhaseAt(d, t)'
  <2>1. conns' = conns /\ Own(d)
    BY <1>7, <1>11 DEF Own
  <2>2. Followed(conns[d]) => Sync(stream, conns[d].reader)
    BY <1>6, <1>11, <2>1 DEF StreamInv, ReadInv, PhaseAt, Phase, InStep
  <2>3. Phase(conns[d], stream, "is open", b, record[t])
    BY <1>3, <2>2 DEF Phase, Ready
  <2> QED
    BY <1>2, <1>4, <1>6, <2>1, <2>3 DEF PhaseAt
<1>12. ReadInv'
  BY <1>1, <1>5, <1>11, ReadKept
<1> QED
  BY <1>4, <1>8, <1>9, <1>10, <1>12 DEF StreamInv

-----------------------------------------------------------------------------
(* Formatting *)

\* A record adds at most the longest to the handles; a thread that estimated
\* without room has its share of them.
LEMMA HandleWritten ==
  ASSUME StreamTypes, HandleInv, NEW t \in Threads, pc[t] = "format", Tight' = Tight \ {t},
         stream' = Written(layout, stream, roomy[t])
  PROVE  HandleInv'
<1> DEFINE k == Cardinality(Tight)
           k2 == Cardinality(Tight')
           n == Cardinality(Threads)
           a == stream.handle
           a2 == stream'.handle
           f == Start(layout, stream, roomy[t]).handle
<1>1. StreamOf(layout, stream) /\ layout \in Layouts /\ roomy[t] \in BOOLEAN
  BY DEF StreamTypes
<1>2. f \in Nat /\ f <= a /\ (roomy[t] => f <= ResetAfter)
  BY <1>1, StartIs
<1>3. a \in Nat /\ a2 \in Nat /\ a2 <= f + LongestRecord
  BY <1>1, WrittenIs DEF StreamOf
<1>4. k \in Nat /\ n \in Nat /\ IsFiniteSet(Tight) /\ k <= n /\ IsFiniteSet(Threads)
  BY TightIs
<1>5. CASE roomy[t]
  <2>1. Tight' \subseteq Threads \ {t}
    BY DEF Tight
  <2>2. IsFiniteSet(Threads \ {t}) /\ Cardinality(Threads \ {t}) = n - 1
    BY <1>4, FS_RemoveElement
  <2>3. k2 \in Nat /\ k2 <= n - 1
    BY <2>1, <2>2, FS_Subset, FS_CardinalityType
  <2>4. f <= ResetAfter
    BY <1>2, <1>5
  <2> HIDE DEF k, k2, n, a, a2, f
  <2>5. a2 + LongestRecord * k2 <= ResetAfter + LongestRecord * n
    BY <1>2, <1>3, <1>4, <2>3, <2>4, ResetAfterAssumption DEF LongestRecord
  <2> QED
    BY <2>5 DEF HandleInv, a2, k2, n
<1>6. CASE ~roomy[t]
  <2>1. t \in Tight
    BY <1>6 DEF Tight, Estimated, Begun
  <2>2. k2 = k - 1
    BY <1>4, <2>1, FS_RemoveElement
  <2>3. a + LongestRecord * k <= ResetAfter + LongestRecord * n
    BY DEF HandleInv
  <2>4. k2 \in Nat
    <3>1. IsFiniteSet(Tight')
      BY <1>4, FS_RemoveElement
    <3> QED
      BY <3>1, FS_CardinalityType
  <2> HIDE DEF k, k2, n, a, a2, f
  <2>5. a2 + LongestRecord * k2 <= ResetAfter + LongestRecord * n
    BY <1>2, <1>3, <1>4, <2>2, <2>3, <2>4, ResetAfterAssumption DEF LongestRecord
  <2> QED
    BY <2>5 DEF HandleInv, a2, k2, n
<1> QED
  BY <1>5, <1>6

\* Formatting a record keeps the invariant: the reader of it will be in step with
\* the stream that it leaves behind.
LEMMA FormatsInStep ==
  ASSUME SocketInv, StreamInv, NEW t \in Threads, Format(t)
  PROVE  StreamInv'
<1> DEFINE b == roomy[t]
           r == Record(layout, stream, b)
           w == Written(layout, stream, b)
<1>1. /\ Types /\ OwnInv /\ StreamTypes /\ "format" \in PCs /\ "is still open" \in PCs
      /\ layout \in Layouts /\ StreamOf(layout, stream) /\ b \in BOOLEAN
  BY DEF SocketInv, StreamInv, Types, PCs, StreamTypes
<1>2. /\ Goto(t, "format", "is still open") /\ layout' = layout /\ stream' = w
      /\ roomy' = roomy /\ record' = [record EXCEPT ![t] = r] /\ sock' = sock /\ conns' = conns
  BY DEF Format, environment
<1>3. /\ StreamOf(layout, w) /\ w # Fresh
  BY <1>1, WrittenIs
<1>4. r.outgrown => ~b /\ stream = Fresh
  <2> DEFINE s == stream
  <2>1. layout \in Layouts /\ StreamOf(layout, s) /\ b \in BOOLEAN /\ r = Record(layout, s, b)
    BY <1>1
  <2> HIDE DEF r, b, s, w
  <2>2. ASSUME r.outgrown PROVE ~b /\ s = Fresh
    <3>1. Record(layout, s, b).outgrown
      BY <2>1, <2>2
    <3> QED
      BY <2>1, <3>1, OutgrowsFresh
  <2> QED
    BY <2>2 DEF s
<1>5. ASSUME NEW q, Sync(stream, q) PROVE Sync(w, ReadRecord(q, r))
  BY <1>1, <1>5, RecordRead
<1>6. HandleInv' /\ Walks(t, "format", "is still open")
  <2>1. StreamTypes'
    <3>1. StreamOf(layout', stream') /\ layout' \in Layouts
      BY <1>1, <1>2, <1>3
    <3> HIDE DEF r, w
    <3> QED
      BY <1>1, <1>2, <3>1 DEF StreamTypes
  <2>2. Walks(t, "format", "is still open")
    BY <1>1, <1>2, <2>1 DEF Walks, Moves, Goto
  <2>3. pc[t] = "format" /\ pc'[t] = "is still open" /\ \A u \in Threads : u # t => pc'[u] = pc[u]
    BY <1>1, <2>2, WalksIs
  <2>4. Tight' = Tight \ {t}
    BY <1>2, <2>3 DEF Tight, Estimated, Waiting, Begun
  <2>5. HandleInv'
    BY <1>1, <1>2, <2>3, <2>4, HandleWritten DEF StreamInv
  <2> QED
    BY <2>2, <2>5
<1> HIDE DEF r, w
<1>7. pc[t] = "format" /\ pc'[t] = "is still open"
  BY <1>1, <1>6, WalksIs
<1>8. FreshInv'
  BY <1>2, <1>3 DEF FreshInv
<1>9. GoalInv'
  BY <1>2 DEF StreamInv, GoalInv
<1>10. ASSUME NEW d \in Fds, Own(d)', ~Busy(t)
       PROVE  PhaseAt(d, t)'
  <2>1. Own(d)
    BY <1>2, <1>10 DEF Own
  <2>2. Phase(conns[d], stream, "format", b, record[t])
    BY <1>7, <1>10, <2>1 DEF StreamInv, ReadInv, PhaseAt
  <2>3. r.outgrown => conns[d].late /\ ~conns[d].sent
    BY <1>4, <2>2 DEF Phase
  <2>4. Followed(conns[d]) => Sync(w, ReadRecord(conns[d].reader, r))
    BY <1>5, <2>2 DEF Phase, InStep
  <2>5. Phase(conns[d], w, "is still open", b, r)
    BY <2>3, <2>4 DEF Phase, InStep
  <2>6. record'[t] = r
    BY <1>1, <1>2 DEF StreamTypes
  <2> QED
    BY <1>2, <1>7, <2>5, <2>6 DEF PhaseAt
<1>11. ReadInv'
  BY <1>1, <1>6, <1>10, ReadKept
<1> QED
  BY <1>6, <1>8, <1>9, <1>11 DEF StreamInv, Walks

-----------------------------------------------------------------------------
(* The server *)

\* The server hangs up, or not: no connection comes back to life.
Worse(c, e) ==
  /\ e.open = c.open /\ e.shared = c.shared /\ e.reader = c.reader /\ e.sent = c.sent
  /\ e.cut = c.cut /\ e.outgrown = c.outgrown /\ e.late = c.late
  /\ e.peer = "alive" => c.peer = "alive"

\* A connection of which only the server has changed, and not come back.
LEMMA PeerWorse ==
  ASSUME NEW c, IsConn(c), NEW p, p = "alive" => c.peer = "alive"
  PROVE  Worse(c, [c EXCEPT !.peer = p])
BY DEF IsConn, ConnType, Worse

\* A step that leaves the appender alone keeps the invariant.
LEMMA ServerInStep ==
  ASSUME StreamInv, UNCHANGED <<layout, stream, pc, roomy, record, sock>>,
         \A d \in Fds : Worse(conns[d], conns'[d])
  PROVE  StreamInv'
<1>1. StreamTypes' /\ HandleInv' /\ FreshInv'
  <2>1. StreamTypes'
    BY DEF StreamInv, StreamTypes
  <2>2. Tight' = Tight
    BY DEF Tight
  <2>3. HandleInv'
    BY <2>2 DEF StreamInv, HandleInv
  <2>4. FreshInv'
    BY DEF StreamInv, FreshInv
  <2> QED
    BY <2>1, <2>3, <2>4
<1>2. GoalInv'
  BY DEF StreamInv, GoalInv, Goal, Worse
<1>3. ASSUME NEW d \in Fds, NEW t \in Threads, Own(d)', ~Busy(t)'
      PROVE  PhaseAt(d, t)'
  <2> DEFINE c == conns[d]
             e == conns'[d]
             s == stream
             p == pc[t]
             b == roomy[t]
             r == record[t]
  <2>1. Own(d) /\ ~Busy(t)
    BY <1>3 DEF Own, Busy, Worse
  <2>2. Worse(c, e) /\ PhaseAt(d, t)
    BY <2>1 DEF StreamInv, ReadInv
  <2>3. Phase(c, s, p, b, r)
    BY <2>2 DEF PhaseAt
  <2> HIDE DEF c, e, s, p, b, r
  <2>4. Followed(e) => Followed(c)
    BY <2>2 DEF Worse, Followed
  <2>5. Phase(e, s, p, b, r)
    BY <2>2, <2>3, <2>4 DEF Phase, Worse
  <2> QED
    BY <2>2, <2>5 DEF PhaseAt, e, s, p, b, r
<1>4. ReadInv'
  BY <1>3 DEF ReadInv
<1> QED
  BY <1>1, <1>2, <1>4 DEF StreamInv

\* The steps of the server do so.
LEMMA ServerStepsInStep ==
  ASSUME SocketInv, StreamInv,
         \/ ServerGoesDown \/ ServerComesUp \/ LastFault
         \/ \E d \in Fds : HangUp(d)
  PROVE  StreamInv'
<1>1. DOMAIN conns = Fds /\ \A d \in Fds : IsConn(conns[d]) /\ Worse(conns[d], conns[d])
  BY DEF SocketInv, Types, Worse
<1>2. UNCHANGED <<layout, stream, pc, roomy, record, sock>>
  BY DEF ServerGoesDown, ServerComesUp, LastFault, HangUp, locals, environment
<1>3. CASE ServerGoesDown
  <2> DEFINE p(d) == IF conns[d].peer = "alive" THEN "gone" ELSE conns[d].peer
  <2>1. \A d \in Fds : conns'[d] = [conns[d] EXCEPT !.peer = p(d)]
    BY <1>3 DEF ServerGoesDown
  <2>2. \A d \in Fds : p(d) = "alive" => conns[d].peer = "alive"
    OBVIOUS
  <2>3. ASSUME NEW d \in Fds PROVE Worse(conns[d], conns'[d])
    <3> DEFINE c == conns[d]
               q == p(d)
    <3>1. IsConn(c) /\ (q = "alive" => c.peer = "alive")
      BY <1>1, <2>2
    <3>2. conns'[d] = [c EXCEPT !.peer = q]
      BY <2>1
    <3> HIDE DEF c, q, p
    <3>3. Worse(c, [c EXCEPT !.peer = q])
      BY <3>1, PeerWorse
    <3> QED
      BY <3>2, <3>3 DEF c
  <2> QED
    BY <1>2, <2>3, ServerInStep
<1>4. CASE ServerComesUp \/ LastFault
  <2>1. UNCHANGED conns
    BY <1>4 DEF ServerComesUp, LastFault
  <2> QED
    BY <1>1, <1>2, <2>1, ServerInStep
<1>5. ASSUME NEW s \in Fds, HangUp(s)
      PROVE  StreamInv'
  <2> DEFINE e == [conns[s] EXCEPT !.peer = "gone"]
  <2>1. conns' = [conns EXCEPT ![s] = e]
    BY <1>1, <1>5 DEF HangUp
  <2>2. Worse(conns[s], e)
    BY <1>1, PeerWorse
  <2> HIDE DEF e
  <2>3. ASSUME NEW d \in Fds PROVE Worse(conns[d], conns'[d])
    BY <1>1, <2>1, <2>2
  <2> QED
    BY <1>2, <2>3, ServerInStep
<1> QED
  BY <1>3, <1>4, <1>5

-----------------------------------------------------------------------------
(* The invariant of the stream *)

\* The invariant of the stream holds in the beginning.
LEMMA InitStreamInv == Init => StreamInv
<1> SUFFICES ASSUME Init
             PROVE  StreamInv
  OBVIOUS
<1>1. /\ layout \in Layouts /\ stream = Fresh /\ conns = [d \in Fds |-> NoConn]
      /\ pc = [t \in Threads |-> "idle"] /\ roomy = [t \in Threads |-> FALSE]
      /\ record = [t \in Threads |-> NoRecord]
  BY DEF Init
<1>2. StreamTypes
  BY <1>1, FreshIs DEF StreamTypes, StreamOf
<1>3. HandleInv
  <2> DEFINE k == Cardinality(Tight)
             n == Cardinality(Threads)
  <2>1. k \in Nat /\ n \in Nat /\ k <= n
    BY TightIs
  <2> HIDE DEF k, n
  <2>2. 0 + LongestRecord * k <= ResetAfter + LongestRecord * n
    BY <2>1, ResetAfterAssumption DEF LongestRecord
  <2> QED
    BY <1>1, <2>2, FreshIs DEF HandleInv, k, n
<1>4. FreshInv
  BY <1>1 DEF FreshInv, Waiting
<1>5. GoalInv
  BY <1>1, NoConnGoal DEF GoalInv
<1>6. ReadInv
  BY <1>1, NoConnGoal DEF ReadInv, Own
<1> QED
  BY <1>2, <1>3, <1>4, <1>5, <1>6 DEF StreamInv

\* Every step keeps the invariant of the stream.
LEMMA NextStreamInv == SocketInv /\ StreamInv /\ [Next]_vars => StreamInv'
<1> SUFFICES ASSUME SocketInv, StreamInv, [Next]_vars
             PROVE  StreamInv'
  OBVIOUS
<1>1. ASSUME NEW t \in Threads, AppendToOutput(t)
      PROVE  StreamInv'
  <2>1. CASE Estimate(t)
    BY <2>1, EstimatesInStep
  <2>2. CASE Connect(t)
    BY <2>2, ConnectsInStep
  <2>3. CASE SendHeader(t)
    BY <2>3, HeaderInStep
  <2>4. CASE Format(t)
    BY <2>4, FormatsInStep
  <2>5. CASE SendWhole(t) \/ SendLost(t)
    BY <2>5, SendsInStep
  <2>6. CASE CloseSocket(t)
    BY <2>6, ClosesInStep
  <2>7. CASE \/ TestOpen(t) \/ ConnectFails(t) \/ Publish(t) \/ InitLayout(t) \/ Drop(t)
             \/ TestStillOpen(t) \/ GetSocket(t) \/ TakeSocket(t) \/ SendFails(t)
    BY <2>7, PassesOn
  <2> QED
    BY <1>1, <2>1, <2>2, <2>3, <2>4, <2>5, <2>6, <2>7 DEF AppendToOutput
<1>2. ASSUME NEW t \in Threads, SendPart(t)
      PROVE  StreamInv'
  BY <1>2, SendsInStep
<1>3. ASSUME NEW t \in Threads, CloseAppender(t)
      PROVE  StreamInv'
  BY <1>3, ClosesIn
<1>4. CASE ServerGoesDown \/ ServerComesUp \/ LastFault \/ \E d \in Fds : HangUp(d)
  BY <1>4, ServerStepsInStep
<1>5. CASE UNCHANGED vars
  <2>1. UNCHANGED <<layout, stream, pc, roomy, record, sock>> /\ UNCHANGED conns
    BY <1>5 DEF vars
  <2>2. \A d \in Fds : Worse(conns[d], conns'[d])
    BY <2>1 DEF Worse
  <2> QED
    BY <2>1, <2>2, ServerInStep
<1> QED
  BY <1>1, <1>2, <1>3, <1>4, <1>5 DEF Next

\* In every state the readers of the appender's own connections are in step with
\* the stream, and the handles are within what was estimated.
THEOREM StreamInvCorrect == Spec => [](SocketInv /\ StreamInv)
<1>1. Init => SocketInv /\ StreamInv
  BY InitSocketInv, InitStreamInv
<1>2. SocketInv /\ StreamInv /\ [Next]_vars => (SocketInv /\ StreamInv)'
  BY NextSocketInv, NextStreamInv
<1> QED
  BY <1>1, <1>2, PTL DEF Spec

\* Whatever arrives over a connection of the appender's own can be read: every
\* reference in a record is to a description that the server received before, with
\* the handle that log4j counted for it, whatever the threads, reconnections and
\* resets of the stream.
THEOREM StreamReadableCorrect == Spec => []StreamReadable
<1>1. SocketInv /\ StreamInv => StreamReadable
  BY DEF StreamInv, GoalInv, Goal, StreamReadable
<1> QED
  BY <1>1, StreamInvCorrect, PTL

\* The estimate of a record falls short only for the first record behind a header
\* written since the estimate, and the handles of a stream stay below the reset
\* threshold and one record for each thread.
THEOREM OutgrownOnlyAfterResetCorrect == Spec => []OutgrownOnlyAfterReset
<1>1. SocketInv /\ StreamInv => OutgrownOnlyAfterReset
  <2> SUFFICES ASSUME SocketInv, StreamInv
               PROVE  OutgrownOnlyAfterReset
    OBVIOUS
  <2>1. TypeOK
    <3>1. \A d \in Fds : conns[d].peer \in {"alive", "gone", "dead"}
      BY DEF SocketInv, Types, IsConn, ConnType, Peers
    <3> QED
      BY <3>1 DEF SocketInv, StreamInv, Types, StreamTypes, StreamOf, TypeOK
  <2>2. stream.handle <= ResetAfter + LongestRecord * Cardinality(Threads)
    <3> DEFINE k == Cardinality(Tight)
               n == Cardinality(Threads)
               a == stream.handle
    <3>1. k \in Nat /\ n \in Nat /\ a \in Nat
      BY TightIs DEF StreamInv, StreamTypes, StreamOf
    <3>2. a + LongestRecord * k <= ResetAfter + LongestRecord * n
      BY DEF StreamInv, HandleInv
    <3> HIDE DEF k, n, a
    <3>3. a <= ResetAfter + LongestRecord * n
      BY <3>1, <3>2, ResetAfterAssumption DEF LongestRecord
    <3> QED
      BY <3>3 DEF n, a
  <2>3. \A d \in Fds : ~conns[d].shared =>
          conns[d].outgrown = "no" \/ (conns[d].outgrown = "first" /\ conns[d].late)
    BY DEF StreamInv, GoalInv, Goal
  <2> QED
    BY <2>1, <2>2, <2>3 DEF OutgrownOnlyAfterReset
<1> QED
  BY <1>1, StreamInvCorrect, PTL
=============================================================================
