----------------------------- MODULE LogMessage -----------------------------
(***************************************************************************)
(* The message itself (src/log4stdc/logmsg.c), the lines the library logs  *)
(* about itself (logger.c), and the console appender (appender.c).         *)
(***************************************************************************)
EXTENDS Printf

CONSTANTS
  DayLength      \* 86400

-----------------------------------------------------------------------------
(* l4sc_init_logmessage *)

TimeOf(secs, usec) ==
  [day |-> secs \div DayLength, sec |-> secs - (secs \div DayLength) * DayLength, usec |-> usec]

\* The name behind the last separator, unless that ends the path.
Behind(path, sep) ==
  LET at == {i \in DOMAIN path : path[i] = sep}
      last == CHOOSE i \in at : \A j \in at : j <= i IN
  IF at = {} \/ last = Len(path) THEN path ELSE SubSeq(path, last + 1, Len(path))
Basename(path) == Behind(Behind(path, "/"), "\\")

\* What the layouts for programs make of the time: seconds, and milliseconds
\* that may carry.
EpochSecond(t) == t.day * DayLength + t.sec + t.usec \div 1000000
Millis(t) == (t.usec \div 1000) % 1000

\* compare_logmessage: 0 for the same text.
CompareMessage(a, b) == IF a = b THEN 0 ELSE 1
\* logmessage_tostring: all of it or nothing.
MessageToString(msg, size) == IF size > Len(msg) THEN msg ELSE << >>

-----------------------------------------------------------------------------
(* l4sc_logerror, l4sc_logwarn, l4sc_loginfo, l4sc_logdebug *)

InternalSize == 200   \* sizeof(buf)
InternalPrefix == 7   \* "ERROR> "

\* The length of the line for a text of len characters; microsoft is a
\* vsnprintf that answers -1 to what does not fit.
InternalLine(len, microsoft) ==
  LET n == InternalPrefix + IF microsoft /\ InternalPrefix + len >= InternalSize THEN -1 ELSE len IN
  IF n < InternalPrefix \/ n >= InternalSize THEN InternalSize - 1 ELSE n

\* What is below the level of the library's own logger is not formatted;
\* errors always are.
IsInternalLogged(level, threshold) == level = 40000 \/ level >= threshold

-----------------------------------------------------------------------------
(* append_to_output: each write begins with the text again *)

\* What reaches the console when the writes take rcs characters, one after the
\* other, until they have taken as many as the text has or one fails.
Console(text, rcs) ==
  LET taken[k \in 0..Len(rcs)] == IF k = 0 THEN 0 ELSE taken[k - 1] + rcs[k]
      last == CHOOSE k \in 1..Len(rcs) :
                /\ k = Len(rcs) \/ taken[k] >= Len(text) \/ rcs[k] <= 0
                /\ \A j \in 1..(k - 1) : taken[j] < Len(text) /\ rcs[j] > 0
  IN IF text = << >> THEN << >>
     ELSE FlattenSeq([k \in 1..last |-> SubSeq(text, 1, IF rcs[k] > 0 THEN rcs[k] ELSE 0)])
=============================================================================
