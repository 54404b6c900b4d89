------------------------------- MODULE Options -------------------------------
(***************************************************************************)
(* What the words of a configuration and of the API stand for: levels      *)
(* (src/log4stdc/logger.c), and the size and the path of a file            *)
(* (fileappd.c).  A word is a sequence of characters; upper and lower case *)
(* are one.                                                                *)
(***************************************************************************)
EXTENDS Printf

CONSTANTS
  SizeBits,      \* 8 * sizeof(unsigned long)
  KiloBits,      \* 10: a k is 2^KiloBits bytes, an M as many k, a G as many M
  MegaLimit,     \* 50: less than that is a number of M
  KiloLimit,     \* 1000: less than that is a number of k
  DirSize        \* sizeof(initial_working_directory)

ERROR_LEVEL == 40000
LevelOf == [l \in {"f", "c", "e", "w", "i", "d", "t", "o"} |->
              CASE l \in {"f", "c"} -> 50000 [] l = "e" -> ERROR_LEVEL [] l = "w" -> 30000
                [] l = "i" -> 20000 [] l = "d" -> 10000 [] l = "t" -> 5000 [] l = "o" -> 60000]
INHERIT_LEVEL == 33010

\* Faulty variant: every word with an 'i' inherits.
ToLevel_Inherit(value, default) ==
  IF value = << >> THEN default
  ELSE IF value[1] = "i" THEN INHERIT_LEVEL
  ELSE IF value[1] \in DOMAIN LevelOf THEN LevelOf[value[1]] ELSE default

\* l4sc_to_level: the first letter counts, except that INHERIT begins as INFO.
ToLevel(value, default) ==
  IF value = << >> THEN default
  ELSE IF Len(value) >= 3 /\ SubSeq(value, 1, 3) = <<"i", "n", "h">> THEN INHERIT_LEVEL
  ELSE IF value[1] \in DOMAIN LevelOf THEN LevelOf[value[1]] ELSE default

\* set_logger_option of level and of additivity, which is not empty.
OptionLevel(value) == ToLevel(value, ERROR_LEVEL)
OptionAdditivity(value) == value[1] \notin {"0", "f", "n"}

\* l4sc_set_internal_logging: true, false, or a level.
InternalLevel(value, level) ==
  IF value = << >> THEN level
  ELSE IF value[1] \in {"t", "1", "2", "3", "4", "5", "6", "7", "8", "9"} THEN 10000
  ELSE IF value[1] \in {"f", "0"} THEN 30000
  ELSE ToLevel(value, level)

-----------------------------------------------------------------------------
(* MaxFileSize *)

Modulus == 2^SizeBits
Shifted(n, k) == (n * 2^(k * KiloBits)) % Modulus
UnitShift == [u \in {"none", "k", "m", "g", "other"} |->
            CASE u = "k" -> 1 [] u = "m" -> 2 [] u = "g" -> 3 [] OTHER -> 0]

\* set_appender_option: a number and a unit, if there is one; what is small
\* after that is meant in M or in k.
MaxFileSize(n, unit) ==
  LET size == Shifted(n, UnitShift[unit]) IN
  IF size < MegaLimit THEN Shifted(size, 2)
  ELSE IF size < KiloLimit THEN Shifted(size, 1) ELSE size

-----------------------------------------------------------------------------
(* Paths *)

Slashes == {"/", "\\"}
IsAbsolute(path) ==
  \/ path[1] \in Slashes
  \/ Len(path) > 2 /\ path[2] = ":" /\ path[3] \in Slashes

\* merge_path: a relative path goes behind the directory, with the separator
\* that the directory uses first.  path is not empty.
MergePath(dir, path) ==
  LET seps == {i \in DOMAIN dir : dir[i] \in Slashes}
      sep == IF seps = {} THEN "/" ELSE dir[CHOOSE i \in seps : \A j \in seps : i <= j] IN
  IF dir = << >> \/ IsAbsolute(path) THEN path ELSE dir \o <<sep>> \o path

\* l4sc_set_base_directory_name: a directory that does not fit is refused.
SetBaseDirectory(old, dir) == IF Len(dir) < DirSize THEN dir ELSE old

\* l4sc_merge_base_directory_path asks for the working directory once, if none
\* was set; one that does not fit is none.
BaseDirectory(base, cwd) ==
  IF base # << >> THEN base ELSE IF Len(cwd) < DirSize THEN cwd ELSE << >>

\* The option File: a path that does not fit into the appender is allocated, so
\* it is kept whole.  Without a value the name is whatever the memory held.
Undefined == "undefined"
FileOption(base, value) ==
  IF value = << >> THEN <<Undefined>> ELSE MergePath(base, value)

\* append_index: in six bytes, of which the last one ends the text.
AppendIndex(path, index) ==
  LET tail == <<".">> \o Numeral(index, 10) IN
  path \o IF Len(tail) < 6 THEN tail ELSE SubSeq(tail, 1, 5)
=============================================================================
