----------------------- MODULE FileAppenderRefinement -----------------------
(***************************************************************************)
(* With one logging thread, no failing system call and no crash, the file  *)
(* appender implements a rotating log: a message becomes part of the live  *)
(* file when its last byte is written, the existing backups in the order   *)
(* of their indexes are the generations, the rename of the live file is    *)
(* the rotation and the unlink of the last index the expiry.               *)
(***************************************************************************)
EXTENDS FileAppender

CONSTANT NoFile

ASSUME NoFileAssumption ==
  NoFile \notin [messages : Seq([by : Threads, n : Nat, len : Nat]), bytes : Nat]

\* The messages of the first n records.
Messages(records, n) ==
  [a \in 1..n |-> [by |-> records[a].by, n |-> records[a].n, len |-> records[a].len]]

\* A file without the record that is just being written at its end.
Finished(records, bytes) ==
  LET n == Len(records)
      last == records[n]
  IN  IF n > 0 /\ last.bytes < last.len
        THEN [messages |-> Messages(records, n - 1), bytes |-> bytes - last.bytes]
        ELSE [messages |-> Messages(records, n), bytes |-> bytes]
File(inode) == Finished(runs[inode], size[inode])

LogFile == IF log = NONE THEN NoFile ELSE File(log)

\* The indexes of the backups that exist, the newest backup first.
Existing == {i \in Indexes : backup[i] # NONE}
InOrder(S) ==
  CHOOSE s \in [1..Cardinality(S) -> S] :
    \A j, k \in 1..Cardinality(S) : j < k => s[j] < s[k]
Generations == [k \in 1..Cardinality(Existing) |-> File(backup[InOrder(Existing)[k]])]

BeforeWrite == {"lock", "open", "check", "rename", "close", "reopen", "write"}
Logged == [t \in Threads |-> IF pc[t] \in BeforeWrite THEN sent[t] - 1 ELSE sent[t]]

Abstract == INSTANCE RotatingLog WITH
  Writers <- Threads,
  MaxSize <- MaxFileSize,
  MaxBackups <- MaxBackupIndex,
  live <- LogFile,
  backups <- Generations,
  logged <- Logged

\* Every step of the appender is a step of the rotating log or changes nothing
\* in it: a record is never visible in part, no message is lost or written
\* twice, nothing but the oldest backup ever goes, and an excess backup does
\* go.
ImplementsRotatingLog == Abstract!Spec
=============================================================================
