---------------------------- MODULE FileAppender ----------------------------
(***************************************************************************)
(* The file appender of log4stdc (src/log4stdc/fileappd.c): one appender   *)
(* object shared by several logging threads, its recursive mutex, and the  *)
(* directory that holds the log file and its numbered backups.             *)
(*                                                                         *)
(* A thread formats its message, takes the lock, opens the file if it is   *)
(* closed, rolls the file over if the message does not fit, writes (in as  *)
(* many write() calls as the system wants) and releases the lock.  The     *)
(* second half of a rollover, complete_rollover, renames the backups one   *)
(* step up AFTER the lock is released, so it runs concurrently with the    *)
(* appends and rollovers of the other threads.                             *)
(*                                                                         *)
(* Each system call is a step.  A file is identified by its inode, a       *)
(* number that grows with every file created; the bytes of a file are run- *)
(* length encoded by message.                                              *)
(***************************************************************************)
EXTENDS Naturals, Sequences, FiniteSets

CONSTANTS
  Threads,         \* threads that log through this appender
  MsgLens,         \* possible lengths of a formatted message
  MaxFileSize,     \* appender->maxfilesize, 0 switches rollover off
  MaxBackupIndex,  \* appender->maxbackupindex
  StdinStates,     \* may descriptor 0 be free when the process starts?
  NONE,            \* no thread, no file
  MaxMessages,     \* bound: messages per thread
  MaxFaults,       \* bound: failing system calls in a behaviour
  MaxCrashes       \* bound: crashes and restarts in a behaviour

ASSUME ThreadsAssumption == IsFiniteSet(Threads)
ASSUME MaxMessagesAssumption == MaxMessages \in Nat
ASSUME MsgLensAssumption == MsgLens \subseteq Nat \ {0}
ASSUME MaxFileSizeAssumption == MaxFileSize \in Nat
ASSUME MaxBackupIndexAssumption == MaxBackupIndex \in Nat
ASSUME StdinStatesAssumption == StdinStates \subseteq BOOLEAN
ASSUME NoneAssumption == NONE \notin Threads /\ NONE \notin Nat

VARIABLES
  (* locals of append_to_output, one set per thread *)
  pc,          \* next statement of the thread
  msg,         \* the formatted message: its number n and its length len
  written,     \* bytes of it written so far
  rolling,     \* start_rollover was called, complete_rollover is due
  index,       \* loop counter of complete_rollover
  (* struct l4sc_appender *)
  lock,        \* owner of the mutex
  fd,          \* inode behind fu.fd, NONE when is_open() is false
  filesize,    \* the size the appender believes the file has
  (* the process and the file system *)
  stdinFree,   \* descriptor 0 is free, so the next open() returns it
  log,         \* inode named <filename>
  backup,      \* inode named <filename>.<i>, for each i
  size,        \* st_size of each inode
  runs,        \* contents of each inode
  (* history and bounds *)
  unmeasured,  \* bytes of the open file that a failing fstat did not tell of
  sent,        \* messages each thread has started to log
  faults,      \* system calls that failed
  crashes      \* crashes of the process

locals == <<pc, msg, written, rolling, index>>
appender == <<lock, fd, filesize, unmeasured>>
disk == <<log, backup, size, runs>>
bounds == <<sent, faults, crashes>>
vars == <<locals, appender, stdinFree, disk, bounds>>

Inodes == 1..Len(size)
OrNone(S) == S \union {NONE}
Indexes == 0..MaxBackupIndex

\* The points at which a thread holds the mutex.
Locked == {"open", "check", "rename", "close", "reopen", "write", "unlock"}
Unlocked == {"idle", "lock", "remove", "shift"}

IsOpen == fd # NONE

\* Faulty variant: the length of the message is forgotten.
NeedRollover_NoLen(len) == MaxFileSize > 0 /\ MaxFileSize < filesize

NeedRollover(len) == MaxFileSize > 0 /\ MaxFileSize < filesize + len

Goto(t, from, to) == pc[t] = from /\ pc' = [pc EXCEPT ![t] = to]

\* A system call fails for a reason outside the program.
Fault == faults < MaxFaults /\ faults' = faults + 1

\* The bytes of a file after k more bytes of message m of thread t.
Extend(rs, t, m, k) ==
  LET last == rs[Len(rs)] IN
  IF Len(rs) > 0 /\ last.by = t /\ last.n = m.n
    THEN [rs EXCEPT ![Len(rs)].bytes = @ + k]
    ELSE Append(rs, [by |-> t, n |-> m.n, len |-> m.len, bytes |-> k])

NoMessage == [n |-> 0, len |-> 0]

Init ==
  /\ pc = [t \in Threads |-> "idle"]
  /\ msg = [t \in Threads |-> NoMessage]
  /\ written = [t \in Threads |-> 0]
  /\ rolling = [t \in Threads |-> FALSE]
  /\ index = [t \in Threads |-> 0]
  /\ lock = NONE
  /\ fd = NONE
  /\ filesize = 0
  /\ stdinFree \in StdinStates
  /\ log = NONE
  /\ backup = [i \in Indexes |-> NONE]
  /\ size = << >>
  /\ runs = << >>
  /\ unmeasured = 0
  /\ sent = [t \in Threads |-> 0]
  /\ faults = 0
  /\ crashes = 0

-----------------------------------------------------------------------------
(* open_appender: open(O_APPEND | O_CREAT), then fstat for the size.       *)

CreateIfMissing ==
  IF log = NONE
    THEN /\ log' = Len(size) + 1
         /\ size' = Append(size, 0)
         /\ runs' = Append(runs, << >>)
    ELSE UNCHANGED <<log, size, runs>>

\* Faulty variant: an existing file is taken to be empty.
OpenAppender_NoStat ==
  /\ CreateIfMissing
  /\ fd' = log'
  /\ filesize' = 0
  /\ UNCHANGED <<unmeasured, backup, stdinFree, faults>>

\* fstat tells the size of the opened file; when it fails, the zeroed buffer
\* says that the file is empty, and the appender goes on with that.
MeasureFile ==
  \/ filesize' = size'[log'] /\ unmeasured' = 0 /\ UNCHANGED faults
  \/ Fault /\ filesize' = 0 /\ unmeasured' = size'[log']

OpenAppender ==
  /\ UNCHANGED backup
  /\ \/ /\ ~stdinFree
        /\ CreateIfMissing
        /\ fd' = log'
        /\ MeasureFile
        /\ UNCHANGED stdinFree
     \/ \* open() returns 0: fu.fd = 0 makes fu.fh == NULL, which reads as
        \* "closed"; the descriptor is never closed again
        /\ stdinFree
        /\ CreateIfMissing
        /\ MeasureFile
        /\ stdinFree' = FALSE
        /\ UNCHANGED fd
     \/ \* open() returns -1: fu and filesize keep their values
        /\ Fault
        /\ UNCHANGED <<fd, filesize, unmeasured, stdinFree, log, size, runs>>

\* close_appender on an already locked (recursive) mutex.  The file size
\* field is not reset.
CloseAppender ==
  /\ fd' = NONE
  /\ UNCHANGED <<filesize, unmeasured>>

-----------------------------------------------------------------------------
(* append_to_output *)

\* A message arrives and is formatted, before the lock is taken.
Format(t) ==
  /\ Goto(t, "idle", "lock")
  /\ sent[t] < MaxMessages
  /\ sent' = [sent EXCEPT ![t] = @ + 1]
  /\ \E len \in MsgLens : msg' = [msg EXCEPT ![t] = [n |-> sent[t] + 1, len |-> len]]
  /\ written' = [written EXCEPT ![t] = 0]
  /\ rolling' = [rolling EXCEPT ![t] = FALSE]
  /\ UNCHANGED <<index, appender, stdinFree, disk, faults, crashes>>

\* Faulty variant: no mutex was created.
LockAppender_NoMutex(t) ==
  /\ Goto(t, "lock", "open")
  /\ lock' = t
  /\ UNCHANGED <<msg, written, rolling, index, fd, filesize, unmeasured, stdinFree, disk, bounds>>

\* lock_appender
LockAppender(t) ==
  /\ Goto(t, "lock", "open")
  /\ lock = NONE
  /\ lock' = t
  /\ UNCHANGED <<msg, written, rolling, index, fd, filesize, unmeasured, stdinFree, disk, bounds>>

OpenIfClosed(t) ==
  /\ Goto(t, "open", "check")
  /\ IF IsOpen THEN UNCHANGED <<fd, filesize, unmeasured, stdinFree, disk, faults>>
               ELSE OpenAppender
  /\ UNCHANGED <<msg, written, rolling, index, lock, sent, crashes>>

CheckRollover(t) ==
  /\ Goto(t, "check", IF NeedRollover(msg[t].len) THEN "rename" ELSE "write")
  /\ UNCHANGED <<msg, written, rolling, index, appender, stdinFree, disk, bounds>>

\* Faulty variant: a short write is repeated from the start of the buffer.
WriteSome_Restart(t) ==
  LET m == msg[t] IN
  /\ pc[t] = "write"
  /\ IsOpen
  /\ \E k \in 1..m.len :
       /\ written' = [written EXCEPT ![t] = k]
       /\ size' = [size EXCEPT ![fd] = @ + k]
       /\ runs' = [runs EXCEPT ![fd] = Extend(@, t, m, k)]
       /\ IF k = m.len
            THEN /\ pc' = [pc EXCEPT ![t] = "unlock"]
                 /\ filesize' = filesize + m.len
            ELSE UNCHANGED <<pc, filesize>>
  /\ UNCHANGED <<msg, rolling, index, lock, fd, unmeasured, stdinFree, log, backup, bounds>>

\* write() took k bytes; the loop ends when the message is complete.
WriteSome(t) ==
  LET m == msg[t] IN
  /\ pc[t] = "write"
  /\ IsOpen
  /\ \E k \in 1..(m.len - written[t]) :
       /\ written' = [written EXCEPT ![t] = @ + k]
       /\ size' = [size EXCEPT ![fd] = @ + k]
       /\ runs' = [runs EXCEPT ![fd] = Extend(@, t, m, k)]
       /\ IF written[t] + k = m.len
            THEN /\ pc' = [pc EXCEPT ![t] = "unlock"]
                 /\ filesize' = filesize + m.len
            ELSE UNCHANGED <<pc, filesize>>
  /\ UNCHANGED <<msg, rolling, index, lock, fd, unmeasured, stdinFree, log, backup, bounds>>

\* write() failed with an errno that ends the loop (ENOSPC, EIO): what is
\* written so far stays in the file and the rest is dropped.  The retry after
\* EINTR or EAGAIN changes nothing and is a stuttering step.
WriteFails(t) ==
  /\ Goto(t, "write", "unlock")
  /\ IsOpen
  /\ Fault
  /\ filesize' = filesize + written[t]
  /\ UNCHANGED <<msg, written, rolling, index, lock, fd, unmeasured, stdinFree, disk, sent, crashes>>

\* The file could not be opened: the message is dropped.
SkipWrite(t) ==
  /\ Goto(t, "write", "unlock")
  /\ ~IsOpen
  /\ UNCHANGED <<msg, written, rolling, index, appender, stdinFree, disk, bounds>>

\* Faulty variant: the path with a rollover returns without unlocking.
UnlockAppender_Leak(t) ==
  /\ Goto(t, "unlock", IF rolling[t] THEN "remove" ELSE "idle")
  /\ lock' = IF rolling[t] THEN lock ELSE NONE
  /\ UNCHANGED <<msg, written, rolling, index, fd, filesize, unmeasured, stdinFree, disk, bounds>>

\* unlock_appender
UnlockAppender(t) ==
  /\ Goto(t, "unlock", IF rolling[t] THEN "remove" ELSE "idle")
  /\ lock' = NONE
  /\ UNCHANGED <<msg, written, rolling, index, fd, filesize, unmeasured, stdinFree, disk, bounds>>

-----------------------------------------------------------------------------
(* start_rollover: rename, close, open, all under the lock.                *)

\* Faulty variant: link() instead of rename(), the old name stays.
RenameLog_Link(t) ==
  /\ Goto(t, "rename", "close")
  /\ backup' = [backup EXCEPT ![0] = log]
  /\ UNCHANGED <<msg, written, rolling, index, appender, stdinFree, log, size, runs, bounds>>

\* rename(test.log, test.log.0) replaces whatever test.log.0 was.
RenameLog(t) ==
  /\ Goto(t, "rename", "close")
  /\ \/ /\ IF log # NONE THEN /\ backup' = [backup EXCEPT ![0] = log]
                              /\ log' = NONE
                         ELSE UNCHANGED <<backup, log>>
        /\ UNCHANGED faults
     \/ Fault /\ UNCHANGED <<backup, log>>
  /\ UNCHANGED <<msg, written, rolling, index, appender, stdinFree, size, runs, sent, crashes>>

CloseLog(t) ==
  /\ Goto(t, "close", "reopen")
  /\ CloseAppender
  /\ UNCHANGED <<msg, written, rolling, index, lock, stdinFree, disk, bounds>>

\* Faulty variant: the new file is left to be opened by the next message.
ReopenLog_Later(t) ==
  /\ Goto(t, "reopen", "write")
  /\ rolling' = [rolling EXCEPT ![t] = TRUE]
  /\ UNCHANGED <<msg, written, index, appender, stdinFree, disk, bounds>>

ReopenLog(t) ==
  /\ Goto(t, "reopen", "write")
  /\ OpenAppender
  /\ rolling' = [rolling EXCEPT ![t] = TRUE]
  /\ UNCHANGED <<msg, written, index, lock, sent, crashes>>

-----------------------------------------------------------------------------
(* complete_rollover: outside the lock.                                    *)

\* Faulty variant: the loop stops before test.log.0 -> test.log.1.
ContinueShift_Short(t, i) ==
  /\ index' = [index EXCEPT ![t] = i]
  /\ pc' = [pc EXCEPT ![t] = IF i > 1 THEN "shift" ELSE "idle"]

\* The loop of complete_rollover continues with i, or ends.
ContinueShift(t, i) ==
  /\ index' = [index EXCEPT ![t] = i]
  /\ pc' = [pc EXCEPT ![t] = IF i > 0 THEN "shift" ELSE "idle"]

\* Faulty variants: the first backup is unlinked instead of the last; the loop
\* starts one index too high.
RemoveLast_First(t) ==
  /\ pc[t] = "remove"
  /\ backup' = [backup EXCEPT ![0] = NONE]
  /\ ContinueShift(t, MaxBackupIndex)
  /\ UNCHANGED <<msg, written, rolling, appender, stdinFree, log, size, runs, bounds>>
RemoveLast_OneMore(t) ==
  /\ pc[t] = "remove"
  /\ backup' = [backup EXCEPT ![MaxBackupIndex] = NONE]
  /\ ContinueShift(t, MaxBackupIndex + 1)
  /\ UNCHANGED <<msg, written, rolling, appender, stdinFree, log, size, runs, bounds>>

\* unlink(test.log.<maxbackupindex>)
RemoveLast(t) ==
  /\ pc[t] = "remove"
  /\ \/ backup' = [backup EXCEPT ![MaxBackupIndex] = NONE] /\ UNCHANGED faults
     \/ Fault /\ UNCHANGED backup
  /\ ContinueShift(t, MaxBackupIndex)
  /\ UNCHANGED <<msg, written, rolling, appender, stdinFree, log, size, runs, sent, crashes>>

\* rename(test.log.<i-1>, test.log.<i>); nothing happens when the source is
\* missing.
ShiftBackup(t) ==
  LET i == index[t] IN
  /\ pc[t] = "shift"
  /\ \/ /\ backup' = IF backup[i - 1] # NONE
                       THEN [backup EXCEPT ![i] = backup[i - 1], ![i - 1] = NONE]
                       ELSE backup
        /\ UNCHANGED faults
     \/ Fault /\ UNCHANGED backup
  /\ ContinueShift(t, i - 1)
  /\ UNCHANGED <<msg, written, rolling, appender, stdinFree, log, size, runs, sent, crashes>>

-----------------------------------------------------------------------------
(* The environment of the appends. *)

\* l4sc_close_appenders, called at the start of every (re)configuration by
\* any thread: lock, close, unlock.
Reconfigure ==
  /\ lock = NONE
  /\ CloseAppender
  /\ UNCHANGED <<locals, lock, stdinFree, disk, bounds>>

\* The process dies and is started again with the same configuration; the
\* directory is what it was.
Crash ==
  /\ crashes < MaxCrashes
  /\ crashes' = crashes + 1
  /\ pc' = [t \in Threads |-> "idle"]
  /\ rolling' = [t \in Threads |-> FALSE]
  /\ lock' = NONE
  /\ fd' = NONE
  /\ filesize' = 0
  /\ unmeasured' = 0
  /\ stdinFree' \in StdinStates
  /\ UNCHANGED <<msg, written, index, disk, sent, faults>>

Work(t) ==
  \/ LockAppender(t) \/ OpenIfClosed(t) \/ CheckRollover(t)
  \/ WriteSome(t) \/ WriteFails(t) \/ SkipWrite(t) \/ UnlockAppender(t)
  \/ RenameLog(t) \/ CloseLog(t) \/ ReopenLog(t)
  \/ RemoveLast(t) \/ ShiftBackup(t)

Next ==
  \/ \E t \in Threads : Format(t) \/ Work(t)
  \/ Reconfigure
  \/ Crash

Spec == Init /\ [][Next]_vars

\* A thread that entered append_to_output is scheduled until it returns, and
\* write() does not answer EINTR or EAGAIN for ever.
FairSpec == Spec /\ \A t \in Threads : WF_vars(Work(t))
-----------------------------------------------------------------------------
(* Properties *)

Message == [n : Nat, len : Nat]
Run == [by : Threads, n : Nat, len : Nat, bytes : Nat]

\* Every variable has its type; inode numbers refer to existing inodes.
TypeOK ==
  /\ pc \in [Threads -> Locked \union Unlocked]
  /\ msg \in [Threads -> Message]
  /\ written \in [Threads -> Nat]
  /\ rolling \in [Threads -> BOOLEAN]
  /\ index \in [Threads -> Indexes]
  /\ lock \in OrNone(Threads)
  /\ size \in Seq(Nat)
  /\ runs \in Seq(Seq(Run))
  /\ Len(runs) = Len(size)
  /\ fd \in OrNone(Inodes)
  /\ filesize \in Nat
  /\ unmeasured \in Nat
  /\ stdinFree \in BOOLEAN
  /\ log \in OrNone(Inodes)
  /\ backup \in [Indexes -> OrNone(Inodes)]
  /\ sent \in [Threads -> Nat]
  /\ faults \in Nat
  /\ crashes \in Nat

\* The threads between lock_appender and unlock_appender are exactly the
\* owner of the mutex: every path through append_to_output, the early failures
\* included, releases what it took, and no two threads are inside.
LockDiscipline == \A t \in Threads : pc[t] \in Locked <=> lock = t

\* The size the appender keeps is the size of the open file, less the part of
\* the record that the owner of the lock is just writing: short writes, failed
\* writes, reopening after a restart, a reconfiguration or a rollover, none of
\* them makes the two drift apart.  One thing does: when fstat fails at the
\* opening, what the file held then is missing from the count until the file is
\* opened again, that and nothing else.
FilesizeAccurate ==
  fd # NONE =>
    size[fd] = filesize + unmeasured
                 + (IF lock # NONE /\ pc[lock] = "write" THEN written[lock] ELSE 0)

\* No file outgrows MaxFileSize, unless a single message is longer than that
\* (need_rollover looks at the size before the append), as long as no system
\* call fails.
SizeBounded ==
  (faults = 0 /\ MaxFileSize > 0) =>
    \A i \in Inodes : size[i] > MaxFileSize => Len(runs[i]) = 1

\* Backups with a higher index are older, and the live file is the newest:
\* although complete_rollover runs without the lock, no interleaving, failing
\* rename or crash ever reorders the generations.
BackupsInAgeOrder ==
  /\ \A i, j \in Indexes :
       (i < j /\ backup[i] # NONE /\ backup[j] # NONE) => backup[j] < backup[i]
  /\ log # NONE =>
       \A i \in Indexes : backup[i] # NONE => backup[i] < log

\* All bytes of a message are contiguous in one file, whatever other threads
\* write and wherever write() stopped in between; and the messages of a thread
\* stand in the order in which it logged them, from the older to the newer
\* file.
MessagesInOrder ==
  \A i, j \in Inodes : \A a \in DOMAIN runs[i], b \in DOMAIN runs[j] :
    LET r == runs[i][a]
        q == runs[j][b] IN
    /\ r.bytes <= r.len
    /\ (r.by = q.by /\ (i < j \/ (i = j /\ a < b))) => r.n < q.n

\* The messages whose append has returned and that are not completely in any
\* file the appender ever wrote.
Returned(t, n) == n < sent[t] \/ (n = sent[t] /\ pc[t] \in {"idle", "remove", "shift"})
Complete(t, n) ==
  \E i \in Inodes : \E a \in DOMAIN runs[i] :
    LET r == runs[i][a] IN r.by = t /\ r.n = n /\ r.bytes = r.len
Lost == {m \in Threads \X (1..MaxMessages) :
           Returned(m[1], m[2]) /\ ~Complete(m[1], m[2])}

\* A failing system call costs at most one message, a crash at most the one
\* each thread was appending, and a process started without standard input
\* (open() then returns 0, which is_open() takes for "closed") at most one.
LossBounded ==
  Cardinality(Lost) <= faults + crashes * Cardinality(Threads)
                         + (IF TRUE \in StdinStates THEN crashes + 1 ELSE 0)

\* <filename>.0 is only a transit name: it exists only while some thread still
\* has its complete_rollover before or in the last rename, so the next
\* start_rollover of a quiescent appender finds it free.
ZeroIsTransient ==
  (faults = 0 /\ crashes = 0 /\ MaxBackupIndex > 0 /\ backup[0] # NONE) =>
    \E t \in Threads :
      \/ pc[t] \in {"close", "reopen", "remove", "shift"}
      \/ pc[t] \in {"write", "unlock"} /\ rolling[t]

Present == ({log} \union {backup[i] : i \in Indexes}) \ {NONE}

\* Only the oldest generation is ever destroyed, and only when there are more
\* than MaxBackupIndex backups beside the live file.
OnlyOldestRemoved ==
  [][\A f \in Present \ Present' :
       /\ \A g \in Present : f <= g
       /\ Cardinality(Present) > MaxBackupIndex + 1]_vars

\* "Remove last backup file", says the comment in complete_rollover: a backup
\* leaves the directory only from the last index.
OnlyLastBackupRemoved ==
  [][\A f \in Present \ Present' : f = backup[MaxBackupIndex]]_vars

\* A thread that wants the lock gets it, writes, completes its rollover and
\* returns: no path keeps the mutex, and no two threads wait for each other.
AppendReturns == \A t \in Threads : pc[t] = "lock" ~> pc[t] = "idle"
=============================================================================
