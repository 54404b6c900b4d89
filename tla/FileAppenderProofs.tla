------------------------ MODULE FileAppenderProofs ------------------------
(***************************************************************************)
(* Proofs about FileAppender, for any number of threads and messages, any  *)
(* sizes and limits and any number of faults and crashes: what the         *)
(* unlocked renames of the rollover leave in the directory, and what is in *)
(* the files, which is whole records, in order, in files that keep their   *)
(* limit, and few of them lost.                                            *)
(***************************************************************************)
EXTENDS FileAppender, SequenceTheorems, FiniteSetTheorems, TLAPS

USE MsgLensAssumption, MaxFileSizeAssumption, MaxBackupIndexAssumption,
    StdinStatesAssumption, NoneAssumption

-----------------------------------------------------------------------------
(* The inductive invariant *)

\* What holds of the locals of a thread at each of its statements: the shift
\* loop runs over valid indexes, nothing is written before the write loop, and
\* inside it something is left to write.
LocalsOK ==
  \A t \in Threads :
    /\ pc[t] = "shift" => index[t] > 0
    /\ pc[t] \in {"lock", "open", "check", "rename", "close", "reopen"}
         => written[t] = 0 /\ msg[t].len > 0
    /\ pc[t] = "write" => written[t] < msg[t].len

\* start_rollover reopens what it has just closed.
ReopensClosed == \A t \in Threads : pc[t] = "reopen" => fd = NONE

IInv == TypeOK /\ LockDiscipline /\ LocalsOK /\ ReopensClosed

-----------------------------------------------------------------------------
(* Helpers *)

\* A file grown by a write is again a sequence of runs.
LEMMA ExtendType ==
  ASSUME NEW rs \in Seq(Run), NEW t \in Threads, NEW m \in Message, NEW k \in Nat
  PROVE  Extend(rs, t, m, k) \in Seq(Run)
<1>1. CASE Len(rs) > 0 /\ rs[Len(rs)].by = t /\ rs[Len(rs)].n = m.n
  <2>1. rs[Len(rs)] \in Run
    BY <1>1
  <2> DEFINE new == [rs[Len(rs)] EXCEPT !.bytes = @ + k]
  <2>2. new \in Run
    BY <2>1, SMTT(30) DEF Run
  <2>3. [rs EXCEPT ![Len(rs)] = new] \in Seq(Run)
    BY <1>1, <2>2, ExceptSeq, LenProperties
  <2> QED
    BY <1>1, <2>3 DEF Extend
<1>2. CASE ~(Len(rs) > 0 /\ rs[Len(rs)].by = t /\ rs[Len(rs)].n = m.n)
  <2>1. [by |-> t, n |-> m.n, len |-> m.len, bytes |-> k] \in Run
    BY DEF Run, Message
  <2> QED
    BY <1>2, <2>1, AppendProperties DEF Extend
<1> QED
  BY <1>1, <1>2

\* open_appender keeps the types, may only add a newest inode under the log's
\* name, and leaves an appender that was closed either closed or with the true
\* size of its file.
LEMMA OpenAppenderEffect ==
  ASSUME TypeOK, OpenAppender
  PROVE  /\ size' \in Seq(Nat)
         /\ runs' \in Seq(Seq(Run))
         /\ Len(runs') = Len(size')
         /\ Len(size') >= Len(size)
         /\ fd' \in OrNone(Inodes')
         /\ filesize' \in Nat
         /\ unmeasured' \in Nat
         /\ stdinFree' \in BOOLEAN
         /\ log' \in OrNone(Inodes')
         /\ backup' = backup
         /\ faults' \in Nat
         /\ (fd = NONE /\ fd' # NONE) => size'[fd'] = filesize' + unmeasured'
         /\ log' # log => log' = Len(size) + 1
<1> USE DEF TypeOK, OrNone, Inodes
<1>0. Len(size) \in Nat /\ 1..Len(size) = DOMAIN size
  BY LenProperties
<1>1. ASSUME CreateIfMissing
      PROVE  /\ size' \in Seq(Nat)
             /\ runs' \in Seq(Seq(Run))
             /\ Len(runs') = Len(size')
             /\ Len(size') >= Len(size)
             /\ log' \in Inodes'
             /\ size'[log'] \in Nat
             /\ log' # log => log' = Len(size) + 1
  <2>1. CASE log = NONE
    <3>1. << >> \in Seq(Run)
      OBVIOUS
    <3>2. /\ size' = Append(size, 0)
          /\ runs' = Append(runs, << >>)
          /\ log' = Len(size) + 1
      BY <1>1, <2>1 DEF CreateIfMissing
    <3>3. /\ size' \in Seq(Nat)
          /\ Len(size') = Len(size) + 1
          /\ size'[Len(size) + 1] = 0
      BY <3>2, AppendProperties
    <3>4. runs' \in Seq(Seq(Run)) /\ Len(runs') = Len(runs) + 1
      BY <3>1, <3>2, AppendProperties
    <3> QED
      BY <1>0, <3>2, <3>3, <3>4
  <2>2. CASE log # NONE
    BY <1>0, <1>1, <2>2, ElementOfSeq DEF CreateIfMissing
  <2> QED
    BY <2>1, <2>2
<1>m. ASSUME CreateIfMissing, MeasureFile
      PROVE  /\ filesize' \in Nat /\ unmeasured' \in Nat /\ faults' \in Nat
             /\ size'[log'] = filesize' + unmeasured'
  <2> HIDE DEF OrNone, Inodes
  <2>1. size'[log'] \in Nat /\ faults \in Nat
    BY <1>1, <1>m
  <2> HIDE DEF TypeOK
  <2>2. CASE filesize' = size'[log'] /\ unmeasured' = 0 /\ UNCHANGED faults
    BY <2>1, <2>2
  <2>3. CASE Fault /\ filesize' = 0 /\ unmeasured' = size'[log']
    BY <2>1, <2>3 DEF Fault
  <2> QED
    BY <1>m, <2>2, <2>3 DEF MeasureFile
<1>2. CASE ~stdinFree /\ CreateIfMissing /\ fd' = log' /\ MeasureFile
           /\ UNCHANGED stdinFree /\ UNCHANGED backup
  BY <1>1, <1>m, <1>2
<1>3. CASE stdinFree /\ CreateIfMissing /\ MeasureFile /\ stdinFree' = FALSE
           /\ UNCHANGED fd /\ UNCHANGED backup
  <2>1. stdinFree' \in BOOLEAN
    BY <1>3, Zenon
  <2>2. Len(size') \in Nat /\ Inodes \subseteq Inodes'
    BY <1>0, <1>1, <1>3, LenProperties
  <2>3. fd' \in OrNone(Inodes') /\ faults' \in Nat
    BY <1>m, <1>3, <2>2
  <2> QED
    BY <1>1, <1>m, <1>3, <2>1, <2>3
<1>4. CASE Fault /\ UNCHANGED <<fd, filesize, unmeasured, stdinFree, log, size, runs>>
           /\ UNCHANGED backup
  BY <1>0, <1>4 DEF Fault
<1> QED
  BY <1>2, <1>3, <1>4 DEF OpenAppender
\* Inode numbers stay valid when files are created.
LEMMA InodesGrow ==
  ASSUME TypeOK, OpenAppender
  PROVE  backup \in [Indexes -> OrNone(Inodes')]
<1>1. Len(size) \in Nat /\ Len(size') \in Nat /\ Len(size') >= Len(size)
  BY OpenAppenderEffect, LenProperties DEF TypeOK
<1>2. OrNone(Inodes) \subseteq OrNone(Inodes')
  BY <1>1 DEF OrNone, Inodes
<1> QED
  BY <1>2 DEF TypeOK

-----------------------------------------------------------------------------
(* Type correctness and mutual exclusion *)

\* The types, the lock discipline and what the locals are hold at first.
LEMMA InitIInv == Init => IInv
<1> SUFFICES ASSUME Init PROVE IInv
  OBVIOUS
<1>1. stdinFree \in BOOLEAN
  BY Zenon DEF Init
<1>2. TypeOK
  BY <1>1 DEF Init, TypeOK, Locked, Unlocked, Message, Indexes, OrNone, Inodes, NoMessage
<1>3. LockDiscipline
  BY DEF Init, LockDiscipline, Locked
<1>4. LocalsOK
  BY DEF Init, LocalsOK
<1>5. ReopensClosed
  BY DEF Init, ReopensClosed
<1> QED
  BY <1>2, <1>3, <1>4, <1>5 DEF IInv

\* Every system call and mutex operation keeps them: only the owner of the lock
\* is between lock() and unlock(), and leaves its locals in range.
LEMMA NextIInv == IInv /\ [Next]_vars => IInv'
<1> SUFFICES ASSUME IInv, [Next]_vars PROVE IInv'
  OBVIOUS
<1> USE DEF IInv, TypeOK, LockDiscipline, LocalsOK, ReopensClosed, Locked, Unlocked, Goto, OrNone,
            Inodes, Indexes, Fault, locals, appender, disk, bounds
<1>1. ASSUME NEW t \in Threads, Format(t) PROVE IInv'
  <2>a. PICK len \in MsgLens :
          msg' = [msg EXCEPT ![t] = [n |-> sent[t] + 1, len |-> len]]
    BY <1>1 DEF Format
  <2>b. [n |-> sent[t] + 1, len |-> len] \in Message
    <3>1. sent[t] \in Nat
      BY DEF TypeOK
    <3> HIDE DEF IInv, TypeOK
    <3>2. len \in Nat
      BY MsgLensAssumption
    <3> QED
      BY <3>1, <3>2 DEF Message
  <2>1. TypeOK'
    <3>1. pc' \in [Threads -> Locked \union Unlocked] /\ rolling' \in [Threads -> BOOLEAN]
      BY <1>1 DEF Format
    <3>2. msg' \in [Threads -> Message] /\ written' \in [Threads -> Nat]
      BY <1>1, <2>a, <2>b DEF Format
    <3>3. sent' \in [Threads -> Nat]
      BY <1>1 DEF Format
    <3>4. UNCHANGED <<index, lock, fd, filesize, unmeasured, stdinFree, log, backup, size, runs,
                      faults, crashes>>
      BY <1>1 DEF Format
    <3> HIDE DEF Locked, Unlocked, Indexes, LocalsOK, LockDiscipline, Fault
    <3> QED
      BY <3>1, <3>2, <3>3, <3>4
  <2>2. LockDiscipline'
    BY <1>1 DEF Format
  <2>3. LocalsOK'
    BY <1>1, <2>a DEF Format
  <2>4. ReopensClosed'
    BY <1>1 DEF Format
  <2> QED
    BY <2>1, <2>2, <2>3, <2>4
<1>2. ASSUME NEW t \in Threads, LockAppender(t) PROVE IInv'
  BY <1>2 DEF LockAppender
<1>3. ASSUME NEW t \in Threads, OpenIfClosed(t) PROVE IInv'
  <2>1. TypeOK'
    <3>1. CASE IsOpen
      BY <1>3, <3>1 DEF OpenIfClosed
    <3>2. CASE ~IsOpen
      <4>1. OpenAppender
        BY <1>3, <3>2 DEF OpenIfClosed
      <4>2. pc' \in [Threads -> Locked \union Unlocked]
        BY <1>3 DEF OpenIfClosed
      <4> HIDE DEF TypeOK, Inodes, OrNone, Indexes
      <4>3. backup' \in [Indexes -> OrNone(Inodes')]
        BY <4>1, OpenAppenderEffect, InodesGrow
      <4> QED
        BY <1>3, <4>1, <4>2, <4>3, OpenAppenderEffect
        DEF OpenIfClosed, TypeOK, OrNone, Inodes
    <3> QED
      BY <3>1, <3>2
  <2>2. LockDiscipline'
    BY <1>3 DEF OpenIfClosed
  <2>3. LocalsOK'
    BY <1>3 DEF OpenIfClosed
  <2>4. ReopensClosed'
    BY <1>3 DEF OpenIfClosed
  <2> QED
    BY <2>1, <2>2, <2>3, <2>4
<1>4. ASSUME NEW t \in Threads, CheckRollover(t) PROVE IInv'
  BY <1>4 DEF CheckRollover
<1>5. ASSUME NEW t \in Threads, WriteSome(t) PROVE IInv'
  <2>a. PICK k \in 1..(msg[t].len - written[t]) :
          /\ written' = [written EXCEPT ![t] = @ + k]
          /\ size' = [size EXCEPT ![fd] = @ + k]
          /\ runs' = [runs EXCEPT ![fd] = Extend(@, t, msg[t], k)]
          /\ IF written[t] + k = msg[t].len
               THEN /\ pc' = [pc EXCEPT ![t] = "unlock"]
                    /\ filesize' = filesize + msg[t].len
               ELSE UNCHANGED <<pc, filesize>>
    BY <1>5 DEF WriteSome
  <2>b. k \in Nat /\ k > 0 /\ msg[t].len \in Nat /\ k <= msg[t].len - written[t]
    BY <2>a, SMTT(30) DEF Message
  <2>e. fd \in 1..Len(size) /\ fd \in 1..Len(runs)
    BY <1>5 DEF WriteSome, IsOpen
  <2>c. size' \in Seq(Nat) /\ Len(size') = Len(size)
    <3>0. size[fd] \in Nat
      BY <2>e, ElementOfSeq
    <3>1. size[fd] + k \in Nat
      <4> HIDE DEF TypeOK, LockDiscipline, LocalsOK
      <4> QED
        BY <2>b, <3>0
    <3>2. size' = [size EXCEPT ![fd] = size[fd] + k]
      BY <2>a
    <3> HIDE DEF TypeOK
    <3> QED
      BY <2>e, <3>1, <3>2, ExceptSeq DEF TypeOK
  <2>d. runs' \in Seq(Seq(Run)) /\ Len(runs') = Len(runs)
    <3>1. runs[fd] \in Seq(Run)
      BY <2>e, ElementOfSeq
    <3>2. Extend(runs[fd], t, msg[t], k) \in Seq(Run)
      BY <2>b, <3>1, ExtendType
    <3>3. runs' = [runs EXCEPT ![fd] = Extend(runs[fd], t, msg[t], k)]
      BY <2>a
    <3> QED
      BY <2>e, <3>2, <3>3, ExceptSeq
  <2>1. TypeOK'
    <3>1. written' \in [Threads -> Nat]
      BY <2>a, <2>b, SMTT(30)
    <3>2. pc' \in [Threads -> Locked \union Unlocked] /\ filesize' \in Nat
      <4>1. CASE written[t] + k = msg[t].len
        <5>1. pc' = [pc EXCEPT ![t] = "unlock"] /\ filesize' = filesize + msg[t].len
          BY <2>a, <4>1
        <5> QED
          BY <2>b, <5>1, SMTT(30)
      <4>2. CASE written[t] + k # msg[t].len
        <5>1. pc' = pc /\ filesize' = filesize
          BY <2>a, <4>2
        <5> QED
          BY <5>1
      <4> QED
        BY <4>1, <4>2
    <3>3. Inodes' = Inodes
      BY <2>c
    <3> HIDE DEF Inodes, Indexes, Locked, Unlocked
    <3> QED
      BY <1>5, <2>c, <2>d, <3>1, <3>2, <3>3 DEF WriteSome
  <2>2. LockDiscipline'
    BY <1>5, <2>a, ZenonT(60) DEF WriteSome
  <2>3. LocalsOK'
    <3>1. pc[t] = "write" /\ msg' = msg /\ index' = index
      BY <1>5 DEF WriteSome
    <3>2. written'[t] = written[t] + k /\ \A u \in Threads \ {t} : written'[u] = written[u]
      BY <2>a
    <3>3. \A u \in Threads \ {t} : pc'[u] = pc[u]
      BY <2>a
    <3>4. pc'[t] = "unlock" \/ (pc'[t] = "write" /\ written[t] + k < msg[t].len)
      <4>1. CASE written[t] + k = msg[t].len
        BY <2>a, <4>1
      <4>2. CASE written[t] + k # msg[t].len
        <5>1. pc' = pc
          BY <2>a, <4>2
        <5>2. written[t] + k < msg[t].len
          <6>1. written[t] \in Nat
            OBVIOUS
          <6> HIDE DEF TypeOK, LockDiscipline, LocalsOK
          <6> QED
            BY <2>b, <4>2, <6>1
        <5> QED
          BY <3>1, <5>1, <5>2
      <4> QED
        BY <4>1, <4>2
    <3> QED
      BY <3>1, <3>2, <3>3, <3>4
  <2>4. ReopensClosed'
    BY <1>5 DEF WriteSome
  <2> QED
    BY <2>1, <2>2, <2>3, <2>4
<1>6. ASSUME NEW t \in Threads, WriteFails(t) PROVE IInv'
  <2>1. TypeOK'
    <3>1. pc' \in [Threads -> Locked \union Unlocked]
      BY <1>6 DEF WriteFails
    <3>2. filesize' \in Nat /\ faults' \in Nat
      BY <1>6 DEF WriteFails
    <3>3. UNCHANGED <<msg, written, rolling, index, lock, fd, unmeasured, stdinFree, log,
                      backup, size, runs, sent, crashes>>
      BY <1>6 DEF WriteFails
    <3> HIDE DEF Locked, Unlocked, Indexes, LocalsOK, LockDiscipline, Fault
    <3> QED
      BY <3>1, <3>2, <3>3
  <2>2. LockDiscipline'
    BY <1>6 DEF WriteFails
  <2>3. LocalsOK'
    BY <1>6 DEF WriteFails
  <2>4. ReopensClosed'
    BY <1>6 DEF WriteFails
  <2> QED
    BY <2>1, <2>2, <2>3, <2>4
<1>7. ASSUME NEW t \in Threads, SkipWrite(t) PROVE IInv'
  BY <1>7 DEF SkipWrite
<1>8. ASSUME NEW t \in Threads, UnlockAppender(t) PROVE IInv'
  BY <1>8 DEF UnlockAppender
<1>9. ASSUME NEW t \in Threads, RenameLog(t) PROVE IInv'
  <2>1. TypeOK'
    <3>1. backup' \in [Indexes -> OrNone(Inodes)] /\ log' \in OrNone(Inodes) /\ faults' \in Nat
      <4> HIDE DEF Inodes
      <4>1. 0 \in Indexes
        OBVIOUS
      <4> HIDE DEF Indexes
      <4> QED
        BY <1>9, <4>1 DEF RenameLog
    <3>2. pc' \in [Threads -> Locked \union Unlocked]
      BY <1>9 DEF RenameLog
    <3> HIDE DEF Indexes, Locked, Unlocked
    <3> QED
      BY <1>9, <3>1, <3>2 DEF RenameLog
  <2>2. LockDiscipline'
    BY <1>9 DEF RenameLog
  <2>3. LocalsOK'
    BY <1>9 DEF RenameLog
  <2>4. ReopensClosed'
    BY <1>9 DEF RenameLog
  <2> QED
    BY <2>1, <2>2, <2>3, <2>4
<1>10. ASSUME NEW t \in Threads, CloseLog(t) PROVE IInv'
  <2>1. TypeOK'
    BY <1>10 DEF CloseLog, CloseAppender
  <2>2. LockDiscipline'
    BY <1>10 DEF CloseLog
  <2>3. LocalsOK'
    BY <1>10 DEF CloseLog
  <2>4. ReopensClosed'
    BY <1>10 DEF CloseLog, CloseAppender
  <2> QED
    BY <2>1, <2>2, <2>3, <2>4
<1>11. ASSUME NEW t \in Threads, ReopenLog(t) PROVE IInv'
  <2>1. TypeOK'
    <3>1. rolling' \in [Threads -> BOOLEAN]
      BY <1>11, Zenon DEF ReopenLog
    <3> QED
      <4>1. OpenAppender
        BY <1>11 DEF ReopenLog
      <4>2. pc' \in [Threads -> Locked \union Unlocked]
        BY <1>11 DEF ReopenLog
      <4> HIDE DEF TypeOK, Inodes, OrNone, Indexes
      <4>3. backup' \in [Indexes -> OrNone(Inodes')]
        BY <4>1, OpenAppenderEffect, InodesGrow
      <4> QED
        BY <1>11, <3>1, <4>1, <4>2, <4>3, OpenAppenderEffect
        DEF ReopenLog, TypeOK, OrNone, Inodes
  <2>2. LockDiscipline'
    BY <1>11 DEF ReopenLog
  <2>3. LocalsOK'
    BY <1>11 DEF ReopenLog
  <2>4. ReopensClosed'
    BY <1>11 DEF ReopenLog
  <2> QED
    BY <2>1, <2>2, <2>3, <2>4
<1>12. ASSUME NEW t \in Threads, RemoveLast(t) PROVE IInv'
  <2>1. TypeOK'
    <3>1. backup' \in [Indexes -> OrNone(Inodes)] /\ faults' \in Nat
      <4>1. MaxBackupIndex \in Indexes
        OBVIOUS
      <4>2. faults' \in Nat
        BY <1>12 DEF RemoveLast
      <4> HIDE DEF Indexes, Inodes, Fault
      <4>3. backup' = [backup EXCEPT ![MaxBackupIndex] = NONE] \/ backup' = backup
        BY <1>12 DEF RemoveLast
      <4> QED
        BY <4>1, <4>2, <4>3
    <3>2. pc' \in [Threads -> Locked \union Unlocked] /\ index' \in [Threads -> Indexes]
      BY <1>12 DEF RemoveLast, ContinueShift
    <3> QED
      BY <1>12, <3>1, <3>2 DEF RemoveLast
  <2>2. LockDiscipline'
    BY <1>12 DEF RemoveLast, ContinueShift
  <2>3. LocalsOK'
    BY <1>12 DEF RemoveLast, ContinueShift
  <2>4. ReopensClosed'
    BY <1>12 DEF RemoveLast, ContinueShift
  <2> QED
    BY <2>1, <2>2, <2>3, <2>4
<1>13. ASSUME NEW t \in Threads, ShiftBackup(t) PROVE IInv'
  <2>a. index[t] \in Indexes /\ index[t] - 1 \in Indexes
    BY <1>13 DEF ShiftBackup
  <2>1. TypeOK'
    <3>1. backup' \in [Indexes -> OrNone(Inodes)] /\ faults' \in Nat
      <4>1. faults' \in Nat
        BY <1>13 DEF ShiftBackup
      <4> HIDE DEF Indexes, Inodes, Fault
      <4>2. \/ backup' = [backup EXCEPT ![index[t]] = backup[index[t] - 1],
                                      ![index[t] - 1] = NONE]
            \/ backup' = backup
        BY <1>13 DEF ShiftBackup
      <4> QED
        BY <2>a, <4>1, <4>2, ZenonT(60)
    <3>2. pc' \in [Threads -> Locked \union Unlocked] /\ index' \in [Threads -> Indexes]
      BY <1>13, <2>a DEF ShiftBackup, ContinueShift
    <3> QED
      BY <1>13, <3>1, <3>2 DEF ShiftBackup
  <2>2. LockDiscipline'
    BY <1>13 DEF ShiftBackup, ContinueShift
  <2>3. LocalsOK'
    BY <1>13, <2>a DEF ShiftBackup, ContinueShift
  <2>4. ReopensClosed'
    BY <1>13 DEF ShiftBackup, ContinueShift
  <2> QED
    BY <2>1, <2>2, <2>3, <2>4
<1>14. CASE Reconfigure
  BY <1>14 DEF Reconfigure, CloseAppender
<1>15. CASE Crash
  BY <1>15, SMTT(30) DEF Crash
<1>16. CASE UNCHANGED vars
  BY <1>16 DEF vars
<1> QED
  BY <1>1, <1>2, <1>3, <1>4, <1>5, <1>6, <1>7, <1>8, <1>9, <1>10, <1>11, <1>12, <1>13,
     <1>14, <1>15, <1>16 DEF Next, Work
-----------------------------------------------------------------------------
(* The theorems *)

\* The inductive invariant holds in every state of append_to_output.
THEOREM IInvCorrect == Spec => []IInv
BY InitIInv, NextIInv, PTL DEF Spec

\* Every reachable state of the appender and its directory is well typed: in
\* particular no name or descriptor ever refers to a file that does not exist,
\* and the shift loop of complete_rollover never leaves the index range.
THEOREM TypeCorrect == Spec => []TypeOK
<1>1. IInv => TypeOK
  BY DEF IInv
<1> QED
  BY <1>1, IInvCorrect, PTL

\* The mutex is held by exactly the thread that is inside the critical section
\* of append_to_output, for any number of threads, faults and crashes.
THEOREM LockDisciplineCorrect == Spec => []LockDiscipline
<1>1. IInv => LockDiscipline
  BY DEF IInv
<1> QED
  BY <1>1, IInvCorrect, PTL

-----------------------------------------------------------------------------
(* The size field *)

\* Every step keeps the filesize field true to the open file: open sets it, a
\* write adds what was written only when the record is complete.
LEMMA NextFilesizeAccurate ==
  IInv /\ FilesizeAccurate /\ [Next]_vars => FilesizeAccurate'
<1> SUFFICES ASSUME IInv, FilesizeAccurate, [Next]_vars PROVE FilesizeAccurate'
  OBVIOUS
<1> USE DEF FilesizeAccurate, Locked, Goto, IsOpen, locals, appender, disk, bounds
<1>a. /\ pc \in [Threads -> Locked \union Unlocked]
      /\ msg \in [Threads -> Message]
      /\ written \in [Threads -> Nat]
      /\ lock \in OrNone(Threads)
      /\ fd \in OrNone(Inodes)
      /\ filesize \in Nat /\ unmeasured \in Nat
      /\ size \in Seq(Nat)
      /\ \A u \in Threads : pc[u] \in Locked <=> lock = u
      /\ \A u \in Threads :
           /\ pc[u] \in {"lock", "open", "check", "rename", "close", "reopen"}
                => written[u] = 0
           /\ pc[u] = "write" => written[u] < msg[u].len
  BY DEF IInv, TypeOK, LockDiscipline, LocalsOK
<1>b. TypeOK
  BY DEF IInv
<1> HIDE DEF IInv
<1>1. ASSUME NEW t \in Threads, Format(t) PROVE FilesizeAccurate'
  BY <1>a, <1>1 DEF Format, OrNone
<1>2. ASSUME NEW t \in Threads, LockAppender(t) PROVE FilesizeAccurate'
  BY <1>a, <1>2 DEF LockAppender, OrNone
<1>3. ASSUME NEW t \in Threads, OpenIfClosed(t) PROVE FilesizeAccurate'
  <2>1. CASE IsOpen
    BY <1>a, <1>3, <2>1 DEF OpenIfClosed, OrNone
  <2>2. CASE ~IsOpen
    <3>1. fd' # NONE => size'[fd'] = filesize' + unmeasured'
      BY <1>3, <1>b, <2>2, OpenAppenderEffect DEF OpenIfClosed
    <3>2. lock' # NONE => pc'[lock'] # "write"
      BY <1>a, <1>3 DEF OpenIfClosed, OrNone
    <3>3. filesize' \in Nat /\ unmeasured' \in Nat
      BY <1>3, <1>b, <2>2, OpenAppenderEffect DEF OpenIfClosed
    <3> QED
      BY <3>1, <3>2, <3>3
  <2> QED
    BY <2>1, <2>2
<1>4. ASSUME NEW t \in Threads, CheckRollover(t) PROVE FilesizeAccurate'
  BY <1>a, <1>4 DEF CheckRollover, OrNone
<1>5. ASSUME NEW t \in Threads, WriteSome(t) PROVE FilesizeAccurate'
  <2>a. PICK k \in 1..(msg[t].len - written[t]) :
          /\ written' = [written EXCEPT ![t] = @ + k]
          /\ size' = [size EXCEPT ![fd] = @ + k]
          /\ IF written[t] + k = msg[t].len
               THEN /\ pc' = [pc EXCEPT ![t] = "unlock"]
                    /\ filesize' = filesize + msg[t].len
               ELSE UNCHANGED <<pc, filesize>>
    BY <1>5 DEF WriteSome
  <2>1. /\ lock = t /\ lock' = t /\ fd' = fd /\ fd \in Inodes /\ t # NONE /\ pc[t] = "write"
        /\ unmeasured' = unmeasured
    BY <1>a, <1>5 DEF WriteSome, OrNone
  <2>2. msg[t].len \in Nat /\ written[t] \in Nat /\ k \in Nat
    BY <1>a DEF Message
  <2>3. size[fd] \in Nat /\ size'[fd] = size[fd] + k
    BY <1>a, <2>1, <2>a, ElementOfSeq, SMTT(30) DEF Inodes
  <2>4. size[fd] = filesize + unmeasured + written[t]
    <3>1. fd # NONE /\ lock # NONE
      BY <1>a, <2>1 DEF Inodes
    <3> QED
      BY <2>1, <3>1
  <2>5. CASE written[t] + k = msg[t].len
    <3>1. pc'[t] = "unlock" /\ filesize' = filesize + msg[t].len
      BY <1>a, <2>a, <2>5
    <3>3. filesize \in Nat /\ unmeasured \in Nat /\ filesize' \in Nat
      <4>1. filesize \in Nat /\ unmeasured \in Nat
        BY <1>a
      <4> HIDE DEF FilesizeAccurate
      <4> QED
        BY <2>2, <3>1, <4>1
    <3>2. size'[fd'] = filesize' + unmeasured'
      <4> HIDE DEF FilesizeAccurate
      <4>1. size'[fd'] = size[fd] + k /\ unmeasured' = unmeasured
        BY <2>1, <2>3
      <4> QED
        BY <2>2, <2>4, <2>5, <3>1, <3>3, <4>1
    <3> QED
      BY <2>1, <3>1, <3>2, <3>3
  <2>6. CASE written[t] + k # msg[t].len
    <3>1. pc' = pc /\ filesize' = filesize /\ written'[t] = written[t] + k
      BY <1>a, <2>a, <2>6
    <3>3. filesize \in Nat /\ unmeasured \in Nat
      BY <1>a
    <3>2. size'[fd'] = filesize' + unmeasured' + written'[t]
      <4> HIDE DEF FilesizeAccurate
      <4>1. size'[fd'] = size[fd] + k /\ unmeasured' = unmeasured
        BY <2>1, <2>3
      <4> QED
        BY <2>2, <2>4, <3>1, <3>3, <4>1
    <3> QED
      BY <2>1, <3>1, <3>2
  <2> QED
    BY <2>5, <2>6
<1>6. ASSUME NEW t \in Threads, WriteFails(t) PROVE FilesizeAccurate'
  BY <1>a, <1>6 DEF WriteFails, OrNone
<1>7. ASSUME NEW t \in Threads, SkipWrite(t) PROVE FilesizeAccurate'
  BY <1>a, <1>7 DEF SkipWrite, OrNone
<1>8. ASSUME NEW t \in Threads, UnlockAppender(t) PROVE FilesizeAccurate'
  BY <1>a, <1>8 DEF UnlockAppender, OrNone
<1>9. ASSUME NEW t \in Threads, RenameLog(t) PROVE FilesizeAccurate'
  BY <1>a, <1>9 DEF RenameLog, OrNone
<1>10. ASSUME NEW t \in Threads, CloseLog(t) PROVE FilesizeAccurate'
  BY <1>a, <1>10 DEF CloseLog, CloseAppender, OrNone
<1>11. ASSUME NEW t \in Threads, ReopenLog(t) PROVE FilesizeAccurate'
  <2>1. fd = NONE
    BY <1>11 DEF ReopenLog, ReopensClosed, IInv
  <2>2. fd' # NONE => size'[fd'] = filesize' + unmeasured'
    BY <1>11, <1>b, <2>1, OpenAppenderEffect DEF ReopenLog
  <2>3. lock' = t /\ pc'[t] = "write" /\ written'[t] = 0
    BY <1>a, <1>11 DEF ReopenLog
  <2>4. filesize' \in Nat /\ unmeasured' \in Nat
    BY <1>11, <1>b, OpenAppenderEffect DEF ReopenLog
  <2> QED
    BY <2>2, <2>3, <2>4, <1>a
<1>12. ASSUME NEW t \in Threads, RemoveLast(t) PROVE FilesizeAccurate'
  BY <1>a, <1>12 DEF RemoveLast, ContinueShift, OrNone
<1>13. ASSUME NEW t \in Threads, ShiftBackup(t) PROVE FilesizeAccurate'
  BY <1>a, <1>13 DEF ShiftBackup, ContinueShift, OrNone
<1>14. CASE Reconfigure
  BY <1>14 DEF Reconfigure, CloseAppender
<1>15. CASE Crash
  BY <1>15 DEF Crash
<1>16. CASE UNCHANGED vars
  BY <1>16 DEF vars
<1> QED
  BY <1>1, <1>2, <1>3, <1>4, <1>5, <1>6, <1>7, <1>8, <1>9, <1>10, <1>11, <1>12, <1>13,
     <1>14, <1>15, <1>16 DEF Next, Work

\* The size need_rollover decides with is the true size of the open file, for
\* every pattern of short and failed writes, reopenings and restarts; after an
\* fstat that failed it lacks exactly what the file held at that moment.
THEOREM FilesizeCorrect == Spec => []FilesizeAccurate
<1>1. Init => FilesizeAccurate
  BY DEF Init, FilesizeAccurate
<1> QED
  BY <1>1, NextFilesizeAccurate, IInvCorrect, PTL DEF Spec

-----------------------------------------------------------------------------
(* The order of the backups *)

\* No rename of a rollover, in whatever place of another one it falls, puts a
\* younger generation behind an older.
LEMMA NextBackupsInAgeOrder ==
  IInv /\ BackupsInAgeOrder /\ [Next]_vars => BackupsInAgeOrder'
<1> SUFFICES ASSUME IInv, BackupsInAgeOrder, [Next]_vars PROVE BackupsInAgeOrder'
  OBVIOUS
<1> USE DEF disk
<1>a. TypeOK /\ LocalsOK
  BY DEF IInv
<1>b. ASSUME UNCHANGED <<log, backup>> PROVE BackupsInAgeOrder'
  BY <1>b DEF BackupsInAgeOrder
<1>c. ASSUME OpenAppender PROVE BackupsInAgeOrder'
  <2>1. \A i \in Indexes : backup[i] # NONE => backup[i] \in Nat /\ backup[i] <= Len(size)
    BY <1>a DEF TypeOK, OrNone, Inodes
  <2>2. Len(size) \in Nat
    BY <1>a DEF TypeOK
  <2>3. backup' = backup /\ (log' = log \/ log' = Len(size) + 1)
    BY <1>a, <1>c, OpenAppenderEffect
  <2>4. CASE log' = log
    BY <1>b, <2>3, <2>4
  <2>5. CASE log' = Len(size) + 1
    BY <2>1, <2>2, <2>3, <2>5 DEF BackupsInAgeOrder
  <2> QED
    BY <2>3, <2>4, <2>5
<1>1. ASSUME NEW t \in Threads,
             Format(t) \/ LockAppender(t) \/ CheckRollover(t) \/ WriteSome(t)
               \/ WriteFails(t) \/ SkipWrite(t) \/ UnlockAppender(t) \/ CloseLog(t)
      PROVE  BackupsInAgeOrder'
  BY <1>b, <1>1 DEF Format, LockAppender, CheckRollover, WriteSome, WriteFails,
                    SkipWrite, UnlockAppender, CloseLog
<1>2. ASSUME NEW t \in Threads, OpenIfClosed(t) PROVE BackupsInAgeOrder'
  BY <1>b, <1>c, <1>2 DEF OpenIfClosed
<1>3. ASSUME NEW t \in Threads, ReopenLog(t) PROVE BackupsInAgeOrder'
  BY <1>c, <1>3 DEF ReopenLog
<1>4. ASSUME NEW t \in Threads, RenameLog(t) PROVE BackupsInAgeOrder'
  <2>1. CASE log # NONE /\ backup' = [backup EXCEPT ![0] = log] /\ log' = NONE
    <3>1. \A i \in Indexes : i >= 0 /\ i \in Nat
      BY DEF Indexes
    <3>2. \A i \in Indexes : backup'[i] = IF i = 0 THEN log ELSE backup[i]
      BY <1>a, <2>1 DEF TypeOK
    <3> QED
      BY <2>1, <3>1, <3>2 DEF BackupsInAgeOrder
  <2>2. CASE UNCHANGED <<log, backup>>
    BY <1>b, <2>2
  <2> QED
    BY <1>4, <2>1, <2>2 DEF RenameLog
<1>5. ASSUME NEW t \in Threads, RemoveLast(t) PROVE BackupsInAgeOrder'
  <2>1. CASE backup' = [backup EXCEPT ![MaxBackupIndex] = NONE] /\ log' = log
    <3>1. \A i \in Indexes : backup'[i] # NONE => backup'[i] = backup[i]
      BY <1>a, <2>1 DEF TypeOK
    <3> QED
      BY <2>1, <3>1 DEF BackupsInAgeOrder
  <2>2. CASE UNCHANGED <<log, backup>>
    BY <1>b, <2>2
  <2> QED
    BY <1>5, <2>1, <2>2 DEF RemoveLast
<1>6. ASSUME NEW t \in Threads, ShiftBackup(t) PROVE BackupsInAgeOrder'
  <2> DEFINE k == index[t]
  <2>1. k \in Indexes /\ k - 1 \in Indexes /\ k \in Nat /\ k > 0
    BY <1>a, <1>6 DEF ShiftBackup, TypeOK, LocalsOK, Indexes
  <2> HIDE DEF k
  <2>2. CASE /\ backup[k - 1] # NONE
             /\ backup' = [backup EXCEPT ![k] = backup[k - 1], ![k - 1] = NONE]
             /\ log' = log
    <3>1. \A i \in Indexes : backup'[i] = IF i = k - 1 THEN NONE
                                          ELSE IF i = k THEN backup[k - 1]
                                          ELSE backup[i]
      BY <1>a, <2>1, <2>2 DEF TypeOK
    <3>2. \A i \in Indexes : i \in Nat
      BY DEF Indexes
    <3>3. \A i, j \in Indexes :
            (i < j /\ backup'[i] # NONE /\ backup'[j] # NONE) => backup'[j] < backup'[i]
      <4> SUFFICES ASSUME NEW i \in Indexes, NEW j \in Indexes, i < j,
                          backup'[i] # NONE, backup'[j] # NONE
                   PROVE  backup'[j] < backup'[i]
        OBVIOUS
      <4>1. CASE i = k
        <5>1. j > k - 1 /\ backup'[j] = backup[j] /\ backup'[i] = backup[k - 1]
          BY <2>1, <3>1, <3>2, <4>1
        <5> QED
          BY <2>1, <2>2, <5>1 DEF BackupsInAgeOrder
      <4>2. CASE j = k
        <5>1. i < k - 1 /\ backup'[j] = backup[k - 1] /\ backup'[i] = backup[i]
          BY <2>1, <3>1, <3>2, <4>2
        <5> QED
          BY <2>1, <2>2, <5>1 DEF BackupsInAgeOrder
      <4>3. CASE i # k /\ j # k
        <5>1. backup'[j] = backup[j] /\ backup'[i] = backup[i]
          BY <3>1, <4>3
        <5> QED
          BY <5>1 DEF BackupsInAgeOrder
      <4> QED
        BY <4>1, <4>2, <4>3
    <3>4. log' # NONE => \A i \in Indexes : backup'[i] # NONE => backup'[i] < log'
      BY <2>1, <2>2, <3>1 DEF BackupsInAgeOrder
    <3> QED
      BY <3>3, <3>4 DEF BackupsInAgeOrder
  <2>3. CASE UNCHANGED <<log, backup>>
    BY <1>b, <2>3
  <2> QED
    BY <1>6, <2>2, <2>3 DEF ShiftBackup, k
<1>7. CASE Reconfigure \/ Crash \/ UNCHANGED vars
  BY <1>b, <1>7 DEF Reconfigure, Crash, vars
<1> QED
  BY <1>1, <1>2, <1>3, <1>4, <1>5, <1>6, <1>7 DEF Next, Work

\* However the unlocked renames of several rollovers interleave, fail or are
\* cut short by a crash, the backups stay in the order of their age.
THEOREM BackupsInAgeOrderCorrect == Spec => []BackupsInAgeOrder
<1>1. Init => BackupsInAgeOrder
  BY DEF Init, BackupsInAgeOrder
<1> QED
  BY <1>1, NextBackupsInAgeOrder, IInvCorrect, PTL DEF Spec

-----------------------------------------------------------------------------
(* The transit name *)

\* A thread whose rollover has renamed the log and not come to its last rename.
InRollover(t) ==
  \/ pc[t] \in {"close", "reopen", "remove", "shift"}
  \/ pc[t] \in {"write", "unlock"} /\ rolling[t]

\* A step in which no call fails takes the transit name only at the start of a
\* rollover, and the rollover that is at its last rename gives it back.
LEMMA NextZeroIsTransient ==
  IInv /\ ZeroIsTransient /\ [Next]_vars => ZeroIsTransient'
<1> SUFFICES ASSUME IInv, ZeroIsTransient, [Next]_vars,
                    faults' = 0, crashes' = 0, MaxBackupIndex > 0, backup'[0] # NONE
             PROVE  \E t \in Threads : InRollover(t)'
  BY DEF ZeroIsTransient, InRollover
<1> USE DEF InRollover, Goto, Fault, locals, appender, disk, bounds
<1>a. /\ pc \in [Threads -> Locked \union Unlocked]
      /\ rolling \in [Threads -> BOOLEAN]
      /\ index \in [Threads -> Indexes]
      /\ backup \in [Indexes -> OrNone(Inodes)]
      /\ faults \in Nat /\ crashes \in Nat
      /\ \A t \in Threads : pc[t] = "shift" => index[t] > 0
  BY DEF IInv, TypeOK, LocalsOK
<1>b. ASSUME faults = 0, crashes = 0, backup[0] # NONE
      PROVE  \E t \in Threads : InRollover(t)
  BY <1>b DEF ZeroIsTransient
<1>c. 0 \in Indexes /\ \A i \in Indexes : i \in Nat
  BY MaxBackupIndexAssumption DEF Indexes
<1> HIDE DEF Indexes, IInv, ZeroIsTransient
<1>1. ASSUME NEW t \in Threads, Format(t) PROVE \E u \in Threads : InRollover(u)'
  BY <1>a, <1>b, <1>1 DEF Format
<1>2. ASSUME NEW t \in Threads, LockAppender(t) PROVE \E u \in Threads : InRollover(u)'
  BY <1>a, <1>b, <1>2 DEF LockAppender
<1>3. ASSUME NEW t \in Threads, OpenIfClosed(t) PROVE \E u \in Threads : InRollover(u)'
  <2>1. backup' = backup /\ (faults' = faults \/ faults' = faults + 1)
    BY <1>3 DEF OpenIfClosed, OpenAppender, MeasureFile, Fault
  <2> QED
    BY <1>a, <1>b, <1>3, <2>1 DEF OpenIfClosed
<1>4. ASSUME NEW t \in Threads, CheckRollover(t) PROVE \E u \in Threads : InRollover(u)'
  BY <1>a, <1>b, <1>4 DEF CheckRollover
<1>5. ASSUME NEW t \in Threads, WriteSome(t) PROVE \E u \in Threads : InRollover(u)'
  <2>1. /\ pc[t] = "write" /\ (pc' = pc \/ pc' = [pc EXCEPT ![t] = "unlock"])
        /\ rolling' = rolling /\ backup' = backup /\ faults' = faults /\ crashes' = crashes
    BY <1>5 DEF WriteSome
  <2> QED
    BY <1>a, <1>b, <2>1
<1>6. ASSUME NEW t \in Threads, WriteFails(t) \/ SkipWrite(t) PROVE \E u \in Threads : InRollover(u)'
  BY <1>a, <1>b, <1>6 DEF WriteFails, SkipWrite
<1>7. ASSUME NEW t \in Threads, UnlockAppender(t) PROVE \E u \in Threads : InRollover(u)'
  BY <1>a, <1>b, <1>7 DEF UnlockAppender
<1>8. ASSUME NEW t \in Threads, RenameLog(t) \/ CloseLog(t) PROVE \E u \in Threads : InRollover(u)'
  BY <1>a, <1>8 DEF RenameLog, CloseLog
<1>9. ASSUME NEW t \in Threads, ReopenLog(t) PROVE \E u \in Threads : InRollover(u)'
  <2>1. pc'[t] = "write" /\ rolling'[t] = TRUE
    BY <1>a, <1>9 DEF ReopenLog
  <2> QED
    BY <2>1
<1>10. ASSUME NEW t \in Threads, RemoveLast(t) PROVE \E u \in Threads : InRollover(u)'
  BY <1>a, <1>10 DEF RemoveLast, ContinueShift
<1>11. ASSUME NEW t \in Threads, ShiftBackup(t) PROVE \E u \in Threads : InRollover(u)'
  <2>1. index[t] \in Nat /\ index[t] > 0 /\ index[t] \in Indexes
    BY <1>a, <1>c, <1>11 DEF ShiftBackup
  <2>2. CASE index[t] = 1
    <3>1. backup' = IF backup[0] # NONE
                      THEN [backup EXCEPT ![1] = backup[0], ![0] = NONE] ELSE backup
      BY <1>a, <1>11, <2>2 DEF ShiftBackup
    <3>2. backup'[0] = NONE
      BY <1>a, <1>c, <3>1
    <3> QED
      BY <3>2
  <2>3. CASE index[t] # 1
    BY <1>a, <1>11, <2>1, <2>3 DEF ShiftBackup, ContinueShift
  <2> QED
    BY <2>2, <2>3
<1>12. CASE Reconfigure
  BY <1>b, <1>12 DEF Reconfigure
<1>13. CASE Crash
  BY <1>a, <1>13 DEF Crash
<1>14. CASE UNCHANGED vars
  BY <1>b, <1>14 DEF vars
<1> QED
  BY <1>1, <1>2, <1>3, <1>4, <1>5, <1>6, <1>7, <1>8, <1>9, <1>10, <1>11, <1>12, <1>13, <1>14
  DEF Next, Work

\* As long as nothing fails, <filename>.0 exists only while some rollover is
\* under way, however many threads roll over and log at the same time.
THEOREM ZeroIsTransientCorrect == Spec => []ZeroIsTransient
<1>1. Init => ZeroIsTransient
  BY MaxBackupIndexAssumption DEF Init, ZeroIsTransient, Indexes
<1> QED
  BY <1>1, NextZeroIsTransient, IInvCorrect, PTL DEF Spec

-----------------------------------------------------------------------------
(* One thread, nothing fails *)

\* The one thread is in the middle of a rollover: <filename>.0 is taken.
MidRollover(t) ==
  \/ pc[t] \in {"close", "reopen", "remove"}
  \/ pc[t] \in {"write", "unlock"} /\ rolling[t]

\* The index that is free while the shift loop moves it down.
Hole(t) == IF pc[t] = "shift" THEN index[t] ELSE 0

\* There are no gaps between the backups but the one that the shift loop moves,
\* so the last index is in use only when all are.
NoGaps(t) ==
  IF MidRollover(t)
    THEN /\ backup[0] # NONE
         /\ \A i, j \in Indexes : (i < j /\ backup[j] # NONE) => backup[i] # NONE
    ELSE /\ backup[Hole(t)] = NONE
         /\ \A i, j \in Indexes :
              (i < j /\ i # Hole(t) /\ backup[j] # NONE) => backup[i] # NONE

\* The live file exists whenever a rollover begins and when one ends; a message
\* rolls over once.
LiveFile(t) ==
  /\ pc[t] \in {"lock", "open", "check", "rename"} => ~rolling[t]
  /\ (fd # NONE /\ pc[t] # "close") => log # NONE
  /\ (pc[t] \in {"check", "rename", "remove"} \/ (pc[t] \in {"write", "unlock"} /\ rolling[t]))
       => log # NONE

\* Thread t is the only one, and no call fails.
OneThread(t) == Threads = {t} /\ MaxFaults = 0 /\ MaxCrashes = 0
\* What a thread that is alone finds in the directory at each statement.
QuietInv(t) == IInv /\ BackupsInAgeOrder /\ faults = 0 /\ crashes = 0 /\ NoGaps(t) /\ LiveFile(t)

\* A thread that is alone completes one rollover before it begins the next, so
\* each rename moves the only gap.
LEMMA NextQuietInv ==
  ASSUME NEW t, OneThread(t)
  PROVE  QuietInv(t) /\ [Next]_vars => QuietInv(t)'
<1> SUFFICES ASSUME QuietInv(t), [Next]_vars PROVE QuietInv(t)'
  OBVIOUS
<1> USE DEF Goto, Fault, locals, appender, disk, bounds
<1>a. /\ pc \in [Threads -> Locked \union Unlocked]
      /\ rolling \in [Threads -> BOOLEAN]
      /\ index \in [Threads -> Indexes]
      /\ backup \in [Indexes -> OrNone(Inodes)]
      /\ log \in OrNone(Inodes)
      /\ Len(size) \in Nat
      /\ pc[t] = "shift" => index[t] > 0
      /\ t \in Threads /\ Threads = {t}
  BY DEF QuietInv, IInv, TypeOK, LocalsOK, OneThread
<1>b. faults = 0 /\ crashes = 0 /\ ~Fault /\ MaxFaults = 0 /\ MaxCrashes = 0
  BY DEF QuietInv, OneThread
<1>c. /\ 0 \in Indexes /\ MaxBackupIndex \in Indexes
      /\ \A i \in Indexes : i \in Nat /\ i <= MaxBackupIndex
      /\ \A i \in Indexes : i > 0 => i - 1 \in Indexes
  BY MaxBackupIndexAssumption DEF Indexes
<1>d. NoGaps(t) /\ LiveFile(t)
  BY DEF QuietInv
<1>e. IInv' /\ BackupsInAgeOrder'
  BY NextIInv, NextBackupsInAgeOrder DEF QuietInv
<1>f. NONE \notin Inodes
  BY <1>a, NoneAssumption DEF Inodes
<1> HIDE DEF Indexes, QuietInv, OneThread
<1> SUFFICES faults' = 0 /\ crashes' = 0 /\ NoGaps(t)' /\ LiveFile(t)'
  BY <1>e DEF QuietInv
<1> USE DEF MidRollover, Hole
<1>g. ASSUME OpenAppender
      PROVE  log' # NONE /\ faults' = 0 /\ backup' = backup
  <2>1. CreateIfMissing /\ faults' = faults /\ backup' = backup
    BY <1>b, <1>g DEF OpenAppender, MeasureFile
  <2> QED
    BY <1>a, <1>b, <2>1, NoneAssumption DEF CreateIfMissing
<1>1. ASSUME Format(t) PROVE faults' = 0 /\ crashes' = 0 /\ NoGaps(t)' /\ LiveFile(t)'
  BY <1>a, <1>b, <1>d, <1>1 DEF Format, NoGaps, LiveFile
<1>2. ASSUME LockAppender(t) PROVE faults' = 0 /\ crashes' = 0 /\ NoGaps(t)' /\ LiveFile(t)'
  BY <1>a, <1>b, <1>d, <1>2 DEF LockAppender, NoGaps, LiveFile
<1>3. ASSUME OpenIfClosed(t) PROVE faults' = 0 /\ crashes' = 0 /\ NoGaps(t)' /\ LiveFile(t)'
  <2>1. pc[t] = "open" /\ pc'[t] = "check" /\ crashes' = crashes /\ UNCHANGED <<rolling, index>>
    BY <1>a, <1>3 DEF OpenIfClosed
  <2>2. log' # NONE /\ faults' = 0 /\ backup' = backup
    BY <1>b, <1>d, <1>g, <1>3 DEF OpenIfClosed, IsOpen, LiveFile
  <2> QED
    BY <1>b, <1>d, <2>1, <2>2 DEF NoGaps, LiveFile
<1>4. ASSUME CheckRollover(t) PROVE faults' = 0 /\ crashes' = 0 /\ NoGaps(t)' /\ LiveFile(t)'
  <2>1. /\ pc[t] = "check" /\ pc'[t] \in {"rename", "write"} /\ ~rolling[t]
        /\ UNCHANGED <<rolling, index, backup, fd, log, faults, crashes>>
    BY <1>a, <1>d, <1>4 DEF CheckRollover, LiveFile
  <2> QED
    BY <1>b, <1>d, <2>1 DEF NoGaps, LiveFile
<1>5. ASSUME WriteSome(t) PROVE faults' = 0 /\ crashes' = 0 /\ NoGaps(t)' /\ LiveFile(t)'
  <2>1. /\ pc[t] = "write" /\ (pc' = pc \/ pc' = [pc EXCEPT ![t] = "unlock"])
        /\ UNCHANGED <<rolling, backup, fd, log, faults, crashes>>
    BY <1>5 DEF WriteSome
  <2> QED
    BY <1>a, <1>b, <1>d, <2>1 DEF NoGaps, LiveFile
<1>6. ASSUME WriteFails(t) PROVE FALSE
  BY <1>b, <1>6 DEF WriteFails
<1>7. ASSUME SkipWrite(t) PROVE faults' = 0 /\ crashes' = 0 /\ NoGaps(t)' /\ LiveFile(t)'
  <2>1. pc[t] = "write" /\ pc'[t] = "unlock" /\ UNCHANGED <<rolling, backup, fd, log, faults, crashes>>
    BY <1>a, <1>7 DEF SkipWrite
  <2> QED
    BY <1>b, <1>d, <2>1 DEF NoGaps, LiveFile
<1>8. ASSUME UnlockAppender(t) PROVE faults' = 0 /\ crashes' = 0 /\ NoGaps(t)' /\ LiveFile(t)'
  BY <1>a, <1>b, <1>d, <1>8 DEF UnlockAppender, NoGaps, LiveFile
<1>9. ASSUME RenameLog(t) PROVE faults' = 0 /\ crashes' = 0 /\ NoGaps(t)' /\ LiveFile(t)'
  <2>1. pc[t] = "rename" /\ pc'[t] = "close" /\ log # NONE
    BY <1>a, <1>d, <1>9 DEF RenameLog, LiveFile
  <2>2. /\ backup' = [backup EXCEPT ![0] = log] /\ faults' = 0 /\ crashes' = 0
        /\ UNCHANGED rolling
    BY <1>b, <1>9, <2>1 DEF RenameLog
  <2>3. \A i \in Indexes : backup'[i] = IF i = 0 THEN log ELSE backup[i]
    BY <1>a, <1>c, <2>2
  <2>4. \A i, j \in Indexes : (i < j /\ i # 0 /\ backup[j] # NONE) => backup[i] # NONE
    BY <1>d, <2>1 DEF NoGaps
  <2>5. NoGaps(t)'
    <3>1. MidRollover(t)'
      BY <2>1 DEF MidRollover
    <3>2. backup'[0] # NONE
      BY <1>c, <2>1, <2>3
    <3>3. ASSUME NEW i \in Indexes, NEW j \in Indexes, i < j, backup'[j] # NONE
          PROVE  backup'[i] # NONE
      <4>1. j # 0
        BY <3>3 DEF Indexes
      <4> QED
        BY <2>1, <2>3, <2>4, <3>3, <4>1
    <3> QED
      BY <3>1, <3>2, <3>3 DEF NoGaps
  <2> QED
    BY <2>1, <2>2, <2>5 DEF LiveFile
<1>10. ASSUME CloseLog(t) PROVE faults' = 0 /\ crashes' = 0 /\ NoGaps(t)' /\ LiveFile(t)'
  BY <1>a, <1>b, <1>d, <1>10 DEF CloseLog, CloseAppender, NoGaps, LiveFile
<1>11. ASSUME ReopenLog(t) PROVE faults' = 0 /\ crashes' = 0 /\ NoGaps(t)' /\ LiveFile(t)'
  <2>1. pc[t] = "reopen" /\ pc'[t] = "write" /\ rolling'[t] = TRUE /\ crashes' = crashes
    BY <1>a, <1>11 DEF ReopenLog
  <2>2. log' # NONE /\ faults' = 0 /\ backup' = backup
    BY <1>g, <1>11 DEF ReopenLog
  <2> QED
    BY <1>b, <1>d, <2>1, <2>2 DEF NoGaps, LiveFile
<1>12. ASSUME RemoveLast(t) PROVE faults' = 0 /\ crashes' = 0 /\ NoGaps(t)' /\ LiveFile(t)'
  <2>1. /\ pc[t] = "remove" /\ backup' = [backup EXCEPT ![MaxBackupIndex] = NONE]
        /\ ContinueShift(t, MaxBackupIndex)
        /\ UNCHANGED <<rolling, fd, log, faults, crashes>>
    BY <1>b, <1>12 DEF RemoveLast
  <2>2. \A i \in Indexes : backup'[i] = IF i = MaxBackupIndex THEN NONE ELSE backup[i]
    BY <1>a, <1>c, <2>1
  <2>3. /\ pc'[t] = IF MaxBackupIndex > 0 THEN "shift" ELSE "idle"
        /\ index'[t] = MaxBackupIndex
    BY <1>a, <2>1 DEF ContinueShift
  <2>4. backup'[Hole(t)'] = NONE /\ ~MidRollover(t)'
    BY <1>c, <2>2, <2>3, MaxBackupIndexAssumption
  <2>5. \A i, j \in Indexes : (i < j /\ i # Hole(t)' /\ backup'[j] # NONE) => backup'[i] # NONE
    BY <1>c, <1>d, <2>1, <2>2 DEF NoGaps
  <2>6. NoGaps(t)'
    BY <2>4, <2>5 DEF NoGaps
  <2> QED
    BY <1>b, <1>d, <2>1, <2>3, <2>6 DEF LiveFile
<1>13. ASSUME ShiftBackup(t) PROVE faults' = 0 /\ crashes' = 0 /\ NoGaps(t)' /\ LiveFile(t)'
  <2> DEFINE h == index[t]
  <2>1. h \in Indexes /\ h \in Nat /\ h > 0 /\ h - 1 \in Indexes /\ pc[t] = "shift"
    BY <1>a, <1>c, <1>13 DEF ShiftBackup
  <2>2. /\ backup' = IF backup[h - 1] # NONE
                       THEN [backup EXCEPT ![h] = backup[h - 1], ![h - 1] = NONE] ELSE backup
        /\ ContinueShift(t, h - 1)
        /\ UNCHANGED <<rolling, fd, log, faults, crashes>>
    BY <1>b, <1>13 DEF ShiftBackup
  <2>3. index'[t] = h - 1 /\ pc'[t] = IF h - 1 > 0 THEN "shift" ELSE "idle"
    BY <1>a, <2>2 DEF ContinueShift
  <2>4. /\ backup[h] = NONE
        /\ \A i, j \in Indexes : (i < j /\ i # h /\ backup[j] # NONE) => backup[i] # NONE
    BY <1>d, <2>1 DEF NoGaps
  <2> HIDE DEF h
  <2>5. Hole(t)' = h - 1 /\ ~MidRollover(t)'
    BY <2>1, <2>3
  <2>6. \A i \in Indexes :
          backup'[i] = IF i = h THEN backup[h - 1] ELSE IF i = h - 1 THEN NONE ELSE backup[i]
    BY <1>a, <2>1, <2>2, <2>4
  <2>7. \A i, j \in Indexes : (i < j /\ i # h - 1 /\ backup'[j] # NONE) => backup'[i] # NONE
    <3> SUFFICES ASSUME NEW i \in Indexes, NEW j \in Indexes, i < j, i # h - 1, backup'[j] # NONE
                 PROVE  backup'[i] # NONE
      OBVIOUS
    <3>1. CASE i = h
      BY <1>c, <2>1, <2>4, <2>6, <3>1
    <3>2. CASE i # h
      BY <1>c, <2>1, <2>4, <2>6, <3>2
    <3> QED
      BY <3>1, <3>2
  <2>8. NoGaps(t)'
    BY <2>1, <2>5, <2>6, <2>7 DEF NoGaps
  <2> QED
    BY <1>b, <1>d, <2>1, <2>2, <2>3, <2>8 DEF LiveFile
<1>14. CASE Reconfigure
  BY <1>b, <1>d, <1>14 DEF Reconfigure, CloseAppender, NoGaps, LiveFile
<1>15. ASSUME Crash PROVE FALSE
  BY <1>b, <1>15 DEF Crash
<1>16. CASE UNCHANGED vars
  BY <1>b, <1>d, <1>16 DEF vars, NoGaps, LiveFile
<1> QED
  BY <1>a, <1>1, <1>2, <1>3, <1>4, <1>5, <1>6, <1>7, <1>8, <1>9, <1>10, <1>11, <1>12, <1>13,
     <1>14, <1>15, <1>16 DEF Next, Work

\* The directory is empty at first.
LEMMA InitQuietInv ==
  ASSUME NEW t, OneThread(t)
  PROVE  Init => QuietInv(t)
<1> SUFFICES ASSUME Init PROVE QuietInv(t)
  OBVIOUS
<1>1. IInv
  BY InitIInv
<1>2. BackupsInAgeOrder
  BY DEF Init, BackupsInAgeOrder
<1>3. NoGaps(t) /\ LiveFile(t)
  BY MaxBackupIndexAssumption DEF Init, OneThread, NoGaps, LiveFile, MidRollover, Hole, Indexes
<1> QED
  BY <1>1, <1>2, <1>3 DEF QuietInv, Init

\* With one thread and no faults, every step but the unlink of a rollover keeps
\* every file in the directory: no rename replaces one.
LEMMA OnlyRemoveLastRemoves ==
  ASSUME NEW t, OneThread(t), QuietInv(t), [Next]_vars, ~RemoveLast(t)
  PROVE  Present \subseteq Present'
<1> USE DEF Goto, locals, appender, disk, bounds
<1>a. /\ TypeOK /\ t \in Threads /\ Threads = {t} /\ ~Fault
      /\ backup \in [Indexes -> OrNone(Inodes)]
      /\ pc[t] = "shift" => index[t] > 0
      /\ index[t] \in Indexes
      /\ NoGaps(t) /\ LiveFile(t)
  BY DEF QuietInv, IInv, TypeOK, LocalsOK, OneThread, Fault
<1>b. ASSUME UNCHANGED <<log, backup>> PROVE Present \subseteq Present'
  BY <1>b DEF Present
<1>c. ASSUME OpenAppender PROVE Present \subseteq Present'
  <2>1. backup' = backup /\ (log # NONE => log' = log)
    BY <1>c DEF OpenAppender, CreateIfMissing
  <2> QED
    BY <2>1 DEF Present
<1> HIDE DEF QuietInv, OneThread
<1>1. CASE Format(t) \/ LockAppender(t) \/ CheckRollover(t) \/ WriteSome(t) \/ WriteFails(t)
             \/ SkipWrite(t) \/ UnlockAppender(t) \/ CloseLog(t)
  BY <1>b, <1>1 DEF Format, LockAppender, CheckRollover, WriteSome, WriteFails, SkipWrite,
                    UnlockAppender, CloseLog
<1>2. CASE OpenIfClosed(t) \/ ReopenLog(t)
  BY <1>b, <1>c, <1>2 DEF OpenIfClosed, ReopenLog
<1>3. CASE RenameLog(t)
  <2>1. pc[t] = "rename" /\ log # NONE /\ backup[0] = NONE
    BY <1>a, <1>3 DEF RenameLog, LiveFile, NoGaps, MidRollover, Hole
  <2>2. backup' = [backup EXCEPT ![0] = log]
    BY <1>a, <1>3, <2>1 DEF RenameLog
  <2>3. 0 \in Indexes
    BY MaxBackupIndexAssumption DEF Indexes
  <2>4. \A i \in Indexes : backup'[i] = IF i = 0 THEN log ELSE backup[i]
    BY <1>a, <2>2, <2>3
  <2> QED
    BY <2>1, <2>3, <2>4 DEF Present
<1>4. CASE ShiftBackup(t)
  <2> DEFINE h == index[t]
  <2>1. h \in Indexes /\ h - 1 \in Indexes /\ h # h - 1 /\ pc[t] = "shift"
    BY <1>a, <1>4, MaxBackupIndexAssumption DEF ShiftBackup, Indexes
  <2>2. /\ backup' = IF backup[h - 1] # NONE
                       THEN [backup EXCEPT ![h] = backup[h - 1], ![h - 1] = NONE] ELSE backup
        /\ log' = log
    BY <1>a, <1>4 DEF ShiftBackup
  <2>3. backup[h] = NONE
    BY <1>a, <2>1 DEF NoGaps, MidRollover, Hole
  <2> HIDE DEF h
  <2>4. \A i \in Indexes :
          backup'[i] = IF i = h THEN backup[h - 1] ELSE IF i = h - 1 THEN NONE ELSE backup[i]
    BY <1>a, <2>1, <2>2, <2>3
  <2> QED
    BY <2>1, <2>2, <2>3, <2>4 DEF Present
<1>5. CASE Reconfigure \/ Crash \/ UNCHANGED vars
  BY <1>b, <1>5 DEF Reconfigure, Crash, vars
<1> QED
  BY <1>a, <1>1, <1>2, <1>3, <1>4, <1>5 DEF Next, Work

\* When the one thread unlinks a backup, every index and the live name are in
\* use by files of different ages, and it unlinks the oldest.
LEMMA RemoveLastRemovesOldest ==
  ASSUME NEW t, OneThread(t), QuietInv(t), RemoveLast(t)
  PROVE  \A f \in Present \ Present' :
           /\ f = backup[MaxBackupIndex]
           /\ \A g \in Present : f <= g
           /\ Cardinality(Present) > MaxBackupIndex + 1
<1> SUFFICES ASSUME NEW f \in Present \ Present'
             PROVE  /\ f = backup[MaxBackupIndex]
                    /\ \A g \in Present : f <= g
                    /\ Cardinality(Present) > MaxBackupIndex + 1
  OBVIOUS
<1> DEFINE m == MaxBackupIndex
<1>a. /\ backup \in [Indexes -> OrNone(Inodes)]
      /\ log \in OrNone(Inodes)
      /\ Len(size) \in Nat
      /\ NoGaps(t) /\ LiveFile(t) /\ BackupsInAgeOrder
      /\ pc[t] = "remove"
  BY DEF QuietInv, IInv, TypeOK, OneThread, RemoveLast
<1>b. /\ m \in Nat /\ m \in Indexes
      /\ \A i \in Indexes : i \in Nat /\ i <= m
      /\ NONE \notin Inodes
  BY <1>a, MaxBackupIndexAssumption, NoneAssumption DEF Indexes, Inodes
<1>1. log' = log /\ (backup' = [backup EXCEPT ![m] = NONE] \/ backup' = backup)
  BY DEF RemoveLast
<1>2. \A i \in Indexes : i # m => backup'[i] = backup[i]
  BY <1>a, <1>1
<1> HIDE DEF m
<1>3. f = backup[m] /\ backup[m] # NONE
  BY <1>1, <1>2 DEF Present
<1>4. log # NONE /\ log \in Inodes
  BY <1>a DEF LiveFile, OrNone
<1>5. \A i \in Indexes : backup[i] \in Inodes
  <2>1. \A i \in Indexes : backup[i] # NONE
    BY <1>a, <1>b, <1>3 DEF NoGaps, MidRollover
  <2> QED
    BY <1>a, <2>1 DEF OrNone
<1>6. \A i, j \in Indexes : i < j => backup[j] < backup[i]
  BY <1>a, <1>b, <1>5 DEF BackupsInAgeOrder
<1>7. \A i \in Indexes : backup[i] < log
  BY <1>a, <1>b, <1>4, <1>5 DEF BackupsInAgeOrder
<1>8. \A i \in Inodes : i \in Nat
  BY DEF Inodes
<1>9. ASSUME NEW g \in Present PROVE f <= g
  <2>1. CASE g = log
    BY <1>b, <1>3, <1>4, <1>5, <1>7, <1>8, <2>1
  <2>2. CASE g # log
    <3>1. PICK i \in Indexes : g = backup[i]
      BY <2>2 DEF Present
    <3>2. i = m \/ i < m
      BY <1>b
    <3> QED
      BY <1>b, <1>3, <1>5, <1>6, <1>8, <3>1, <3>2
  <2> QED
    BY <2>1, <2>2
<1>10. Cardinality(Present) > m + 1
  <2> DEFINE D == 0..(m + 1)
             name == [i \in D |-> IF i = m + 1 THEN log ELSE backup[i]]
  <2>1. \A i \in D : i # m + 1 => i \in Indexes
    BY <1>b DEF Indexes, m
  <2>2. name \in [D -> Present]
    BY <1>b, <1>4, <1>5, <2>1 DEF Present
  <2>3. \A i, j \in D : i < j => name[j] # name[i]
    <3> SUFFICES ASSUME NEW i \in D, NEW j \in D, i < j PROVE name[j] # name[i]
      OBVIOUS
    <3>1. i \in Indexes /\ name[i] = backup[i]
      BY <1>b, <2>1
    <3>2. CASE j = m + 1
      BY <1>4, <1>5, <1>7, <1>8, <3>1, <3>2
    <3>3. CASE j # m + 1
      BY <1>5, <1>6, <1>8, <2>1, <3>1, <3>3
    <3> QED
      BY <3>2, <3>3
  <2>4. name \in Injection(D, Present)
    <3>1. \A i, j \in D : i < j \/ j < i \/ i = j
      BY <1>b
    <3> HIDE DEF name, D
    <3> QED
      BY <2>2, <2>3, <3>1 DEF Injection, IsInjective
  <2>5. IsFiniteSet(Present)
    <3>1. Present \in SUBSET Inodes
      BY <1>a DEF Present, OrNone
    <3>2. IsFiniteSet(Inodes)
      BY <1>a, FS_Interval DEF Inodes
    <3> QED
      BY <3>1, <3>2, FS_Subset
  <2>6. Cardinality(D) = m + 2
    BY <1>b, FS_Interval
  <2>7. Cardinality(D) <= Cardinality(Present) /\ Cardinality(Present) \in Nat
    BY <2>4, <2>5, FS_Injection, FS_CardinalityType
  <2> QED
    BY <1>b, <2>6, <2>7
<1> QED
  BY <1>3, <1>9, <1>10 DEF m

\* When one thread logs and nothing fails, its rollovers leave no gaps between
\* the backups, and a live file.
THEOREM QuietInvCorrect ==
  ASSUME NEW t, OneThread(t)
  PROVE  Spec => []QuietInv(t)
BY InitQuietInv, NextQuietInv, PTL DEF Spec

\* When one thread logs and nothing fails, what leaves the directory is the
\* oldest generation, and only when there are more than MaxBackupIndex backups
\* beside the live file, whatever their number is and whenever the appender is
\* reconfigured.
THEOREM OnlyOldestRemovedCorrect ==
  ASSUME NEW t, OneThread(t)
  PROVE  Spec => OnlyOldestRemoved
<1>1. QuietInv(t) /\ [Next]_vars =>
        [\A f \in Present \ Present' :
           /\ \A g \in Present : f <= g
           /\ Cardinality(Present) > MaxBackupIndex + 1]_vars
  BY OnlyRemoveLastRemoves, RemoveLastRemovesOldest
<1> QED
  BY <1>1, QuietInvCorrect, PTL DEF Spec, OnlyOldestRemoved

\* Under the same conditions a backup leaves the directory only from the last
\* index, as the comment in complete_rollover says.
THEOREM OnlyLastBackupRemovedCorrect ==
  ASSUME NEW t, OneThread(t)
  PROVE  Spec => OnlyLastBackupRemoved
<1>1. QuietInv(t) /\ [Next]_vars =>
        [\A f \in Present \ Present' : f = backup[MaxBackupIndex]]_vars
  BY OnlyRemoveLastRemoves, RemoveLastRemovesOldest
<1> QED
  BY <1>1, QuietInvCorrect, PTL DEF Spec, OnlyLastBackupRemoved

-----------------------------------------------------------------------------
(* What a step does to the files *)

\* No byte is written: new files are empty and the old ones are what they were.
NothingWritten ==
  /\ Inodes \subseteq Inodes'
  /\ \A i \in Inodes : runs'[i] = runs[i] /\ size'[i] = size[i]
  /\ \A i \in Inodes' \ Inodes : runs'[i] = << >> /\ size'[i] = 0

\* Only write() writes.
LEMMA OnlyWriteWrites ==
  ASSUME TypeOK, [Next]_vars, \A t \in Threads : ~WriteSome(t)
  PROVE  NothingWritten
<1> USE DEF disk, Inodes
<1>0. Len(size) \in Nat /\ Len(runs) = Len(size) /\ size \in Seq(Nat) /\ runs \in Seq(Seq(Run))
  BY DEF TypeOK
<1>1. ASSUME UNCHANGED <<size, runs>> PROVE NothingWritten
  BY <1>1 DEF NothingWritten
<1>2. ASSUME CreateIfMissing PROVE NothingWritten
  <2>1. CASE log # NONE
    BY <1>1, <1>2, <2>1 DEF CreateIfMissing
  <2>2. CASE log = NONE
    <3>1. size' = Append(size, 0) /\ runs' = Append(runs, << >>)
      BY <1>2, <2>2 DEF CreateIfMissing
    <3>2. /\ Len(size') = Len(size) + 1
          /\ \A i \in 1..Len(size) : size'[i] = size[i]
          /\ size'[Len(size) + 1] = 0
      BY <1>0, <3>1, AppendProperties
    <3>3. /\ \A i \in 1..Len(runs) : runs'[i] = runs[i]
          /\ runs'[Len(runs) + 1] = << >>
      <4>1. << >> \in Seq(Run)
        OBVIOUS
      <4> QED
        BY <1>0, <3>1, <4>1, AppendProperties
    <3> QED
      BY <1>0, <3>2, <3>3 DEF NothingWritten
  <2> QED
    BY <2>1, <2>2
<1>3. ASSUME OpenAppender PROVE NothingWritten
  BY <1>1, <1>2, <1>3 DEF OpenAppender
<1>4. ASSUME NEW t \in Threads, Format(t) \/ Work(t) PROVE NothingWritten
  BY <1>1, <1>3, <1>4 DEF Work, Format, LockAppender, OpenIfClosed, CheckRollover, WriteFails,
     SkipWrite, UnlockAppender, RenameLog, CloseLog, ReopenLog, RemoveLast, ShiftBackup
<1>5. CASE Reconfigure \/ Crash \/ UNCHANGED vars
  BY <1>1, <1>5 DEF Reconfigure, Crash, vars
<1> QED
  BY <1>4, <1>5 DEF Next

-----------------------------------------------------------------------------
(* Records *)

\* The file that is open and the file with the log's name are the newest.
Newest ==
  /\ fd # NONE => fd = Len(size)
  /\ log # NONE => log = Len(size)

\* Nothing of the message in hand is in a file yet.
Unwritten(t) ==
  \/ pc[t] \in {"lock", "open", "check", "rename", "close", "reopen"}
  \/ pc[t] = "write" /\ written[t] = 0

\* What a thread has in the files: whole or partial records, none newer than
\* the message it is logging, and none of that one before it is written.
Written(t) ==
  \A i \in Inodes : \A a \in DOMAIN runs[i] :
    LET r == runs[i][a] IN
    r.by = t =>
      /\ r.bytes <= r.len
      /\ r.n <= sent[t]
      /\ Unwritten(t) => r.n < sent[t]

\* The record that the owner of the lock is writing is the last one of the
\* open file, and has all that was written of the message.
Writing(t) ==
  /\ pc[t] \in {"lock"} \union Locked => msg[t].n = sent[t]
  /\ (pc[t] = "write" /\ written[t] > 0) =>
       /\ fd # NONE
       /\ Len(runs[fd]) > 0
       /\ runs[fd][Len(runs[fd])] =
            [by |-> t, n |-> sent[t], len |-> msg[t].len, bytes |-> written[t]]

RecordInv == Newest /\ \A t \in Threads : Written(t) /\ Writing(t)

\* write() adds a record to the open file, or completes the last one of it.
LEMMA WriteSomeEffect ==
  ASSUME IInv, RecordInv, NEW t \in Threads, WriteSome(t)
  PROVE  \E k \in 1..(msg[t].len - written[t]) :
           LET len == msg[t].len
               old == runs[fd]
               new == runs'[fd] IN
           /\ fd \in Inodes /\ fd' = fd /\ Inodes' = Inodes
           /\ \A i \in Inodes \ {fd} : runs'[i] = runs[i] /\ size'[i] = size[i]
           /\ size'[fd] = size[fd] + k
           /\ written' = [written EXCEPT ![t] = written[t] + k]
           /\ Len(new) = IF written[t] = 0 THEN Len(old) + 1 ELSE Len(old)
           /\ Len(new) > 0
           /\ new[Len(new)] = [by |-> t, n |-> sent[t], len |-> len, bytes |-> written[t] + k]
           /\ \A a \in 1..(Len(new) - 1) : a \in 1..Len(old) /\ new[a] = old[a]
           /\ pc' = IF written[t] + k = len THEN [pc EXCEPT ![t] = "unlock"] ELSE pc
<1> USE DEF Inodes
<1>a. PICK k \in 1..(msg[t].len - written[t]) :
        /\ written' = [written EXCEPT ![t] = @ + k]
        /\ size' = [size EXCEPT ![fd] = @ + k]
        /\ runs' = [runs EXCEPT ![fd] = Extend(@, t, msg[t], k)]
        /\ IF written[t] + k = msg[t].len
             THEN /\ pc' = [pc EXCEPT ![t] = "unlock"]
                  /\ filesize' = filesize + msg[t].len
             ELSE UNCHANGED <<pc, filesize>>
  BY DEF WriteSome
<1>b. /\ pc[t] = "write" /\ fd' = fd /\ fd # NONE
      /\ size \in Seq(Nat) /\ runs \in Seq(Seq(Run)) /\ Len(runs) = Len(size)
      /\ written \in [Threads -> Nat] /\ msg[t] \in Message /\ sent[t] \in Nat
      /\ fd \in 1..Len(size)
  BY DEF WriteSome, IsOpen, IInv, TypeOK, OrNone
<1>c. msg[t].len \in Nat /\ msg[t].n = sent[t] /\ k \in Nat /\ written[t] \in Nat
  <2>1. Writing(t)
    BY DEF RecordInv
  <2>2. msg[t].n = sent[t]
    BY <1>b, <2>1 DEF Writing, Locked
  <2>3. msg[t].len \in Nat
    BY <1>b DEF Message
  <2> QED
    BY <1>b, <2>2, <2>3
<1> DEFINE len == msg[t].len
           old == runs[fd]
           new == runs'[fd]
           rec == [by |-> t, n |-> sent[t], len |-> len, bytes |-> written[t] + k]
<1>d. old \in Seq(Run)
  BY <1>b, ElementOfSeq
<1>e. Len(old) \in Nat /\ \A a \in 1..Len(old) : old[a] \in Run
  BY <1>d, ElementOfSeq
<1>1. /\ Len(size') = Len(size)
      /\ \A i \in Inodes \ {fd} : runs'[i] = runs[i] /\ size'[i] = size[i]
      /\ size'[fd] = size[fd] + k
      /\ new = Extend(old, t, msg[t], k)
  BY <1>a, <1>b
<1>2. pc' = IF written[t] + k = len THEN [pc EXCEPT ![t] = "unlock"] ELSE pc
  BY <1>a
<1>3. /\ Len(new) = IF written[t] = 0 THEN Len(old) + 1 ELSE Len(old)
      /\ Len(new) > 0
      /\ new[Len(new)] = rec
      /\ \A a \in 1..(Len(new) - 1) : a \in 1..Len(old) /\ new[a] = old[a]
  <2>1. CASE written[t] = 0
    <3>1. \A a \in 1..Len(old) : old[a].by = t => old[a].n < sent[t]
      BY <1>b, <2>1 DEF RecordInv, Written, Unwritten
    <3>2. ~(Len(old) > 0 /\ old[Len(old)].by = t /\ old[Len(old)].n = msg[t].n)
      <4> SUFFICES ASSUME Len(old) > 0, old[Len(old)].by = t, old[Len(old)].n = msg[t].n
                   PROVE  FALSE
        OBVIOUS
      <4>1. Len(old) \in 1..Len(old)
        BY <1>e
      <4>2. old[Len(old)].n < sent[t]
        BY <3>1, <4>1
      <4> HIDE DEF old
      <4> QED
        BY <1>b, <1>c, <4>2
    <3>3. new = Append(old, rec)
      BY <1>1, <1>c, <2>1, <3>2 DEF Extend
    <3> HIDE DEF new, old
    <3>4. rec \in Run
      BY <1>b, <1>c DEF Run
    <3> HIDE DEF rec
    <3>5. /\ Len(new) = Len(old) + 1
          /\ \A a \in 1..Len(old) : new[a] = old[a]
          /\ new[Len(old) + 1] = rec
      BY <1>d, <3>3, <3>4, AppendProperties
    <3> QED
      BY <1>e, <2>1, <3>5
  <2>2. CASE written[t] > 0
    <3>1. /\ Len(old) > 0
          /\ old[Len(old)] = [by |-> t, n |-> sent[t], len |-> len, bytes |-> written[t]]
      BY <1>b, <2>2 DEF RecordInv, Writing
    <3>2. new = [old EXCEPT ![Len(old)].bytes = @ + k]
      BY <1>1, <1>c, <3>1 DEF Extend
    <3> HIDE DEF new, old
    <3>3. Len(new) = Len(old) /\ \A a \in 1..(Len(old) - 1) : new[a] = old[a]
      BY <1>d, <1>e, <3>2
    <3>4. new[Len(old)] = [old[Len(old)] EXCEPT !.bytes = @ + k]
      BY <1>d, <1>e, <3>1, <3>2
    <3>5. new[Len(old)] = rec
      BY <3>1, <3>4
    <3> QED
      BY <1>e, <2>2, <3>1, <3>3, <3>5
  <2> QED
    BY <1>c, <2>1, <2>2
<1> QED
  BY <1>a, <1>b, <1>1, <1>2, <1>3

\* A step that writes nothing leaves a record in the making alone: the message
\* of a thread changes only when it logs the next one, and the descriptor is
\* not touched while the owner of the lock is writing.
LEMMA LocalsStep ==
  ASSUME IInv, [Next]_vars, \A t \in Threads : ~WriteSome(t), NEW u \in Threads
  PROVE  /\ sent[u] \in Nat /\ sent'[u] \in Nat /\ sent[u] <= sent'[u]
         /\ Unwritten(u)' => Unwritten(u) \/ sent[u] < sent'[u]
         /\ pc'[u] \in {"lock"} \union Locked =>
              \/ /\ pc[u] \in {"lock"} \union Locked
                 /\ msg'[u] = msg[u] /\ sent'[u] = sent[u]
              \/ msg'[u].n = sent'[u]
         /\ (pc'[u] = "write" /\ written'[u] > 0) =>
              /\ pc[u] = "write" /\ written'[u] = written[u] /\ fd' = fd
              /\ msg'[u] = msg[u] /\ sent'[u] = sent[u]
<1> DEFINE Goal ==
      /\ sent[u] \in Nat /\ sent'[u] \in Nat /\ sent[u] <= sent'[u]
      /\ Unwritten(u)' => Unwritten(u) \/ sent[u] < sent'[u]
      /\ pc'[u] \in {"lock"} \union Locked =>
           \/ /\ pc[u] \in {"lock"} \union Locked
              /\ msg'[u] = msg[u] /\ sent'[u] = sent[u]
           \/ msg'[u].n = sent'[u]
      /\ (pc'[u] = "write" /\ written'[u] > 0) =>
           /\ pc[u] = "write" /\ written'[u] = written[u] /\ fd' = fd
           /\ msg'[u] = msg[u] /\ sent'[u] = sent[u]
<1> USE DEF Unwritten, Locked, Goto, locals, appender, bounds
<1>a. /\ pc \in [Threads -> Locked \union Unlocked]
      /\ msg \in [Threads -> Message]
      /\ written \in [Threads -> Nat]
      /\ sent \in [Threads -> Nat]
      /\ \A t \in Threads : pc[t] \in Locked <=> lock = t
      /\ \A t \in Threads :
           pc[t] \in {"lock", "open", "check", "rename", "close", "reopen"} => written[t] = 0
  BY DEF IInv, TypeOK, LockDiscipline, LocalsOK
<1> HIDE DEF IInv
<1>1. ASSUME NEW t \in Threads, Format(t) PROVE Goal
  <2>1. PICK len \in MsgLens : msg' = [msg EXCEPT ![t] = [n |-> sent[t] + 1, len |-> len]]
    BY <1>1 DEF Format
  <2>2. msg'[t].n = sent[t] + 1
    BY <1>a, <2>1
  <2> QED
    BY <1>a, <1>1, <2>1, <2>2 DEF Format
<1>2. ASSUME NEW t \in Threads, LockAppender(t) PROVE Goal
  BY <1>a, <1>2 DEF LockAppender
<1>3. ASSUME NEW t \in Threads, OpenIfClosed(t) PROVE Goal
  BY <1>a, <1>3 DEF OpenIfClosed
<1>4. ASSUME NEW t \in Threads, CheckRollover(t) PROVE Goal
  <2>1. pc'[t] \in {"rename", "write"} /\ pc' = [pc EXCEPT ![t] = pc'[t]] /\ pc[t] = "check"
    BY <1>a, <1>4 DEF CheckRollover
  <2>2. UNCHANGED <<msg, written, fd, sent>>
    BY <1>4 DEF CheckRollover
  <2> QED
    BY <1>a, <2>1, <2>2
<1>6. ASSUME NEW t \in Threads, WriteFails(t) PROVE Goal
  BY <1>a, <1>6 DEF WriteFails
<1>7. ASSUME NEW t \in Threads, SkipWrite(t) PROVE Goal
  BY <1>a, <1>7 DEF SkipWrite
<1>8. ASSUME NEW t \in Threads, UnlockAppender(t) PROVE Goal
  <2>1. pc'[t] \in {"remove", "idle"} /\ pc' = [pc EXCEPT ![t] = pc'[t]]
    BY <1>a, <1>8 DEF UnlockAppender
  <2>2. UNCHANGED <<msg, written, fd, sent>>
    BY <1>8 DEF UnlockAppender
  <2> QED
    BY <1>a, <2>1, <2>2
<1>9. ASSUME NEW t \in Threads, RenameLog(t) PROVE Goal
  BY <1>a, <1>9 DEF RenameLog
<1>10. ASSUME NEW t \in Threads, CloseLog(t) PROVE Goal
  BY <1>a, <1>10 DEF CloseLog
<1>11. ASSUME NEW t \in Threads, ReopenLog(t) PROVE Goal
  BY <1>a, <1>11 DEF ReopenLog
<1>12. ASSUME NEW t \in Threads, NEW i, ContinueShift(t, i), pc[t] \in {"remove", "shift"},
              UNCHANGED <<msg, written, appender, sent>>
       PROVE  Goal
  <2>1. pc'[t] \in {"shift", "idle"} /\ pc' = [pc EXCEPT ![t] = pc'[t]]
    BY <1>a, <1>12 DEF ContinueShift
  <2> QED
    BY <1>a, <1>12, <2>1
<1>13. ASSUME NEW t \in Threads, RemoveLast(t) \/ ShiftBackup(t) PROVE Goal
  BY <1>12, <1>13 DEF RemoveLast, ShiftBackup
<1>14. CASE Reconfigure
  BY <1>a, <1>14, NoneAssumption DEF Reconfigure
<1>15. CASE Crash
  BY <1>a, <1>15 DEF Crash
<1>16. CASE UNCHANGED vars
  BY <1>a, <1>16 DEF vars
<1>17. Goal
  BY <1>1, <1>2, <1>3, <1>4, <1>6, <1>7, <1>8, <1>9, <1>10, <1>11, <1>13, <1>14, <1>15, <1>16
  DEF Next, Work
<1> QED
  BY <1>17

\* No step makes an older file the log or opens one.
LEMMA NextNewest == IInv /\ Newest /\ [Next]_vars => Newest'
<1> SUFFICES ASSUME IInv, Newest, [Next]_vars PROVE Newest'
  OBVIOUS
<1> USE DEF appender, disk
<1>a. TypeOK /\ Len(size) \in Nat
  BY DEF IInv, TypeOK
<1>1. ASSUME Len(size') = Len(size), fd' \in {fd, NONE}, log' \in {log, NONE} PROVE Newest'
  BY <1>1 DEF Newest
<1>2. ASSUME OpenAppender, fd = NONE PROVE Newest'
  <2>1. ASSUME CreateIfMissing PROVE log' = Len(size')
    BY <1>a, <2>1, AppendProperties DEF CreateIfMissing, Newest, TypeOK
  <2> QED
    BY <1>1, <1>2, <2>1 DEF OpenAppender, Newest
<1>3. ASSUME NEW t \in Threads, OpenIfClosed(t) \/ ReopenLog(t) PROVE Newest'
  <2>1. ReopenLog(t) => fd = NONE
    BY DEF IInv, ReopensClosed, ReopenLog, Goto
  <2> QED
    BY <1>1, <1>2, <1>3, <2>1 DEF OpenIfClosed, IsOpen, ReopenLog
<1>4. ASSUME NEW t \in Threads, WriteSome(t) PROVE Newest'
  <2>1. Len(size') = Len(size)
    BY <1>a, <1>4 DEF WriteSome, TypeOK
  <2> QED
    BY <1>1, <1>4, <2>1 DEF WriteSome
<1>5. ASSUME NEW t \in Threads, Format(t) \/ Work(t), ~OpenIfClosed(t), ~ReopenLog(t), ~WriteSome(t)
      PROVE  Newest'
  BY <1>1, <1>5 DEF Work, Format, LockAppender, CheckRollover, WriteFails, SkipWrite,
     UnlockAppender, RenameLog, CloseLog, CloseAppender, RemoveLast, ShiftBackup
<1>6. CASE Reconfigure \/ Crash \/ UNCHANGED vars
  BY <1>1, <1>6 DEF Reconfigure, CloseAppender, Crash, vars
<1> QED
  BY <1>3, <1>4, <1>5, <1>6 DEF Next, Work

\* There is no file and no message at first.
LEMMA InitRecordInv == Init => RecordInv
<1> SUFFICES ASSUME Init PROVE RecordInv
  OBVIOUS
<1>1. Newest
  BY DEF Init, Newest
<1>2. ASSUME NEW t \in Threads PROVE Written(t) /\ Writing(t)
  BY <1>2 DEF Init, Written, Writing, Inodes, Locked
<1> QED
  BY <1>1, <1>2 DEF RecordInv

\* Every step keeps what is known of the record in hand: where it ends, and that
\* nobody writes behind it while it is incomplete.
LEMMA NextRecordInv == IInv /\ RecordInv /\ [Next]_vars => RecordInv'
<1> SUFFICES ASSUME IInv, RecordInv, [Next]_vars PROVE RecordInv'
  OBVIOUS
<1>a. Newest'
  BY NextNewest DEF RecordInv
<1>b. IInv'
  BY NextIInv
<1>c. /\ runs \in Seq(Seq(Run)) /\ Len(runs) = Len(size)
      /\ runs' \in Seq(Seq(Run)) /\ Len(runs') = Len(size')
      /\ sent \in [Threads -> Nat] /\ written \in [Threads -> Nat]
      /\ pc \in [Threads -> Locked \union Unlocked]
      /\ msg \in [Threads -> Message]
  BY <1>b DEF IInv, TypeOK
<1>d. /\ \A i \in Inodes : \A a \in DOMAIN runs[i] : runs[i][a] \in Run
      /\ \A i \in Inodes' : \A a \in DOMAIN runs'[i] : runs'[i][a] \in Run
  BY <1>c DEF Inodes
<1>1. ASSUME \A t \in Threads : ~WriteSome(t), NEW u \in Threads
      PROVE  Written(u)' /\ Writing(u)'
  <2>1. NothingWritten
    BY <1>1, OnlyWriteWrites DEF IInv
  <2>2. /\ sent[u] \in Nat /\ sent'[u] \in Nat /\ sent[u] <= sent'[u]
        /\ Unwritten(u)' => Unwritten(u) \/ sent[u] < sent'[u]
        /\ pc'[u] \in {"lock"} \union Locked =>
             \/ /\ pc[u] \in {"lock"} \union Locked
                /\ msg'[u] = msg[u] /\ sent'[u] = sent[u]
             \/ msg'[u].n = sent'[u]
        /\ (pc'[u] = "write" /\ written'[u] > 0) =>
             /\ pc[u] = "write" /\ written'[u] = written[u] /\ fd' = fd
             /\ msg'[u] = msg[u] /\ sent'[u] = sent[u]
    BY <1>1, LocalsStep
  <2>3. Written(u) /\ Writing(u)
    BY DEF RecordInv
  <2>4. Written(u)'
    <3> SUFFICES ASSUME NEW i \in Inodes', NEW a \in DOMAIN runs'[i], runs'[i][a].by = u
                 PROVE  LET r == runs'[i][a] IN
                        /\ r.bytes <= r.len
                        /\ r.n <= sent'[u]
                        /\ Unwritten(u)' => r.n < sent'[u]
      BY DEF Written
    <3>1. i \in Inodes /\ runs'[i] = runs[i]
      BY <2>1 DEF NothingWritten
    <3>2. runs[i][a] \in Run
      BY <1>d, <3>1
    <3>3. runs[i][a].n \in Nat
      BY <3>2 DEF Run
    <3>4. LET r == runs[i][a] IN
          r.bytes <= r.len /\ r.n <= sent[u] /\ (Unwritten(u) => r.n < sent[u])
      BY <2>3, <3>1 DEF Written
    <3> QED
      BY <2>2, <3>1, <3>3, <3>4
  <2>5. Writing(u)'
    <3>1. pc'[u] \in {"lock"} \union Locked => msg'[u].n = sent'[u]
      BY <2>2, <2>3 DEF Writing
    <3>2. ASSUME pc'[u] = "write", written'[u] > 0
          PROVE  /\ fd' # NONE
                 /\ Len(runs'[fd']) > 0
                 /\ runs'[fd'][Len(runs'[fd'])] =
                      [by |-> u, n |-> sent'[u], len |-> msg'[u].len, bytes |-> written'[u]]
      <4>1. fd' = fd /\ fd # NONE /\ Len(runs[fd]) > 0
            /\ runs[fd][Len(runs[fd])] =
                [by |-> u, n |-> sent'[u], len |-> msg'[u].len, bytes |-> written'[u]]
        BY <2>2, <2>3, <3>2 DEF Writing
      <4>2. runs'[fd] = runs[fd]
        BY <2>1, <4>1 DEF NothingWritten, IInv, TypeOK, OrNone
      <4> QED
        BY <4>1, <4>2
    <3> QED
      BY <3>1, <3>2 DEF Writing
  <2> QED
    BY <2>4, <2>5
<1>2. ASSUME NEW t \in Threads, WriteSome(t), NEW u \in Threads
      PROVE  Written(u)' /\ Writing(u)'
  <2>1. PICK k \in 1..(msg[t].len - written[t]) :
           LET len == msg[t].len
               old == runs[fd]
               new == runs'[fd] IN
           /\ fd \in Inodes /\ fd' = fd /\ Inodes' = Inodes
           /\ \A i \in Inodes \ {fd} : runs'[i] = runs[i] /\ size'[i] = size[i]
           /\ size'[fd] = size[fd] + k
           /\ written' = [written EXCEPT ![t] = written[t] + k]
           /\ Len(new) = IF written[t] = 0 THEN Len(old) + 1 ELSE Len(old)
           /\ Len(new) > 0
           /\ new[Len(new)] = [by |-> t, n |-> sent[t], len |-> len, bytes |-> written[t] + k]
           /\ \A a \in 1..(Len(new) - 1) : a \in 1..Len(old) /\ new[a] = old[a]
           /\ pc' = IF written[t] + k = len THEN [pc EXCEPT ![t] = "unlock"] ELSE pc
    BY <1>2, WriteSomeEffect
  <2>2. /\ msg' = msg /\ sent' = sent /\ pc[t] = "write" /\ fd # NONE
        /\ t # u => pc[u] # "write" /\ pc'[u] = pc[u] /\ written'[u] = written[u]
        /\ pc'[t] \in {"write", "unlock"}
    BY <1>2, <1>c, <2>1 DEF WriteSome, IsOpen, bounds, IInv, LockDiscipline, Locked
  <2>3. /\ written[t] \in Nat /\ k \in Nat /\ msg[t].len \in Nat
        /\ 0 < k /\ written[t] + k <= msg[t].len /\ sent[u] \in Nat /\ sent[t] \in Nat
    <3>1. msg[t].len \in Nat
      BY <1>c DEF Message
    <3> QED
      BY <1>c, <3>1
  <2>4. Written(u) /\ Writing(u) /\ Writing(t)
    BY DEF RecordInv
  <2>5. Unwritten(u)' => Unwritten(u) /\ u # t
    BY <1>c, <2>1, <2>2, <2>3 DEF Unwritten
  <2>6. Len(runs'[fd]) \in Nat /\ DOMAIN runs'[fd] = 1..Len(runs'[fd])
    <3>1. fd \in Inodes'
      BY <2>1
    <3>2. runs'[fd] \in Seq(Run)
      BY <1>c, <3>1 DEF Inodes
    <3> QED
      BY <3>2
  <2>7. Written(u)'
    <3> SUFFICES ASSUME NEW i \in Inodes', NEW a \in DOMAIN runs'[i], runs'[i][a].by = u
                 PROVE  LET r == runs'[i][a] IN
                        /\ r.bytes <= r.len
                        /\ r.n <= sent'[u]
                        /\ Unwritten(u)' => r.n < sent'[u]
      BY DEF Written
    <3>1. CASE i = fd /\ a = Len(runs'[fd])
      <4>1. runs'[i][a] = [by |-> t, n |-> sent[t], len |-> msg[t].len, bytes |-> written[t] + k]
        BY <2>1, <3>1
      <4>2. u = t
        BY <4>1
      <4> QED
        BY <2>2, <2>3, <2>5, <4>1, <4>2
    <3>2. CASE ~(i = fd /\ a = Len(runs'[fd]))
      <4>1. i \in Inodes /\ a \in DOMAIN runs[i] /\ runs'[i][a] = runs[i][a]
        <5>1. CASE i # fd
          BY <2>1, <5>1
        <5>2. CASE i = fd
          <6>1. a \in 1..(Len(runs'[fd]) - 1)
            BY <2>6, <3>2, <5>2
          <6>2. a \in 1..Len(runs[fd])
            BY <2>1, <6>1
          <6>3. DOMAIN runs[fd] = 1..Len(runs[fd])
            <7>1. runs[fd] \in Seq(Run)
              BY <1>c, <2>1 DEF Inodes
            <7> QED
              BY <7>1
          <6> QED
            BY <2>1, <5>2, <6>1, <6>2, <6>3
        <5> QED
          BY <5>1, <5>2
      <4> QED
        BY <2>2, <2>4, <2>5, <4>1 DEF Written
    <3> QED
      BY <3>1, <3>2
  <2>8. Writing(u)'
    <3>1. CASE u = t
      <4>1. msg'[t].n = sent'[t]
        BY <2>2, <2>4 DEF Writing, Locked
      <4>2. written'[t] = written[t] + k
        BY <1>c, <2>1
      <4> QED
        BY <2>1, <2>2, <3>1, <4>1, <4>2 DEF Writing
    <3>2. CASE u # t
      BY <2>2, <2>4, <3>2 DEF Writing
    <3> QED
      BY <3>1, <3>2
  <2> QED
    BY <2>7, <2>8
<1> QED
  BY <1>a, <1>1, <1>2 DEF RecordInv

\* The record being written is the last one of the newest file.
THEOREM RecordInvCorrect == Spec => []RecordInv
BY InitRecordInv, NextRecordInv, IInvCorrect, PTL DEF Spec

\* A write() appends to the record in hand or begins one behind all others, so
\* the records of each thread stay in order and in one piece.
LEMMA NextMessagesInOrder ==
  IInv /\ RecordInv /\ MessagesInOrder /\ [Next]_vars => MessagesInOrder'
<1> SUFFICES ASSUME IInv, RecordInv, MessagesInOrder, [Next]_vars PROVE MessagesInOrder'
  OBVIOUS
<1>b. IInv' /\ RecordInv'
  BY NextIInv, NextRecordInv
<1>c. /\ runs \in Seq(Seq(Run)) /\ Len(runs) = Len(size)
      /\ runs' \in Seq(Seq(Run)) /\ Len(runs') = Len(size')
      /\ sent \in [Threads -> Nat] /\ written \in [Threads -> Nat]
      /\ Len(size) \in Nat
  BY <1>b DEF IInv, TypeOK
<1>1. ASSUME \A t \in Threads : ~WriteSome(t) PROVE MessagesInOrder'
  <2>1. NothingWritten
    BY <1>1, OnlyWriteWrites DEF IInv
  <2>2. \A i \in Inodes' : \A a \in DOMAIN runs'[i] : i \in Inodes /\ runs'[i] = runs[i]
    BY <2>1 DEF NothingWritten
  <2> QED
    BY <2>2 DEF MessagesInOrder
<1>2. ASSUME NEW t \in Threads, WriteSome(t) PROVE MessagesInOrder'
  <2> DEFINE old == runs[fd]
             new == runs'[fd]
             Last(i, a) == i = fd /\ a = Len(new)
  <2>1. PICK k \in 1..(msg[t].len - written[t]) :
           /\ fd \in Inodes /\ fd' = fd /\ Inodes' = Inodes
           /\ \A i \in Inodes \ {fd} : runs'[i] = runs[i] /\ size'[i] = size[i]
           /\ Len(new) = IF written[t] = 0 THEN Len(old) + 1 ELSE Len(old)
           /\ Len(new) > 0
           /\ new[Len(new)] =
                [by |-> t, n |-> sent[t], len |-> msg[t].len, bytes |-> written[t] + k]
           /\ \A a \in 1..(Len(new) - 1) : a \in 1..Len(old) /\ new[a] = old[a]
    <3> HIDE DEF IInv, RecordInv
    <3> QED
      BY <1>2, WriteSomeEffect
  <2>2. sent' = sent /\ pc[t] = "write" /\ fd # NONE /\ fd = Len(size)
    BY <1>2 DEF WriteSome, IsOpen, bounds, RecordInv, Newest
  <2>a. \A i \in Inodes : runs[i] \in Seq(Run) /\ runs'[i] \in Seq(Run)
    <3>1. Inodes = 1..Len(runs) /\ Inodes = 1..Len(runs')
      BY <1>c, <2>1 DEF Inodes
    <3> QED
      BY <1>c, <3>1, ElementOfSeq
  <2>3. Len(new) \in Nat /\ Len(old) \in Nat /\ DOMAIN new = 1..Len(new) /\ DOMAIN old = 1..Len(old)
    BY <2>1, <2>a, LenProperties
  <2>4. Written(t) /\ Writing(t) /\ Written(t)'
    BY <1>b DEF RecordInv
  <2>5. \A i \in Inodes : \A a \in DOMAIN runs'[i] :
          Last(i, a) \/ (a \in DOMAIN runs[i] /\ runs'[i][a] = runs[i][a])
    <3> SUFFICES ASSUME NEW i \in Inodes, NEW a \in DOMAIN runs'[i], ~Last(i, a)
                 PROVE  a \in DOMAIN runs[i] /\ runs'[i][a] = runs[i][a]
      OBVIOUS
    <3>1. CASE i # fd
      BY <2>1, <3>1
    <3>2. CASE i = fd
      <4>1. a \in 1..(Len(new) - 1)
        BY <2>3, <3>2
      <4> QED
        BY <2>1, <2>3, <3>2, <4>1
    <3> QED
      BY <3>1, <3>2
  <2>6. \A i \in Inodes : i <= fd /\ i \in Nat
    BY <1>c, <2>2 DEF Inodes
  <2>7. \A i \in Inodes : \A a \in DOMAIN runs'[i] : a \in Nat /\ (i = fd => a <= Len(new))
    <3>1. \A i \in Inodes : DOMAIN runs'[i] = 1..Len(runs'[i]) /\ Len(runs'[i]) \in Nat
      BY <2>a, LenProperties
    <3>2. ASSUME NEW i \in Inodes, NEW a \in DOMAIN runs'[i]
          PROVE  a \in Nat /\ (i = fd => a <= Len(new))
      <4>1. a \in 1..Len(runs'[i]) /\ Len(runs'[i]) \in Nat
        BY <3>1
      <4> QED
        BY <4>1
    <3> QED
      BY <3>2
  <2>8. ASSUME NEW i \in Inodes, NEW a \in DOMAIN runs'[i] PROVE runs'[i][a].bytes <= runs'[i][a].len
    <3>1. runs'[i][a].by \in Threads
      <4>2. runs'[i][a] \in Run
        BY <2>a
      <4> QED
        BY <4>2 DEF Run
    <3>2. PICK u \in Threads : runs'[i][a].by = u
      BY <3>1
    <3>3. Written(u)'
      BY <1>b DEF RecordInv
    <3> QED
      BY <2>1, <3>2, <3>3 DEF Written
  <2>9. ASSUME NEW i \in Inodes, NEW a \in DOMAIN runs'[i],
               NEW j \in Inodes, NEW b \in DOMAIN runs'[j],
               runs'[i][a].by = runs'[j][b].by, i < j \/ (i = j /\ a < b)
        PROVE  runs'[i][a].n < runs'[j][b].n
    <3>1. ~Last(i, a)
      BY <2>6, <2>7, <2>9, <2>3
    <3>2. a \in DOMAIN runs[i] /\ runs'[i][a] = runs[i][a]
      BY <2>5, <3>1
    <3>3. CASE ~Last(j, b)
      <4>1. b \in DOMAIN runs[j] /\ runs'[j][b] = runs[j][b]
        BY <2>5, <3>3
      <4> QED
        BY <2>9, <3>2, <4>1 DEF MessagesInOrder
    <3>4. CASE Last(j, b)
      <4>1. runs'[j][b].by = t /\ runs'[j][b].n = sent[t]
        BY <2>1, <3>4
      <4>2. CASE written[t] = 0
        <5>1. Unwritten(t)
          BY <2>2, <4>2 DEF Unwritten
        <5>2. runs[i][a].by = t => runs[i][a].n < sent[t]
          BY <2>4, <3>2, <5>1 DEF Written
        <5> QED
          BY <2>9, <3>2, <4>1, <5>2
      <4>3. CASE written[t] # 0
        <5>1. written[t] > 0
          BY <1>c, <4>3
        <5>2. /\ Len(old) > 0 /\ Len(new) = Len(old)
              /\ old[Len(old)] =
                  [by |-> t, n |-> sent[t], len |-> msg[t].len, bytes |-> written[t]]
          BY <2>1, <2>2, <2>4, <4>3, <5>1 DEF Writing
        <5>3. b \in DOMAIN runs[j] /\ runs[j][b].by = t /\ runs[j][b].n = sent[t]
          BY <2>3, <3>4, <5>2
        <5> QED
          BY <2>9, <3>2, <4>1, <5>3 DEF MessagesInOrder
      <4> QED
        BY <4>2, <4>3
    <3> QED
      BY <3>3, <3>4
  <2> HIDE DEF old, new, Last
  <2> QED
    BY <2>1, <2>8, <2>9 DEF MessagesInOrder
<1> QED
  BY <1>1, <1>2

\* The bytes of a record are contiguous in one file, and the records of a thread
\* stand in the order in which it logged them, for any number of threads and
\* every pattern of short and failing writes, rollovers and crashes.
THEOREM MessagesInOrderCorrect == Spec => []MessagesInOrder
<1>1. Init => MessagesInOrder
  BY DEF Init, MessagesInOrder, Inodes
<1> QED
  BY <1>1, NextMessagesInOrder, IInvCorrect, RecordInvCorrect, PTL DEF Spec

-----------------------------------------------------------------------------
(* Sizes *)

\* As long as nothing fails: the message in hand fits into the open file or is
\* alone in it, and start_rollover has moved the old file away when it reopens.
Fits(t) ==
  (faults = 0 /\ MaxFileSize > 0) =>
    /\ pc[t] \in {"close", "reopen"} => log = NONE
    /\ (pc[t] = "write" /\ fd # NONE) =>
         \/ size[fd] + (msg[t].len - written[t]) <= MaxFileSize
         \/ Len(runs[fd]) = (IF written[t] = 0 THEN 0 ELSE 1)

\* The bound on the sizes, with what it needs to be inductive.
\* As long as no call fails, the size of the open file is known.
Measured == faults = 0 => unmeasured = 0

SizeInv == Measured /\ SizeBounded /\ \A t \in Threads : Fits(t)

\* The number of failed calls never goes down.
LEMMA FaultsGrow ==
  IInv /\ [Next]_vars => faults \in Nat /\ (faults' = faults \/ faults' = faults + 1)
BY DEF IInv, TypeOK, Next, Work, vars, bounds, Fault, OpenAppender, MeasureFile, Format, LockAppender, OpenIfClosed,
   CheckRollover, WriteSome, WriteFails, SkipWrite, UnlockAppender, RenameLog, CloseLog,
   ReopenLog, RemoveLast, ShiftBackup, Reconfigure, Crash

\* How a thread comes to write and to reopen: the open file stays the same
\* while it writes, and the log's name is not given to a file between the
\* rename and the reopening.
LEMMA OwnerStep ==
  ASSUME IInv, [Next]_vars, \A t \in Threads : ~WriteSome(t), NEW u \in Threads
  PROVE  /\ pc'[u] = "write" =>
              \/ /\ pc[u] = "write" /\ fd' = fd
                 /\ msg'[u] = msg[u] /\ written'[u] = written[u]
              \/ CheckRollover(u)
              \/ ReopenLog(u)
         /\ pc'[u] \in {"close", "reopen"} =>
              (pc[u] \in {"close", "reopen"} /\ log' = log) \/ RenameLog(u)
<1> DEFINE Goal ==
      /\ pc'[u] = "write" =>
           \/ /\ pc[u] = "write" /\ fd' = fd
              /\ msg'[u] = msg[u] /\ written'[u] = written[u]
           \/ CheckRollover(u)
           \/ ReopenLog(u)
      /\ pc'[u] \in {"close", "reopen"} =>
           (pc[u] \in {"close", "reopen"} /\ log' = log) \/ RenameLog(u)
<1> USE DEF Locked, Goto, locals, appender, disk, bounds
<1>a. /\ pc \in [Threads -> Locked \union Unlocked]
      /\ \A t \in Threads : pc[t] \in Locked <=> lock = t
      /\ NONE \notin Threads
  BY NoneAssumption DEF IInv, TypeOK, LockDiscipline
<1> HIDE DEF IInv
<1>1. ASSUME NEW t \in Threads, Format(t) PROVE Goal
  <2>1. pc' = [pc EXCEPT ![t] = "lock"] /\ UNCHANGED <<log, fd>>
        /\ \A v \in Threads \ {t} : msg'[v] = msg[v] /\ written'[v] = written[v]
    BY <1>1 DEF Format
  <2> QED
    BY <1>a, <2>1
<1>2. ASSUME NEW t \in Threads, LockAppender(t) PROVE Goal
  BY <1>a, <1>2 DEF LockAppender
<1>3. ASSUME NEW t \in Threads, OpenIfClosed(t) PROVE Goal
  <2>1. /\ pc[t] = "open" /\ pc' = [pc EXCEPT ![t] = "check"]
        /\ UNCHANGED <<msg, written>>
    BY <1>a, <1>3 DEF OpenIfClosed
  <2> QED
    BY <1>a, <2>1
<1>4. ASSUME NEW t \in Threads, CheckRollover(t) PROVE Goal
  <2>1. /\ pc[t] = "check" /\ pc' = [pc EXCEPT ![t] = pc'[t]]
        /\ pc'[t] \in {"rename", "write"} /\ UNCHANGED <<msg, written, fd, log>>
    BY <1>a, <1>4 DEF CheckRollover
  <2> QED
    BY <1>a, <1>4, <2>1
<1>6. ASSUME NEW t \in Threads, WriteFails(t) PROVE Goal
  BY <1>a, <1>6 DEF WriteFails
<1>7. ASSUME NEW t \in Threads, SkipWrite(t) PROVE Goal
  BY <1>a, <1>7 DEF SkipWrite
<1>8. ASSUME NEW t \in Threads, UnlockAppender(t) PROVE Goal
  <2>1. pc'[t] \in {"remove", "idle"} /\ pc' = [pc EXCEPT ![t] = pc'[t]]
        /\ UNCHANGED <<msg, written, fd, log>>
    BY <1>a, <1>8 DEF UnlockAppender
  <2> QED
    BY <1>a, <2>1
<1>9. ASSUME NEW t \in Threads, RenameLog(t) PROVE Goal
  <2>1. /\ pc[t] = "rename" /\ pc' = [pc EXCEPT ![t] = "close"]
        /\ UNCHANGED <<msg, written, fd>>
    BY <1>a, <1>9 DEF RenameLog
  <2> QED
    BY <1>a, <1>9, <2>1
<1>10. ASSUME NEW t \in Threads, CloseLog(t) PROVE Goal
  BY <1>a, <1>10 DEF CloseLog
<1>11. ASSUME NEW t \in Threads, ReopenLog(t) PROVE Goal
  <2>1. /\ pc[t] = "reopen" /\ pc' = [pc EXCEPT ![t] = "write"]
        /\ UNCHANGED <<msg, written>>
    BY <1>a, <1>11 DEF ReopenLog
  <2> QED
    BY <1>a, <1>11, <2>1
<1>12. ASSUME NEW t \in Threads, NEW i, ContinueShift(t, i), pc[t] \in {"remove", "shift"},
              UNCHANGED <<msg, written, appender, log>>
       PROVE  Goal
  <2>1. pc'[t] \in {"shift", "idle"} /\ pc' = [pc EXCEPT ![t] = pc'[t]]
    BY <1>a, <1>12 DEF ContinueShift
  <2> QED
    BY <1>a, <1>12, <2>1
<1>13. ASSUME NEW t \in Threads, RemoveLast(t) \/ ShiftBackup(t) PROVE Goal
  BY <1>12, <1>13 DEF RemoveLast, ShiftBackup
<1>14. CASE Reconfigure
  BY <1>a, <1>14 DEF Reconfigure
<1>15. CASE Crash
  BY <1>a, <1>15 DEF Crash
<1>16. CASE UNCHANGED vars
  BY <1>a, <1>16 DEF vars
<1>17. Goal
  BY <1>1, <1>2, <1>3, <1>4, <1>6, <1>7, <1>8, <1>9, <1>10, <1>11, <1>13, <1>14, <1>15, <1>16
  DEF Next, Work
<1> QED
  BY <1>17

\* Only an fstat that fails leaves bytes uncounted.
LEMMA MeasuredStep ==
  ASSUME TypeOK, Measured, [Next]_vars
  PROVE  Measured'
<1> USE DEF Measured, appender, bounds, Fault
<1>a. faults \in Nat
  BY DEF TypeOK
<1>1. ASSUME UNCHANGED unmeasured, faults' = faults \/ faults' = faults + 1 PROVE Measured'
  BY <1>a, <1>1
<1>2. ASSUME OpenAppender PROVE Measured'
  BY <1>a, <1>2 DEF OpenAppender, MeasureFile
<1>3. ASSUME NEW t \in Threads, OpenIfClosed(t) \/ ReopenLog(t) PROVE Measured'
  BY <1>1, <1>2, <1>3 DEF OpenIfClosed, ReopenLog
<1>4. ASSUME NEW t \in Threads,
             Format(t) \/ LockAppender(t) \/ CheckRollover(t) \/ WriteSome(t)
               \/ WriteFails(t) \/ SkipWrite(t) \/ UnlockAppender(t)
               \/ RenameLog(t) \/ CloseLog(t) \/ RemoveLast(t) \/ ShiftBackup(t)
      PROVE  Measured'
  BY <1>1, <1>4 DEF Format, LockAppender, CheckRollover, WriteSome, WriteFails, SkipWrite,
                    UnlockAppender, RenameLog, CloseLog, CloseAppender, RemoveLast, ShiftBackup
<1>5. CASE Reconfigure
  BY <1>5 DEF Reconfigure, CloseAppender
<1>6. CASE Crash
  BY <1>6 DEF Crash
<1>7. CASE UNCHANGED vars
  BY <1>7 DEF vars
<1> QED
  BY <1>3, <1>4, <1>5, <1>6, <1>7 DEF Next, Work

\* No step makes a file longer than it may be: is_rollover_required was asked of
\* the file that is written, or of the one that start_rollover has replaced.
LEMMA NextSizeInv ==
  IInv /\ RecordInv /\ FilesizeAccurate /\ SizeInv /\ [Next]_vars => SizeInv'
<1> SUFFICES ASSUME IInv, RecordInv, FilesizeAccurate, SizeInv, [Next]_vars PROVE SizeInv'
  OBVIOUS
<1>a. /\ size \in Seq(Nat) /\ Len(size) \in Nat /\ fd \in OrNone(Inodes)
      /\ runs \in Seq(Seq(Run)) /\ Len(runs) = Len(size)
      /\ filesize \in Nat /\ msg \in [Threads -> Message] /\ written \in [Threads -> Nat]
      /\ pc \in [Threads -> Locked \union Unlocked]
      /\ \A t \in Threads : pc[t] \in Locked <=> lock = t
      /\ \A t \in Threads :
           pc[t] \in {"lock", "open", "check", "rename", "close", "reopen"} => written[t] = 0
      /\ MaxFileSize \in Nat
  BY MaxFileSizeAssumption DEF IInv, TypeOK, LockDiscipline, LocalsOK
<1>m. Measured /\ Measured'
  BY MeasuredStep DEF IInv, SizeInv
<1>1. ASSUME \A t \in Threads : ~WriteSome(t) PROVE SizeInv'
  <2>1. NothingWritten
    BY <1>1, OnlyWriteWrites DEF IInv
  <2>3. faults' = 0 => faults = 0
    BY FaultsGrow
  <2>4. SizeBounded'
    <3>1. \A i \in Inodes' : (i \in Inodes /\ runs'[i] = runs[i] /\ size'[i] = size[i]) \/ size'[i] = 0
      BY <2>1 DEF NothingWritten
    <3> SUFFICES ASSUME faults = 0, MaxFileSize > 0, NEW i \in Inodes', size'[i] > MaxFileSize
                 PROVE  Len(runs'[i]) = 1
      BY <2>3 DEF SizeBounded
    <3>2. size'[i] # 0
      BY <1>a
    <3> QED
      BY <3>1, <3>2 DEF SizeInv, SizeBounded
  <2>5. ASSUME NEW u \in Threads PROVE Fits(u)'
    <3> SUFFICES ASSUME faults' = 0, MaxFileSize > 0 PROVE Fits(u)'
      BY DEF Fits
    <3>1. faults = 0 /\ Fits(u) /\ ~Fault
      BY <2>3 DEF SizeInv, Fault
    <3>2. ASSUME pc'[u] \in {"close", "reopen"} PROVE log' = NONE
      <4>1. CASE pc[u] \in {"close", "reopen"} /\ log' = log
        BY <3>1, <4>1 DEF Fits
      <4>2. CASE RenameLog(u)
        BY <3>1, <4>2 DEF RenameLog
      <4> QED
        BY <1>1, <3>2, <4>1, <4>2, OwnerStep
    <3>3. ASSUME pc'[u] = "write", fd' # NONE
          PROVE  \/ size'[fd'] + (msg'[u].len - written'[u]) <= MaxFileSize
                 \/ Len(runs'[fd']) = (IF written'[u] = 0 THEN 0 ELSE 1)
      <4>1. CASE pc[u] = "write" /\ fd' = fd /\ msg'[u] = msg[u] /\ written'[u] = written[u]
        <5>1. fd \in Inodes
          BY <1>a, <3>3, <4>1 DEF OrNone
        <5>2. size'[fd] = size[fd] /\ runs'[fd] = runs[fd]
          BY <2>1, <5>1 DEF NothingWritten
        <5> QED
          BY <3>1, <3>3, <4>1, <5>2 DEF Fits
      <4>2. CASE CheckRollover(u)
        <5>1. /\ pc[u] = "check" /\ ~NeedRollover(msg[u].len)
              /\ UNCHANGED <<msg, written, fd, lock, size>>
          BY <1>a, <3>3, <4>2 DEF CheckRollover, Goto, appender, disk
        <5>2. size[fd] = filesize /\ written[u] = 0
          BY <1>a, <1>m, <3>1, <3>3, <5>1 DEF FilesizeAccurate, Locked, Measured
        <5>3. msg[u].len \in Nat
          BY <1>a DEF Message
        <5> QED
          BY <1>a, <5>1, <5>2, <5>3 DEF NeedRollover
      <4>3. CASE ReopenLog(u)
        <5>1. pc[u] = "reopen" /\ written'[u] = 0 /\ OpenAppender
          BY <1>a, <4>3 DEF ReopenLog, Goto
        <5>2. log = NONE /\ fd = NONE
          BY <3>1, <5>1 DEF Fits, IInv, ReopensClosed
        <5>3. fd' = Len(size) + 1 /\ runs' = Append(runs, << >>)
          <6>1. CreateIfMissing /\ fd' = log'
            BY <3>1, <3>3, <5>1, <5>2 DEF OpenAppender
          <6> QED
            BY <5>2, <6>1 DEF CreateIfMissing
        <5>4. runs'[fd'] = << >>
          <6>1. runs \in Seq(Seq(Run)) /\ Len(runs) = Len(size)
            BY <1>a
          <6>2. Append(runs, << >>)[Len(runs) + 1] = << >>
            BY <6>1, AppendProperties
          <6> QED
            BY <5>3, <6>1, <6>2
        <5> QED
          BY <5>1, <5>4
      <4> QED
        BY <1>1, <3>3, <4>1, <4>2, <4>3, OwnerStep
    <3> QED
      BY <3>2, <3>3 DEF Fits
  <2> QED
    BY <1>m, <2>4, <2>5 DEF SizeInv
<1>2. ASSUME NEW t \in Threads, WriteSome(t) PROVE SizeInv'
  <2> DEFINE len == msg[t].len
             w == written[t]
  <2>1. PICK k \in 1..(len - w) :
           /\ fd \in Inodes /\ fd' = fd /\ Inodes' = Inodes
           /\ \A i \in Inodes \ {fd} : runs'[i] = runs[i] /\ size'[i] = size[i]
           /\ size'[fd] = size[fd] + k
           /\ written' = [written EXCEPT ![t] = w + k]
           /\ Len(runs'[fd]) = IF w = 0 THEN Len(runs[fd]) + 1 ELSE Len(runs[fd])
           /\ pc' = IF w + k = len THEN [pc EXCEPT ![t] = "unlock"] ELSE pc
    <3> HIDE DEF IInv, RecordInv
    <3> QED
      BY <1>2, WriteSomeEffect
  <2>2. /\ UNCHANGED <<msg, faults, log, lock>> /\ pc[t] = "write" /\ fd # NONE /\ lock = t
    BY <1>2, <1>a DEF WriteSome, IsOpen, bounds, Locked
  <2>3. /\ w \in Nat /\ k \in Nat /\ len \in Nat /\ 0 < k /\ w + k <= len /\ size[fd] \in Nat
        /\ Len(runs[fd]) \in Nat
    <3>1. len \in Nat
      BY <1>a DEF Message
    <3>2. size[fd] \in Nat /\ runs[fd] \in Seq(Run)
      BY <1>a, <2>1, ElementOfSeq DEF Inodes
    <3> QED
      BY <1>a, <3>1, <3>2
  <2> HIDE DEF len, w
  <2>4. (faults = 0 /\ MaxFileSize > 0) =>
          \/ size'[fd] + (len - (w + k)) <= MaxFileSize
          \/ Len(runs'[fd]) = 1
    <3> SUFFICES ASSUME faults = 0, MaxFileSize > 0
                 PROVE  \/ size'[fd] + (len - (w + k)) <= MaxFileSize
                        \/ Len(runs'[fd]) = 1
      OBVIOUS
    <3>1. \/ size[fd] + (len - w) <= MaxFileSize
          \/ Len(runs[fd]) = (IF w = 0 THEN 0 ELSE 1)
      BY <2>2 DEF SizeInv, Fits, len, w
    <3>2. size'[fd] + (len - (w + k)) = size[fd] + (len - w)
      BY <2>1, <2>3
    <3>3. Len(runs[fd]) = (IF w = 0 THEN 0 ELSE 1) => Len(runs'[fd]) = 1
      BY <2>1
    <3> QED
      BY <3>1, <3>2, <3>3
  <2>5. SizeBounded'
    <3> SUFFICES ASSUME faults = 0, MaxFileSize > 0, NEW i \in Inodes, size'[i] > MaxFileSize
                 PROVE  Len(runs'[i]) = 1
      BY <2>1, <2>2 DEF SizeBounded
    <3>1. CASE i = fd
      <4>1. size'[fd] \in Nat /\ len - (w + k) \in Nat
        BY <2>1, <2>3
      <4>2. ~(size'[fd] + (len - (w + k)) <= MaxFileSize)
        BY <1>a, <3>1, <4>1
      <4> QED
        BY <2>4, <3>1, <4>2
    <3>2. CASE i # fd
      BY <2>1, <3>2 DEF SizeInv, SizeBounded
    <3> QED
      BY <3>1, <3>2
  <2>6. ASSUME NEW u \in Threads PROVE Fits(u)'
    <3>1. CASE u = t
      <4>1. pc'[t] \in {"write", "unlock"} /\ written'[t] = w + k
        BY <1>a, <2>1, <2>2
      <4>2. w + k # 0
        BY <2>3
      <4> QED
        BY <2>1, <2>2, <2>4, <3>1, <4>1, <4>2 DEF Fits, len
    <3>2. CASE u # t
      <4>1. pc[u] \notin Locked /\ pc'[u] = pc[u]
        BY <1>a, <2>1, <2>2, <3>2
      <4> QED
        BY <4>1 DEF Fits, Locked
    <3> QED
      BY <3>1, <3>2
  <2> QED
    BY <1>m, <2>5, <2>6 DEF SizeInv
<1> QED
  BY <1>1, <1>2

\* There is no file at first.
LEMMA InitSizeInv == Init => SizeInv
BY DEF Init, SizeInv, Measured, SizeBounded, Fits, Inodes

\* As long as no system call fails, a file exceeds MaxFileSize only when a single
\* message in it is that long, for any number of threads, every pattern of short
\* writes, and across reconfigurations and crashes.
THEOREM SizeBoundedCorrect == Spec => []SizeBounded
<1>1. SizeInv => SizeBounded
  BY DEF SizeInv
<1> QED
  BY <1>1, InitSizeInv, NextSizeInv, IInvCorrect, RecordInvCorrect, FilesizeCorrect, PTL DEF Spec

-----------------------------------------------------------------------------
(* Losses *)

\* The message of the owner of the lock cannot be saved any more: it was cut
\* short, or no file is open and no rollover will open one.
Doomed(t) ==
  \/ pc[t] = "unlock" /\ ~Complete(t, sent[t])
  \/ pc[t] \in {"check", "write"} /\ fd = NONE
Doom == IF \E t \in Threads : Doomed(t) THEN 1 ELSE 0

\* What has happened so far allows these losses.
Allowed == faults + crashes * Cardinality(Threads)
             + (IF TRUE \in StdinStates THEN crashes + (IF stdinFree THEN 0 ELSE 1) ELSE 0)

LossInv == /\ stdinFree => TRUE \in StdinStates
           /\ Cardinality(Lost) + Doom <= Allowed

\* No step takes a complete record out of the files, and a write() that is the
\* last of its message completes one.
LEMMA CompleteStep ==
  ASSUME IInv, RecordInv, [Next]_vars
  PROVE  /\ \A u, n : Complete(u, n) => Complete(u, n)'
         /\ \A t \in Threads :
              WriteSome(t) => (pc'[t] = "unlock" => Complete(t, sent[t])') /\ pc'[t] \in {"write", "unlock"}
<1>a. /\ runs \in Seq(Seq(Run)) /\ Len(runs) = Len(size)
      /\ sent \in [Threads -> Nat] /\ written \in [Threads -> Nat]
      /\ pc \in [Threads -> Locked \union Unlocked]
      /\ msg \in [Threads -> Message]
  BY DEF IInv, TypeOK
<1>1. ASSUME \A t \in Threads : ~WriteSome(t), NEW u, NEW n, Complete(u, n)
      PROVE  Complete(u, n)'
  <2>1. NothingWritten
    BY <1>1, OnlyWriteWrites DEF IInv
  <2> QED
    BY <1>1, <2>1 DEF NothingWritten, Complete
<1>2. ASSUME NEW t \in Threads, WriteSome(t)
      PROVE  /\ \A u, n : Complete(u, n) => Complete(u, n)'
             /\ (pc'[t] = "unlock" => Complete(t, sent[t])') /\ pc'[t] \in {"write", "unlock"}
  <2> DEFINE old == runs[fd]
             new == runs'[fd]
  <2>1. PICK k \in 1..(msg[t].len - written[t]) :
           /\ fd \in Inodes /\ fd' = fd /\ Inodes' = Inodes
           /\ \A i \in Inodes \ {fd} : runs'[i] = runs[i] /\ size'[i] = size[i]
           /\ Len(new) = IF written[t] = 0 THEN Len(old) + 1 ELSE Len(old)
           /\ Len(new) > 0
           /\ new[Len(new)] =
                [by |-> t, n |-> sent[t], len |-> msg[t].len, bytes |-> written[t] + k]
           /\ \A a \in 1..(Len(new) - 1) : a \in 1..Len(old) /\ new[a] = old[a]
           /\ pc' = IF written[t] + k = msg[t].len THEN [pc EXCEPT ![t] = "unlock"] ELSE pc
    <3> HIDE DEF IInv, RecordInv
    <3> QED
      BY <1>2, WriteSomeEffect
  <2>2. pc[t] = "write" /\ written[t] \in Nat /\ written[t] < msg[t].len /\ sent' = sent
    BY <1>2 DEF WriteSome, bounds, IInv, TypeOK, LocalsOK
  <2>3. /\ Len(old) \in Nat /\ DOMAIN old = 1..Len(old)
        /\ Len(new) \in Nat /\ DOMAIN new = 1..Len(new)
    <3>1. IInv'
      BY NextIInv
    <3>2. old \in Seq(Run)
      BY <1>a, <2>1, ElementOfSeq DEF Inodes
    <3>3. new \in Seq(Run)
      BY <3>1, <2>1, ElementOfSeq DEF Inodes, IInv, TypeOK
    <3> QED
      BY <3>2, <3>3, LenProperties
  <2>4. ASSUME NEW u, NEW n, Complete(u, n) PROVE Complete(u, n)'
    <3>a. PICK i \in Inodes : \E a \in DOMAIN runs[i] :
            runs[i][a].by = u /\ runs[i][a].n = n /\ runs[i][a].bytes = runs[i][a].len
      BY <2>4 DEF Complete
    <3>1. PICK a \in DOMAIN runs[i] :
            runs[i][a].by = u /\ runs[i][a].n = n /\ runs[i][a].bytes = runs[i][a].len
      BY <3>a
    <3>2. CASE i # fd
      BY <2>1, <3>1, <3>2 DEF Complete
    <3>3. CASE i = fd
      <4>1. a \in 1..Len(old) /\ a \in Nat
        BY <2>3, <3>3
      <4>2. ~(written[t] > 0 /\ a = Len(old))
        <5> SUFFICES ASSUME written[t] > 0, a = Len(old) PROVE FALSE
          OBVIOUS
        <5>1. old[Len(old)] = [by |-> t, n |-> sent[t], len |-> msg[t].len, bytes |-> written[t]]
          BY <2>2 DEF RecordInv, Writing
        <5>2. msg[t].len = written[t]
          BY <3>1, <3>3, <5>1
        <5> QED
          BY <2>2, <5>2
      <4>3. a \in 1..(Len(new) - 1)
        BY <2>1, <2>2, <2>3, <4>1, <4>2
      <4>4. a \in DOMAIN new /\ new[a] = old[a]
        BY <2>1, <2>3, <4>3
      <4> QED
        BY <2>1, <3>1, <3>3, <4>4 DEF Complete
    <3> QED
      BY <3>2, <3>3
  <2>5. pc'[t] \in {"write", "unlock"}
    BY <1>a, <2>1, <2>2
  <2>6. ASSUME pc'[t] = "unlock" PROVE Complete(t, sent[t])'
    <3>1. written[t] + k = msg[t].len
      BY <2>1, <2>2, <2>6
    <3>2. Len(new) \in DOMAIN new
      BY <2>1, <2>3
    <3>3. LET r == new[Len(new)] IN r.by = t /\ r.n = sent'[t] /\ r.bytes = r.len
      BY <2>1, <2>2, <3>1
    <3> QED
      BY <2>1, <3>2, <3>3 DEF Complete
  <2> QED
    BY <2>4, <2>5, <2>6
<1> QED
  BY <1>1, <1>2

\* An append returns when it unlocks, or when the process dies.
LEMMA ReturnedStep ==
  ASSUME IInv, [Next]_vars, NEW u \in Threads, NEW n \in Nat,
         Returned(u, n)', ~Returned(u, n)
  PROVE  n = sent[u] /\ (UnlockAppender(u) \/ Crash)
<1> USE DEF Locked, Unlocked, Goto, locals, appender, disk, bounds
<1>a. /\ pc \in [Threads -> Locked \union Unlocked]
      /\ sent \in [Threads -> Nat]
      /\ sent[u] \in Nat
  BY DEF IInv, TypeOK
<1>1. ASSUME sent' = sent, pc'[u] = pc[u] PROVE FALSE
  BY <1>1 DEF Returned
<1>2. ASSUME sent' = sent PROVE n = sent[u] /\ pc[u] \notin {"idle", "remove", "shift"}
                              /\ pc'[u] \in {"idle", "remove", "shift"}
  BY <1>2 DEF Returned
<1>3. ASSUME NEW t \in Threads, Format(t) PROVE FALSE
  <2>1. pc[t] = "idle" /\ pc' = [pc EXCEPT ![t] = "lock"] /\ sent' = [sent EXCEPT ![t] = sent[t] + 1]
    BY <1>3 DEF Format
  <2>2. CASE u = t
    BY <1>a, <2>1, <2>2 DEF Returned
  <2>3. CASE u # t
    BY <1>a, <2>1, <2>3 DEF Returned
  <2> QED
    BY <2>2, <2>3
<1>4. ASSUME NEW t \in Threads, UnlockAppender(t) PROVE n = sent[u] /\ UnlockAppender(u)
  BY <1>a, <1>1, <1>2, <1>4 DEF UnlockAppender
<1>5. ASSUME NEW t \in Threads, WriteSome(t) PROVE FALSE
  <2>1. sent' = sent /\ (pc' = pc \/ pc' = [pc EXCEPT ![t] = "unlock"])
    BY <1>5 DEF WriteSome
  <2> QED
    BY <1>a, <1>1, <1>2, <2>1
<1>6. ASSUME NEW t \in Threads,
             LockAppender(t) \/ OpenIfClosed(t) \/ CheckRollover(t) \/ WriteFails(t)
               \/ SkipWrite(t) \/ RenameLog(t) \/ CloseLog(t) \/ ReopenLog(t)
      PROVE  FALSE
  <2>1. sent' = sent /\ \E to \in Locked : pc' = [pc EXCEPT ![t] = to]
    BY <1>6 DEF LockAppender, OpenIfClosed, CheckRollover, WriteFails, SkipWrite,
                RenameLog, CloseLog, ReopenLog
  <2> QED
    BY <1>a, <1>1, <1>2, <2>1
<1>7. ASSUME NEW t \in Threads, RemoveLast(t) \/ ShiftBackup(t) PROVE FALSE
  <2>1. sent' = sent /\ pc[t] \in {"remove", "shift"} /\ \E to : pc' = [pc EXCEPT ![t] = to]
    BY <1>7 DEF RemoveLast, ShiftBackup, ContinueShift
  <2> QED
    BY <1>a, <1>1, <1>2, <2>1
<1>8. CASE Reconfigure \/ UNCHANGED vars
  BY <1>1, <1>8 DEF Reconfigure, vars
<1>9. CASE Crash
  BY <1>2, <1>9 DEF Crash
<1> QED
  BY <1>3, <1>4, <1>5, <1>6, <1>7, <1>8, <1>9 DEF Next, Work

\* The number of losses that faults and crashes excuse is a number.
LEMMA AllowedType ==
  /\ IInv => Allowed \in Nat /\ crashes * Cardinality(Threads) \in Nat
  /\ IInv' => Allowed' \in Nat
  /\ Cardinality(Threads) \in Nat
<1> DEFINE C == Cardinality(Threads)
           Extra(c, free) == IF TRUE \in StdinStates THEN c + (IF free THEN 0 ELSE 1) ELSE 0
<1>1. C \in Nat
  BY ThreadsAssumption, FS_CardinalityType
<1>2. ASSUME NEW f \in Nat, NEW c \in Nat, NEW free \in BOOLEAN
      PROVE  f + c * C + Extra(c, free) \in Nat /\ c * C \in Nat
  <2> DEFINE y == IF free THEN 0 ELSE 1
             x == Extra(c, free)
             p == c * C
  <2>1. y \in {0, 1} /\ (x = c + y \/ x = 0)
    OBVIOUS
  <2>2. p \in Nat
    BY <1>1
  <2> HIDE DEF x, y, p, Extra
  <2>3. x \in Nat
    BY <2>1
  <2>4. f + p + x \in Nat
    BY <2>2, <2>3
  <2> QED
    BY <2>2, <2>4 DEF x, p
<1>3. (IInv => faults \in Nat /\ crashes \in Nat /\ stdinFree \in BOOLEAN)
      /\ (IInv' => faults' \in Nat /\ crashes' \in Nat /\ stdinFree' \in BOOLEAN)
  BY DEF IInv, TypeOK
<1>4. Allowed = faults + crashes * C + Extra(crashes, stdinFree)
      /\ Allowed' = faults' + crashes' * C + Extra(crashes', stdinFree')
  BY DEF Allowed
<1> HIDE DEF Extra, IInv
<1>5. IInv => Allowed \in Nat /\ crashes * C \in Nat
  BY <1>2, <1>3, <1>4
<1>6. IInv' => Allowed' \in Nat
  BY <1>2, <1>3, <1>4
<1> QED
  BY <1>1, <1>5, <1>6

\* What a step adds to the losses that are allowed.
LEMMA AllowedStep ==
  ASSUME IInv, stdinFree => TRUE \in StdinStates, [Next]_vars
  PROVE  /\ stdinFree' => TRUE \in StdinStates
         /\ ~Crash => Allowed <= Allowed'
         /\ Crash => Allowed + Cardinality(Threads) <= Allowed'
         /\ (~Crash /\ (faults' = faults + 1 \/ (stdinFree /\ ~stdinFree'))) => Allowed + 1 <= Allowed'
<1> DEFINE C == Cardinality(Threads)
<1>a. /\ faults \in Nat /\ crashes \in Nat /\ C \in Nat /\ stdinFree \in BOOLEAN
  BY AllowedType DEF IInv, TypeOK
<1>p. crashes * C \in Nat
  BY AllowedType
<1>b. faults' = faults \/ faults' = faults + 1
  BY FaultsGrow
<1>1. CASE Crash
  <2>1. faults' = faults /\ crashes' = crashes + 1 /\ stdinFree' \in StdinStates
    BY <1>1 DEF Crash
  <2>2. crashes' * C = crashes * C + C
    <3> HIDE DEF C
    <3> QED
      BY <1>a, <2>1
  <2>3. stdinFree' => TRUE \in StdinStates
    <3>1. stdinFree' \in BOOLEAN
      BY <2>1, StdinStatesAssumption
    <3> QED
      BY <2>1, <3>1
  <2> HIDE DEF C
  <2>4. Allowed + C <= Allowed'
    <3>1. CASE TRUE \in StdinStates
      <4> DEFINE x == IF stdinFree THEN 0 ELSE 1
                 y == IF stdinFree' THEN 0 ELSE 1
      <4>1. Allowed = faults + crashes * C + (crashes + x)
        BY <3>1 DEF Allowed, C
      <4>2. Allowed' = faults + (crashes * C + C) + (crashes + 1 + y)
        BY <2>1, <2>2, <3>1 DEF Allowed, C
      <4>3. x \in 0..1 /\ y \in 0..1
        OBVIOUS
      <4> DEFINE p == crashes * C
      <4>4. p \in Nat
        BY <1>p
      <4>5. Allowed = faults + p + (crashes + x) /\ Allowed' = faults + (p + C) + (crashes + 1 + y)
        BY <4>1, <4>2
      <4> HIDE DEF x, y, p
      <4> QED
        BY <1>a, <4>3, <4>4, <4>5
    <3>2. CASE TRUE \notin StdinStates
      <4>1. Allowed = faults + crashes * C + 0 /\ Allowed' = faults + (crashes * C + C) + 0
        BY <2>1, <2>2, <3>2 DEF Allowed, C
      <4> DEFINE p == crashes * C
      <4>2. p \in Nat
        BY <1>p
      <4>3. Allowed = faults + p + 0 /\ Allowed' = faults + (p + C) + 0
        BY <4>1
      <4> HIDE DEF p
      <4> QED
        BY <1>a, <4>2, <4>3
    <3> QED
      BY <3>1, <3>2
  <2> QED
    BY <1>1, <2>3, <2>4 DEF C
<1>2. CASE ~Crash
  <2>1. crashes' = crashes /\ (stdinFree' = stdinFree \/ stdinFree' = FALSE)
    <3>1. Next \/ UNCHANGED vars
      OBVIOUS
    <3> QED
      BY <1>2, <3>1 DEF Next, Work, vars, bounds, OpenAppender, Format, LockAppender, OpenIfClosed,
         CheckRollover, WriteSome, WriteFails, SkipWrite, UnlockAppender, RenameLog, CloseLog,
         ReopenLog, RemoveLast, ShiftBackup, Reconfigure
  <2>2. stdinFree' => stdinFree
    BY <2>1
  <2> DEFINE x == IF stdinFree THEN 0 ELSE 1
             y == IF stdinFree' THEN 0 ELSE 1
             p == crashes * C
  <2>a. p \in Nat
    BY <1>p
  <2>3. x \in 0..1 /\ y \in 0..1 /\ x <= y /\ ((stdinFree /\ ~stdinFree') => x + 1 <= y)
    BY <2>2
  <2>4. CASE TRUE \in StdinStates
    <3>1. Allowed = faults + p + (crashes + x) /\ Allowed' = faults' + p + (crashes + y)
      BY <2>1, <2>4 DEF Allowed, C
    <3> HIDE DEF x, y, p
    <3>2. Allowed <= Allowed'
      <4>1. faults + p + (crashes + x) <= faults' + p + (crashes + y)
        BY <1>a, <1>b, <2>a, <2>3
      <4> QED
        BY <3>1, <4>1
    <3>3. faults' = faults + 1 => Allowed + 1 <= Allowed'
      BY <1>a, <1>b, <2>a, <2>3, <3>1
    <3>4. ASSUME stdinFree, ~stdinFree' PROVE Allowed + 1 <= Allowed'
      <4>1. x + 1 <= y
        BY <2>3, <3>4
      <4>2. faults + p + (crashes + x) + 1 <= faults' + p + (crashes + y)
        BY <1>a, <1>b, <2>a, <2>3, <4>1
      <4> QED
        BY <3>1, <4>2
    <3> QED
      BY <1>2, <2>4, <3>2, <3>3, <3>4
  <2>5. CASE TRUE \notin StdinStates
    <3>1. Allowed = faults + p + 0 /\ Allowed' = faults' + p + 0
      BY <2>1, <2>5 DEF Allowed, C
    <3> HIDE DEF p
    <3>2. Allowed <= Allowed'
      <4>1. faults + p + 0 <= faults' + p + 0
        BY <1>a, <1>b, <2>a
      <4> QED
        BY <3>1, <4>1
    <3>3. faults' = faults + 1 => Allowed + 1 <= Allowed'
      BY <1>a, <1>b, <2>a, <3>1
    <3>4. ~stdinFree /\ ~stdinFree'
      BY <2>2, <2>5
    <3> QED
      BY <1>2, <3>2, <3>3, <3>4
  <2> QED
    BY <2>4, <2>5
<1> QED
  BY <1>1, <1>2

\* Only the owner of the lock can be about to lose its message, and it comes to
\* that by a failure that is counted.
LEMMA DoomStep ==
  ASSUME IInv, RecordInv, [Next]_vars, NEW u \in Threads, Doomed(u)'
  PROVE  \/ Doomed(u) /\ ~Crash /\ \A t \in Threads : ~UnlockAppender(t)
         \/ /\ ~Crash /\ \A t \in Threads : ~UnlockAppender(t)
            /\ faults' = faults + 1 \/ (stdinFree /\ ~stdinFree')
            /\ \A t \in Threads : ~Doomed(t)
<1> DEFINE Failed == faults' = faults + 1 \/ (stdinFree /\ ~stdinFree')
           NoneDoomed == \A t \in Threads : ~Doomed(t)
           Quiet == ~Crash /\ \A t \in Threads : ~UnlockAppender(t)
           Goal == Quiet /\ (Doomed(u) \/ (Failed /\ NoneDoomed))
<1> USE DEF Locked, Unlocked, Goto, locals, appender, disk, bounds
<1>a. /\ pc \in [Threads -> Locked \union Unlocked]
      /\ \A t \in Threads : pc[t] \in Locked <=> lock = t
      /\ NONE \notin Threads /\ TypeOK
  BY NoneAssumption DEF IInv, TypeOK, LockDiscipline
<1>b. pc'[u] \in {"check", "write", "unlock"} /\ (pc'[u] # "unlock" => fd' = NONE)
      /\ (pc'[u] = "unlock" => ~Complete(u, sent[u])')
  BY DEF Doomed
<1>c. ~Crash
  BY <1>a, <1>b DEF Crash
<1>d. ASSUME NEW t \in Threads, UnlockAppender(t) PROVE FALSE
  <2>1. pc[t] = "unlock" /\ \E to \in Unlocked : pc' = [pc EXCEPT ![t] = to]
    BY <1>d DEF UnlockAppender
  <2> QED
    BY <1>a, <1>b, <2>1
<1>e. Quiet
  BY <1>c, <1>d
<1>f. /\ \A n : Complete(u, n) => Complete(u, n)'
      /\ \A t \in Threads :
           WriteSome(t) => (pc'[t] = "unlock" => Complete(t, sent[t])') /\ pc'[t] \in {"write", "unlock"}
  BY CompleteStep
<1>g. ASSUME pc'[u] = pc[u], sent' = sent, fd' = fd PROVE Doomed(u)
  BY <1>b, <1>f, <1>g DEF Doomed, Complete
<1>h. ASSUME NEW t \in Threads, t # u, pc[t] \in Locked, \E to : pc' = [pc EXCEPT ![t] = to]
      PROVE  FALSE
  BY <1>a, <1>b, <1>h
<1> HIDE DEF IInv, RecordInv
<1>i. ASSUME pc[u] \in {"open", "reopen"} PROVE NoneDoomed
  BY <1>a, <1>i DEF Doomed
<1>j. ASSUME OpenAppender, fd = NONE, fd' = NONE PROVE Failed
  <2>1. ASSUME CreateIfMissing PROVE log' # NONE
    <3>1. Len(size) + 1 \in Nat
      BY <1>a DEF TypeOK
    <3> QED
      BY <2>1, <3>1, NoneAssumption DEF CreateIfMissing
  <2>2. stdinFree \in BOOLEAN
    BY <1>a DEF TypeOK
  <2> QED
    BY <1>j, <2>1, <2>2 DEF OpenAppender, Fault
<1>1. ASSUME NEW t \in Threads, Format(t) PROVE Goal
  <2>1. pc' = [pc EXCEPT ![t] = "lock"] /\ sent' = [sent EXCEPT ![t] = sent[t] + 1]
        /\ UNCHANGED <<fd, runs, size>>
    BY <1>1 DEF Format
  <2>2. u # t /\ pc'[u] = pc[u]
    BY <1>a, <1>b, <2>1
  <2>3. sent'[u] = sent[u]
    BY <1>a, <2>1, <2>2 DEF TypeOK
  <2>4. Complete(u, sent[u]) => Complete(u, sent[u])'
    BY <2>1, <2>3 DEF Complete, Inodes
  <2> QED
    BY <1>b, <1>e, <2>1, <2>2, <2>4 DEF Doomed
<1>2. ASSUME NEW t \in Threads, LockAppender(t) PROVE Goal
  BY <1>a, <1>b, <1>e, <1>g, <1>2 DEF LockAppender
<1>3. ASSUME NEW t \in Threads, OpenIfClosed(t) PROVE Goal
  <2>1. pc[t] = "open" /\ pc' = [pc EXCEPT ![t] = "check"]
    BY <1>3 DEF OpenIfClosed
  <2>2. t = u
    BY <1>h, <2>1
  <2>3. fd' = NONE
    BY <1>a, <1>b, <2>1, <2>2
  <2>4. OpenAppender /\ fd = NONE
    BY <1>3, <2>3 DEF OpenIfClosed, IsOpen
  <2> QED
    BY <1>e, <1>i, <1>j, <2>1, <2>2, <2>3, <2>4
<1>4. ASSUME NEW t \in Threads, CheckRollover(t) PROVE Goal
  <2>1. pc[t] = "check" /\ pc' = [pc EXCEPT ![t] = pc'[t]] /\ fd' = fd /\ pc'[t] \in {"rename", "write"}
    BY <1>a, <1>4 DEF CheckRollover
  <2>2. t = u
    BY <1>h, <2>1
  <2> QED
    BY <1>b, <1>e, <2>1, <2>2 DEF Doomed
<1>5. ASSUME NEW t \in Threads, WriteSome(t) PROVE Goal
  <2>1. pc[t] = "write" /\ fd' = fd /\ fd # NONE /\ \E to : pc' = [pc EXCEPT ![t] = to]
    <3>1. pc' = pc => pc' = [pc EXCEPT ![t] = pc[t]]
      BY <1>a
    <3> QED
      BY <1>5, <3>1 DEF WriteSome, IsOpen
  <2>2. t = u
    BY <1>h, <2>1
  <2> QED
    BY <1>b, <1>f, <1>5, <2>1, <2>2
<1>6. ASSUME NEW t \in Threads, WriteFails(t) PROVE Goal
  <2>1. pc[t] = "write" /\ pc' = [pc EXCEPT ![t] = "unlock"] /\ fd # NONE /\ Failed
    BY <1>6 DEF WriteFails, IsOpen, Fault
  <2>2. t = u
    BY <1>h, <2>1
  <2>3. NoneDoomed
    BY <1>a, <2>1 DEF Doomed
  <2> QED
    BY <1>e, <2>1, <2>3
<1>7. ASSUME NEW t \in Threads, SkipWrite(t) PROVE Goal
  <2>1. pc[t] = "write" /\ pc' = [pc EXCEPT ![t] = "unlock"] /\ fd = NONE
    BY <1>7 DEF SkipWrite, IsOpen
  <2>2. t = u
    BY <1>h, <2>1
  <2> QED
    BY <1>e, <2>1, <2>2 DEF Doomed
<1>8. ASSUME NEW t \in Threads, RenameLog(t) \/ CloseLog(t) PROVE Goal
  <2>1. pc[t] \in {"rename", "close"} /\ \E to \in {"close", "reopen"} : pc' = [pc EXCEPT ![t] = to]
    BY <1>8 DEF RenameLog, CloseLog
  <2>2. t = u
    BY <1>h, <2>1
  <2> QED
    BY <1>a, <1>b, <2>1, <2>2
<1>9. ASSUME NEW t \in Threads, ReopenLog(t) PROVE Goal
  <2>1. pc[t] = "reopen" /\ pc' = [pc EXCEPT ![t] = "write"] /\ OpenAppender
    BY <1>9 DEF ReopenLog
  <2>2. t = u
    BY <1>h, <2>1
  <2>3. fd' = NONE
    BY <1>a, <1>b, <2>1, <2>2
  <2>4. fd = NONE
    BY <2>1 DEF IInv, ReopensClosed
  <2> QED
    BY <1>e, <1>i, <1>j, <2>1, <2>2, <2>3, <2>4
<1>10. ASSUME NEW t \in Threads, RemoveLast(t) \/ ShiftBackup(t) PROVE Goal
  <2>1. /\ pc[t] \in {"remove", "shift"} /\ \E to \in {"shift", "idle"} : pc' = [pc EXCEPT ![t] = to]
        /\ sent' = sent /\ fd' = fd
    BY <1>10 DEF RemoveLast, ShiftBackup, ContinueShift
  <2>2. pc'[u] = pc[u]
    BY <1>a, <1>b, <2>1
  <2> QED
    BY <1>e, <1>g, <2>1, <2>2
<1>11. ASSUME Reconfigure PROVE Goal
  <2>1. lock = NONE /\ pc' = pc
    BY <1>11 DEF Reconfigure
  <2> QED
    BY <1>a, <1>b, <2>1
<1>12. ASSUME UNCHANGED vars PROVE Goal
  BY <1>e, <1>g, <1>12 DEF vars
<1>13. Goal
  BY <1>c, <1>d, <1>1, <1>2, <1>3, <1>4, <1>5, <1>6, <1>7, <1>8, <1>9, <1>10, <1>11, <1>12
  DEF Next, Work
<1> QED
  BY <1>13

\* The lost messages are among those that can be sent, so they can be counted.
LEMMA LostFinite ==
  /\ IsFiniteSet(Lost) /\ Cardinality(Lost) \in Nat
  /\ IsFiniteSet(Lost') /\ Cardinality(Lost') \in Nat
<1>1. IsFiniteSet(Threads \X (1..MaxMessages))
  <2>1. IsFiniteSet(1..MaxMessages)
    BY MaxMessagesAssumption, FS_Interval
  <2> QED
    BY <2>1, ThreadsAssumption, FS_Product
<1>2. Lost \in SUBSET (Threads \X (1..MaxMessages)) /\ Lost' \in SUBSET (Threads \X (1..MaxMessages))
  BY DEF Lost
<1>3. IsFiniteSet(Lost) /\ IsFiniteSet(Lost')
  BY <1>1, <1>2, FS_Subset
<1> QED
  BY <1>3, FS_CardinalityType

\* A message is lost only by a step that a fault or a crash has paid for.
LEMMA NextLossInv == IInv /\ RecordInv /\ LossInv /\ [Next]_vars => LossInv'
<1> SUFFICES ASSUME IInv, RecordInv, LossInv, [Next]_vars PROVE LossInv'
  OBVIOUS
<1> DEFINE C == Cardinality(Threads)
<1>a. /\ stdinFree' => TRUE \in StdinStates
      /\ ~Crash => Allowed <= Allowed'
      /\ Crash => Allowed + C <= Allowed'
      /\ (~Crash /\ (faults' = faults + 1 \/ (stdinFree /\ ~stdinFree'))) => Allowed + 1 <= Allowed'
  BY AllowedStep DEF LossInv
<1>b. Allowed \in Nat /\ Allowed' \in Nat /\ C \in Nat
  <2>1. IInv'
    BY NextIInv
  <2> QED
    BY <2>1, AllowedType
<1>c. Cardinality(Lost) + Doom <= Allowed
  BY DEF LossInv
<1>d. Doom \in {0, 1} /\ Doom' \in {0, 1}
  BY DEF Doom
<1>e. IsFiniteSet(Lost) /\ Cardinality(Lost) \in Nat /\ IsFiniteSet(Lost') /\ Cardinality(Lost') \in Nat
  BY LostFinite
<1>f. ASSUME NEW m \in Lost', m \notin Lost
      PROVE  /\ m[1] \in Threads /\ m = <<m[1], sent[m[1]]>> /\ ~Complete(m[1], sent[m[1]])
             /\ UnlockAppender(m[1]) \/ Crash
  <2>1. m \in Threads \X (1..MaxMessages) /\ Returned(m[1], m[2])' /\ ~Complete(m[1], m[2])'
    BY DEF Lost
  <2>2. m[1] \in Threads /\ m[2] \in Nat /\ m = <<m[1], m[2]>>
    BY <2>1
  <2>3. ~Complete(m[1], m[2])
    BY <2>1, CompleteStep
  <2>4. ~Returned(m[1], m[2])
    BY <1>f, <2>1, <2>3 DEF Lost
  <2>5. m[2] = sent[m[1]] /\ (UnlockAppender(m[1]) \/ Crash)
    BY <2>1, <2>2, <2>4, ReturnedStep
  <2> QED
    BY <2>2, <2>3, <2>5
<1>g. ASSUME NEW u \in Threads, Doomed(u)'
      PROVE  \/ Doomed(u) /\ ~Crash /\ \A t \in Threads : ~UnlockAppender(t)
             \/ /\ ~Crash /\ \A t \in Threads : ~UnlockAppender(t)
                /\ faults' = faults + 1 \/ (stdinFree /\ ~stdinFree')
                /\ \A t \in Threads : ~Doomed(t)
  BY <1>g, DoomStep
<1> SUFFICES Cardinality(Lost') + Doom' <= Allowed'
  BY <1>a DEF LossInv
<1> HIDE DEF C
<1>1. CASE Crash
  <2> DEFINE at == [u \in Threads |-> <<u, sent[u]>>]
             D == {<<u, sent[u]>> : u \in Threads}
  <2>1. IsFiniteSet(D) /\ Cardinality(D) <= C /\ Cardinality(D) \in Nat
    <3>1. at \in Surjection(Threads, D)
      BY DEF Surjection
    <3>2. IsFiniteSet(D) /\ Cardinality(D) <= C
      BY <3>1, ThreadsAssumption, FS_Surjection DEF C
    <3> QED
      BY <3>2, FS_CardinalityType
  <2>2. Lost' \in SUBSET (Lost \union D)
    BY <1>f
  <2> HIDE DEF D, at
  <2>3. /\ IsFiniteSet(Lost \union D)
        /\ Cardinality(Lost \union D) = Cardinality(Lost) + Cardinality(D) - Cardinality(Lost \intersect D)
        /\ Cardinality(Lost \intersect D) \in Nat
    BY <1>e, <2>1, FS_Union, FS_Intersection, FS_CardinalityType
  <2>4. Cardinality(Lost') <= Cardinality(Lost \union D)
    BY <2>2, <2>3, FS_Subset
  <2>5. Doom' = 0
    BY <1>1, <1>g DEF Doom
  <2>6. Allowed + C <= Allowed'
    BY <1>a, <1>1
  <2> QED
    BY <1>b, <1>c, <1>d, <1>e, <2>1, <2>3, <2>4, <2>5, <2>6
<1>2. ASSUME NEW t \in Threads, UnlockAppender(t) PROVE Cardinality(Lost') + Doom' <= Allowed'
  <2>1. ~Crash /\ \A u \in Threads : UnlockAppender(u) => u = t
    BY <1>2 DEF UnlockAppender, Goto, Crash, IInv, TypeOK, LockDiscipline, Locked, bounds
  <2>2. Doom' = 0
    BY <1>2, <1>g DEF Doom
  <2>3. Allowed <= Allowed'
    BY <1>a, <2>1
  <2>4. \A m \in Lost' : m \in Lost \/ (m = <<t, sent[t]>> /\ ~Complete(t, sent[t]))
    BY <1>f, <2>1
  <2>5. CASE Complete(t, sent[t])
    <3>1. Lost' \in SUBSET Lost
      BY <2>4, <2>5
    <3>2. Cardinality(Lost') <= Cardinality(Lost)
      BY <1>e, <3>1, FS_Subset
    <3> QED
      BY <1>b, <1>c, <1>d, <1>e, <2>2, <2>3, <3>2
  <2>6. CASE ~Complete(t, sent[t])
    <3>1. Doom = 1
      BY <1>2, <2>6 DEF Doom, Doomed, UnlockAppender, Goto
    <3>2. Lost' \in SUBSET (Lost \union {<<t, sent[t]>>})
      BY <2>4
    <3>3. /\ IsFiniteSet(Lost \union {<<t, sent[t]>>})
          /\ Cardinality(Lost \union {<<t, sent[t]>>}) \in {Cardinality(Lost), Cardinality(Lost) + 1}
      BY <1>e, FS_AddElement
    <3>4. Cardinality(Lost') <= Cardinality(Lost \union {<<t, sent[t]>>})
      BY <3>2, <3>3, FS_Subset
    <3> QED
      BY <1>b, <1>c, <1>e, <2>2, <2>3, <3>1, <3>3, <3>4
  <2> QED
    BY <2>5, <2>6
<1>3. CASE ~Crash /\ \A t \in Threads : ~UnlockAppender(t)
  <2>1. Lost' \in SUBSET Lost
    BY <1>f, <1>3
  <2>2. Cardinality(Lost') <= Cardinality(Lost)
    BY <1>e, <2>1, FS_Subset
  <2>3. Allowed <= Allowed'
    BY <1>a, <1>3
  <2>4. CASE Doom' <= Doom
    BY <1>b, <1>c, <1>d, <1>e, <2>2, <2>3, <2>4
  <2>5. CASE ~(Doom' <= Doom)
    <3>1. Doom' = 1 /\ Doom = 0
      BY <1>d, <2>5
    <3>2. PICK u \in Threads : Doomed(u)'
      BY <3>1 DEF Doom
    <3>3. ~Doomed(u)
      BY <3>1 DEF Doom
    <3>4. Allowed + 1 <= Allowed'
      BY <1>a, <1>3, <1>g, <3>2, <3>3
    <3> QED
      BY <1>b, <1>c, <1>e, <2>2, <3>1, <3>4
  <2> QED
    BY <2>4, <2>5
<1> QED
  BY <1>1, <1>2, <1>3

\* Nothing is lost at first.
LEMMA InitLossInv == Init => LossInv
<1> SUFFICES ASSUME Init PROVE LossInv
  OBVIOUS
<1>1. stdinFree => TRUE \in StdinStates
  <2>1. stdinFree \in BOOLEAN /\ stdinFree \in StdinStates
    BY InitIInv DEF Init, IInv, TypeOK
  <2> QED
    BY <2>1
<1>2. Lost = {}
  BY MaxMessagesAssumption DEF Init, Lost, Returned
<1>3. Doom = 0
  BY DEF Init, Doom, Doomed
<1>4. Allowed \in Nat
  BY InitIInv, AllowedType
<1>5. Cardinality(Lost) = 0
  BY <1>2, FS_EmptySet
<1>6. Cardinality(Lost) + Doom <= Allowed
  BY <1>3, <1>4, <1>5
<1> QED
  BY <1>1, <1>6 DEF LossInv

\* A failing system call costs at most one message, a crash at most the one that
\* each thread was appending, and a process that starts without standard input
\* at most one, however many files, messages, threads and rollovers there are.
THEOREM LossBoundedCorrect == Spec => []LossBounded
<1>1. IInv /\ LossInv => LossBounded
  <2> SUFFICES ASSUME IInv, LossInv PROVE LossBounded
    OBVIOUS
  <2> DEFINE C == Cardinality(Threads)
             p == crashes * C
             x == IF stdinFree THEN 0 ELSE 1
             l == Cardinality(Lost)
             r == IF TRUE \in StdinStates THEN crashes + 1 ELSE 0
             s == IF TRUE \in StdinStates THEN crashes + x ELSE 0
  <2>1. p \in Nat /\ faults \in Nat /\ crashes \in Nat /\ l \in Nat /\ x \in 0..1 /\ Doom \in 0..1
    BY AllowedType, LostFinite DEF IInv, TypeOK, Doom
  <2>2. l + Doom <= faults + p + s
    BY DEF LossInv, Allowed
  <2>3. (r = crashes + 1 /\ s = crashes + x) \/ (r = 0 /\ s = 0)
    OBVIOUS
  <2>4. l <= faults + p + r => LossBounded
    BY DEF LossBounded
  <2> HIDE DEF p, x, l, r, s
  <2> QED
    BY <2>1, <2>2, <2>3, <2>4
<1> QED
  BY <1>1, InitLossInv, NextLossInv, IInvCorrect, RecordInvCorrect, PTL DEF Spec
=============================================================================
