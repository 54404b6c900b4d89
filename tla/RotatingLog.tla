---------------------------- MODULE RotatingLog ----------------------------
(***************************************************************************)
(* What a rolling log file promises its users: messages are appended       *)
(* atomically to the live file; a message that does not fit starts a new   *)
(* file, and the full one becomes the newest backup; only when there are   *)
(* more than MaxBackups backups does the oldest one expire.                *)
(***************************************************************************)
EXTENDS Naturals, Sequences

CONSTANTS
  Writers,     \* who may log
  MsgLens,     \* lengths of messages
  MaxSize,     \* size at which the file rolls over, 0 for never
  MaxBackups,  \* backups to keep
  NoFile       \* the live file does not exist

VARIABLES
  live,        \* the live file: its messages and bytes, or NoFile
  backups,     \* the files of the backups, the newest backup first
  logged       \* number of messages each writer has logged

vars == <<live, backups, logged>>

NewFile == [messages |-> << >>, bytes |-> 0]
Fits(file, len) == MaxSize = 0 \/ file.bytes + len <= MaxSize

Init == live = NoFile /\ backups = << >> /\ logged = [w \in Writers |-> 0]

Create == live = NoFile /\ live' = NewFile /\ UNCHANGED <<backups, logged>>

\* The next message of a writer is appended, whole, unless it has to go to a
\* new file.
Write(w, len) ==
  /\ live # NoFile
  /\ live.messages = << >> \/ Fits(live, len)
  /\ logged' = [logged EXCEPT ![w] = @ + 1]
  /\ live' = [messages |-> Append(live.messages, [by |-> w, n |-> logged'[w], len |-> len]),
              bytes |-> live.bytes + len]
  /\ UNCHANGED backups

Rotate ==
  /\ live # NoFile
  /\ \E len \in MsgLens : ~Fits(live, len)
  /\ Len(backups) <= MaxBackups
  /\ backups' = <<live>> \o backups
  /\ live' = NoFile
  /\ UNCHANGED logged

Expire ==
  /\ Len(backups) > MaxBackups
  /\ backups' = SubSeq(backups, 1, Len(backups) - 1)
  /\ UNCHANGED <<live, logged>>

Next ==
  \/ Create
  \/ \E w \in Writers, len \in MsgLens : Write(w, len)
  \/ Rotate
  \/ Expire

\* Nothing but these steps ever happens to the files.
Safety == Init /\ [][Next]_vars

\* And an excess backup does not stay for ever.
Spec == Safety /\ WF_vars(Expire)
=============================================================================
