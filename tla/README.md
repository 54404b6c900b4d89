# Verification of log4stdc

log4stdc is a logging library for C: programs ask for *loggers* by name, a
logger hands each message to its *appenders* and to those of its parents, an
appender formats the message with its *layout* and writes it to a file, a
stream or a socket.  *Configurators* create appenders and attach them to loggers
from a property or XML file.  Everything is process-global state without a
central lock; only the file appender owns a mutex.

This directory holds TLA+ models of that code, the TLC runs that check them and
TLAPS proofs of the theorems that hold for every value of the constants.
`PROJECT.json` says which lines of `src/` each definition translates.

## 1. Inventory

| component | source | state it keeps | operations | interacts with | what makes it correct |
|---|---|---|---|---|---|
| object model | `bareftc/object.h`, `log4stdc/object.c`, `bareftc/atomic.h` | class pointer, reference count, pool of every object | init, init/incr/decr of the count, destroy, inherited methods | every other component | an object is destroyed once, when the last reference goes |
| linked lists | `bareftc/lnkdlist.h` | head, last, next pointers of the loggers and the appenders | insert first/last, remove | logger and appender registries | the chain holds what was inserted and not removed, in order |
| loggers | `log4stdc/logger.c`, `enabled.c`, `logmsg.c`, `logprf.c`, `l4sc_vlg.c`, `l4sc_log.c`, `fmtmsg.c`, `sappendr.c`, `sparent.c` | global list, parent, level, additivity, four appender slots, custom callbacks | get, sublogger, set level/parent/additivity/appender, is-enabled, log, printf-style log | appenders (append), configurators | one logger per name, the parent is the logger of the prefix, a level is inherited from the nearest ancestor that has one, a message reaches each attached appender once |
| appender registry | `log4stdc/appender.c` | global list, obsolete names, extra classes | get (find, reuse, replace, create), close all, register class | configurators, loggers | one live appender per name, classes found by their last name part |
| console appender | `log4stdc/appender.c` | none besides the layout | append | streams 1 and 2 | the record is written once, in order |
| file appender | `log4stdc/fileappd.c` | mutex, descriptor, cached size, limits, path | append, open, close, roll over, options | file system, other threads | records whole and in order, size limit kept, only the oldest backup lost |
| socket appender | `log4stdc/sockappd.c` | descriptor (no mutex), peer, layout state | append, connect, close, options | peer, layout of the connection | each connection starts with the header and is a decodable stream |
| Java stream layouts | `log4stdc/l4jstrm.c` | next object handle, remembered references | header, estimate, format | socket appender, Java peer | every reference written denotes the object the reader gave that handle |
| text layouts | `log4stdc/layout.c`, `fmtjtime.c`, `jsonstrm.c`, `xmlstrm.c`, `bareftc/utf8.h` | pattern | estimate, format, options, class by name | appenders | output fits the buffer, is well formed, is what the pattern says |
| configurators | `log4stdc/propcfg.c`, `xmlcfg.c`, `filecfg.c`, `strcfg.c` | parser state, configured flag | configure from file or string | all of the above | the configured loggers and appenders are those the text describes |
| printf | `log4stdc/vsnprntf.c`, `snprintf.c` | none | format | all text output | the buffer is never overrun, the length is right |
| pools and mutexes | `log4stdc/l4scpool.c`, `pmutex.c`, `wmutex.c`, `bareftc/mempool.h`, `mutex.h` | allocated objects, the mutex | alloc, free; lock, unlock | file appender, registries | recursive locking, balanced |
| C++ interface | `log4cxx/*.cpp`, `repository.h` | wrapper objects | log4cxx API on top of the C functions | loggers, configurators | forwards faithfully |

Behaviour that is hard to test: the file appender's rollover is half inside and
half outside its lock; system calls fail or write less than asked; the process
is killed between two renames; the socket appender has no lock and reconnects
with state of the previous connection in its layout; a configuration is changed
while threads log; registries are scanned and extended without a lock.  The
list with source lines is in `PROJECT.json` under `hazards`.

## 2. Modules

| module | models | composed with |
|---|---|---|
| `FileAppender` | the file appender: threads, mutex, descriptor, rollover, directory | |
| `RotatingLog` | what a rolling log file promises (abstract) | |
| `FileAppenderRefinement` | the mapping from `FileAppender` to `RotatingLog` | both |
| `FileAppenderProofs` | types, lock, cached size, what the renames leave in the directory; order, sizes and losses of records | extends `FileAppender` |
| `FileRefinementProofs` | the refinement of `RotatingLog`, step by step | extends `FileAppenderProofs` and `FileAppenderRefinement` |
| `AppenderRegistry` | the list of appenders and the table of extra classes | |
| `LoggerTree` | loggers, names, parents, levels, slots, delivery | extends `AppenderRegistry` |
| `LoggerTreeProofs` | types, counts and attachments | extends `LoggerTree` |
| `NamesAndLevelsProofs` | what names of appenders, classes and loggers denote; levels and deliveries along the tree of parents | extends `LoggerTreeProofs` |
| `LoggerRegistry` | the steps of `l4sc_get_logger` taken by several threads | implements a call of `LoggerTree` |
| `LoggerRegistryProofs` | what is left of the list when these steps overlap, and that they are one step when they do not | extends `LoggerRegistry` |
| `Configurator` | property and XML configuration from strings and files | extends `LoggerTree`, calls its operations |
| `ConfiguratorProofs` | that configurations are calls of the API, what they leave, and that a repetition leaves it | extends `Configurator` and `NamesAndLevelsProofs` |
| `DeclarationProofs` | that what is configured is what the text declares | extends `ConfiguratorProofs` |
| `JavaStream` | what the log4j and log4j2 socket layouts write, and a reader of it | |
| `SocketAppender` | the socket appender, its threads and its server | extends `JavaStream` |
| `SocketAppenderProofs` | descriptors, lost records, readable streams | extends `SocketAppender` |
| `Printf` | formats, numbers, strings, ends of buffers | |
| `PatternLayout` | patterns, named formats, time fields | extends `Printf` |
| `Utf8` | UTF-8, JSON and XML escapes, Java strings, transcoder | |
| `StreamLayouts` | JSON and XML records, websocket frames | extends `Utf8` |
| `XmlScan` | tags, attributes, entities of the XML parser | |
| `Options` | sizes, numbers, paths, backup names, the time window of a file | |
| `LogMessage` | message buffers that grow, short writes to the console, the library's own lines | |
| `CxxInterface` | the C++ message buffer and the names in a location | |
| `Text` | calls of all these functions, and what the results are compared with | extends them |
| `MCFileAppender`, `MCLoggerTree`, `MCLoggers`, `MCConfigurator`, `MCLoggerRegistry` | values of constants for TLC | |

Operators whose name ends in `_Something` under the comment "Faulty variant" are
never part of a specification.  Each is the definition that follows it with one
plausible mistake; putting it in the place of that definition must break a
property, which shows that the property can fail.

### FileAppender

One appender object, any number of threads inside `append_to_output`.  `pc[t]`
is the next statement of thread `t`; the steps are the system calls and the
operations on the mutex, in the order of the code:

    Format, LockAppender, OpenIfClosed, CheckRollover,
      [RenameLog, CloseLog, ReopenLog,]          start_rollover, under the lock
      WriteSome | WriteFails | SkipWrite, UnlockAppender,
      [RemoveLast, ShiftBackup ...]              complete_rollover, after the unlock

`fd` is the inode behind the descriptor (`NONE` when `is_open()` is false),
`filesize` the cached size.  `log` and `backup[i]` are the inodes that the
directory names `<file>` and `<file>.<i>`; inodes are numbered as they are
created, so a smaller number is an older file.  `runs[inode]` holds the bytes of
a file as runs `[by, n, len, bytes]` of one message.  `Reconfigure` is
`l4sc_close_appenders` called by any thread; `Crash` ends the process anywhere
and starts it again on the same directory.  `Fault` lets any of open, fstat,
rename, unlink, write fail.  A file whose size `fstat` does not tell counts as
empty (`MeasureFile`); `unmeasured` is the history of the bytes that it holds in
truth.  `stdinFree` covers the case that `open()` returns 0, which
the code takes for "closed".

Abstracted: the bytes of messages and names, the retry after EINTR and EAGAIN
(it changes nothing and is a stuttering step), the Windows branches, option
parsing.

### RotatingLog and the refinement

`RotatingLog` is a live file and a list of backups; a file is its whole messages
and its bytes, so that the limit on the size is part of the promise: a message is
appended to a file it fits into, or to an empty one, and only a file that some
message does not fit into is rotated.  In the mapping a message enters the live
file when its last byte is written (`Finished` leaves the record that is being
written out), the generations are the existing backups in the order of their
indexes, `RenameLog` is the rotation and `RemoveLast` the expiry; the renames of
the shift loop are invisible.  It holds for one thread without faults; with two
threads the rollover race (finding `file_roll_race`) breaks it.  The run
`file_single` checks all of it, the theorem `RotatesCorrect` proves the safety
part for every value of the constants; that an excess backup does go
(`WF_vars(Expire)`) is left to the run.

### AppenderRegistry

`appenders` is the list in the order of creation (the code's list is the
reverse); `GetAppender(n, k)` is `l4sc_get_appender` with its four ways to a
class (`ClassOf`: the file class, a registered extra class, the class of some
existing appender, the console as fallback), the reuse of an appender of the
same class and the replacement of one of another class, which is renamed
`obsolete_appender_name` and closed.  That the allocation or `init` of the new
one fails (`appender.c:331`), after which the name denotes no appender, is left
out.  A class in a configuration is a record:
the class that its last part names, whether a package is written before it, and
whether NUL follows it in memory, as `l4sc_get_extra_class` compares beyond the
end of the name.

### LoggerTree

A logger is its position in the global list.  Names are sequences of parts with
one character per part, so that the length of a name with `k` parts is
`2k - 1`; `NameSize` is `sizeof(namebuf)`, and `Stored` cuts a name as
`set_logger_name` does.  `WithLogger` is the whole of `l4sc_get_logger`: the
search, the creation, and the recursion through `set_logger_name`, which asks
for the prefix before the last dot; `FoundAt` searches the list with the new
logger already in it, because `init_logger` appends it before the name is set.
`SetAppender` is `set_logger_appender` with its sweep of obsolete appenders, and
`IsEnabled` and `Deliveries` are the two recursions up the tree with their limit
of `MaxRecursions` steps: the answer, and how often a message reaches each
appender (not in which order).  A logger of the root class has the level that is
set on it, whatever it is, and prints to stderr whatever appenders it holds
(`rootlogger_append`): only loggers of the ordinary class have deliveries, and take
`INHERIT_LEVEL` as a question to the parent (`Inherits`), so `LevelByName`, which
says by names alone which level should count, counts such a level as well.  `asked` (the name before the cut) and `adopted`
(loggers whose parent a program set) are history.

### LoggerRegistry

`LoggerTree` takes `l4sc_get_logger` as one step, which is right for one caller
at a time.  `LoggerRegistry` takes the same function apart: `Begin`,
`ComparePrefix`, `CompareEnd` and `Advance` scan the list, where the two halves of
a comparison each read the name of the logger, `InitLogger` or `AllocFails` is the allocation,
`ReadLast`, `Link` and `SetLast` are the accesses of `BFC_SLIST_INSERT_LAST`,
`Name` and `Parent` are `set_logger_name`, whose search for the prefix is a call
on `stack`.  Loggers are addresses and `next` is what the link says, so a lost
logger is one that no link leads to.  Stores are seen in program order.  `clean`
(no logger was created while another thread searched) and `calm` (the list when
all calls had last returned) are history; they say when `LoggerTree`'s step is
what happens (`AsOneCall`, an instance of `LoggerTree` over `calm`).  The
property of what is left when calls do overlap (`RacesContained`) leaves out the
answers to calls for one of six names, `l`, `lo` and so on to `logger`
(`Beginnings`): `init_logger` puts a logger called `logger` into the list, so
another thread that asks for `logger` finds it before it gets the name it was made
for, and one that asks for `log` finds it when the name is set between the two
reads of its comparison (`Changed`) and the new one is not longer.

### Configurator

One step is one call of the API that a line or a tag leads to, and each is an
operation of `LoggerTree`.  `Begin` starts a text, `Close` is
`l4sc_close_appenders`, `Unreadable` a file that cannot be opened, `ReadItem` a
line or tag, `SecondPass` the return of the property configurator to the start
of its text, the `Call` steps do what `ReadItem` has queued, and `Finish` ends
the call.  The XML configurator keeps
the current appender, layout and logger across tags; a comment is a tag to its
first `>`, so what stands in it is read.  In a property file only the first 255
characters of a line count, which `fit` says of the references on a line.
Level and additivity of a logger are set in one way each, by the tag `level` and
the attribute `additivity`; the code takes either as an attribute and as a
`param` too.  A file is read whole or not at all: a read error in its middle,
which `fgets` does not tell from its end, is not modelled.

What a text declares is defined without the parser, by the elements around a tag
(`Enclosing`, from the depth of the tags).  The properties leave out what the
parser does with text that is no configuration: it never looks whether an end tag
is that of the element that is open, so the properties are about XML in which
every element has its end and stands where a configuration has it (`Conforming`:
a layout in an appender, an option in an element that has options, loggers and
appenders in no other; `root` is every element the parser does not know).
`Orderly` leaves out a second definition of an appender with another class, an
appender behind a reference in XML, and comments with more than one tag, the
first of which the parser misses.

### JavaStream and SocketAppender

`JavaStream` keeps what both ends of the wire number: the first object of a
class carries the description of the class, later ones its handle.  `Estimate`
and `Format` are functions of the writer's state, `ReadRecord` what a Java
reader does.  Bytes count only for the question whether a record fits the
buffer that was estimated.

In `SocketAppender`, `pc[t]` is the next statement of a thread; the appender has
no lock, so each access to the shared descriptor is a step:

    Estimate, TestOpen,
      [Connect | ConnectFails, SendHeader, Publish, InitLayout,]     open_appender
      Format, Drop | TestStillOpen, GetSocket,
      SendWhole | SendPart | SendLost | SendFails,
      [TakeSocket, CloseSocket]                                      close_appender

The server goes down, comes up and hangs up (`ServerGoesDown`, `ServerComesUp`,
`HangUp`) until `LastFault`; the system takes one more record for a dead
connection before `send` fails (`SendLost`, `SendFails`).  A closed descriptor
number is used again.  A connection on which appends of several threads met is
marked `shared`, and nothing is claimed of what its reader makes of it: the code
has no protocol for that, and formatting, which is one step here, is not one
there.

### Text

The functions on text are pure, so `Text` has one action per function: it takes
one of its inputs and leaves `call`, `in` and `out`.  Each property compares the
results of some of these calls with a definition that does not follow the
code: the C standard for `printf`, log4j's words for patterns and the rules of
`SimpleDateFormat` for dates, a reader of JSON and of websocket frames (RFC 6455),
a strict reader of UTF-8 (RFC 3629: no surrogates, no longer forms), a reader of
the strings of a Java stream, the XML rules for attributes, and for options the
number or path that is written.  A frame is laid out in a memory that goes on
behind the buffer (`Beyond`), so that what is written there shows.  Where the code
is known to differ, the property leaves that case out by name and the comment
above it gives the line; section 5 lists them all.

## 3. Runs

| run | question | result |
|---|---|---|
| `file_concurrent` | two threads, three messages each, reconfiguration at any time | types, lock discipline, sizes, order and integrity of records, transit name cleaned up, every append returns |
| `file_faults` | the same with two messages each, one failing call (open, fstat, rename, unlink or write), one crash, descriptor 0 free or not | cached size true but for what a failing fstat did not tell of, generations in order, at most one message lost for each fault |
| `file_single` | one thread, no faults | implements `RotatingLog`; only the oldest backup goes |
| `file_roll_race` | overlapping rollovers | **violation**: the newest backup is destroyed |
| `loggers` | loggers created in any order; then levels and custom loggers, or long names, or attachments and additivities | parents and inherited levels are what the names say; a name denotes one logger for ever; each message is delivered once for each ordinary logger that additivity leads to, never to appenders of the root |
| `logger_appenders` | appenders by name and class, a class registered in between, attached to two loggers and replaced | one live appender per name, counts exact, no appender twice in a logger, class names keep their meaning |
| `logger_long_name` | a name cut exactly before its last part | **violation**: the logger is its own parent |
| `logger_race` | two threads ask for loggers at the same time, an allocation may fail | scans end, answers have the right name but for the six names that `logger` begins with, parents are right or missing after a failed allocation; calls that do not overlap are those of `LoggerTree` |
| `configure` | any two of some sixty texts, the second once more | the result is what the text declares; a repetition changes nothing |
| `socket` | a logging thread, a second one that comes once, a server with faults | streams readable, buffers outgrown only after a reset, no descriptor lost by one thread, at most two records lost in a row, logging recovers |
| `socket_reconnect` | the first record of a connection | **violation**: it may outgrow its buffer |
| `text` | some 70000 calls at the limits of numbers, buffers and encodings | results as the standards say, but for the cases that section 5 lists |

### Bounds

- `MaxMessages`, `MaxFaults`, `MaxCrashes`: two threads with two or three
  messages fill a file of size 2, overlap two rollovers and pass every backup
  index; one fault or crash anywhere is enough for each single-fault claim
  (`LossBounded` counts them).
- `MaxFileSize = 2` with messages of 1, 2 and 3: a message fits exactly, does
  not fit, and is longer than the limit.
- `NameSize` 4 and 6 with `MaxRecursions` 2 and 3 stands for 40 and 20, and
  `NameSize = 2 * MaxRecursions` as there: the longest name that fits needs every
  recursion step.  An even size cuts a name behind a part, where it can be taken
  for a shorter name.
- `MaxLoggers`, `MaxAppenders`, `MaxAdopted` bound what only grows;
  `MaxExtraClasses = 1` with two classes stands for 20 with 21, and
  `MaxSlots = 2` with three appenders for 4 with 5.
- `loggers` explores levels, names and deliveries one at a time (`scope` in
  `MCLoggers`): the functions for each read only their own fields and the
  parents.
- `MaxCalls = 2` for two threads over the names `a`, `a.b`, `log`: two threads look
  for the same new name, for neighbours on the list, for a name and its prefix,
  for one that `logger` begins with, and again after that.  `MaxFailures = 1`.
- `MaxConfigurations = 2`, and one repetition: every pair of property texts of up
  to two lines and of the longer XML texts, so that each appender changes its
  class, each level is set and reset, and slots run full.  `MaxAppenders = 16` is
  never reached by these.
- `ResetAfter = 20` stands for 500: some records, then a reset.  `MaxFds = 2`:
  one descriptor can be lost and another used.
- `IntBits = 8`, `LongBits = 9`, `SizeBits = 16` (with `KiloBits = 4`) stand for
  32, 64 and 64 (with 10), so that the ends of the ranges are inputs.  `LEN2B`
  and `LEN8B` are the lengths at which a websocket frame takes two or eight
  bytes for its length (126 and 65536); `MinFrame` is the smallest buffer that
  `format_websocket` takes (40).

`CHECK_DEADLOCK FALSE` is set where the system really stops: the threads of the
file appender and of `logger_race` after their messages and calls, `configure`
after its last text.  Waiting for the mutex for ever would violate
`AppendReturns`.  `text`, the socket and the other logger runs check for
deadlock.

### Fairness

- `FileAppender`: `WF_vars(Work(t))`: a thread inside `append_to_output` is
  scheduled until it returns, and `write()` does not answer EINTR or EAGAIN for
  ever.  Weak fairness is enough for the mutex because the number of messages is
  finite; no fairness is assumed of `Format`, `Reconfigure` or `Crash`.
- `SocketAppender`: weak fairness of `AppendToOutput(t)` for the threads that go
  on logging: they run, and their calls return.  Strong fairness of
  `Estimate(t)`: a program that logs again and again does so whatever it does in
  between (it may also close the appenders).  Weak fairness of
  `ServerComesUp`, without which nothing could recover.  None is assumed of the
  faults or of the visiting thread.

All other properties are safety properties and do not depend on fairness.

## 4. What is proved

All theorems hold for any number of threads, messages, files, loggers, names,
classes, descriptors and faults, from the assumptions in the modules: sizes are
naturals, the threads of an appender are finitely many, those of the file
appender log finitely many messages, none of which is empty; `NONE` is not a
thread or a number and `NoFile` is not the contents of a file; names are
sequences of parts that are not empty, and `namebuf` has room for a character
and the end of the string; a text is a sequence of the lines or of the tags and
comments that the operations tell apart (`TextsAssumption`), and the call names
classes that exist (`PassedAssumption`).  Four theorems of the configurators are
about names that are not cut (`NamesFit`). Three theorems of the file appender are about one
thread without faults (`OneThread(t)`: `Threads = {t}`, no faults, no crashes;
`Alone(t)`: and descriptor 0 is never free). These are values of the constants,
those of the run `file_single`, and the claims are false without them: two
threads destroy a backup (`file_roll_race`).

### File appender

`FileAppenderProofs`:

- `TypeCorrect`, `LockDisciplineCorrect`.  The inductive invariant is `TypeOK`,
  `LockDiscipline`, what the locals of a thread are at each statement
  (`LocalsOK`: the loop index is positive in the loop, nothing is written before
  the write loop), and `ReopensClosed`: `open_appender` in `start_rollover` finds
  the descriptor closed.  The types alone are not inductive: `index - 1` stays
  in range only because the loop is entered with a positive index.
- `FilesizeCorrect`: the cached size is the size of the file less the record
  being written, and less what the file held when `fstat` failed (`unmeasured`,
  which is 0 until that happens).  It needs the lock discipline (only the owner writes) and
  `ReopensClosed`.
- `BackupsInAgeOrderCorrect`: the unlocked renames never reorder generations,
  whatever interleaves, fails or crashes.  It holds without any assumption on
  the lock: a rename from `i - 1` to `i` replaces the only index that could be
  out of order.

- `ZeroIsTransientCorrect`: without faults `<file>.0` exists only during some
  rollover, for any number of threads: the name is taken only by a thread that
  begins one, and the thread that ends one gives it back.
- `OnlyOldestRemovedCorrect`, `OnlyLastBackupRemovedCorrect`, for one thread:
  the backups have no gap but the index that the shift loop moves (`NoGaps`), and
  the live file exists whenever a rollover begins and ends (`LiveFile`).  So the
  last index is in use only when all are, no rename replaces a file, and the
  unlink meets the oldest of more than `MaxBackupIndex` backups.

The same module, for any number of threads, short and failing writes, rollovers
and crashes:

- `MessagesInOrderCorrect`, from `RecordInv`: the open file is the newest one,
  the record of the owner of the lock is its last and has what was written of the
  message, and no thread has a record newer than its message in any file.
- `SizeBoundedCorrect`, from `SizeInv`: while nothing fails the message in hand
  fits into the open file or is alone in it (`Fits`).  `unmeasured` is 0 then, so
  the cached size that the code compares is the size of the file.  The answer of
  `is_rollover_required` stays true up to the last `write()` because the file
  is opened and written under the lock.
- `LossBoundedCorrect`, from `LossInv`: the lost messages, and the one that the
  owner of the lock cannot save any more (`Doom`: it was cut short, or no file is
  open and no rollover will open one), are at most those that faults and crashes
  excuse.  `Doom` is what makes it inductive: a fault is counted when it happens,
  the message is lost only when its thread returns.

`FileRefinementProofs`: `RotatesCorrect`, `Spec => Abstract!Safety` for one
thread.  `TurnInv` joins the invariants above with what the thread finds at each
statement (`TurnsOK`): the log is open whenever it is checked or written, the
rename is reached only with a message that does not fit, and all records but the
one in hand are whole.  Then there is one lemma per kind of step: nothing visible,
the creation, the rotation, the expiry, a shift, a write.  The mapping orders the
existing indexes with `CHOOSE`; `Enumerates` and its lemmas say that a finite set
of naturals has exactly one ascending enumeration and what becomes of it when
its first element is added, its last removed, or one element moved up by one.

### Loggers and appenders

`LoggerTreeProofs`:

- `LoggerTypeCorrect`, `RefcountsExact`, `AppendersAttachedOnce`, from the
  conjunction of the three.  They need each other: without the types a new
  appender could already be counted in some slot, and without the exact count a
  release could fall below zero.  The steps fall into three kinds, each with a
  lemma: the list grows by loggers with empty slots (`ListStep`,
  `OneLoggerStep`, on top of what the recursion of `l4sc_get_logger` leaves,
  `WithLoggerExtends`), the registry changes but no count does
  (`AppendersStep`), and one logger sweeps slots and may take one
  (`SlotStepInv`, by counting the attachments that go and come).
- `RegistryTypeCorrect` for the registry alone.

`NamesAndLevelsProofs`, about names:

- `NamesUniqueCorrect`, `ReplacedOnClassChangeCorrect`,
  `ResolutionStableCorrect`: every operation on the registry creates one appender
  as `Created` says or changes no name and no class (`SameAppenders`).  The
  invariant `NamesInv` adds that the name of an appender that is not obsolete is
  one that was asked for, so that no live appender has the obsolete name.  That a
  class name keeps its meaning rests on the order of the four ways to a class:
  what a new appender brings into use had that meaning before.
- `LoggersUniqueCorrect`, `ParentByNameCorrect`, `LookupStableCorrect`: a call
  adds to the list the logger that is asked for and those of its prefixes, each
  one part shorter and each found from then on by its own name
  (the lemmas on `WithLogger`), and otherwise changes no name.  A name that does
  not fit is left out by the properties: there the finding
  `logger_long_name` is.

And about levels: `AnswersAsParentCorrect`, `LevelInheritedCorrect` and
`DeliveredOncePerLoggerCorrect`, for every depth of the recursion and every tree
that `l4sc_set_logger_parent` can build, cyclic ones too.

- The two recursions are recursive functions over `0..MaxRecursions`.  That such
  a function meets its own equation is proved once for a step repeated `m` times
  (`Iterates`), by `Climb`, an induction over `0..m` as a set without a least
  counterexample; `AnswersAre`, `SumsAre` and `WayIs` bring the three recursions
  of `LoggerTree` into that form.
- The properties speak of the number of loggers on the way up, the recursion of
  the number of steps.  `NeverTwice` and `Crowded` relate them: up to the first
  logger that passes nothing on no logger comes twice, since from there the way
  would go round for ever, and among more steps than loggers one comes twice.
- `AnswersAgree`: the logger has one step more than its parent.  Where the two
  answers differ, every logger that is met before the recursion runs out
  inherits, and the next one does not, since two that inherit compare the same
  `INHERIT_LEVEL` in the end.  Then no logger has come twice, and the way up is
  longer than the recursion.
- `LevelByTheName` needs two more invariants.  `PredefinedKinds`: neither
  predefined logger ever passes anything on, so every logger that does has a
  parent.  `NamesAsAsked`: a name that fits is kept as it was asked for, and the
  first logger of the list with that name is the one that was asked for by it.
  With `ParentByName` the way up then goes through the prefixes of the name, one
  part shorter each (`NamesUp`), which is not further than the recursion goes, as
  a name that fits has at most `NameSize / 2` parts (`FittingDepth`, from
  `RecursionsAssumption`).
- `DeliveredOncePerLogger` counts ordinary loggers: what the root or a custom
  logger holds gets nothing (section 5).
  `SumIsCount` counts the loggers met so far that hold the appender against what
  the recursion has still to add; `AttachedOnce` makes each count one, and
  `NeverTwice` keeps a logger from being counted again.

`LoggerRegistryProofs`: `RacesContainedCorrect`, for any number of threads that
call `l4sc_get_logger` at the same time, any names, any calls and any failing
allocations.  The inductive invariant `IInv` has six parts:

- `TypeOK`, and `OwnInv`: a thread that has made a logger and not named it has
  it for itself;
- `ListInv`: the loggers can be numbered so that every link leads to a higher
  number (`Ranked`), and a logger that is not linked yet is known to nobody but
  its thread: no link leads to it, it is not the end of the list, and nobody has
  read it as the end.  The numbering is not the order of the allocations, as an
  earlier logger may be linked behind a later one; a link to a new logger gives a
  new numbering in which that one comes last (`RankedMore`), which is right
  because nothing is linked to it and it is linked to nothing.  A scan then meets
  ascending numbers and has to end (`RankedEnds`);
- `NamesInv`: a logger has its name or is being named;
- `CallsInv`: the loggers on a thread's stack are each asked for as the prefix of
  the one before, what the first half of a comparison has found, also after the
  name is set (`EndIs`), and an answer is a logger of the name that was asked
  for, any for the six names that `logger` begins with (`Good`);
- `ParentsInv`: a logger has the right parent, or some thread has still to set it,
  or it has none and an allocation has failed.

The same module proves `AsOneCallCorrect`: while no logger is created during
another search and no allocation fails (`Plain`), the steps of `l4sc_get_logger`
amount to the one step of `LoggerTree`, for any number of threads and any names.
`IInv` says nothing of the order of the list, so `PlainInv` adds what holds on
plain behaviours:

- `CalmInv`: the loggers up to the length of `calm` are those of `calm`, and once
  nobody creates there are no others;
- `AloneInv`: a thread that creates is alone, while searches may overlap;
- `OrderInv`: the links lead through the loggers in the order of their
  allocation, but for the last one between its allocation and its link;
- `RecursionInv`: the `i`-th new logger has the `i`-th of the names a call asks
  for (`Made`), no logger before it has that name (what a search has passed does
  not have it, `NewAt`), and the loggers from the depth of the recursion on have
  the parents they are to have (`ParentOf`).

When the outermost call returns, `ScanInOrder` makes `View(nodes)` the loggers in
their order, and `MadeAsOne` shows that `LoggerTree` arrives at the same list: the
prefix at which its `Ancestor` stops is the first that a search found
(`FirstFound`, `NoneFound`), as each search also meets the loggers that the call
has made so far, which is what `Joined` stands for in `FoundAt`.

### Configurators

`ConfiguratorProofs`, for any texts, however often, in whatever order and
wherever a file is not readable.

`ConfiguratorImplementsLoggerTree`, `ConfiguratorSpec => Spec`: every step of a
configurator is a call of the API or changes no logger and no appender.  What the
seven theorems about `LoggerTree` say of a program that calls the API, they
therefore say of one that is configured from texts.

- A step of `LoggerTree` has a guard that the configurator does not repeat: the
  logger of a level or an additivity is in the list, an appender that is attached
  is there and is not obsolete, the class that is registered is not predefined.
  These hold because of what an earlier call of the same line or tag has left in
  `cur`, and because of the calls that a line or tag leads to at all (`CallsInv`).
- `Visible` flattens a text with the recursive `FlattenSeq` of the library;
  the lemmas on it say that what a comment leaves is a sequence of tags in the
  order of the text.

`ConfiguratorKeepsInv`, `RepetitionChangesNothing` (that
`ConfiguratorSpec => []RepeatChangesNothing`) and, in `DeclarationProofs`,
`TextsAsDeclared` and `OptionsToEnclosing` (the same for `ConfiguredAsDeclared` and
`OptionToEnclosing`) are about names that fit (`NamesFit`: no name of an appender or a logger is longer
than the buffer it is kept in).  Without that they are false: a logger whose name
is cut is not found by it, and is made anew by every call.  They follow from
`ConfiguratorInv`, which says at any time between the calls how much of a text is
in the loggers by then:

- What a text says is given item by item (`Names`, `Defines`, `SetsLevel`,
  `SetsAdditivity`, `Attaches`), for XML by the tags that are open behind an item
  (`LoggerOpen`, `AppenderOpen`, `LayoutOpen`), without the state of the
  configurator.  `CurrentInv` says that `cur` is what these tags say.
- `Made(i, op)` says that the call of item `i` has been made in this pass,
  `EverMade` that it has been made in this pass, in the first one or in the call
  that is being repeated.  `ShapeInv` and `RegisteredInv` say what is still to be
  called (`RestOf`) and registered.
- `NamedInv`, `DefinedInv` and `AttachedInv`: what was ever made stands, the
  logger is in the list, the name denotes an appender of the class of the
  definition, and the logger holds the appender or has no free slot.  The
  last holds as an appender is only replaced while no reference to it was made:
  in XML all appenders stand before the references, a file of properties is read
  twice and only the references of the second pass count (`EverMadeRef`).
- `LevelsInv` and `AdditivityInv`: what was made last in this pass counts.
- `RepeatInv`: a repetition differs from what it found in no more than levels and
  additivities that the text sets (`OnlySettings`), and what it found is what
  the text sets last.  For every other call finds what it asks for: the logger by
  `NamedInv`, the appender by `DefinedInv`, the attachment by `AttachedInv`, where
  `SlotsAfter` says that `set_logger_appender` then changes no slot and no count.
  When the text has been read, `LevelsInv` says that levels and additivities are
  those that were found too (`RestingRepeat`).

`DeclarationProofs` brings together what the invariant says, which goes by what is
current, and what the properties say, which goes by elements, for texts of any
length and nesting:

- `DepthStep`, `EnclosingHolds`, `InEncloses` and `StillOpen` are about depth: a tag
  is in an element (`In`) as long as the end of that element has not come, and in
  that element or in another one inside it directly.  `EndMatches` is the step
  from depth to names: an end tag around which an element stands ends that element,
  since behind its own end a tag would be no deeper than the element.
- `NoneInside`, `NoLayoutInside` and `NoRefInside` say what cannot stand in a logger,
  an appender or a layout, at any depth, other than its own end.  The parser keeps
  one logger, one appender and one layout and no stack; this is why that is enough.
- `LoggerOpenIn`, `AppenderOpenIn` and `LayoutOpenIn` carry this over to what is
  read, which is the text without its comments, in the same order (`Follows`).
  `LoggerOpenIn` holds in both directions; for the other two the converse is
  `AppenderAround` and `LayoutAround`, which need that no reference stands in an
  appender.
- `TextsAsDeclared`: the levels, references and classes that a text declares for a
  logger are then those of the items that `LevelsInv`, `AttachedInv` and `DefinedInv`
  speak of (`Declares`, by `LinesDeclare` and `TagsDeclare`).
- `OptionsToEnclosing`: `PlacedInv` adds to the invariant that every option was set
  for what is current at its tag (`TargetAt`), and `CurrentIsAround` says that this
  is the element around it.

### Socket appender

`SocketAppenderProofs`, for any number of threads and descriptors:

- `NoDescriptorLostCorrect`, from `OwnInv`: two threads inside the appender have
  made all connections `shared`, and a connection that is not shared is the
  appender's or in the hands of the thread that opens it, which found no other.
- `FewLostInARowCorrect`, from `LossInv`: while no appends have overlapped there is
  one connection at most, and the number of records lost in a row follows from
  what the system knows of the server: none while it has not been told that the
  server hung up, one when it has (`Orderly`).
- `StreamReadableCorrect` and `OutgrownOnlyAfterResetCorrect`, from `StreamInv`.
  It has to be one invariant: a record is read because its writer and its reader
  were in step, they stay in step because it fits its buffer, and it fits because
  of what the stream was when it was estimated.
  - `Sync` says that a reader is in step with a state of the stream: it has seen
    as many things as the stream has handles, and each class the stream refers to
    stands at the handle the stream has for it.  `RecordRead`: such a reader
    understands the next record and is in step with what it leaves behind,
    whether the record resets the stream, begins it, describes or refers.  This
    follows the items of the record one by one (`Along`), for both layouts; that
    the string with handle 4 has been seen when a description refers to it is
    because the first description of a record is long enough (`RecordShape`).
  - `ReadInv` follows the one thread in the appender.  The reader of the
    connection is in step with the stream until the record is formatted; from
    then on the reader it becomes by reading that record is (`Phase`).  A
    connection that was cut, that has taken a record longer than its buffer, or
    whose server is gone needs no reader (`Followed`); one that two threads met
    on is shared, and nothing is claimed of it.
  - `FreshInv`: while the stream is fresh and no thread is between the header
    and the formatting, no thread in front of the header has an estimate without
    room.  Otherwise a record has been formatted since the connection before, or
    another thread has written a header since the estimate: a record that
    outgrows its buffer is the first behind a header, and late.
  - `HandleInv` counts the estimates without room that are still to be used
    (`Tight`): each can add one record (`LongestRecord`, 33 handles, by
    `RecordBounded`) to a stream that was within the threshold when it was made.
    This is where the bound of `OutgrownOnlyAfterReset` comes from: the threshold
    and one record for each thread, not one record.
  - The recursive functions of `JavaStream` are unfolded by `Walk` and `Climb`,
    an induction over `0..m` as a set without a least counterexample.

### Only model-checked

- Liveness: `AppendReturns`, `Recovers`, and the fairness of the expiry in
  `ImplementsRotatingLog`.
- `Text`: the operations of its modules run over strings by recursion.

## 5. Disagreements found

Shown by a run:

- `fileappd.c:452` (`file_roll_race`): `complete_rollover` runs without the
  lock.  If a second thread rolls over before the first has moved `log.0` to
  `log.1`, `rename(log, log.0)` replaces the first's file: the newest backup is
  lost, although the comments speak of removing the last one.
- `logger.c:251` (`logger_long_name`): a name whose prefix before the last dot
  has exactly 39 characters is cut to that prefix, finds itself as its parent,
  inherits no level and hands each message to its appenders 21 times.
- `sockappd.c:211` (`socket_reconnect`): the buffer of a record is estimated
  before the appender connects.  `init_layout` then resets the stream, the
  record carries its class descriptions again and is longer than its buffer: the
  bytes that are sent are not those that were written.

Met while modelling; the models do what the code does, and the properties leave
these cases out by name:

- `appender.c:240`: `l4sc_register_extra_class` returns 1 when the table is full
  and drops the class; `log4stdc.h:104` promises a negative result.
  `appender.c:256`: a qualified class name is compared over the rest of the
  line's buffer, so `org.apache.log4j.net.SocketAppender` in a property file
  makes a console appender.
- `logger.c:204`: a new logger is in the list under the name `logger` until
  `set_logger_name` has run.  A program that asks for `logger` at that time gets
  it, and has a logger of another name when the call that made it has returned.
  `logger.c:516`: the name is read twice, by `strncasecmp` and for its end.  Between
  the two the name may be set, so a call for `log` may answer with a logger that
  was called `logger` and now has any name of three characters or less.
- `logger.c:474`: `rootlogger_append` prints to stderr and ignores the appenders
  of the root, although `log4j.properties:2` and `tests/propcfg/level.c:13` attach
  one to it.  The model does the same; `DeliveredOncePerLogger` says that
  ordinary loggers deliver and counts no other.
- `appender.c:183`: after a short write the console appender writes the text
  again from its start: of `xyz` written two characters at a time `xyxy` arrives.
- `fileappd.c:345`: when `fstat` fails the size of the file is taken for 0, and
  the file grows beyond `MaxFileSize` by what it held.  `FilesizeAccurate` counts
  those bytes (`unmeasured`), and `SizeBounded` is about runs without faults.
- `fileappd.c:409`: the name of a backup with an index of 10000 or more is cut.
  `fileappd.c:165`: an empty `File` option leaves the name undefined.
  `fileappd.c:211`: a size near the limit of its type is scaled once more.
- `xmlcfg.c:323`: a `>` in an attribute ends the tag; `xmlcfg.c:776`: an entity
  that is not known repeats the character of the last one that was.
  `propcfg.c:129`: a line of more than 255 characters in a file goes on as a line
  of its own.
- `fmtjtime.c:98`: a number of three digits that begins with 10, in fewer letters,
  gets `:` for its first two digits: day 100 of the year is written `:0`.
  `fmtjtime.c:231`: a single `y` gives two digits of the year, where
  `SimpleDateFormat`, which `fmtjtime.c:178` and `layout.c:421` promise, gives all of
  them.  Other numbers of `S` than three give decimals of the second, where Java
  gives a number of milliseconds (not among the inputs).
- `jsonstrm.c:169`: escapes that take more than was estimated lose pieces of the
  record.  `jsonstrm.c:340`: a record may take all of a buffer of a frame but 8
  bytes; when its length needs a longer header than was expected it is moved by up
  to 6 bytes more (`:361`), and the mask is laid over it in whole groups of four
  (`:411`), so the last bytes of such a frame are written beyond the buffer.
- `l4jstrm.c:459`: the length of a Java string is corrected upwards only, so it is
  too big for characters in a longer form than they need.
- `transcoder.cpp:214` refuses U+0800; `transcoder.cpp:139` and `:164` compute a
  wrong low surrogate for most characters above U+FFFF.  Surrogates in three
  bytes, which are no UTF-8, are passed on by the XML escapes and the transcoder.
- `vsnprntf.c`: a `%` at the end of a format is read past the end.
- `messagebuffer.cpp:79`: text in a statement of its own after a number is lost
  from `str`; `:245`: each wide statement begins a new buffer, and `:273`: one that
  begins with a number goes to the narrow stream, which prints the address of the
  wide text behind it; the `UniChar` variant tests one buffer and writes the other.
- `locationinfo.cpp:120`: of a function without a class, whose result has several
  words, the method is taken to begin behind the first of them.
- `logger.cpp:186`: the C++ tests of a level compare with the level of the
  logger itself, which is `INHERIT_LEVEL` unless it was configured.
- `lnkdlist.h:66`: the removal from a list unlinks the first element only; it is
  never called.

## 6. Not modelled, and why

- Windows branches of all components; build, test and example code.
- Pools and mutexes: wrappers of `malloc` and of the system's recursive mutex.
  The mutex of the file appender and failing allocations are modelled where they
  are used.
- Options that change while threads append (`fileappd.c:490`): reconfiguration
  sets the same values.  Host and port of a socket, and the plain layouts on one.
- Floating point, `%n` and wide strings beyond ASCII in `printf`.
- The bookkeeping of layout objects, the host name in a pattern, the calendar.
- Several processes or several appenders on one path: the code has no protocol
  for it.
- Threads that race on the list of appenders, and configurators that run
  while loggers are created; `LoggerRegistry` covers lookups of loggers only.
- Stores of other processors that are seen out of order: a list without
  barriers promises nothing then.
- Destruction of loggers and appenders: the library never destroys them.
- The C++ classes that forward to the C functions or do nothing.

## 7. What remains

The modules, their runs, the safety properties and their proofs are done as far
as sections 2 to 4 say.  Open are proofs of what section 4 lists as only
model-checked; for the properties of `Text` recursive functions would be needed in
the place of its operators.
