---------------------------- MODULE MCLoggerTree ----------------------------
EXTENDS LoggerTree

\* Two appender names fit into namebuf; the third is cut to the first.
MCAppenderNames == {"log", "net", "log.too.long"}
MCKeptName == [n \in AppenderNames |-> IF n = "log.too.long" THEN "log" ELSE n]

\* A file class, a registered class by its plain name and qualified on a line
\* of properties, and one nobody registers.
MCFileKind == [tail |-> File, dotted |-> TRUE, ends |-> TRUE]
MCConsoleKind == [tail |-> "unknown", dotted |-> TRUE, ends |-> TRUE]
MCFileOnly == {MCFileKind}
MCKinds == {MCFileKind, MCConsoleKind,
            [tail |-> "SocketAppender", dotted |-> FALSE, ends |-> FALSE],
            [tail |-> "SocketAppender", dotted |-> TRUE, ends |-> FALSE]}

MCLevels == {INHERIT_LEVEL, WARN_LEVEL, OFF_LEVEL}
MCCustomNames == {<<"a", "b">>}
MCDebugOnly == {10000}

\* Of six characters in namebuf, the last of the shorter names takes five and
\* its NUL the sixth; the longest name is cut to that.
MCFitting == {<<"a">>, <<"a", "b">>, <<"a", "b", "c">>}
MCNames == MCFitting \union {<<"a", "b", "c", "d">>}
MCLongNames == {<<"a">>, <<"a", "b", "c">>}
=============================================================================
