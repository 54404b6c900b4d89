--------------------------- MODULE MCConfigurator ---------------------------
EXTENDS Configurator

MCFile == [tail |-> File, dotted |-> TRUE, ends |-> FALSE]
MCConsole == [tail |-> "unknown", dotted |-> TRUE, ends |-> FALSE]
MCSocket == [tail |-> "SocketAppender", dotted |-> TRUE, ends |-> TRUE]
MCKinds == {MCFile, MCConsole, MCSocket}
MCKeptName == [n \in AppenderNames |-> n]
MCNames == {<<"a">>, <<"a", "b">>}
MCLevels == {INHERIT_LEVEL, WARN_LEVEL, OFF_LEVEL}
MCPassed == <<"SocketAppender">>

\* Lines of properties
AppenderLine(n, k) == [kind |-> "appender", name |-> n, class |-> k]
LoggerLine(n, level, refs) == [kind |-> "logger", name |-> n, level |-> level, refs |-> refs, fit |-> 1]
MCLines ==
  {AppenderLine("A", MCFile), AppenderLine("B", MCConsole), AppenderLine("A", MCConsole),
   LoggerLine(<<"a">>, WARN_LEVEL, <<"A", "B">>),
   LoggerLine(<<"a">>, INHERIT_LEVEL, <<"B">>),
   [kind |-> "additivity", name |-> <<"a", "b">>, value |-> FALSE],
   [kind |-> "option", name |-> "A", of |-> "layout"]}
Property(items) == [form |-> "property", items |-> items]

\* Tags of XML
Open(k) == [kind |-> k, shape |-> "start"]
Shut(k) == [kind |-> k, shape |-> "end"]
Lone(k) == [kind |-> k, shape |-> "empty"]
XAppender(n, k, shape) == [kind |-> "appender", shape |-> shape, name |-> n, class |-> k]
XLogger(n, shape) == [kind |-> "logger", shape |-> shape, name |-> n, additive |-> FALSE]
XRef(n) == [kind |-> "ref", shape |-> "empty", name |-> n]
XLevel(v) == [kind |-> "level", shape |-> "empty", value |-> v]
XComment(tags) == [kind |-> "comment", inside |-> tags]
A1 == <<XAppender("A", MCSocket, "start"), Open("layout"), Lone("param"), Shut("layout"),
        Lone("param"), Shut("appender")>>
B1 == <<XAppender("B", MCConsole, "start"), Lone("layout"), Lone("param"), XRef("A"), Lone("param"),
        Shut("appender")>>
L1 == <<XLogger(<<"a">>, "start"), XLevel(WARN_LEVEL), XRef("A"), XRef("B"), Shut("logger")>>
L2 == <<XLogger(<<"a", "b">>, "start"), XComment(<<XLevel(OFF_LEVEL)>>), XRef("A"), Shut("logger")>>
L3 == <<XLogger(<<"a">>, "start"), XComment(<<XLevel(OFF_LEVEL), XLevel(WARN_LEVEL)>>), Shut("logger")>>
L4 == <<XLogger(<<"a">>, "start"), XRef("A"), Shut("logger")>>
R1 == <<Open("root"), XLevel(WARN_LEVEL), Lone("param"), Shut("root")>>
MCXmlTexts == {<<Open("root")>> \o A1 \o L1 \o <<Shut("root")>>, L1 \o A1 \o R1, A1 \o B1 \o L2, A1 \o L3,
               <<XAppender("A", MCFile, "empty"), XLogger(<<"a">>, "empty")>>,
               A1 \o L4 \o <<XAppender("B", MCFile, "empty")>>}

MCTexts ==
  {Property(s) : s \in UNION {[1..n -> MCLines] : n \in 1..2}}
    \union {Property(<<LoggerLine(<<"a">>, WARN_LEVEL, <<"A", "B">>), AppenderLine("B", MCConsole), AppenderLine("A", MCFile)>>)}
    \union {[form |-> "xml", items |-> s] : s \in MCXmlTexts}
=============================================================================
