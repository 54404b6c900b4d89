------------------------------- MODULE MCLoggers -------------------------------
(***************************************************************************)
(* Levels, names and deliveries do not depend on each other, so each is    *)
(* explored with the others at their defaults; which one is chosen first.  *)
(***************************************************************************)
EXTENDS MCLoggerTree

VARIABLE scope
MCVars == <<vars, scope>>

NamesFit(ls) == Len(ls) <= 5 /\ \A l \in DOMAIN ls : Fits(ls[l].asked)
DefaultLevels(ls) ==
  \A l \in DOMAIN ls : ls[l].level = CASE l = Root -> ERROR_LEVEL [] l = 2 -> WARN_LEVEL [] OTHER -> INHERIT_LEVEL
DefaultAdditivity(ls) == \A l \in DOMAIN ls : ls[l].additivity <=> ls[l].kind # "root"

InScope ==
  CASE scope = "levels" -> /\ appenders' = << >> /\ DefaultAdditivity(loggers') /\ NamesFit(loggers')
    [] scope = "names" -> /\ appenders' = << >> /\ DefaultAdditivity(loggers') /\ DefaultLevels(loggers')
    [] scope = "delivery" -> /\ DefaultLevels(loggers') /\ NamesFit(loggers')
                              /\ \A a \in DOMAIN appenders' : ~appenders'[a].open

MCInit == Init /\ scope \in {"levels", "names", "delivery"}
MCNext == Next /\ InScope /\ UNCHANGED scope
MCSpec == MCInit /\ [][MCNext]_MCVars
=============================================================================
