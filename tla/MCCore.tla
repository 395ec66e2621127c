---------------------------- MODULE MCCore ----------------------------------
(***************************************************************************)
(* The components of the library and the core that share nothing but the   *)
(* module interface, checked one beside the other in one run.  A behaviour *)
(* is about one component, its subject: the variables of the others never  *)
(* change, so the states of the run are the union of the components'       *)
(* states and not their product.                                           *)
(***************************************************************************)
EXTENDS ModuleControl, PollLoop, Router, ConfParser, ModuleConfig,
        Loader, PidFile, Expr, Regexp, Statvar, Schedule, Csv,
        LogData, Multiline

SmallPosted == {"POLL", "READ", "DATA_AVAILABLE", "START", "STOP", "PAUSE", "RESUME"}

VARIABLE subject

Subjects == {"control", "poll", "router", "parser", "config", "loader",
             "pidfile", "expr", "regexp", "statvar", "schedule", "csv",
             "logdata", "multiline"}

Unused == "unused"
About(s) == subject = s

RouterUnused ==
  /\ rtIgnore = Unused /\ rtRoutes = Unused /\ rtOf = Unused /\ refcount = Unused
  /\ priority = Unused /\ rtPhase = Unused /\ started = Unused

CoreInit ==
  /\ subject \in Subjects
  /\ Init
  /\ PollInit
  /\ IF About("router") THEN RouterInit ELSE RouterUnused
  /\ IF About("parser") THEN ConfParserInit ELSE cp = Unused
  /\ IF About("config") THEN ModuleConfigInit ELSE cf = Unused
  /\ IF About("loader") THEN LoaderInit ELSE ld = Unused
  /\ IF About("pidfile") THEN PidFileInit ELSE pf = Unused
  /\ IF About("expr") THEN ExprInit ELSE ex = Unused
  /\ IF About("regexp") THEN RegexpInit ELSE rx = Unused
  /\ IF About("statvar") THEN StatvarInit ELSE st = Unused
  /\ IF About("schedule") THEN ScheduleInit ELSE sc = Unused
  /\ IF About("csv") THEN CsvInit ELSE cs = Unused
  /\ IF About("logdata") THEN LogDataInit ELSE rc = Unused
  /\ IF About("multiline") THEN MultilineInit ELSE ml = Unused

CoreNext ==
  /\ UNCHANGED subject
  /\ IF About("control") THEN Next ELSE UNCHANGED vars
  /\ IF About("poll") THEN PollNext ELSE UNCHANGED plVars
  /\ IF About("router") THEN RouterNext ELSE UNCHANGED rtVars
  /\ IF About("parser") THEN ConfParserNext ELSE UNCHANGED cp
  /\ IF About("config") THEN ModuleConfigNext ELSE UNCHANGED cf
  /\ IF About("loader") THEN LoaderNext ELSE UNCHANGED ld
  /\ IF About("pidfile") THEN PidFileNext ELSE UNCHANGED pf
  /\ IF About("expr") THEN ExprNext ELSE UNCHANGED ex
  /\ IF About("regexp") THEN RegexpNext ELSE UNCHANGED rx
  /\ IF About("statvar") THEN StatvarNext ELSE UNCHANGED st
  /\ IF About("schedule") THEN ScheduleNext ELSE UNCHANGED sc
  /\ IF About("csv") THEN CsvNext ELSE UNCHANGED cs
  /\ IF About("logdata") THEN LogDataNext ELSE UNCHANGED rc
  /\ IF About("multiline") THEN MultilineNext ELSE UNCHANGED ml

coreVars == <<subject, vars, plVars, rtVars, cp, cf, ld, pf, ex, rx, st, sc, cs, rc, ml>>
CoreSpec == CoreInit /\ [][CoreNext]_coreVars
-----------------------------------------------------------------------------
(* Every component stays within its types.                                 *)
CoreTypes ==
  /\ TypeOK
  /\ PollTypeOK
  /\ About("router") => RouterTypeOK
  /\ About("parser") => ConfParserTypeOK
  /\ About("config") => ModuleConfigTypeOK
  /\ About("loader") => LoaderTypeOK
  /\ About("pidfile") => PidFileTypeOK
  /\ About("expr") => ExprTypeOK
  /\ About("regexp") => RegexpTypeOK
  /\ About("statvar") => StatvarTypeOK
  /\ About("schedule") => ScheduleTypeOK
  /\ About("csv") => CsvTypeOK
  /\ About("logdata") => LogDataTypeOK
  /\ About("multiline") => MultilineTypeOK

(* What runs is what the configuration says. ConfParser: directives and    *)
(* blocks are where they were written, with definitions and includes put   *)
(* in; ModuleConfig: a block's directives have the values given to them,   *)
(* in any order; Loader: modules start all together or not at all, unless  *)
(* errors are ignored, and calls reach the functions they name; Router:    *)
(* routes share no processor, and what is started belongs to a complete    *)
(* one; PidFile: one instance runs, and the pid file names it              *)
(* (confparser.c, the modules' config callbacks, core/modules.c, router.c, *)
(* main-unix.c).                                                           *)
SetUpSound ==
  /\ About("parser") => ParsedAsWritten
  /\ About("config") => ConfigMeansWhatItSays /\ OrderFree
  /\ About("loader") => StrictStartsWhole /\ CallsReachTheirOwn /\ RefusedIsNotThere
  /\ About("router") => ProcessorsUnshared /\ RegisteredRuns /\ StartedHasRoute
  /\ About("pidfile") => OneInstance /\ PidfileNamesRunner

(* What an Exec block and the readers make of a record. Expr: values have  *)
(* the type the parser gave to their expression, operators agree with each *)
(* other, nothing runs behind a drop(); Regexp: captured strings are of    *)
(* the last match, substitutions are complete; Multiline: all lines are    *)
(* kept, in whole messages; Csv: no buffer is exceeded and what was        *)
(* written is read back; LogData: a record is a map, its text and the      *)
(* field of that name are one, and it is saved whole (expr.c,              *)
(* xm_multiline.c, csv.c, logdata.c, logdata-serialize.c).                 *)
LanguageSound ==
  /\ About("expr") => StaticSound /\ OperatorsAgree /\ EndsThere
  /\ About("regexp") => CapturedIsLast /\ SubstitutesAll
  /\ About("multiline") => LinesKept /\ MessagesWhole
  /\ About("csv") => CsvInBounds /\ CsvReadBack
  /\ About("logdata") => RawIsField /\ RecordIsMap /\ SavedWhole

(* Statvar: an expiry hits the object it was set for, and everything that  *)
(* is added is counted once; Schedule: a block of a running module stays   *)
(* scheduled, once and for the first time that fits (statvar.c, expr-core- *)
(* funcproc-cb.c, schedule.c, module.c).                                   *)
TimersSound ==
  /\ About("statvar") => ExpiryHitsItsObject /\ CountedOnce
  /\ About("schedule") => ScheduledOnce /\ NextIsFirstFit
=============================================================================
