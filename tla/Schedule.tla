------------------------------ MODULE Schedule ------------------------------
(***************************************************************************)
(* Schedule blocks: when the next execution is due (src/common/schedule.c) *)
(* and the SCHEDULE events of a module (nx_module_add_scheduled_event(),   *)
(* nx_module_process_schedule_event(), nx_module_remove_scheduled_events() *)
(* in src/common/module.c).  One block; the clock counts small units.      *)
(***************************************************************************)
EXTENDS Naturals, Sequences, FiniteSets

CONSTANTS
  ScMinute,   \* units of time in a minute
  ScHour,     \* minutes in an hour
  ScDay,      \* hours in a day
  ScWeek,     \* days in a week
  ScMonth,    \* days in a month; the second has one less, but in leap years
  ScYear,     \* months in a year
  ScMaxTime,  \* bound: how long the clock runs
  ScStops     \* bound: how often the module is stopped

ASSUME ScheduleAssumption ==
  /\ {ScMinute, ScHour, ScDay, ScWeek} \subseteq Nat \ {0}
  /\ {ScMonth, ScYear} \subseteq Nat \ {0, 1}
  /\ ScMaxTime \in Nat \ {0} /\ ScStops \in Nat

VARIABLE sc
(***************************************************************************)
(* sc.now, sc.running; sc.end  where the clock stops                       *)
(* sc.entry    the parsed block; "first" of an Every is moved by each      *)
(*             calculation                                                 *)
(* sc.delayed  the times of the module's delayed SCHEDULE events           *)
(* sc.queued   how many are in its job's list                              *)
(* sc.set      history: the last calculation, when it was made, what it    *)
(*             started from and its result (0: it threw)                   *)
(* sc.stops, sc.raced  history: how often it was stopped, and how often    *)
(*             that was between an execution falling due and its event     *)
(*             being processed                                             *)
(***************************************************************************)

(* parse_field(): the values a field of "When" names.  "*" and "*/n", or a *)
(* list of a, a-b and a-b/n; of the last, a itself and the multiples of n  *)
(* before b.                                                               *)
Listed(item) ==
  CASE item.form = "one"   -> {item.a}
    [] item.form = "range" -> item.a..item.b
    [] item.form = "step"  -> {item.a} \cup {v \in item.a..(item.b - 1) : v % item.n = 0}

FieldMask(field, first, last) ==
  CASE field.form = "any"    -> first..last
    [] field.form = "every"  -> {v \in first..last : v % field.n = 0}
    [] field.form = "list"   -> UNION {Listed(field.items[i]) : i \in DOMAIN field.items}

(* Values out of the field's range are refused.                            *)
InRange(field, first, last) ==
  field.form = "list" =>
    \A i \in DOMAIN field.items :
       /\ field.items[i].a \in first..last
       /\ field.items[i].form # "one" => field.items[i].b \in first..last

Any       == [form |-> "any"]
Each(n)   == [form |-> "every", n |-> n]
Items(s)  == [form |-> "list", items |-> s]
One(v)    == [form |-> "one", a |-> v]

(* nx_schedule_entry_parse_crontab(): the five fields; Sunday is 0 or the  *)
(* number of days in the week.                                             *)
Sunday(mask) == IF ScWeek \in mask THEN mask \cup {0} ELSE mask
Crontab(fields) ==
  [type |-> "CRONTAB", min |-> FieldMask(fields[1], 0, ScHour - 1),
   hour |-> FieldMask(fields[2], 0, ScDay - 1), day |-> FieldMask(fields[3], 1, ScMonth),
   month |-> FieldMask(fields[4], 1, ScYear), wday |-> Sunday(FieldMask(fields[5], 0, ScWeek))]
CrontabOK(fields) ==
  /\ InRange(fields[1], 0, ScHour - 1) /\ InRange(fields[2], 0, ScDay - 1)
  /\ InRange(fields[3], 1, ScMonth) /\ InRange(fields[4], 1, ScYear) /\ InRange(fields[5], 0, ScWeek)

(* parse_macro(): the fields a macro stands for.                           *)
At(v) == Items(<<One(v)>>)
Macro ==
  [hourly |-> <<At(0), Any, Any, Any, Any>>, daily |-> <<At(0), At(0), Any, Any, Any>>,
   weekly |-> <<At(0), At(0), Any, Any, At(0)>>, monthly |-> <<At(0), At(0), At(1), Any, Any>>,
   yearly |-> <<At(0), At(0), At(1), At(1), Any>>]

(* "When" lines of the kinds above, and what they have to be accepted.     *)
Minutes == {Any, Each(2), Items(<<One(1), One(0)>>),
            Items(<<[form |-> "range", a |-> 1, b |-> 2]>>),
            Items(<<[form |-> "step", a |-> 1, b |-> 3, n |-> 2]>>)}
Whens ==
  { w \in (Minutes \X {Any, At(1)} \X {Any} \X {Any} \X {Any})
           \cup ({At(1)} \X {At(0)} \X {Any, Each(2), At(ScMonth)} \X {Any, At(2)}
                           \X {Any, At(1), At(ScWeek), At(ScWeek + 1)})
           \cup {Macro[m] : m \in DOMAIN Macro} : CrontabOK(w) }

(* nx_schedule_entry_parse_every() and "First".                            *)
Everies == [type : {"EVERY"}, every : {ScMinute, ScMinute + 1}, first : {0, 3}]

(* The calendar, which localtime() keeps: leap years, which come first,    *)
(* and common years take turns.  The date of a day, and the days of a      *)
(* common year, which are those the code takes a year for.                 *)
CommonYear == ScMonth * ScYear - 1
DayNumber(d) ==
  d.year * ScMonth * ScYear + (d.month - 1) * ScMonth + (d.day - 1)
    - (IF d.year = 1 /\ d.month > 2 THEN 1 ELSE 0)
Dates == { d \in [year : 0..1, month : 1..ScYear, day : 1..ScMonth] :
             d.year = 1 /\ d.month = 2 => d.day < ScMonth }
DateOf == [n \in 0..(2 * CommonYear) |-> CHOOSE d \in Dates : DayNumber(d) = n]
DayUnits == ScMinute * ScHour * ScDay

(* nx_module_parse_schedule_blocks(): an entry has one of the two types.   *)
(* The clock starts in the first day of a year, or shortly before a leap   *)
(* year.                                                                   *)
ScheduleInit ==
  \E x \in Everies \cup {Crontab(w) : w \in Whens}, now \in {1, (2 * CommonYear + 1) * DayUnits - 3} :
     sc = [now |-> now, end |-> now + ScMaxTime, running |-> FALSE, entry |-> x, delayed |-> <<>>,
           queued |-> 0, set |-> [at |-> 0, from |-> 0, time |-> 0], stops |-> 0, raced |-> 0]

(* check_timeval()                                                         *)
CheckTimeval(x, t) ==
  LET minute == t \div ScMinute
      day    == t \div DayUnits
      date   == DateOf[day % (2 * CommonYear + 1)]
  IN  /\ minute % ScHour \in x.min /\ (minute \div ScHour) % ScDay \in x.hour
      /\ date.day \in x.day /\ date.month \in x.month /\ day % ScWeek \in x.wday

(* The search from a whole minute on, up to an end: 0 if nothing fits.     *)
Search(x, begin, end) ==
  LET next[t \in Nat] == IF t >= end THEN 0
                         ELSE IF CheckTimeval(x, t) THEN t ELSE next[t + ScMinute]
  IN  next[begin]
FirstAfter(x, now) ==
  LET next[t \in Nat] == IF t <= now THEN next[t + x.every] ELSE t
  IN  next[x.first]

(* Mutant of NextRun: the current minute is taken into account.            *)
NextRunNow(x, now) ==
  IF x.type = "EVERY" THEN IF x.first = 0 THEN now ELSE FirstAfter(x, now)
  ELSE Search(x, (now \div ScMinute) * ScMinute, now + CommonYear * DayUnits)

(* nx_schedule_entry_next_run().  The search is for the days of a common   *)
(* year; a When that does not fit within them is a panic, which throws.    *)
NextRun(x, now) ==
  IF x.type = "EVERY" THEN IF x.first = 0 THEN now ELSE FirstAfter(x, now)
  ELSE Search(x, ((now \div ScMinute) + 1) * ScMinute, now + CommonYear * DayUnits)

(* nx_module_add_scheduled_event(): nothing is added by one that throws.   *)
AddScheduled(s) ==
  LET t == NextRun(s.entry, s.now)
  IN  [s EXCEPT !.delayed = IF t = 0 THEN @ ELSE Append(@, t),
                !.entry = IF @.type = "EVERY" THEN [@ EXCEPT !.first = t] ELSE @,
                !.set = [at |-> s.now, time |-> t,
                         from |-> IF s.entry.type = "EVERY" THEN s.entry.first ELSE 0]]

(* nx_module_start_self() and nx_module_stop_self(), which removes the     *)
(* module's SCHEDULE events from the delayed ones only.  A start that      *)
(* throws leaves the module stopped.                                       *)
ScStart ==
  /\ ~sc.running
  /\ LET s == AddScheduled(sc) IN sc' = [s EXCEPT !.running = s.set.time # 0]

(* Mutant of RemoveScheduled: stopping leaves the events.                  *)
RemoveScheduledNone(s) == s

RemoveScheduled(s) == [s EXCEPT !.delayed = <<>>]

ScStop ==
  /\ sc.running /\ sc.stops < ScStops
  /\ sc' = [RemoveScheduled(sc) EXCEPT !.running = FALSE, !.stops = @ + 1,
                                       !.raced = IF sc.queued > 0 THEN @ + 1 ELSE @]

(* The main thread moves a due event to the job's list, where it is        *)
(* dropped if the last event there is its duplicate.                       *)
ScDue ==
  \E i \in DOMAIN sc.delayed :
     /\ sc.delayed[i] <= sc.now
     /\ \E kept \in IF sc.queued = 0 THEN {1} ELSE {0, 1} :
          sc' = [sc EXCEPT !.queued = @ + kept,
                           !.delayed = [j \in 1..(Len(@) - 1) |-> IF j < i THEN @[j] ELSE @[j + 1]]]

(* Mutant of ScProcess: a failed execution is the last.                    *)
ScProcessGivesUp ==
  /\ sc.queued > 0
  /\ sc' = [sc EXCEPT !.queued = @ - 1]

(* nx_module_process_schedule_event(): the block is executed, whatever the *)
(* module's status, and whether it fails or not the next one is set, which *)
(* may throw in its turn.                                                  *)
ScProcess ==
  /\ sc.queued > 0
  /\ sc' = AddScheduled([sc EXCEPT !.queued = @ - 1])

ScTick == sc.now < sc.end /\ sc' = [sc EXCEPT !.now = @ + 1]

ScheduleNext == ScStart \/ ScStop \/ ScDue \/ ScProcess \/ ScTick

ScheduleSpec == ScheduleInit /\ [][ScheduleNext]_sc
-----------------------------------------------------------------------------
ScPending == Len(sc.delayed) + sc.queued

(* Type invariant.                                                         *)
ScheduleTypeOK ==
  /\ sc.now \in 1..sc.end /\ sc.running \in BOOLEAN
  /\ sc.entry.type \in {"EVERY", "CRONTAB"} /\ sc.queued \in Nat
  /\ \A i \in DOMAIN sc.delayed : sc.delayed[i] \in Nat \ {0}

(* The first day of a leap year.                                           *)
LeapDay(t) == (t \div DayUnits) % (2 * CommonYear + 1) = 0

(* A running module's block stays scheduled, whatever order its event, a   *)
(* stop and a start come in, unless no time within a year fits it; a macro *)
(* always has one, except that @yearly, executed on the first day of a     *)
(* leap year, is not set again (the search ends a day early).  And a block *)
(* is scheduled once, except that a stop which finds the event in the      *)
(* job's list does not take it away, so that the next start adds a second  *)
(* one.                                                                    *)
ScheduledOnce ==
  /\ sc.running => ScPending >= 1 \/ sc.set.time = 0
  /\ \A m \in DOMAIN Macro :
       sc.running /\ sc.entry = Crontab(Macro[m]) /\ ScPending = 0 =>
         m = "yearly" /\ LeapDay(sc.set.at)
  /\ ScPending <= (IF sc.running THEN 1 ELSE 0) + sc.raced

(* The times a block may be executed at.                                   *)
Matches(t) ==
  IF sc.entry.type = "EVERY" THEN t % sc.entry.every = sc.set.from % sc.entry.every
  ELSE t % ScMinute = 0 /\ CheckTimeval(sc.entry, t)

(* Missed executions are not made up for, none is skipped and an Every     *)
(* does not drift: what is set is the first time after the calculation     *)
(* that fits the block (an Every without First: at once), and nothing is   *)
(* set only if none does in as many days as a common year has.             *)
NextIsFirstFit ==
  sc.set.at > 0 =>
    CASE sc.set.time = 0 ->
           \A t \in (sc.set.at + 1)..(sc.set.at + CommonYear * DayUnits - 1) : ~Matches(t)
      [] sc.entry.type = "EVERY" /\ sc.set.from = 0 -> sc.set.time = sc.set.at
      [] OTHER ->
           /\ sc.set.time > sc.set.at /\ Matches(sc.set.time)
           /\ \A t \in (sc.set.at + 1)..(sc.set.time - 1) :
                Matches(t) => sc.entry.type = "EVERY" /\ t < sc.set.from
=============================================================================
