------------------------------ MODULE Statvar ------------------------------
(***************************************************************************)
(* A module's variables and statistical counters (src/common/statvar.c)    *)
(* and the procedures an Exec uses them with (create_var ... get_stat in   *)
(* src/common/expr-core-funcproc-cb.c).  Both have a lifetime: a delayed   *)
(* event that points at the object deletes it.  Everything here runs in    *)
(* the module's own job, so each procedure is one step.                    *)
(***************************************************************************)
EXTENDS Integers, Sequences, FiniteSets

CONSTANTS
  StInterval,  \* the interval of a counter, in units of time
  StAmounts,   \* what add_stat() is called with
  StMaxTime,   \* bound: the clock
  StObjects,   \* bound: objects created
  StMaxAdded   \* bound: what is added to one counter

ASSUME StatvarAssumption ==
  /\ StInterval \in Nat \ {0} /\ StAmounts \subseteq Nat
  /\ StMaxTime \in Nat /\ StObjects \in Nat /\ StMaxAdded \in Nat

(* nx_module_stat_type_t: what is measured over an interval, and whether   *)
(* the last, the least or the greatest measure is the value.  COUNT itself *)
(* needs no interval.                                                      *)
StatTypes == [of : {"count", "avg", "rate", "grad"}, keep : {"last", "min", "max"}]

VARIABLE st
(***************************************************************************)
(* st.now                                                                  *)
(* st.slot    the object behind the name, <<>> when there is none: a       *)
(*            function from {"var", "stat"}                                *)
(* st.events  the pending expiry events: which object, and when            *)
(* st.born    how many objects were created (an object's identity)         *)
(* st.added   history: all that was added to the counter                   *)
(* st.closed  history: the counts of its finished intervals                *)
(* st.seen    history: what was measured, in order                         *)
(***************************************************************************)

StatvarInit == st = [now |-> 1, slot |-> [k \in {"var", "stat"} |-> <<>>],
                     events |-> {}, born |-> 0,
                     added |-> 0, closed |-> 0, seen |-> <<>>]

(* Mutant of Create: the name is given to a new object.                    *)
CreateAnew(s, k, obj, expiry) ==
  [s EXCEPT !.slot[k] = <<obj>>, !.born = @ + 1,
            !.events = IF expiry > 0 THEN @ \cup {[of |-> k, id |-> s.born, time |-> expiry]}
                       ELSE @]

(* nx_module_var_create(), nx_module_stat_create(): nothing is done when   *)
(* the name is taken.                                                      *)
Create(s, k, obj, expiry) ==
  IF s.slot[k] # <<>> THEN s
  ELSE [s EXCEPT !.slot[k] = <<obj>>, !.born = @ + 1,
                 !.events = IF expiry > 0
                            THEN @ \cup {[of |-> k, id |-> s.born, time |-> expiry]}
                            ELSE @]

(* Mutant of Delete: the event outlives its object.                        *)
DeleteForgetsEvent(s, k) == [s EXCEPT !.slot[k] = <<>>]

(* nx_module_var_delete(), nx_module_stat_delete()                         *)
Delete(s, k) ==
  IF s.slot[k] = <<>> THEN s
  ELSE [s EXCEPT !.slot[k] = <<>>,
                 !.events = {e \in @ : e.of # k \/ e.id # s.slot[k][1].id}]

(* The expiry create_var() and create_stat() compute: none, a lifetime     *)
(* from now, or a point in time, ignored when it has passed.               *)
Expiries == {0} \cup {st.now + l : l \in 1..2}

NewVar == [id |-> st.born, value |-> <<>>]

CreateVar(expiry) ==
  /\ st.born < StObjects
  /\ st' = Create(st, "var", NewVar, expiry)

(* set_var() creates what is missing, without a lifetime.                  *)
SetVar(v) ==
  /\ st.born < StObjects
  /\ LET s == Create(st, "var", NewVar, 0)
     IN  st' = [s EXCEPT !.slot["var"][1].value = <<v>>]

(* The first interval begins at the given time, or now.                    *)
NewStat(type, begin) ==
  [id |-> st.born, type |-> type, last_update |-> begin,
   count |-> 0, lastrate |-> 0, value |-> <<>>]

(* create_stat() without an interval is for COUNT only.                    *)
CreateStat(type, begin, expiry) ==
  LET s == Create(st, "stat", NewStat(type, begin), expiry)
  IN  /\ st.born < StObjects
      /\ st' = IF st.slot["stat"] # <<>> THEN s
               ELSE [s EXCEPT !.added = 0, !.closed = 0, !.seen = <<>>]

(* What an interval of the given length comes to.                          *)
Rate(o, length) == (o.count * StInterval) \div length

Measure(o, length) ==
  CASE o.type.of = "count" -> o.count
    [] o.type.of = "avg"   -> Rate(o, length) \div 2
    [] o.type.of = "rate"  -> Rate(o, length)
    [] o.type.of = "grad"  -> Rate(o, length) - o.lastrate

(* The value after one more measure.                                       *)
Extreme(o, m) ==
  CASE o.value = <<>> \/ o.type.keep = "last" -> m
    [] o.type.keep = "min" -> IF m < o.value[1] THEN m ELSE o.value[1]
    [] o.type.keep = "max" -> IF m > o.value[1] THEN m ELSE o.value[1]

IsCount(o) == o.type = [of |-> "count", keep |-> "last"]

(* Mutants of Closed: the count is carried into the next interval; the     *)
(* gradient is taken against the last value.                               *)
ClosedCarries(o, t) ==
  LET length == t - o.last_update
  IN  [o EXCEPT !.value = <<Extreme(o, Measure(o, length))>>,
                !.lastrate = Rate(o, length), !.last_update = t]

ClosedByValue(o, t) ==
  LET length == t - o.last_update
      m == Measure(o, length)
  IN  [o EXCEPT !.value = <<Extreme(o, m)>>, !.count = IF o.type.of = "count" THEN @ ELSE 0,
                !.lastrate = m, !.last_update = t]

(* An interval is over.  COUNTMIN and COUNTMAX go on with the same count.  *)
Closed(o, t) ==
  LET length == t - o.last_update
  IN  [o EXCEPT !.value = <<Extreme(o, Measure(o, length))>>,
                !.count = IF o.type.of = "count" THEN @ ELSE 0,
                !.lastrate = IF o.type.of = "grad" THEN Rate(o, length) ELSE @,
                !.last_update = t]

(* nx_module_stat_update() at time t, with the history it leaves.          *)
Update(s, t) ==
  LET o == s.slot["stat"][1]
      length == t - o.last_update
  IN  IF IsCount(o) THEN [s EXCEPT !.slot["stat"][1].value = <<o.count>>]
      ELSE IF length < StInterval THEN s
      ELSE [s EXCEPT !.slot["stat"][1] = Closed(o, t),
                     !.closed = IF o.type.of = "count" THEN @ ELSE @ + o.count,
                     !.seen = Append(@, Measure(o, length))]

(* nx_module_stat_add()                                                    *)
StatAdd(s, v, t) ==
  [Update(s, t) EXCEPT !.slot["stat"][1].count = @ + v, !.added = @ + v]

(* add_stat(), at a time taken from the record or now: it may be behind    *)
(* the last update.                                                        *)
AddStat(v, t) ==
  /\ st.slot["stat"] # <<>> /\ st.added + v <= StMaxAdded
  /\ st' = StatAdd(st, v, t)

(* get_stat()                                                              *)
GetStat(t) == st.slot["stat"] # <<>> /\ st' = Update(st, t)

(* delete_var(); nx_module_stat_delete() has no procedure that calls it.   *)
DeleteVar == st.slot["var"] # <<>> /\ st' = Delete(st, "var")

(* nx_module_var_expiry(), nx_module_stat_expiry(): the object the event   *)
(* points at is taken out under its name.                                  *)
Expire(e) ==
  /\ e.time <= st.now
  /\ st' = [st EXCEPT !.events = @ \ {e}, !.slot[e.of] = <<>>]

StTick == st.now < StMaxTime /\ st' = [st EXCEPT !.now = @ + 1]

StatvarNext ==
  \/ \E x \in Expiries : CreateVar(x) \/ \E ty \in StatTypes : CreateStat(ty, st.now, x)
  \/ SetVar("v") \/ DeleteVar
  \/ \E t \in {st.now, st.now - 1} : GetStat(t) \/ \E v \in StAmounts : AddStat(v, t)
  \/ \E e \in st.events : Expire(e)
  \/ StTick

StatvarSpec == StatvarInit /\ [][StatvarNext]_st
-----------------------------------------------------------------------------
(* Type invariant.                                                         *)
StatvarTypeOK ==
  /\ st.now \in 1..StMaxTime /\ st.born \in 0..StObjects
  /\ \A e \in st.events : e.of \in DOMAIN st.slot /\ e.id < st.born

(* An expiry never hits an object it was not set for (nor one that is      *)
(* gone): each pending event points at the object now under the name,      *)
(* however often the name was deleted, expired and created again.          *)
ExpiryHitsItsObject ==
  \A e \in st.events : st.slot[e.of] # <<>> /\ st.slot[e.of][1].id = e.id

SeenMin == CHOOSE m \in {st.seen[i] : i \in 1..Len(st.seen)} :
             \A i \in 1..Len(st.seen) : m <= st.seen[i]
SeenMax == CHOOSE m \in {st.seen[i] : i \in 1..Len(st.seen)} :
             \A i \in 1..Len(st.seen) : m >= st.seen[i]
SeenSum == LET sum[i \in 0..Len(st.seen)] == IF i = 0 THEN 0 ELSE sum[i - 1] + st.seen[i]
           IN  sum[Len(st.seen)]

(* A counter counts everything once: what was added is in a finished       *)
(* interval or in the running one.  The kept value is the last, least or   *)
(* greatest of all that was measured, and the gradients add up to the last *)
(* rate.                                                                   *)
CountedOnce ==
  \A i \in 1..Len(st.slot["stat"]) :
     LET o == st.slot["stat"][i]
     IN  /\ st.added = st.closed + o.count
         /\ st.seen # <<>> =>
              o.value = <<CASE o.type.keep = "last" -> st.seen[Len(st.seen)]
                            [] o.type.keep = "min"  -> SeenMin
                            [] o.type.keep = "max"  -> SeenMax>>
         /\ o.type.of = "grad" => SeenSum = o.lastrate
=============================================================================
