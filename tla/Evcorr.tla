------------------------------- MODULE Evcorr -------------------------------
(***************************************************************************)
(* pm_evcorr: a correlation rule of one of the four kinds that keep state, *)
(* with or without a Context, its timers and the periodic cleanup of old   *)
(* contexts.  A record is its time, the value of the Context expression    *)
(* and which conditions it meets; executing a rule's Exec block is an      *)
(* entry in the history.  Times count from 1: 0 is "never" in the code.    *)
(***************************************************************************)
EXTENDS Naturals, Sequences, FiniteSets

CONSTANTS
  EvKeys,      \* values of the Context expression
  Undef,       \* the Context expression is not defined
  interval,    \* Interval, which may be 0 for Suppressed and Pair only
  threshold,   \* Threshold
  EvMaxTime,   \* bound on the clock
  FieldTimes,  \* the times records carry if TimeField is set
  EvRecords    \* bound on the records

ASSUME EvcorrAssumption ==
  /\ Undef \notin EvKeys /\ {interval, threshold} \subseteq Nat \ {0}
  /\ {EvMaxTime, EvRecords} \subseteq Nat /\ FieldTimes \subseteq Nat \ {0}

Rule  == "rule"                \* the state the rule has outside its contexts
Slots == EvKeys \cup {Rule}

(* matched, the absence timer (the time it is due, 0 for none), whether    *)
(* absence->event points to a freed event, and matchlist.                  *)
NoEntry == [matched |-> 0, due |-> 0, dangling |-> FALSE, matchlist |-> <<>>]

VARIABLE ev
(***************************************************************************)
(* ev.kind     the kind of the rule                                        *)
(* ev.context  it has a Context                                            *)
(* ev.other    another rule has: there is a cleanup timer in any case      *)
(* ev.field    TimeField is set: records carry their own times             *)
(* ev.now      the clock                                                   *)
(* ev.timeval  modconf->timeval, the time of the record handled last       *)
(* ev.entry    the context hash, and the rule's own entry                  *)
(* ev.log      history: the records, each with what the rule did           *)
(* ev.open     history: for an absence, when it began, 0 if it ended       *)
(* ev.cleaned  history: what the cleanup has removed                       *)
(***************************************************************************)

Kinds == {"suppressed", "pair", "absence", "thresholded"}

(* pm_evcorr_config() *)
EvcorrInit ==
  \E kind \in Kinds, context, other, field \in BOOLEAN :
    /\ ~(context /\ other)
    /\ ev = [kind |-> kind, context |-> context, other |-> other, field |-> field,
             now |-> 1, timeval |-> 0, entry |-> [s \in Slots |-> NoEntry],
             log |-> <<>>, open |-> [s \in Slots |-> 0], cleaned |-> {}]

(* get_context_hashval(): an undefined context is the rule's own.          *)
Slot(key) == IF ev.context /\ key # Undef THEN key ELSE Rule

-----------------------------------------------------------------------------
(* What each kind makes of a record: [entry, exec].                        *)
Fires(e) == [entry |-> e, exec |-> TRUE]
Passes(e) == [entry |-> e, exec |-> FALSE]

(* Mutant of Suppressed: the interval begins anew with every match.        *)
SuppressedSliding(e, t, trig, req) ==
  IF ~trig THEN Passes(e)
  ELSE [entry |-> [e EXCEPT !.matched = t],
        exec |-> e.matched = 0 \/ e.matched + interval <= t]

Suppressed(e, t, trig, req) ==
  IF trig /\ (e.matched = 0 \/ e.matched + interval <= t)
  THEN Fires([e EXCEPT !.matched = t]) ELSE Passes(e)

(* Mutant of Pair: a trigger that has been answered is kept.               *)
PairKept(e, t, trig, req) ==
  IF e.matched > 0 /\ req
  THEN IF e.matched + interval > t THEN Fires(e) ELSE Passes(e)
  ELSE IF trig THEN Passes([e EXCEPT !.matched = t]) ELSE Passes(e)

Pair(e, t, trig, req) ==
  IF e.matched > 0 /\ req
  THEN IF e.matched + interval > t THEN Fires([e EXCEPT !.matched = 0]) ELSE Passes(e)
  ELSE IF trig THEN Passes([e EXCEPT !.matched = t]) ELSE Passes(e)

(* Mutant of Absence: the timer is not removed when the answer comes.      *)
AbsenceLeavesTimer(e, t, trig, req) ==
  IF e.matched > 0
  THEN IF t > e.matched + interval THEN Fires(NoEntry)
       ELSE IF req /\ e.matched + interval > t
       THEN Passes([e EXCEPT !.matched = 0]) ELSE Passes(e)
  ELSE IF trig THEN Passes([e EXCEPT !.matched = t, !.due = ev.now + interval])
       ELSE Passes(e)

(* The timer runs by the clock, whatever the record's own time.            *)
Absence(e, t, trig, req) ==
  IF e.matched > 0
  THEN IF t > e.matched + interval THEN Fires(NoEntry)
       ELSE IF req /\ e.matched + interval > t THEN Passes(NoEntry) ELSE Passes(e)
  ELSE IF trig THEN Passes([e EXCEPT !.matched = t, !.due = ev.now + interval])
       ELSE Passes(e)

(* Mutant of Recent: a match exactly an interval ago counts no more, and   *)
(* one more is dropped with it.                                            *)
RecentLess(list, t) ==
  LET old == {i \in DOMAIN list : \A k \in 1..i : t > list[k] + interval}
  IN  SubSeq(list, Cardinality(old) + 2, Len(list))

(* The matches at the head of the list that are too old are dropped.       *)
Recent(list, t) ==
  LET old == {i \in DOMAIN list : \A k \in 1..i : t > list[k] + interval}
  IN  SubSeq(list, Cardinality(old) + 1, Len(list))

Thresholded(e, t, trig, req) ==
  LET kept == IF Len(e.matchlist) + 1 >= threshold THEN Recent(e.matchlist, t)
              ELSE e.matchlist
  IN  IF ~trig THEN Passes(e)
      ELSE [entry |-> [e EXCEPT !.matchlist = Append(kept, t)],
            exec |-> Len(kept) + 1 >= threshold]

Outcome4(e, t, trig, req) ==
  CASE ev.kind = "suppressed"  -> Suppressed(e, t, trig, req)
    [] ev.kind = "pair"        -> Pair(e, t, trig, req)
    [] ev.kind = "absence"     -> Absence(e, t, trig, req)
    [] ev.kind = "thresholded" -> Thresholded(e, t, trig, req)

(* pm_evcorr_process(): the time is the clock's, or the record's.          *)
EvProcess(key, t, trig, req) ==
  LET s == Slot(key)
      o == Outcome4(ev.entry[s], t, trig, req)
  IN  /\ Len(ev.log) < EvRecords /\ ~ev.entry[s].dangling
      /\ ev' = [ev EXCEPT !.timeval = t, !.entry[s] = o.entry,
                  !.log = Append(@, [t |-> t, slot |-> s, trig |-> trig, req |-> req,
                                     exec |-> o.exec]),
                  !.open[s] = IF ev.kind # "absence" THEN 0
                              ELSE IF o.entry.matched = 0 THEN 0
                              ELSE IF ev.entry[s].matched = 0 THEN t ELSE @,
                  !.cleaned = IF ev.kind = "absence" THEN @ \ {s} ELSE @]

(* pm_evcorr_absence_event(): the timer was due, perhaps some time ago.    *)
AbsenceEvent(s) ==
  /\ ev.entry[s].due > 0 /\ ev.entry[s].due <= ev.now
  /\ ev' = [ev EXCEPT !.entry[s] = NoEntry, !.open[s] = 0]

(* pm_evcorr_clean_rules(), every ContextCleanTime seconds if any rule has *)
(* a Context: contexts that can no longer matter are removed.  A rule that *)
(* has none loses its timer, the pointer to it staying, or its matches.    *)
Stale(e) ==
  LET last == IF ev.kind = "thresholded"
              THEN IF e.matchlist = <<>> THEN ev.timeval ELSE e.matchlist[Len(e.matchlist)]
              ELSE e.matched
  IN  last + interval <= ev.timeval

(* Mutant of Cleaned: contexts are removed that are still needed.          *)
CleanedEarly(s) ==
  LET e == ev.entry[s]
  IN  IF ev.context THEN IF s # Rule THEN NoEntry ELSE e
      ELSE CASE ev.kind = "absence" ->
                  [e EXCEPT !.due = 0, !.dangling = @ \/ e.due > 0]
             [] ev.kind = "thresholded" -> [e EXCEPT !.matchlist = <<>>]
             [] OTHER -> e

Cleaned(s) ==
  LET e == ev.entry[s]
  IN  IF ev.context THEN IF s # Rule /\ Stale(e) THEN NoEntry ELSE e
      ELSE CASE ev.kind = "absence" ->
                  [e EXCEPT !.due = 0, !.dangling = @ \/ e.due > 0]
             [] ev.kind = "thresholded" -> [e EXCEPT !.matchlist = <<>>]
             [] OTHER -> e

EvClean ==
  /\ ev.context \/ ev.other
  /\ ev' = [ev EXCEPT !.entry = [s \in Slots |-> Cleaned(s)],
              !.cleaned = @ \cup {s \in Slots : Cleaned(s) # ev.entry[s]}]

EvTick == ev.now < EvMaxTime /\ ev' = [ev EXCEPT !.now = @ + 1]

EvcorrNext ==
  \/ \E key \in {Undef} \cup (IF ev.context THEN EvKeys ELSE {}), trig, req \in BOOLEAN,
        t \in IF ev.field THEN FieldTimes ELSE {ev.now} : EvProcess(key, t, trig, req)
  \/ \E s \in Slots : AbsenceEvent(s)
  \/ EvClean \/ EvTick

EvcorrSpec == EvcorrInit /\ [][EvcorrNext]_ev
-----------------------------------------------------------------------------
(* Type invariant.                                                         *)
EvcorrTypeOK ==
  /\ ev.kind \in Kinds /\ ev.now \in 1..EvMaxTime /\ ev.timeval \in Nat
  /\ ev.cleaned \subseteq Slots
  /\ \A s \in Slots : /\ ev.entry[s].matched \in Nat /\ ev.entry[s].due \in Nat
                      /\ ev.entry[s].matchlist \in Seq(Nat)

(* The manual's words, over the history of records: which earlier records  *)
(* count for the last one, the interval being met strictly, or just so.    *)
Earlier == {i \in 1..Len(ev.log) - 1 : ev.log[i].slot = ev.log[Len(ev.log)].slot}
This == ev.log[Len(ev.log)]
Within(i)     == ev.log[i].t + interval > This.t
JustWithin(i) == ev.log[i].t + interval >= This.t
SinceExec(i)  == \A k \in Earlier : k > i => ~ev.log[k].exec

Must ==
  CASE ev.kind = "suppressed" ->
         This.trig /\ \A i \in Earlier : ev.log[i].exec => ~Within(i)
    [] ev.kind = "pair" ->
         This.req /\ \E i \in Earlier : /\ ev.log[i].trig /\ ~ev.log[i].req
                                        /\ Within(i) /\ SinceExec(i)
    [] ev.kind = "thresholded" ->
         This.trig /\ Cardinality({i \in Earlier : ev.log[i].trig /\ Within(i)}) + 1
                        >= threshold
    [] OTHER -> FALSE

May ==
  CASE ev.kind = "suppressed" -> Must
    [] ev.kind = "pair" ->
         This.req /\ \E i \in Earlier : ev.log[i].trig /\ Within(i) /\ SinceExec(i)
    [] ev.kind = "thresholded" ->
         This.trig /\ Cardinality({i \in Earlier : ev.log[i].trig /\ JustWithin(i)}) + 1
                        >= threshold
    [] OTHER -> TRUE

(* With times that do not run backwards, a Suppressed, Pair or Thresholded *)
(* rule executes when the history of records says so and only then,        *)
(* whatever contexts the cleanup has removed in between.  The exception is *)
(* a Thresholded rule without a Context, which the cleanup for other rules *)
(* makes forget its matches.                                               *)
EvcorrDecides ==
  LET ordered == \A i \in 1..Len(ev.log) - 1 : ev.log[i].t <= ev.log[i + 1].t
  IN  ev.log # <<>> /\ ordered =>
        /\ Must => This.exec \/ (~ev.context /\ Rule \in ev.cleaned)
        /\ This.exec => May

(* An absence that has begun, and was not answered in time, is going to be *)
(* reported: its timer is set and not freed.  The cleanup only drops those *)
(* for which a record as late as the end of the interval has been seen,    *)
(* the timer being late or running by another clock than the records, and  *)
(* those of a rule without a Context.                                      *)
AbsenceReported ==
  ev.kind = "absence" =>
    \A s \in Slots :
      /\ ev.open[s] > 0 =>
           \/ ev.entry[s].due > 0 /\ ev.entry[s].matched = ev.open[s]
           \/ /\ s \in ev.cleaned
              /\ \/ ~ev.context
                 \/ \E i \in DOMAIN ev.log : ev.open[s] + interval <= ev.log[i].t
      /\ ev.entry[s].due > 0 => ev.open[s] > 0
      /\ ev.entry[s].dangling => ~ev.context /\ ev.other
=============================================================================
