------------------------ MODULE ModuleControlProofs ------------------------
(***************************************************************************)
(* Proofs about ModuleControl, for every set of posted events and every    *)
(* bound: the list's bookkeeping is exact and the de-duplication neither   *)
(* changes the module's fate nor forgets an event.                         *)
(***************************************************************************)
EXTENDS ModuleControl, EventQueueProofs

(* The invariant is inductive as it stands: each part needs TypeOK only.   *)
Inv == TypeOK /\ OutcomeKept /\ CountExact /\ NotForgotten

-----------------------------------------------------------------------------
(* Ev(t), an event the library posts about the module, is one of Events.   *)
LEMMA EvTypes ==
  \A t \in EventTypes : Ev(t) \in Events /\ Ev(t).type = t
BY DEF Ev, Events, EventTypes

(* What the types and data of the events can be.                           *)
LEMMA EventFacts ==
  /\ \A e \in Events : e.type \in EventTypes
  /\ \A e \in Events : e.type \notin DataTypes => e.data = "NULL"
  /\ NoEvent \notin Events
BY DEF Events, NoEvent, EventTypes, DataTypes

(* The types in an alternation are never those of an event with data.      *)
LEMMA EventsDataless ==
  ASSUME NEW q \in Seq(Events)
  PROVE  Dataless(q)
<1> SUFFICES ASSUME NEW i \in DOMAIN q, NEW j \in DOMAIN q,
                    q[i].type \in AltTypes, q[i].type = q[j].type
             PROVE  q[i] = q[j]
  BY DEF Dataless
<1>1. q[i] \in Events /\ q[j] \in Events
  OBVIOUS
<1> QED BY <1>1 DEF Events, AltTypes, DataTypes

(* What Add does to each part of the invariant.                            *)
LEMMA AddPreserves ==
  ASSUME TypeOK, CountExact, NotForgotten, NEW e \in Events, Add(e)
  PROVE  /\ events' \in Seq(Events) /\ event_cnt' \in Nat
         /\ intended' \in Statuses /\ owed' \subseteq Events
         /\ CountExact' /\ NotForgotten'
         /\ \A s \in Statuses :
               FinalStatus(s, events') = StatusAfter(FinalStatus(s, events), e.type)
<1> DEFINE n == Enqueue(events, e)
<1>0. events \in Seq(Events) /\ Len(events) \in Nat /\ events' = n
  BY DEF TypeOK, Add
<1>1. \A s \in Statuses :
         /\ n \in Seq(Events) /\ Len(n) \in 1..(Len(events) + 1)
         /\ FinalStatus(s, n) = StatusAfter(FinalStatus(s, events), e.type)
  BY <1>0, EnqueueFacts
<1>2. n \in Seq(Events) /\ Len(n) \in 1..(Len(events) + 1)
  BY <1>1 DEF Statuses
<1>3. intended' \in Statuses /\ owed' \subseteq Events
  BY StatusAfterType DEF TypeOK, Add
<1>4. event_cnt' = Len(n)
  <2>1. event_cnt' = (event_cnt + 1) - (Len(events) + 1 - Len(n))
    BY DEF Add
  <2> HIDE DEF n
  <2> QED BY <2>1, <1>0, <1>2 DEF CountExact
<1>5. NotForgotten'
  <2> DEFINE a == Append(events, e)
  <2>1. a \in Seq(Events) /\ Len(a) = Len(events) + 1 /\ a[Len(events) + 1] = e
        /\ \A i \in 1..Len(events) : a[i] = events[i]
    BY <1>0
  <2>2. n = Dedupe(a)
    BY DEF Enqueue
  <2> HIDE DEF a, n
  <2>3. \A j \in 1..Len(a) : \E i \in 1..Len(n) : n[i] = a[j]
    BY <2>1, <2>2, EventsDataless, DedupeKeepsEvents
  <2> SUFFICES ASSUME NEW x \in owed' PROVE \E i \in DOMAIN n : n[i] = x
    BY <1>0 DEF NotForgotten
  <2>4. \E j \in 1..Len(a) : a[j] = x
    <3>1. CASE x = e
      <4>1. Len(events) + 1 \in 1..Len(a)
        BY <2>1, <1>0
      <4> QED BY <3>1, <4>1, <2>1
    <3>2. CASE x \in owed
      <4>1. PICK j \in DOMAIN events : events[j] = x
        BY <3>2 DEF NotForgotten
      <4>2. j \in 1..Len(a) /\ a[j] = x
        BY <4>1, <2>1, <1>0
      <4> QED BY <4>2
    <3> QED BY <3>1, <3>2 DEF Add
  <2>5. DOMAIN n = 1..Len(n)
    BY <1>2
  <2> QED BY <2>3, <2>4, <2>5
<1> HIDE DEF n
<1>6. CountExact'
  BY <1>4, <1>0 DEF CountExact
<1> QED BY <1>0, <1>1, <1>2, <1>3, <1>4, <1>5, <1>6

(* With the list changed by Add(e), if anything, the status handled as     *)
(* StatusAfter says and no event in hand, the module's fate is what it was *)
(* plus e.                                                                 *)
LEMMA OutcomeAdd ==
  ASSUME TypeOK, OutcomeKept, CountExact, NotForgotten, NEW e \in Events, Add(e),
         StatusAfter(status', cur'.type) = StatusAfter(status, cur.type)
  PROVE  OutcomeKept'
<1> DEFINE s == StatusAfter(status, cur.type)
<1>1. s \in Statuses
  BY StatusAfterType DEF TypeOK
<1>2. FinalStatus(s, events') = StatusAfter(FinalStatus(s, events), e.type)
  BY <1>1, AddPreserves
<1>3. intended' = StatusAfter(intended, e.type) /\ intended = FinalStatus(s, events)
  BY DEF Add, OutcomeKept
<1> QED BY <1>2, <1>3 DEF OutcomeKept

(* A job that no worker is busy with changes no status.                    *)
LEMMA NoEventNeutral == \A s : StatusAfter(s, NoEvent.type) = s
BY DEF StatusAfter, NoEvent

-----------------------------------------------------------------------------
(* A module that has not been started satisfies the invariant.             *)
LEMMA InitInv == Init => Inv
<1> SUFFICES ASSUME Init PROVE Inv
  OBVIOUS
<1>1. <<>> \in Seq(Events) /\ Len(<<>>) = 0
  OBVIOUS
<1>2. TypeOK
  BY <1>1 DEF Init, TypeOK, Statuses
<1>3. FinalStatus("STOPPED", <<>>) = "STOPPED"
  BY <1>1, OutcomeDef DEF FinalStatus, Statuses
<1>4. OutcomeKept
  BY <1>3, NoEventNeutral DEF Init, OutcomeKept
<1> QED BY <1>1, <1>2, <1>4 DEF Inv, Init, CountExact, NotForgotten

(* nx_event_add() by another thread preserves the invariant.               *)
LEMMA PostInv ==
  ASSUME Inv, NEW e \in Events, Post(e)
  PROVE  Inv'
<1>1. Add(e) /\ UNCHANGED <<status, cur>>
  BY DEF Post
<1>2. OutcomeKept'
  BY <1>1, OutcomeAdd DEF Inv
<1>3. TypeOK'
  BY <1>1, AddPreserves DEF Inv, TypeOK
<1> QED BY <1>1, <1>2, <1>3, AddPreserves DEF Inv

(* A worker taking the first event preserves the invariant.                *)
LEMMA TakeInv == Inv /\ Take => Inv'
<1> SUFFICES ASSUME Inv, Take PROVE Inv'
  OBVIOUS
<1>1. /\ events \in Seq(Events) /\ events # <<>> /\ Head(events) \in Events
      /\ Tail(events) \in Seq(Events) /\ Len(Tail(events)) = Len(events) - 1
      /\ Len(events) \in Nat /\ Len(events) >= 1
      /\ \A i \in 1..Len(Tail(events)) : Tail(events)[i] = events[i + 1]
      /\ Head(events) = events[1]
  BY DEF Inv, TypeOK, Take
<1>2. TypeOK'
  BY <1>1 DEF Inv, TypeOK, Take, CountExact
<1>3. CountExact'
  BY <1>1 DEF Inv, CountExact, Take
<1>4. OutcomeKept'
  <2>1. FinalStatus(StatusAfter(status, Head(events).type), Tail(events))
          = FinalStatus(status, events)
    BY <1>1, FinalStatusTail DEF Inv, TypeOK
  <2>2. intended = FinalStatus(status, events)
    BY NoEventNeutral DEF Inv, OutcomeKept, Take
  <2> QED BY <2>1, <2>2 DEF OutcomeKept, Take
<1>5. NotForgotten'
  <2> SUFFICES ASSUME NEW e \in owed'
               PROVE  \E i \in DOMAIN Tail(events) : Tail(events)[i] = e
    BY DEF NotForgotten, Take
  <2>1. e \in owed /\ e # events[1]
    BY <1>1 DEF Take
  <2>2. PICK i \in DOMAIN events : events[i] = e
    BY <2>1 DEF Inv, NotForgotten
  <2>3. i - 1 \in DOMAIN Tail(events) /\ Tail(events)[i - 1] = e
    BY <2>1, <2>2, <1>1
  <2> QED BY <2>3
<1> QED BY <1>2, <1>3, <1>4, <1>5 DEF Inv

(* nx_module_remove_events_by_data() preserves the invariant: the events   *)
(* it removes do not set a status.                                         *)
LEMMA RemoveInv ==
  ASSUME Inv, NEW d \in Data, RemoveByData(d)
  PROVE  Inv'
<1> DEFINE w == Without(events, d)
           s == StatusAfter(status, cur.type)
<1>1. events \in Seq(Events) /\ Len(events) \in Nat /\ s \in Statuses
  BY StatusAfterType DEF Inv, TypeOK
<1>2. Neutral(Events, d)
  <2> SUFFICES ASSUME NEW e \in Events, e.data = d, NEW x \in Statuses
               PROVE  StatusAfter(x, e.type) = x
    BY DEF Neutral
  <2>1. e.type \in DataTypes
    BY EventFacts DEF RemoveByData
  <2> QED BY <2>1 DEF StatusAfter, DataTypes
<1>3. /\ w \in Seq(Events) /\ Len(w) <= Len(events)
      /\ FinalStatus(s, w) = FinalStatus(s, events)
      /\ KeepsOthers(w, events, d)
  <2> HIDE DEF s
  <2> QED BY <1>1, <1>2, WithoutFacts
<1>4. /\ events' = w /\ event_cnt' = event_cnt - (Len(events) - Len(w))
      /\ owed' = {e \in owed : e.data # d} /\ UNCHANGED <<status, cur, intended>>
  BY DEF RemoveByData
<1> HIDE DEF w
<1>5. CountExact' /\ event_cnt' \in Nat
  BY <1>1, <1>3, <1>4 DEF Inv, CountExact
<1>6. TypeOK'
  BY <1>3, <1>4, <1>5 DEF Inv, TypeOK
<1>7. OutcomeKept'
  BY <1>3, <1>4 DEF Inv, OutcomeKept
<1>8. NotForgotten'
  <2> SUFFICES ASSUME NEW e \in owed' PROVE \E i \in DOMAIN w : w[i] = e
    BY <1>4 DEF NotForgotten
  <2>1. PICK j \in DOMAIN events : events[j] = e
    BY <1>4 DEF Inv, NotForgotten
  <2>2. events[j].data # d
    BY <2>1, <1>4
  <2> QED BY <2>1, <2>2, <1>3, Zenon DEF KeepsOthers
<1> QED BY <1>5, <1>6, <1>7, <1>8 DEF Inv

(* A handler that sets the status as StatusAfter says and posts nothing.   *)
LEMMA SetInv ==
  ASSUME Inv, cur' = NoEvent, Set(StatusAfter(status, cur.type))
  PROVE  Inv'
<1>1. /\ status' = StatusAfter(status, cur.type) /\ status' \in Statuses
      /\ UNCHANGED <<events, event_cnt, intended, owed>>
  BY StatusAfterType DEF Set, Inv, TypeOK
<1>2. OutcomeKept'
  BY <1>1, NoEventNeutral DEF Inv, OutcomeKept
<1> QED BY <1>1, <1>2 DEF Inv, TypeOK, CountExact, NotForgotten

(* A handler that does so and posts an event.                              *)
LEMMA SetAddInv ==
  ASSUME Inv, cur' = NoEvent, status' = StatusAfter(status, cur.type),
         NEW t \in EventTypes, Add(Ev(t))
  PROVE  Inv'
<1>1. Ev(t) \in Events
  BY EvTypes
<1>2. status' \in Statuses
  BY StatusAfterType DEF Inv, TypeOK
<1>3. OutcomeKept'
  BY <1>1, NoEventNeutral, OutcomeAdd DEF Inv
<1>4. TypeOK'
  BY <1>1, <1>2, AddPreserves DEF Inv, TypeOK
<1> QED BY <1>1, <1>3, <1>4, AddPreserves DEF Inv

(* Every handler of nx_event_process() preserves the invariant: it leaves  *)
(* the status StatusAfter says, and counts the event it posts.             *)
LEMMA HandlersInv ==
  ASSUME Inv, StartSelf \/ StopSelf \/ PauseSelf \/ ResumeSelf \/ ModuleEvent
  PROVE  Inv'
<1>1. status \in Statuses
  BY DEF Inv, TypeOK
<1>2. "DATA_AVAILABLE" \in EventTypes /\ "RESUME" \in EventTypes
  BY DEF EventTypes
<1>3. CASE StartSelf
  <2>1. cur' = NoEvent /\ cur.type = "START"
    BY <1>3 DEF StartSelf, Handling
  <2>2. CASE status = "RUNNING" /\ Set("RUNNING")
    <3>1. StatusAfter(status, cur.type) = "RUNNING"
      BY <2>1, <2>2 DEF StatusAfter
    <3> QED BY <3>1, <2>1, <2>2, SetInv
  <2>3. CASE status = "PAUSED" /\ Add(Ev("RESUME")) /\ UNCHANGED status
    <3>1. StatusAfter(status, cur.type) = "PAUSED"
      BY <2>1, <2>3 DEF StatusAfter
    <3> QED BY <3>1, <2>1, <2>3, <1>2, SetAddInv
  <2>4. CASE status = "STOPPED" /\ (Set("RUNNING") \/ SetAndNotify("RUNNING"))
    <3>1. StatusAfter(status, cur.type) = "RUNNING"
      BY <2>1, <2>4 DEF StatusAfter
    <3>2. CASE Set("RUNNING")
      BY <3>1, <3>2, <2>1, SetInv
    <3>3. CASE SetAndNotify("RUNNING")
      BY <3>1, <3>3, <2>1, <1>2, SetAddInv DEF SetAndNotify
    <3> QED BY <2>4, <3>2, <3>3
  <2> QED BY <1>3, <2>2, <2>3, <2>4 DEF StartSelf
<1>4. CASE StopSelf
  <2>1. cur' = NoEvent /\ cur.type = "STOP" /\ Set("STOPPED")
    BY <1>4 DEF StopSelf, Handling
  <2>2. StatusAfter(status, cur.type) = "STOPPED"
    BY <2>1 DEF StatusAfter
  <2> QED BY <2>1, <2>2, SetInv
<1>5. CASE PauseSelf
  <2>1. /\ cur' = NoEvent /\ cur.type = "PAUSE"
        /\ Set(IF status = "RUNNING" THEN "PAUSED" ELSE status)
    BY <1>5 DEF PauseSelf, Handling
  <2>2. StatusAfter(status, cur.type) = IF status = "RUNNING" THEN "PAUSED" ELSE status
    BY <2>1 DEF StatusAfter
  <2> QED BY <2>1, <2>2, SetInv
<1>6. CASE ResumeSelf
  <2>1. cur' = NoEvent /\ cur.type = "RESUME"
    BY <1>6 DEF ResumeSelf, Handling
  <2>2. CASE status # "PAUSED" /\ Set(status)
    <3>1. StatusAfter(status, cur.type) = status
      BY <2>1, <2>2 DEF StatusAfter
    <3> QED BY <3>1, <2>1, <2>2, SetInv
  <2>3. CASE status = "PAUSED" /\ (Set("RUNNING") \/ SetAndNotify("RUNNING"))
    <3>1. StatusAfter(status, cur.type) = "RUNNING"
      BY <2>1, <2>3 DEF StatusAfter
    <3>2. CASE Set("RUNNING")
      BY <3>1, <3>2, <2>1, SetInv
    <3>3. CASE SetAndNotify("RUNNING")
      BY <3>1, <3>3, <2>1, <1>2, SetAddInv DEF SetAndNotify
    <3> QED BY <2>3, <3>2, <3>3
  <2> QED BY <1>6, <2>2, <2>3 DEF ResumeSelf
<1>7. CASE ModuleEvent
  <2>1. /\ cur' = NoEvent /\ Set(status)
        /\ cur.type \notin {"START", "STOP", "PAUSE", "RESUME"}
    BY <1>7 DEF ModuleEvent, Handling
  <2>2. StatusAfter(status, cur.type) = status
    BY <2>1 DEF StatusAfter
  <2> QED BY <2>1, <2>2, SetInv
<1> QED BY <1>3, <1>4, <1>5, <1>6, <1>7

(* A callback that throws preserves the invariant.                         *)
LEMMA FailureInv == Inv /\ CallbackFails => Inv'
<1> SUFFICES ASSUME Inv, CallbackFails PROVE Inv'
  OBVIOUS
<1>1. /\ cur' = NoEvent /\ intended' = FinalStatus(status, events)
      /\ UNCHANGED <<status, events, event_cnt, owed>>
  BY DEF CallbackFails, Handling
<1>2. FinalStatus(status, events) \in Statuses
  <2>1. events \in Seq(Events) /\ status \in Statuses /\ Len(events) \in 0..Len(events)
    BY DEF Inv, TypeOK
  <2> QED BY <2>1, OutcomeDef DEF FinalStatus
<1>3. OutcomeKept'
  BY <1>1, NoEventNeutral DEF OutcomeKept
<1> QED BY <1>1, <1>2, <1>3 DEF Inv, TypeOK, CountExact, NotForgotten

-----------------------------------------------------------------------------
(* Every reachable state of a module and its job, for every bound and      *)
(* every set of events the environment posts, is well typed, keeps the     *)
(* outcome of the control events and the count exact, and forgets nothing. *)
THEOREM ModuleControlSafe == Spec => [](TypeOK /\ EventListSound)
<1>1. Inv /\ [Next]_vars => Inv'
  <2> SUFFICES ASSUME Inv, [Next]_vars PROVE Inv'
    OBVIOUS
  <2>1. ASSUME NEW e \in {x \in Events : x.type \in PostedTypes}, Post(e) PROVE Inv'
    BY <2>1, PostInv
  <2>2. ASSUME NEW d \in Data, RemoveByData(d) PROVE Inv'
    BY <2>2, RemoveInv
  <2>3. CASE UNCHANGED vars
    BY <2>3 DEF vars, Inv, TypeOK, OutcomeKept, CountExact, NotForgotten
  <2> QED BY <2>1, <2>2, <2>3, TakeInv, HandlersInv, FailureInv DEF Next
<1>2. Inv => TypeOK /\ EventListSound
  BY DEF Inv, EventListSound
<1> QED BY InitInv, <1>1, <1>2, PTL DEF Spec
=============================================================================
