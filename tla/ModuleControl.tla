---------------------------- MODULE ModuleControl ----------------------------
(***************************************************************************)
(* One module and its job: other threads post control and data events,     *)
(* the list is de-duplicated, a worker takes the events one by one and     *)
(* starts, stops, pauses or resumes the module (src/common/event.c,        *)
(* src/common/module.c).  The question is whether dropping events from     *)
(* the list can change what becomes of the module.                         *)
(***************************************************************************)
EXTENDS EventQueue

CONSTANTS
  PostedTypes,  \* the types of events the environment posts
  Data,         \* the values of event->data
  HasQueue,     \* module->queue != NULL (processors and outputs)
  MaxEvents     \* bound on the list length at which others still post

(* Only events about a connection, a file or a schedule carry data; those  *)
(* the library posts about the module itself have a NULL pointer there.    *)
DataTypes == {"READ", "WRITE", "SCHEDULE"}
Events    == [type : EventTypes, data : {"NULL"}] \cup [type : DataTypes, data : Data]

ASSUME PostedAssumption == PostedTypes \subseteq EventTypes
ASSUME QueueAssumption  == HasQueue \in BOOLEAN
ASSUME BoundAssumption  == MaxEvents \in Nat
ASSUME NullAssumption   == "NULL" \in Data

VARIABLES
  status,     \* module->status
  events,     \* module->job->events
  event_cnt,  \* module->job->event_cnt
  cur,        \* the event a worker is processing (the job is busy), if any
  intended,   \* history: the status the module would end in if every event
              \* ever posted were processed
  owed        \* history: the events posted since an equal one was taken

vars == <<status, events, event_cnt, cur, intended, owed>>

NoEvent == [type |-> "NONE", data |-> "NULL"]
Ev(type) == [type |-> type, data |-> "NULL"]

Init ==
  /\ status = "STOPPED" /\ events = <<>> /\ event_cnt = 0
  /\ cur = NoEvent /\ intended = "STOPPED" /\ owed = {}

(* Mutant of Add: one is subtracted where a pair of events is removed.     *)
AddMiscounts(e) ==
  /\ events' = Enqueue(events, e)
  /\ event_cnt' = IF Survives(events, e) THEN event_cnt + 1 ELSE event_cnt
  /\ intended' = StatusAfter(intended, e.type)
  /\ owed' = owed \cup {e}

(* nx_event_to_jobqueue(): the counter goes up by one for the event and    *)
(* down by one for each event the de-duplication removes.                  *)
Add(e) ==
  /\ events' = Enqueue(events, e)
  /\ event_cnt' = (event_cnt + 1) - (Len(events) + 1 - Len(Enqueue(events, e)))
  /\ intended' = StatusAfter(intended, e.type)
  /\ owed' = owed \cup {e}

Post(e) ==
  /\ Len(events) < MaxEvents
  /\ Add(e)
  /\ UNCHANGED <<status, cur>>

(* nx_ctx_next_job() *)
Take ==
  /\ cur = NoEvent /\ events # <<>>
  /\ cur' = Head(events)
  /\ events' = Tail(events) /\ event_cnt' = event_cnt - 1
  /\ owed' = owed \ {Head(events)}
  /\ UNCHANGED <<status, intended>>

(* Mutant of RemoveByData: the counter drops by the length of the list.    *)
RemoveByDataMiscounts(d) ==
  /\ d # "NULL"
  /\ events' = Without(events, d)
  /\ event_cnt' = event_cnt - Len(events)
  /\ owed' = {e \in owed : e.data # d}
  /\ UNCHANGED <<status, cur, intended>>

(* nx_module_remove_events_by_data(): a connection is gone, its events are *)
(* removed from the middle of the list.                                    *)
RemoveByData(d) ==
  LET keep == Without(events, d)
  IN  /\ d # "NULL"
      /\ events' = keep
      /\ event_cnt' = event_cnt - (Len(events) - Len(keep))
      /\ owed' = {e \in owed : e.data # d}
      /\ UNCHANGED <<status, cur, intended>>

-----------------------------------------------------------------------------
(* nx_event_process(): one action per handler.  The callbacks of the       *)
(* module may throw; start, pause and resume set the status after the      *)
(* callback, stop sets it before.  A failure is not the list's doing: what *)
(* is intended from then on is what the remaining events lead to.          *)

Handling(types) == cur.type \in types /\ cur' = NoEvent

Set(s) == status' = s /\ UNCHANGED <<events, event_cnt, intended, owed>>

(* The status is set and DATA_AVAILABLE posted by the same handler.        *)
SetAndNotify(s) == status' = s /\ Add(Ev("DATA_AVAILABLE"))

CallbackFails ==
  /\ Handling({"START", "PAUSE", "RESUME"})
  /\ status # StatusAfter(status, cur.type)
  /\ intended' = FinalStatus(status, events)
  /\ UNCHANGED <<status, events, event_cnt, owed>>

StartSelf ==
  /\ Handling({"START"})
  /\ \/ status = "RUNNING" /\ Set("RUNNING")
     \/ status = "PAUSED" /\ Add(Ev("RESUME")) /\ UNCHANGED status
     \/ status = "STOPPED" /\ Set("RUNNING")
     \/ status = "STOPPED" /\ HasQueue /\ SetAndNotify("RUNNING")

StopSelf == Handling({"STOP"}) /\ Set("STOPPED")

PauseSelf ==
  /\ Handling({"PAUSE"})
  /\ Set(IF status = "RUNNING" THEN "PAUSED" ELSE status)

ResumeSelf ==
  /\ Handling({"RESUME"})
  /\ \/ status # "PAUSED" /\ Set(status)
     \/ /\ status = "PAUSED"
        /\ IF HasQueue THEN SetAndNotify("RUNNING") ELSE Set("RUNNING")

(* The module's own handler of all other events.                           *)
ModuleEvent ==
  /\ Handling(EventTypes \ {"START", "STOP", "PAUSE", "RESUME"})
  /\ Set(status)

Next ==
  \/ \E e \in {x \in Events : x.type \in PostedTypes} : Post(e)
  \/ \E d \in Data : RemoveByData(d)
  \/ Take \/ StartSelf \/ StopSelf \/ PauseSelf \/ ResumeSelf \/ ModuleEvent
  \/ CallbackFails

Spec == Init /\ [][Next]_vars
-----------------------------------------------------------------------------
(* Type invariant.                                                         *)
TypeOK ==
  /\ status \in Statuses /\ intended \in Statuses
  /\ events \in Seq(Events)
  /\ event_cnt \in Nat
  /\ cur \in Events \cup {NoEvent}
  /\ owed \subseteq Events

(* _event_dedupe() removes events, in pairs too, yet the module ends up    *)
(* in the status in which all events ever posted would have left it.       *)
OutcomeKept ==
  intended = FinalStatus(StatusAfter(status, cur.type), events)

(* job->event_cnt, which the worker and the poll loop read without the     *)
(* lock, is the length of the list whatever was added and removed.         *)
CountExact == event_cnt = Len(events)

(* _event_dedupe() forgets nothing: whoever posts an event, an equal event *)
(* is taken by a worker later than that, unless it is removed on purpose.  *)
NotForgotten == \A e \in owed : \E i \in DOMAIN events : events[i] = e

(* All of this together: the list is as good as one without                *)
(* de-duplication, however the threads interleave.                         *)
EventListSound == OutcomeKept /\ CountExact /\ NotForgotten
=============================================================================
