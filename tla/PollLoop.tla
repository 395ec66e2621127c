------------------------------ MODULE PollLoop ------------------------------
(***************************************************************************)
(* An input that waits for its descriptors in nx_module_pollset_poll()     *)
(* (common/module.c), with the start, pause and resume callbacks of im_tcp *)
(* and im_udp.  A worker sleeps in poll() on the module's behalf, so       *)
(* whoever posts an event must also wake it: nx_event_add() and then       *)
(* nx_module_pollset_wakeup(), which looks at in_poll without a lock.      *)
(***************************************************************************)
EXTENDS EventQueue

CONSTANTS
  PlMaxEvents,   \* bound on the list length at which others still post
  PlMaxPosters   \* bound on the threads between posting and waking

ASSUME PollAssumption == PlMaxEvents \in Nat /\ PlMaxPosters \in Nat

VARIABLES
  plStatus,   \* module->status
  plEvents,   \* module->job->events; its length is event_cnt
  plPc,       \* the worker: idle, look, enter, poll, left (poll() returned)
  plFound,    \* what poll() has found: the events to post
  plResume,   \* the poll is part of the resume callback
  in_poll,    \* module->in_poll
  wakeup,     \* a byte is in the pollset's wake-up pipe
  readable,   \* a descriptor has data
  posters,    \* threads that have posted an event and not yet woken
  raced,      \* history: an event came after the worker had looked at the
              \* list, and whoever posted it found in_poll still 0
  unannounced \* history: the event thread has posted since then

plVars == <<plStatus, plEvents, plPc, plFound, plResume, in_poll, wakeup,
            readable, posters, raced, unannounced>>

PlEv(type) == [type |-> type, data |-> "NULL"]
PlAdd(q, type) == Enqueue(q, PlEv(type))
PlHas(type) == \E i \in DOMAIN plEvents : plEvents[i].type = type

PollInit ==
  /\ plStatus = "STOPPED" /\ plEvents = <<PlEv("START")>> /\ plPc = "idle"
  /\ plFound = {} /\ plResume = FALSE /\ in_poll = 0 /\ wakeup = FALSE
  /\ readable = FALSE /\ posters = 0 /\ raced = FALSE /\ unannounced = FALSE

-----------------------------------------------------------------------------
(* Other threads: nx_module_stop(), _pause(), _resume(), _data_available() *)
(* post and then wake.  (An input posts its own PAUSE, too.)               *)
PlPost(type) ==
  /\ Len(plEvents) < PlMaxEvents /\ posters < PlMaxPosters
  /\ plEvents' = PlAdd(plEvents, type) /\ posters' = posters + 1
  /\ UNCHANGED <<plStatus, plPc, plFound, plResume, in_poll, wakeup, readable,
                 raced, unannounced>>

(* Mutant of PlWake: the test of in_poll is the wrong way round.           *)
PlWakeInverted ==
  /\ posters > 0 /\ posters' = posters - 1
  /\ wakeup' = (wakeup \/ in_poll = 0)
  /\ raced' = (raced \/ (in_poll = 0 /\ plPc = "enter"))
  /\ UNCHANGED <<plStatus, plEvents, plPc, plFound, plResume, in_poll, readable,
                 unannounced>>

PlWake ==
  /\ posters > 0 /\ posters' = posters - 1
  /\ wakeup' = (wakeup \/ in_poll = 1)
  /\ raced' = (raced \/ (in_poll = 0 /\ plPc = "enter"))
  /\ UNCHANGED <<plStatus, plEvents, plPc, plFound, plResume, in_poll, readable,
                 unannounced>>

(* nxlog_event_thread(): an event is due; nobody is woken for it.          *)
PlDue ==
  /\ Len(plEvents) < PlMaxEvents
  /\ plEvents' = PlAdd(plEvents, "SCHEDULE")
  /\ unannounced' = (plPc \in {"enter", "poll"} \/ unannounced)
  /\ UNCHANGED <<plStatus, plPc, plFound, plResume, in_poll, wakeup, readable,
                 posters, raced>>

PlArrival ==
  /\ ~readable /\ readable' = TRUE
  /\ UNCHANGED <<plStatus, plEvents, plPc, plFound, plResume, in_poll, wakeup,
                 posters, raced, unannounced>>

-----------------------------------------------------------------------------
(* The worker that runs the module's handlers.                             *)
PlTakes(types) == plPc = "idle" /\ plEvents # <<>> /\ Head(plEvents).type \in types

PlStill == UNCHANGED <<plFound, in_poll, wakeup, posters, raced, unannounced>>

(* im_tcp_start() adds a POLL; START of a paused module posts RESUME.      *)
PlStart ==
  /\ PlTakes({"START"})
  /\ plEvents' = CASE plStatus = "STOPPED" -> PlAdd(Tail(plEvents), "POLL")
                   [] plStatus = "PAUSED"  -> PlAdd(Tail(plEvents), "RESUME")
                   [] OTHER                -> Tail(plEvents)
  /\ plStatus' = IF plStatus = "STOPPED" THEN "RUNNING" ELSE plStatus
  /\ UNCHANGED <<plPc, plResume, readable>> /\ PlStill

PlStopPause ==
  /\ PlTakes({"STOP", "PAUSE"})
  /\ plStatus' = StatusAfter(plStatus, Head(plEvents).type)
  /\ plEvents' = Tail(plEvents)
  /\ UNCHANGED <<plPc, plResume, readable>> /\ PlStill

(* Mutant of PlResume: no resume callback.                                 *)
PlResumeBare ==
  /\ PlTakes({"RESUME"})
  /\ plEvents' = Tail(plEvents)
  /\ plStatus' = StatusAfter(plStatus, "RESUME")
  /\ UNCHANGED <<plPc, plResume, readable>> /\ PlStill

(* RESUME of a paused module calls the resume callback first: im_tcp polls *)
(* in it, im_udp adds a POLL event.                                        *)
PlResume ==
  /\ PlTakes({"RESUME"})
  /\ \/ /\ plStatus = "PAUSED"
        /\ plEvents' = Tail(plEvents) /\ plPc' = "look" /\ plResume' = TRUE
        /\ UNCHANGED plStatus
     \/ /\ plStatus = "PAUSED"
        /\ plEvents' = PlAdd(Tail(plEvents), "POLL") /\ plStatus' = "RUNNING"
        /\ UNCHANGED <<plPc, plResume>>
     \/ /\ plStatus # "PAUSED"
        /\ plEvents' = Tail(plEvents)
        /\ UNCHANGED <<plStatus, plPc, plResume>>
  /\ UNCHANGED readable /\ PlStill

(* READ drains the descriptor unless the module is not running (im_tcp:    *)
(* the data stay where they are and will be found by the next poll).       *)
PlOther ==
  /\ PlTakes({"READ", "DATA_AVAILABLE", "SCHEDULE"})
  /\ plEvents' = Tail(plEvents)
  /\ readable' = (readable /\ ~(Head(plEvents).type = "READ" /\ plStatus = "RUNNING"))
  /\ UNCHANGED <<plStatus, plPc, plResume>> /\ PlStill

PlPoll ==
  /\ PlTakes({"POLL"})
  /\ plEvents' = Tail(plEvents)
  /\ plPc' = IF plStatus = "RUNNING" THEN "look" ELSE "idle"
  /\ UNCHANGED <<plStatus, plResume, readable>> /\ PlStill

(* The end of the handler that has called nx_module_pollset_poll().        *)
PlFinish ==
  /\ plPc' = "idle" /\ plResume' = FALSE
  /\ plStatus' = IF plResume THEN "RUNNING" ELSE plStatus

(* Mutant of PlLook: POLL is not put back.                                 *)
PlLookForgets ==
  /\ plPc = "look"
  /\ IF plEvents # <<>>
     THEN PlFinish /\ UNCHANGED plEvents
     ELSE plPc' = "enter" /\ UNCHANGED <<plEvents, plResume, plStatus>>
  /\ UNCHANGED readable /\ PlStill

(* nx_module_pollset_poll(): the event count is read ...                   *)
PlLook ==
  /\ plPc = "look"
  /\ IF plEvents # <<>>
     THEN PlFinish /\ plEvents' = PlAdd(plEvents, "POLL")
     ELSE plPc' = "enter" /\ UNCHANGED <<plEvents, plResume, plStatus>>
  /\ UNCHANGED readable /\ PlStill

(* ... in_poll is set ...                                                  *)
PlEnter ==
  /\ plPc = "enter" /\ plPc' = "poll" /\ in_poll' = 1
  /\ UNCHANGED <<plStatus, plEvents, plFound, plResume, wakeup, readable, posters,
                 raced, unannounced>>

(* ... poll() returns: ready, interrupted by a wake-up, or timed out ...   *)
PlReturn ==
  /\ plPc = "poll" /\ plPc' = "left"
  /\ plFound' = IF readable THEN {"READ"} ELSE {}
  /\ wakeup' = FALSE
  /\ UNCHANGED <<plStatus, plEvents, plResume, in_poll, readable, posters, raced,
                 unannounced>>

(* Mutant of PlLeave: READ instead of POLL.                                *)
PlLeaveOnce ==
  /\ plPc = "left" /\ in_poll' = 0 /\ plFound' = {}
  /\ plEvents' = PlAdd(plEvents, IF plFound # {} THEN "READ" ELSE "POLL")
  /\ raced' = FALSE /\ unannounced' = FALSE
  /\ PlFinish /\ UNCHANGED <<wakeup, readable, posters>>

(* ... and in_poll is reset, READ posted for what was found, POLL again.   *)
PlLeave ==
  /\ plPc = "left" /\ in_poll' = 0 /\ plFound' = {}
  /\ plEvents' = PlAdd(IF plFound # {} THEN PlAdd(plEvents, "READ") ELSE plEvents,
                       "POLL")
  /\ raced' = FALSE /\ unannounced' = FALSE
  /\ PlFinish /\ UNCHANGED <<wakeup, readable, posters>>

PollNext ==
  \/ \E t \in {"START", "STOP", "PAUSE", "RESUME", "DATA_AVAILABLE"} : PlPost(t)
  \/ PlWake \/ PlDue \/ PlArrival
  \/ PlStart \/ PlStopPause \/ PlResume \/ PlOther \/ PlPoll
  \/ PlLook \/ PlEnter \/ PlReturn \/ PlLeave

PollSpec == PollInit /\ [][PollNext]_plVars
-----------------------------------------------------------------------------
(* Type invariant.                                                         *)
PollTypeOK ==
  /\ plStatus \in Statuses
  /\ plEvents \in Seq([type : EventTypes, data : {"NULL"}])
  /\ plPc \in {"idle", "look", "enter", "poll", "left"}
  /\ plFound \subseteq {"READ"} /\ in_poll \in {0, 1}
  /\ posters \in Nat
  /\ {plResume, wakeup, readable, raced, unannounced} \subseteq BOOLEAN

(* A running input never stops polling: through pauses, resumptions,       *)
(* restarts and the de-duplication of its list a POLL stays pending, or    *)
(* the worker is in nx_module_pollset_poll().                              *)
KeepsPolling == plStatus = "RUNNING" => plPc # "idle" \/ PlHas("POLL")

(* The race at in_poll is the only one: a worker that sleeps in poll()     *)
(* with an event waiting will be woken, unless the event came between its  *)
(* look at the list and the setting of in_poll, or from the event thread   *)
(* (then it is found when poll() times out).                               *)
SleepsUnawareOnlyIfRaced ==
  plPc = "poll" /\ plEvents # <<>> =>
     wakeup \/ posters > 0 \/ raced \/ unannounced

(* Both: nx_module_pollset_poll() is left when it should be and entered    *)
(* again whenever it was left.                                             *)
PollSound == KeepsPolling /\ SleepsUnawareOnlyIfRaced
=============================================================================
