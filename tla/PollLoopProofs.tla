--------------------------- MODULE PollLoopProofs ---------------------------
(***************************************************************************)
(* nx_module_pollset_poll() with any number of posting threads and event   *)
(* lists of any length: a running input keeps polling, and the window      *)
(* between the look at the event count and the setting of in_poll is the   *)
(* only one through which a wake-up is lost.                               *)
(***************************************************************************)
EXTENDS PollLoop, EventQueueProofs

PlEvents == [type : EventTypes, data : {"NULL"}]
Polls(q) == \E i \in 1..Len(q) : q[i].type = "POLL"

(* PollSound is not inductive: in_poll must be known to tell where the     *)
(* worker is, and the window before it is set is already accounted for.    *)
InPoll == plPc \in {"poll", "left"} <=> in_poll = 1

WindowExplained ==
  plPc = "enter" /\ plEvents # <<>> => posters > 0 \/ raced \/ unannounced

PollInv == PollTypeOK /\ InPoll /\ WindowExplained /\ PollSound

(* Nothing of interest is lost when an event is added: the list stays a    *)
(* list, is not empty, keeps its POLL, and has one if POLL was added.      *)
LEMMA PlAddFacts ==
  ASSUME NEW q \in Seq(PlEvents), NEW t \in EventTypes
  PROVE  /\ PlAdd(q, t) \in Seq(PlEvents) /\ PlAdd(q, t) # <<>>
         /\ Polls(q) \/ t = "POLL" => Polls(PlAdd(q, t))
<1> DEFINE e == PlEv(t)
           a == Append(q, e)
<1>1. e \in PlEvents /\ e.type = t
  BY DEF PlEv, PlEvents
<1> HIDE DEF e
<1>2. /\ a \in Seq(PlEvents) /\ Len(a) = Len(q) + 1 /\ Len(q) \in Nat
      /\ a[Len(q) + 1] = e /\ \A i \in 1..Len(q) : a[i] = q[i]
  BY <1>1
<1>3. PlAdd(q, t) = Dedupe(a) /\ PlAdd(q, t) = Enqueue(q, e)
  BY DEF PlAdd, Enqueue, e
<1> HIDE DEF a
<1>4. PlAdd(q, t) \in Seq(PlEvents) /\ Len(PlAdd(q, t)) \in 1..(Len(q) + 1)
  <2>1. "STOPPED" \in Statuses
    BY DEF Statuses
  <2> QED BY <1>1, <1>3, <2>1, EnqueueFacts
<1>5. PlAdd(q, t) # <<>>
  BY <1>4, <1>2
<1>6. Dataless(a)
  <2>1. \A i \in DOMAIN a : a[i] \in PlEvents
    BY <1>2
  <2>2. \A x, y \in PlEvents : x.type = y.type => x = y
    BY DEF PlEvents
  <2> QED BY <2>1, <2>2 DEF Dataless
<1>7. ASSUME Polls(q) \/ t = "POLL" PROVE Polls(PlAdd(q, t))
  <2>1. PICK j \in 1..Len(a) : a[j].type = "POLL"
    BY <1>1, <1>2, <1>7 DEF Polls
  <2>2. \E i \in 1..Len(Dedupe(a)) : Dedupe(a)[i] = a[j]
    BY <1>2, <1>6, DedupeKeepsEvents
  <2> QED BY <1>3, <2>1, <2>2 DEF Polls
<1> QED BY <1>4, <1>5, <1>7

(* Taking another event off the list leaves a pending POLL in it.          *)
LEMMA TailFacts ==
  ASSUME NEW q \in Seq(PlEvents), q # <<>>
  PROVE  /\ Tail(q) \in Seq(PlEvents)
         /\ Polls(q) /\ Head(q).type # "POLL" => Polls(Tail(q))
<1>1. /\ Tail(q) \in Seq(PlEvents) /\ Len(q) \in Nat /\ Len(q) >= 1
      /\ Len(Tail(q)) = Len(q) - 1 /\ Head(q) = q[1]
      /\ \A i \in 1..Len(Tail(q)) : Tail(q)[i] = q[i + 1]
  OBVIOUS
<1>2. ASSUME Polls(q), Head(q).type # "POLL" PROVE Polls(Tail(q))
  <2>1. PICK j \in 1..Len(q) : q[j].type = "POLL"
    BY <1>2 DEF Polls
  <2>2. j # 1
    BY <1>1, <1>2, <2>1
  <2>3. j - 1 \in 1..Len(Tail(q)) /\ (j - 1) + 1 = j
    BY <1>1, <2>1, <2>2
  <2>4. Tail(q)[j - 1] = q[j]
    BY <1>1, <2>3
  <2> QED BY <2>1, <2>3, <2>4 DEF Polls
<1> QED BY <1>1, <1>2

(* The search for a pending POLL is a statement about the places of the    *)
(* list.                                                                   *)
LEMMA PlHasIsPolls ==
  ASSUME plEvents \in Seq(PlEvents)
  PROVE  PlHas("POLL") <=> Polls(plEvents)
BY DEF PlHas, Polls

(* The same after a step.                                                  *)
LEMMA PlHasIsPollsPrime ==
  ASSUME plEvents' \in Seq(PlEvents)
  PROVE  PlHas("POLL")' <=> Polls(plEvents')
BY DEF PlHas, Polls

(* What the steps below use of the invariant, and what they must show.     *)
PollStep ==
  /\ plStatus \in Statuses /\ plEvents \in Seq(PlEvents)
  /\ plPc \in {"idle", "look", "enter", "poll", "left"}
  /\ plFound \subseteq {"READ"} /\ in_poll \in {0, 1} /\ posters \in Nat
  /\ plResume \in BOOLEAN /\ wakeup \in BOOLEAN /\ readable \in BOOLEAN
  /\ raced \in BOOLEAN /\ unannounced \in BOOLEAN
  /\ InPoll /\ WindowExplained /\ SleepsUnawareOnlyIfRaced
  /\ plStatus = "RUNNING" => plPc # "idle" \/ Polls(plEvents)

(* PollStep is the invariant, with the search written out.                 *)
LEMMA PollStepIsInv == PollInv <=> PollStep
BY PlHasIsPolls DEF PollInv, PollStep, PollTypeOK, PollSound, KeepsPolling, PlEvents

(* The other threads.                                                      *)
LEMMA OthersKeepPolling ==
  ASSUME PollStep,
         \/ \E t \in {"START", "STOP", "PAUSE", "RESUME", "DATA_AVAILABLE"} : PlPost(t)
         \/ PlWake \/ PlDue \/ PlArrival
  PROVE  PollStep'
<1>1. ASSUME NEW t \in {"START", "STOP", "PAUSE", "RESUME", "DATA_AVAILABLE"},
             PlPost(t)
      PROVE  PollStep'
  <2>1. t \in EventTypes
    BY DEF EventTypes
  <2>2. /\ plEvents' \in Seq(PlEvents) /\ (Polls(plEvents) => Polls(plEvents'))
    BY <1>1, <2>1, PlAddFacts DEF PlPost, PollStep
  <2> QED BY <1>1, <2>2 DEF PlPost, PollStep, InPoll, WindowExplained,
                            SleepsUnawareOnlyIfRaced
<1>2. ASSUME PlWake PROVE PollStep'
  <2>1. raced' \in BOOLEAN /\ wakeup' \in BOOLEAN
    BY <1>2, Zenon DEF PlWake, PollStep
  <2>2. plPc = "enter" => raced'
    BY <1>2 DEF PlWake, PollStep, InPoll
  <2>3. plPc = "poll" => wakeup'
    BY <1>2 DEF PlWake, PollStep, InPoll
  <2>4. posters' \in Nat
    BY <1>2 DEF PlWake, PollStep
  <2> QED BY <1>2, <2>1, <2>2, <2>3, <2>4
          DEF PlWake, PollStep, InPoll, WindowExplained, SleepsUnawareOnlyIfRaced
<1>3. ASSUME PlDue PROVE PollStep'
  <2>1. "SCHEDULE" \in EventTypes
    BY DEF EventTypes
  <2>2. /\ plEvents' \in Seq(PlEvents) /\ (Polls(plEvents) => Polls(plEvents'))
    BY <1>3, <2>1, PlAddFacts DEF PlDue, PollStep
  <2> QED BY <1>3, <2>2 DEF PlDue, PollStep, InPoll, WindowExplained,
                            SleepsUnawareOnlyIfRaced
<1>4. ASSUME PlArrival PROVE PollStep'
  BY <1>4 DEF PlArrival, PollStep, InPoll, WindowExplained, SleepsUnawareOnlyIfRaced
<1> QED BY <1>1, <1>2, <1>3, <1>4

(* The worker takes an event: it was idle, so in_poll is 0 and stays so.   *)
LEMMA TakingKeepsPolling ==
  ASSUME PollStep, PlStart \/ PlStopPause \/ PlResume \/ PlOther \/ PlPoll
  PROVE  PollStep'
<1>0. plPc = "idle" /\ plEvents # <<>> /\ plEvents \in Seq(PlEvents) /\ PlStill
  BY DEF PlStart, PlStopPause, PlResume, PlOther, PlPoll, PlTakes, PollStep
<1>1. /\ Tail(plEvents) \in Seq(PlEvents)
      /\ Polls(plEvents) /\ Head(plEvents).type # "POLL" => Polls(Tail(plEvents))
  BY <1>0, TailFacts
<1>2. \A t \in {"POLL", "RESUME"} :
         /\ PlAdd(Tail(plEvents), t) \in Seq(PlEvents)
         /\ Polls(Tail(plEvents)) \/ t = "POLL" => Polls(PlAdd(Tail(plEvents), t))
  <2>1. \A t \in {"POLL", "RESUME"} : t \in EventTypes
    BY DEF EventTypes
  <2> QED BY <1>1, <2>1, PlAddFacts
<1>3. ASSUME PlStart PROVE PollStep'
  BY <1>0, <1>1, <1>2, <1>3
  DEF PlStart, PlTakes, PlStill, PollStep, InPoll, WindowExplained,
      SleepsUnawareOnlyIfRaced, Statuses
<1>4. ASSUME PlStopPause PROVE PollStep'
  BY <1>0, <1>1, <1>4
  DEF PlStopPause, PlTakes, PlStill, PollStep, InPoll, WindowExplained,
      SleepsUnawareOnlyIfRaced, Statuses, StatusAfter
<1>5. ASSUME PlResume PROVE PollStep'
  BY <1>0, <1>1, <1>2, <1>5
  DEF PlResume, PlTakes, PlStill, PollStep, InPoll, WindowExplained,
      SleepsUnawareOnlyIfRaced, Statuses
<1>6. ASSUME PlOther PROVE PollStep'
  BY <1>0, <1>1, <1>6
  DEF PlOther, PlTakes, PlStill, PollStep, InPoll, WindowExplained,
      SleepsUnawareOnlyIfRaced
<1>7. ASSUME PlPoll PROVE PollStep'
  BY <1>0, <1>1, <1>7
  DEF PlPoll, PlTakes, PlStill, PollStep, InPoll, WindowExplained,
      SleepsUnawareOnlyIfRaced
<1> QED BY <1>3, <1>4, <1>5, <1>6, <1>7

(* The worker in nx_module_pollset_poll().                                 *)
LEMMA PollingKeepsPolling ==
  ASSUME PollStep, PlLook \/ PlEnter \/ PlReturn \/ PlLeave
  PROVE  PollStep'
<1>0. plEvents \in Seq(PlEvents) /\ "POLL" \in EventTypes /\ "READ" \in EventTypes
  BY DEF PollStep, EventTypes
<1>1. ASSUME PlLook PROVE PollStep'
  <2>1. PlAdd(plEvents, "POLL") \in Seq(PlEvents) /\ Polls(PlAdd(plEvents, "POLL"))
    BY <1>0, PlAddFacts
  <2> QED BY <1>1, <2>1 DEF PlLook, PlFinish, PlStill, PollStep, InPoll,
                            WindowExplained, SleepsUnawareOnlyIfRaced, Statuses
<1>2. ASSUME PlEnter PROVE PollStep'
  BY <1>2 DEF PlEnter, PollStep, InPoll, WindowExplained, SleepsUnawareOnlyIfRaced
<1>3. ASSUME PlReturn PROVE PollStep'
  BY <1>3 DEF PlReturn, PollStep, InPoll, WindowExplained, SleepsUnawareOnlyIfRaced
<1>4. ASSUME PlLeave PROVE PollStep'
  <2> DEFINE r == IF plFound # {} THEN PlAdd(plEvents, "READ") ELSE plEvents
  <2>1. r \in Seq(PlEvents)
    BY <1>0, PlAddFacts
  <2> HIDE DEF r
  <2>2. PlAdd(r, "POLL") \in Seq(PlEvents) /\ Polls(PlAdd(r, "POLL"))
    BY <1>0, <2>1, PlAddFacts
  <2>3. plEvents' = PlAdd(r, "POLL")
    BY <1>4 DEF PlLeave, r
  <2>4. plPc' = "idle" /\ plStatus' \in Statuses
    BY <1>4 DEF PlLeave, PlFinish, PollStep, Statuses
  <2>5. plResume' \in BOOLEAN /\ raced' \in BOOLEAN /\ unannounced' \in BOOLEAN
    BY <1>4 DEF PlLeave, PlFinish
  <2>6. in_poll' = 0 /\ plFound' = {} /\ UNCHANGED <<wakeup, readable, posters>>
    BY <1>4 DEF PlLeave
  <2> QED BY <2>2, <2>3, <2>4, <2>5, <2>6
          DEF PollStep, InPoll, WindowExplained, SleepsUnawareOnlyIfRaced
<1> QED BY <1>1, <1>2, <1>3, <1>4

(* For every number of posting threads and every length of the event list: *)
(* a running input has a POLL pending or is polling, and a worker asleep   *)
(* in poll() with an event waiting will be woken, or the event came through*)
(* the window before in_poll was set, or from the event thread.            *)
THEOREM PollLoopSafe == PollSpec => [](PollTypeOK /\ PollSound)
<1>1. PollInit => PollInv
  <2> SUFFICES ASSUME PollInit PROVE PollStep
    BY PollStepIsInv
  <2>1. plEvents \in Seq(PlEvents)
    <3>1. PlEv("START") \in PlEvents
      BY DEF PlEv, PlEvents, EventTypes
    <3> QED BY <3>1 DEF PollInit
  <2>2. /\ plResume \in BOOLEAN /\ wakeup \in BOOLEAN /\ readable \in BOOLEAN
        /\ raced \in BOOLEAN /\ unannounced \in BOOLEAN
    BY DEF PollInit
  <2>3. /\ plStatus = "STOPPED" /\ plPc = "idle" /\ plFound = {} /\ in_poll = 0
        /\ posters = 0
    BY DEF PollInit
  <2> QED BY <2>1, <2>2, <2>3 DEF PollStep, InPoll, WindowExplained,
                      SleepsUnawareOnlyIfRaced, Statuses
<1>2. PollInv /\ [PollNext]_plVars => PollInv'
  <2> SUFFICES ASSUME PollStep, [PollNext]_plVars PROVE PollStep'
    BY PollStepIsInv, PTL
  <2>1. CASE UNCHANGED plVars
    BY <2>1 DEF plVars, PollStep, InPoll, WindowExplained, SleepsUnawareOnlyIfRaced
  <2> QED BY <2>1, OthersKeepPolling, TakingKeepsPolling, PollingKeepsPolling
          DEF PollNext
<1>3. PollInv => PollTypeOK /\ PollSound
  BY DEF PollInv
<1> QED BY <1>1, <1>2, <1>3, PTL DEF PollSpec
=============================================================================
