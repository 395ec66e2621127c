-------------------------- MODULE LifecycleProofs --------------------------
(***************************************************************************)
(* The main thread against the worker threads, for any number of modules,  *)
(* workers and reloads: the types, with and without timeouts, and that an  *)
(* orderly shutdown saves the queues when no thread is left and no module  *)
(* runs.  What the main thread sees of a module is its status only, and    *)
(* that a stopped module stays stopped depends on events: there must be no *)
(* START left that would start it again.                                   *)
(***************************************************************************)
EXTENDS Lifecycle, EventQueueProofs

Evs == {Ev(t) : t \in EventTypes}

(* What a worker has in hand.                                              *)
InHand ==
  \A w \in Workers : wpc[w] = "process" => wjob[w] \in Modules /\ wev[w] \in EventTypes

TypeInv == TypeOK /\ InHand

-----------------------------------------------------------------------------
(* A START in a list, no more than one, one that a worker is processing.   *)
StartIn(q)    == \E i \in 1..Len(q) : q[i].type = "START"
OneStartIn(q) == \A i, j \in 1..Len(q) : q[i].type = "START" /\ q[j].type = "START" => i = j
Starting(m)   == \E w \in Workers : wpc[w] = "process" /\ wjob[w] = m /\ wev[w] = "START"
NoStart(m)    == ~StartIn(events[m]) /\ ~Starting(m)

(* A module's events are processed one at a time.                          *)
OneAtATime ==
  \A v, w \in Workers :
     wpc[v] = "process" /\ wpc[w] = "process" /\ wjob[v] = wjob[w] => v = w

(* A module is started once, and a running one has been.                   *)
StartedOnce ==
  \A m \in Modules : /\ OneStartIn(events[m])
                     /\ Starting(m) => ~StartIn(events[m])
                     /\ status[m] = "RUNNING" => NoStart(m)

(* nx_ctx_start_modules() gets to modules that nobody has started yet, and *)
(* nx_ctx_shutdown_modules() leaves nothing of the events behind.          *)
StillToStart ==
  main = "start" => \A i \in k..Len(Order) : NoStart(Order[i]) /\ status[Order[i]] # "RUNNING"

Emptied ==
  /\ main \in {"shutdown", "down", "parse"} => Ended
  /\ main \in {"terminate", "wait", "join", "save"} => k = 1
  /\ main = "shutdown" => \A i \in 1..(k - 1) : events[Order[i]] = <<>>
  /\ main \in {"down", "parse"} => \A m \in Modules : events[m] = <<>>

(* From the first nx_module_stop() on nothing is left that would start a   *)
(* thread or a module; the loop leaves no module running behind it.        *)
AfterStop == {"terminate", "wait", "join", "save", "shutdown", "down"}

StopsForGood ==
  orderly =>
    /\ main \in {"stop"} \cup AfterStop =>
         /\ epc # "new" /\ \A w \in Workers : wpc[w] # "new"
         /\ \A m \in Modules : NoStart(m)
    /\ main = "stop" => \A i \in 1..(k - 1) : status[Order[i]] # "RUNNING"
    /\ main \in AfterStop => \A m \in Modules : status[m] # "RUNNING"
    /\ main \in {"join", "save", "shutdown", "down"} => Ended

QuietInv ==
  TypeInv /\ OneAtATime /\ StartedOnce /\ StillToStart /\ Emptied /\ StopsForGood

-----------------------------------------------------------------------------
(* The events are records with a type.                                     *)
LEMMA EvFacts ==
  /\ \A t : Ev(t).type = t
  /\ \A t \in EventTypes : Ev(t) \in Evs
  /\ \A e \in Evs : e.type \in EventTypes
  /\ {"READ", "DATA_AVAILABLE", "START", "STOP"} \subseteq EventTypes
BY DEF Ev, Evs, EventTypes

(* Another event than START brings no START ...                            *)
LEMMA EnqueueOther ==
  ASSUME NEW q \in Seq(Evs), NEW t \in EventTypes, t # "START"
  PROVE  /\ Enqueue(q, Ev(t)) \in Seq(Evs)
         /\ StartIn(Enqueue(q, Ev(t))) => StartIn(q)
         /\ OneStartIn(q) => OneStartIn(Enqueue(q, Ev(t)))
<1> DEFINE e == Ev(t)
           d == Enqueue(q, e)
<1>0. e \in Evs
  BY EvFacts
<1>1. e.type # "START"
  BY EvFacts
<1> HIDE DEF e
<1>2. /\ d \in Seq(Evs) /\ Len(d) \in 0..(Len(q) + 1)
      /\ \A i \in 1..Len(d) : d[i] = IF i = Len(q) + 1 THEN e ELSE q[i]
  BY ONLY q \in Seq(Evs), <1>0, EnqueuePrefix, Zenon
<1> HIDE DEF d
<1>3. \A i \in 1..Len(d) : d[i].type = "START" => i \in 1..Len(q) /\ q[i].type = "START"
  BY <1>1, <1>2
<1> QED BY <1>2, <1>3 DEF StartIn, OneStartIn, d, e

(* ... and a START that is the only one stays so.                          *)
LEMMA EnqueueStart ==
  ASSUME NEW q \in Seq(Evs), ~StartIn(q)
  PROVE  Enqueue(q, Ev("START")) \in Seq(Evs) /\ OneStartIn(Enqueue(q, Ev("START")))
<1> DEFINE e == Ev("START")
           d == Enqueue(q, e)
<1>1. e \in Evs
  BY EvFacts
<1> HIDE DEF e
<1>2. /\ d \in Seq(Evs) /\ Len(d) \in 0..(Len(q) + 1)
      /\ \A i \in 1..Len(d) : d[i] = IF i = Len(q) + 1 THEN e ELSE q[i]
  BY ONLY q \in Seq(Evs), <1>1, EnqueuePrefix, Zenon
<1> HIDE DEF d
<1>3. \A i \in 1..Len(d) : d[i].type = "START" => i = Len(q) + 1
  BY <1>2 DEF StartIn
<1> QED BY <1>2, <1>3 DEF OneStartIn, d, e

(* Taking the first event off a list.                                      *)
LEMMA TailStart ==
  ASSUME NEW q \in Seq(Evs), q # <<>>
  PROVE  /\ Tail(q) \in Seq(Evs) /\ Head(q) \in Evs
         /\ StartIn(Tail(q)) => StartIn(q)
         /\ Head(q).type = "START" => StartIn(q)
         /\ OneStartIn(q) => /\ OneStartIn(Tail(q))
                             /\ Head(q).type = "START" => ~StartIn(Tail(q))
<1>1. /\ Tail(q) \in Seq(Evs) /\ Head(q) \in Evs /\ Head(q) = q[1] /\ Len(q) \in Nat \ {0}
      /\ Len(Tail(q)) = Len(q) - 1 /\ \A i \in 1..Len(Tail(q)) : Tail(q)[i] = q[i + 1]
  OBVIOUS
<1>2. \A i \in 1..Len(Tail(q)) : i + 1 \in 1..Len(q) /\ i + 1 # 1
  BY <1>1
<1>3. StartIn(Tail(q)) => StartIn(q)
  BY <1>1, <1>2 DEF StartIn
<1>4. Head(q).type = "START" => StartIn(q)
  BY <1>1 DEF StartIn
<1>5. OneStartIn(q) => OneStartIn(Tail(q))
  BY <1>1, <1>2 DEF OneStartIn
<1>6. OneStartIn(q) /\ Head(q).type = "START" => ~StartIn(Tail(q))
  BY <1>1, <1>2 DEF OneStartIn, StartIn
<1> QED BY <1>1, <1>3, <1>4, <1>5, <1>6

-----------------------------------------------------------------------------
(* Lists that got other events than STARTs, or lost some.                  *)
KeepsStarts ==
  /\ events' \in [Modules -> Seq(Evs)]
  /\ \A m \in Modules : /\ StartIn(events'[m]) => StartIn(events[m])
                        /\ OneStartIn(events[m]) => OneStartIn(events'[m])

(* One module gets another event than START.                               *)
LEMMA PostOther ==
  ASSUME NEW m \in Modules, NEW t \in EventTypes, t # "START",
         events \in [Modules -> Seq(Evs)],
         events' = [events EXCEPT ![m] = Enqueue(@, Ev(t))]
  PROVE  KeepsStarts
<1> DEFINE d == Enqueue(events[m], Ev(t))
<1>1. /\ d \in Seq(Evs)
      /\ StartIn(d) => StartIn(events[m])
      /\ OneStartIn(events[m]) => OneStartIn(d)
  BY EnqueueOther
<1>2. events' = [events EXCEPT ![m] = d]
  OBVIOUS
<1> HIDE DEF d
<1>3. /\ events' \in [Modules -> Seq(Evs)]
      /\ \A n \in Modules : events'[n] = IF n = m THEN d ELSE events[n]
  BY <1>1, <1>2
<1> QED BY <1>1, <1>3 DEF KeepsStarts

(* The indices of Order and the modules.                                   *)
LEMMA OrderFacts ==
  /\ Len(Order) \in Nat \ {0}
  /\ \A i \in 1..Len(Order) : Order[i] \in Modules
  /\ \A m \in Modules : \E i \in 1..Len(Order) : m = Order[i]
  /\ \A i, j \in 1..Len(Order) : Order[i] = Order[j] => i = j
BY LifecycleAssumption DEF Modules

(* The module that is reminded of its records.                             *)
LEMMA RemindKeeps ==
  ASSUME TypeOK, DataInQueues # {}, Remind
  PROVE  KeepsStarts
<1> DEFINE i == CHOOSE i \in DataInQueues : \A j \in DataInQueues : i <= j
<1>1. DataInQueues \subseteq Nat /\ DataInQueues \subseteq 1..Len(Order)
  BY OrderFacts DEF DataInQueues
<1>2. i \in DataInQueues
  <2>1. \E n \in DataInQueues : \A j \in DataInQueues : n <= j
    BY <1>1, LeastNat
  <2> QED BY <2>1
<1>3. events' = [events EXCEPT ![Order[i]] = Enqueue(@, Ev("DATA_AVAILABLE"))]
  BY DEF Remind
<1> HIDE DEF i
<1>4. Order[i] \in Modules
  BY <1>1, <1>2, OrderFacts
<1>5. events \in [Modules -> Seq(Evs)]
  BY DEF TypeOK, Evs
<1>6. "DATA_AVAILABLE" \in EventTypes
  BY EvFacts
<1> QED BY <1>3, <1>4, <1>5, <1>6, PostOther

(* A step that leaves the lists alone.                                     *)
LEMMA UnchangedKeeps ==
  ASSUME TypeOK, UNCHANGED events
  PROVE  KeepsStarts
BY DEF KeepsStarts, TypeOK, Evs

(* A handler posts no START.                                               *)
LEMMA ProcessKeeps ==
  ASSUME TypeInv, NEW w \in Workers, Process(w)
  PROVE  KeepsStarts
<1> DEFINE m == wjob[w]
           n == Order[Len(Order)]
<1>1. /\ TypeOK /\ events \in [Modules -> Seq(Evs)] /\ m \in Modules /\ n \in Modules
      /\ "READ" \in EventTypes /\ "DATA_AVAILABLE" \in EventTypes
  <2>1. wpc[w] = "process"
    BY DEF Process, HandleStart, HandleStop, HandleRead, HandleData, Handled
  <2>2. Len(Order) \in 1..Len(Order)
    BY OrderFacts
  <2> QED BY <2>1, <2>2, OrderFacts, EvFacts DEF TypeInv, TypeOK, InHand, Evs
<1>2. CASE UNCHANGED events
  BY <1>1, <1>2, UnchangedKeeps
<1>3. CASE HandleStart(w) /\ events' # events
  <2> DEFINE first == IF m \in Inputs THEN "READ" ELSE "DATA_AVAILABLE"
  <2>1. events' = [events EXCEPT ![m] = Enqueue(@, Ev(first))]
    BY <1>3 DEF HandleStart
  <2>2. first \in EventTypes /\ first # "START"
    BY <1>1
  <2> HIDE DEF m, first
  <2> QED BY <1>1, <2>1, <2>2, PostOther
<1>4. CASE HandleData(w) /\ events' # events
  <2>1. events' = [events EXCEPT ![m] = Enqueue(@, Ev("DATA_AVAILABLE"))]
    BY <1>4 DEF HandleData
  <2> HIDE DEF m
  <2> QED BY <1>1, <2>1, PostOther
<1>5. CASE HandleRead(w) /\ events' # events
  <2> DEFINE f == [events EXCEPT ![n] = Enqueue(@, Ev("DATA_AVAILABLE"))]
             c == Enqueue(events[n], Ev("DATA_AVAILABLE"))
             d == Enqueue(f[m], Ev("READ"))
  <2>1. events' = [f EXCEPT ![m] = d] /\ f = [events EXCEPT ![n] = c]
    BY <1>5 DEF HandleRead
  <2>2. /\ c \in Seq(Evs)
        /\ StartIn(c) => StartIn(events[n])
        /\ OneStartIn(events[n]) => OneStartIn(c)
    BY <1>1, EnqueueOther
  <2> HIDE DEF m, n, c
  <2>3. /\ f \in [Modules -> Seq(Evs)]
        /\ \A x \in Modules : /\ StartIn(f[x]) => StartIn(events[x])
                              /\ OneStartIn(events[x]) => OneStartIn(f[x])
    BY <1>1, <2>1, <2>2
  <2> HIDE DEF f
  <2>4. /\ d \in Seq(Evs)
        /\ StartIn(d) => StartIn(f[m])
        /\ OneStartIn(f[m]) => OneStartIn(d)
    BY <1>1, <2>3, EnqueueOther
  <2> HIDE DEF d
  <2>5. events' \in [Modules -> Seq(Evs)] /\ \A x \in Modules : events'[x] = IF x = m THEN d ELSE f[x]
    BY <1>1, <2>1, <2>3, <2>4
  <2> QED BY <1>1, <2>3, <2>4, <2>5 DEF KeepsStarts
<1> QED BY <1>2, <1>3, <1>4, <1>5 DEF Process, HandleStop

(* The loops of the main thread stay within the list of modules.           *)
LEMMA AdvanceFacts ==
  ASSUME TypeOK, NEW a, Advance(a)
  PROVE  k' \in 1..Len(Order) /\ main' \in {main, a}
BY OrderFacts DEF TypeOK, Advance

-----------------------------------------------------------------------------
(* Initially.                                                              *)
LEMMA InitType == Init => TypeInv
<1> SUFFICES ASSUME Init PROVE TypeInv
  OBVIOUS
<1>1. <<Ev("START")>> \in Seq({Ev(t) : t \in EventTypes})
  BY EvFacts DEF Evs
<1>2. 1 \in 1..Len(Order)
  BY OrderFacts
<1>3. InHand
  BY DEF Init, InHand
<1>4. events \in [Modules -> Seq({Ev(t) : t \in EventTypes})] /\ k \in 1..Len(Order)
  BY <1>1, <1>2 DEF Init
<1>5. queue \in [Modules -> 0..Cap] /\ hups \in 0..MaxReloads
  BY LifecycleAssumption DEF Init
<1> QED BY <1>3, <1>4, <1>5 DEF Init, TypeInv, TypeOK

(* The types in a step of a worker ...                                     *)
WorkerStates == {"new", "loop", "wait", "woken", "process", "check", "check_queues", "done"}

(* A step of a worker (nxlog_worker_thread) keeps the types if what it     *)
(* sets has them.                                                          *)
LEMMA WorkerTypes ==
  ASSUME TypeOK, InHand',
         wpc' \in [Workers -> WorkerStates], wjob' \in [Workers -> Modules \cup {NoModule}],
         wev' \in [Workers -> EventTypes \cup {"NONE"}], wterm' \in [Workers -> BOOLEAN],
         UNCHANGED <<mainvars, requests, terminating, epc, orderly>>,
         events' \in [Modules -> Seq(Evs)], queue' \in [Modules -> 0..Cap],
         status' \in [Modules -> {"STOPPED", "RUNNING", "UNINITIALIZED"}]
  PROVE  TypeInv'
<1>1. /\ events' \in [Modules -> Seq({Ev(t) : t \in EventTypes})]
      /\ wpc' \in [Workers -> {"new", "loop", "wait", "woken", "process", "check",
                              "check_queues", "done"}]
  BY Zenon DEF WorkerStates, Evs
<1>2. UNCHANGED <<main, k, restarting, terminate, reload, hups, stale, terminating, epc, orderly>>
  BY DEF mainvars, requests
<1>3. /\ main' \in {"loop", "sleep", "stop", "stop_self", "terminate", "wait", "join", "save",
                   "shutdown", "down", "exit", "undefined", "parse", "start"}
      /\ k' \in 1..Len(Order) /\ hups' \in 0..MaxReloads
      /\ epc' \in {"new", "sleep", "check_queues", "done"}
  BY <1>2 DEF TypeOK
<1>4. /\ restarting' \in BOOLEAN /\ terminate' \in BOOLEAN /\ reload' \in BOOLEAN
      /\ terminating' \in BOOLEAN /\ stale' \in BOOLEAN /\ orderly' \in BOOLEAN
  BY <1>2, Zenon DEF TypeOK
<1>5. TypeOK'
  BY <1>1, <1>3, <1>4, Zenon DEF TypeOK
<1> QED BY <1>5 DEF TypeInv

(* ... which takes up no new event ...                                     *)
LEMMA WorkerMoves ==
  ASSUME TypeInv, NEW w \in Workers, NEW p \in WorkerStates, p # "process", NEW b \in BOOLEAN,
         wpc' = [wpc EXCEPT ![w] = p], wterm' = [wterm EXCEPT ![w] = b] \/ wterm' = wterm,
         UNCHANGED <<mainvars, requests, terminating, epc, orderly, wjob, wev, status, queue>>,
         events' \in [Modules -> Seq(Evs)]
  PROVE  TypeInv'
<1>1. /\ wpc' \in [Workers -> WorkerStates] /\ wjob' \in [Workers -> Modules \cup {NoModule}]
      /\ wev' \in [Workers -> EventTypes \cup {"NONE"}] /\ wterm' \in [Workers -> BOOLEAN]
  BY DEF TypeInv, TypeOK, WorkerStates
<1>2. InHand'
  BY DEF InHand, TypeInv, TypeOK
<1>3. /\ queue' \in [Modules -> 0..Cap] /\ TypeOK
      /\ status' \in [Modules -> {"STOPPED", "RUNNING", "UNINITIALIZED"}]
  BY DEF TypeInv, TypeOK
<1> QED BY <1>1, <1>2, <1>3, WorkerTypes

(* ... or one that does or did.                                            *)
LEMMA WorkerType ==
  ASSUME TypeInv, NEW w \in Workers, Worker(w)
  PROVE  TypeInv'
<1>1. /\ TypeOK /\ InHand /\ wpc[w] \in WorkerStates /\ wjob[w] \in Modules \cup {NoModule}
      /\ wev[w] \in EventTypes \cup {"NONE"} /\ wterm[w] \in BOOLEAN /\ terminating \in BOOLEAN
      /\ wpc[w] = "process" => wjob[w] \in Modules /\ wev[w] \in EventTypes
  BY DEF TypeInv, TypeOK, WorkerStates, InHand
<1>2. /\ events \in [Modules -> Seq(Evs)] /\ queue \in [Modules -> 0..Cap]
      /\ status \in [Modules -> {"STOPPED", "RUNNING", "UNINITIALIZED"}]
  BY <1>1 DEF TypeOK, Evs
<1>3. \A p \in {"loop", "wait", "woken", "check", "check_queues", "done"} :
         p \in WorkerStates /\ p # "process"
  BY DEF WorkerStates
<1>4. CASE WorkerBegins(w)
  BY <1>1, <1>2, <1>3, <1>4, WorkerMoves DEF WorkerBegins, modulevars
<1>5. CASE \E m \in Modules : Take(w, m)
  <2>1. PICK m \in Modules : Take(w, m)
    BY <1>5
  <2>2. events[m] \in Seq(Evs) /\ events[m] # <<>>
    BY <1>2, <2>1 DEF Take, Ready
  <2> DEFINE e == Head(events[m]).type
  <2>3. Tail(events[m]) \in Seq(Evs) /\ e \in EventTypes
    BY <2>2, TailStart, EvFacts
  <2>4. events' \in [Modules -> Seq(Evs)]
    BY <1>2, <2>1, <2>3 DEF Take
  <2>5. "process" \in WorkerStates
    BY DEF WorkerStates
  <2>6. /\ wpc' = [wpc EXCEPT ![w] = "process"] /\ wjob' = [wjob EXCEPT ![w] = m]
        /\ wev' = [wev EXCEPT ![w] = e] /\ wterm' = [wterm EXCEPT ![w] = terminating]
        /\ UNCHANGED <<mainvars, requests, terminating, status, queue, epc, orderly>>
    BY <2>1 DEF Take
  <2> HIDE DEF e
  <2>7. /\ wpc' \in [Workers -> WorkerStates] /\ wjob' \in [Workers -> Modules \cup {NoModule}]
        /\ wev' \in [Workers -> EventTypes \cup {"NONE"}] /\ wterm' \in [Workers -> BOOLEAN]
    BY <1>1, <2>3, <2>5, <2>6 DEF TypeOK, WorkerStates
  <2>8. InHand'
    BY <1>1, <2>3, <2>6 DEF InHand, TypeOK
  <2> QED BY <1>1, <1>2, <2>4, <2>6, <2>7, <2>8, WorkerTypes
<1>6. CASE NoJob(w)
  <2> DEFINE p == IF wpc[w] = "loop" THEN "wait" ELSE "check"
             b == IF wpc[w] = "loop" THEN wterm[w] ELSE terminating
  <2>1. /\ p \in WorkerStates /\ p # "process" /\ b \in BOOLEAN
        /\ wpc' = [wpc EXCEPT ![w] = p] /\ wterm' = [wterm EXCEPT ![w] = b]
    BY <1>1, <1>3, <1>6 DEF NoJob
  <2> HIDE DEF p, b
  <2>2. UNCHANGED <<mainvars, requests, terminating, epc, orderly, wjob, wev, status, queue, events>>
    BY <1>6 DEF NoJob, modulevars
  <2> QED BY <1>2, <2>1, <2>2, WorkerMoves
<1>7. CASE Wake(w)
  BY <1>1, <1>2, <1>3, <1>7, WorkerMoves DEF Wake, modulevars
<1>8. CASE Process(w)
  <2>1. events' \in [Modules -> Seq(Evs)]
    BY <1>8, ProcessKeeps DEF KeepsStarts
  <2>2. wjob[w] \in Modules /\ Order[Len(Order)] \in Modules
    <3>1. wpc[w] = "process"
      BY <1>8 DEF Process, HandleStart, HandleStop, HandleRead, HandleData, Handled
    <3>2. Len(Order) \in 1..Len(Order)
      BY OrderFacts
    <3> QED BY <1>1, <3>1, <3>2, OrderFacts
  <2>3. status' \in [Modules -> {"STOPPED", "RUNNING", "UNINITIALIZED"}]
    BY <1>2, <1>8 DEF Process, HandleStart, HandleStop, HandleRead, HandleData
  <2>4. queue' \in [Modules -> 0..Cap]
    <3>1. CASE HandleStart(w) \/ HandleStop(w)
      BY <1>2, <3>1 DEF HandleStart, HandleStop
    <3>2. CASE HandleRead(w)
      <4> DEFINE n == Order[Len(Order)]
                 c == IF queue[n] < Cap THEN queue[n] + 1 ELSE queue[n]
      <4>1. c \in 0..Cap
        BY <1>2, <2>2, LifecycleAssumption
      <4>2. queue' = queue \/ queue' = [queue EXCEPT ![n] = c]
        BY <3>2 DEF HandleRead
      <4> HIDE DEF n, c
      <4> QED BY <1>2, <4>1, <4>2
    <3>3. CASE HandleData(w)
      <4> DEFINE m == wjob[w]
      <4>1. queue' = queue \/ (queue[m] # 0 /\ queue' = [queue EXCEPT ![m] = queue[m] - 1])
        BY <3>3 DEF HandleData
      <4>2. queue[m] # 0 => queue[m] - 1 \in 0..Cap
        BY <1>2, <2>2, LifecycleAssumption
      <4> HIDE DEF m
      <4> QED BY <1>2, <4>1, <4>2
    <3> QED BY <1>8, <3>1, <3>2, <3>3 DEF Process
  <2>5. \E t : Handled(w, t)
    BY <1>8 DEF Process, HandleStart, HandleStop, HandleRead, HandleData
  <2>6. /\ wpc' = [wpc EXCEPT ![w] = "check"] /\ wjob' = [wjob EXCEPT ![w] = NoModule]
        /\ wev' = [wev EXCEPT ![w] = "NONE"]
        /\ UNCHANGED <<mainvars, requests, terminating, wterm, epc, orderly>>
    BY <2>5 DEF Handled
  <2>7. /\ wpc' \in [Workers -> WorkerStates] /\ wjob' \in [Workers -> Modules \cup {NoModule}]
        /\ wev' \in [Workers -> EventTypes \cup {"NONE"}] /\ wterm' \in [Workers -> BOOLEAN]
    BY <1>1, <2>6 DEF TypeOK, WorkerStates
  <2>8. InHand'
    BY <1>1, <2>6 DEF InHand, TypeOK
  <2> QED BY <1>1, <2>1, <2>3, <2>4, <2>6, <2>7, <2>8, WorkerTypes
<1>9. CASE CheckJobs(w)
  <2> DEFINE p == IF wterm[w] /\ ~DataInJobs THEN "check_queues" ELSE "loop"
  <2>1. p \in WorkerStates /\ p # "process" /\ wpc' = [wpc EXCEPT ![w] = p]
    BY <1>3, <1>9 DEF CheckJobs
  <2> HIDE DEF p
  <2> QED BY <1>1, <1>2, <1>9, <2>1, WorkerMoves DEF CheckJobs, modulevars
<1>10. CASE CheckQueues(w)
  <2>1. events' \in [Modules -> Seq(Evs)]
    BY <1>1, <1>2, <1>10, RemindKeeps DEF CheckQueues, KeepsStarts
  <2>2. \E p \in {"loop", "done"} : wpc' = [wpc EXCEPT ![w] = p]
    BY <1>10 DEF CheckQueues
  <2> QED BY <1>1, <1>2, <1>3, <1>10, <2>1, <2>2, WorkerMoves DEF CheckQueues
<1> QED BY <1>4, <1>5, <1>6, <1>7, <1>8, <1>9, <1>10 DEF Worker

(* ... of the event thread ...                                             *)
LEMMA EventThreadType ==
  ASSUME TypeInv, EventThread
  PROVE  TypeInv' /\ KeepsStarts
<1>1. KeepsStarts
  BY UnchangedKeeps, RemindKeeps DEF EventThread, TypeInv
<1>2. events' \in [Modules -> Seq({Ev(t) : t \in EventTypes})]
  BY <1>1 DEF KeepsStarts, Evs
<1> QED BY <1>1, <1>2, SMTT(30) DEF EventThread, TypeInv, InHand, TypeOK, mainvars, requests

(* ... and of the main thread, whose timeouts may expire.                  *)
LEMMA MainType ==
  ASSUME TypeInv, MainStep \/ ReloadRefused \/ GiveUp \/ Sigterm \/ Sighup
  PROVE  TypeInv'
<1>1. TypeOK /\ InHand /\ Current \in Modules
  BY OrderFacts DEF TypeInv, TypeOK, Current
<1> USE <1>1
<1>2. CASE Sigterm
  BY <1>2 DEF Sigterm, TypeInv, TypeOK, InHand, mainvars, modulevars, threads
<1>3. CASE Sighup
  BY <1>3, LifecycleAssumption DEF Sighup, TypeInv, TypeOK, InHand, mainvars, modulevars, threads
<1>4. CASE LoopTest \/ ReloadBegins
  <2>1. 1 \in 1..Len(Order)
    BY OrderFacts
  <2>2. AllUp \in BOOLEAN
    BY DEF AllUp
  <2> QED BY <1>4, <2>1, <2>2 DEF LoopTest, ReloadBegins, BeginStop, TypeInv, TypeOK, InHand,
             requests, modulevars, threads
<1>5. CASE NoReload \/ ReloadRefused \/ WaitEnd \/ Join \/ Save \/ Exit \/ WaitGiveUp
  BY <1>5, SMTT(30) DEF NoReload, ReloadRefused, WaitEnd, Join, Save, Exit, WaitGiveUp, TypeInv, TypeOK,
     InHand, requests, modulevars, threads
<1>6. CASE StopPost
  <2>1. events' \in [Modules -> Seq({Ev(t) : t \in EventTypes})]
    BY <1>6, PostOther, EvFacts DEF StopPost, KeepsStarts, Evs, TypeOK
  <2> QED BY <1>6, <2>1 DEF StopPost, TypeInv, TypeOK, InHand, mainvars, requests, threads
<1>7. CASE Stopped
  BY <1>7, AdvanceFacts DEF Stopped, TypeInv, TypeOK, InHand, requests, modulevars, threads
<1>8. CASE StopGiveUp
  BY <1>8, AdvanceFacts DEF StopGiveUp, TypeInv, TypeOK, InHand, requests, modulevars, threads
<1>9. CASE StopDirect
  <2>1. k' \in 1..Len(Order) /\ main' \in {"stop", "terminate"}
    BY <1>9, OrderFacts DEF StopDirect, TypeOK
  <2> QED BY <1>9, <2>1 DEF StopDirect, TypeInv, TypeOK, InHand, requests, threads
<1>10. CASE Terminate \/ WaitAgain
  <2>1. \A w \in Workers : wpc'[w] = IF wpc[w] = "wait" THEN "woken" ELSE wpc[w]
    BY <1>10 DEF Terminate, WaitAgain, Broadcast
  <2>2. InHand'
    BY <1>10, <2>1 DEF Terminate, WaitAgain, InHand
  <2>3. wpc' \in [Workers -> WorkerStates]
    BY <1>10 DEF Terminate, WaitAgain, Broadcast, TypeOK, WorkerStates
  <2> QED BY <1>10, <2>2, <2>3 DEF Terminate, WaitAgain, TypeInv, TypeOK, WorkerStates, mainvars,
             requests, modulevars
<1>11. CASE ShutdownModule
  <2>1. <<>> \in Seq({Ev(t) : t \in EventTypes})
    OBVIOUS
  <2>2. /\ status' \in [Modules -> {"STOPPED", "RUNNING", "UNINITIALIZED"}]
        /\ events' \in [Modules -> Seq({Ev(t) : t \in EventTypes})]
    BY <1>11, <2>1 DEF ShutdownModule, ShutdownSelf, TypeOK
  <2> QED BY <1>11, <2>2, AdvanceFacts DEF ShutdownModule, TypeInv, TypeOK, InHand, requests, threads
<1>12. CASE NewContext
  BY <1>12 DEF NewContext, TypeInv, TypeOK, InHand, modulevars, threads
<1>13. CASE Parse
  <2>1. 1 \in 1..Len(Order)
    BY OrderFacts
  <2>2. wpc' = [w \in Workers |-> "new"] /\ InHand'
    BY <1>13 DEF Parse, CreateThreads, InHand
  <2> QED BY <1>13, <2>1, <2>2 DEF Parse, CreateThreads, TypeInv, TypeOK
<1>14. CASE StartModule
  <2> DEFINE d == Enqueue(events[Current], Ev("START"))
  <2>1. d \in Seq({Ev(t) : t \in EventTypes})
    BY EnqueuePrefix, EvFacts DEF TypeOK, Evs
  <2>2. events' = [events EXCEPT ![Current] = d]
    BY <1>14 DEF StartModule
  <2> HIDE DEF d
  <2>3. events' \in [Modules -> Seq({Ev(t) : t \in EventTypes})]
    BY <2>1, <2>2 DEF TypeOK
  <2>4. (k < Len(Order)) \in BOOLEAN
    OBVIOUS
  <2> QED BY <1>14, <2>3, <2>4, AdvanceFacts DEF StartModule, TypeInv, TypeOK, InHand, requests, threads
<1> QED BY <1>2, <1>3, <1>4, <1>5, <1>6, <1>7, <1>8, <1>9, <1>10, <1>11, <1>12, <1>13, <1>14
        DEF MainStep, GiveUp

(* The types are kept whatever anybody does.                               *)
LEMMA NextType == TypeInv /\ [TimedNext]_vars => TypeInv'
<1> SUFFICES ASSUME TypeInv, [TimedNext]_vars PROVE TypeInv'
  OBVIOUS
<1>1. CASE UNCHANGED vars
  BY <1>1 DEF vars, mainvars, requests, modulevars, threads, TypeInv, TypeOK, InHand
<1> QED BY <1>1, WorkerType, EventThreadType, MainType DEF TimedNext, Next

(* Every variable keeps its type, whether or not the main thread's         *)
(* timeouts (nxlog.c, nx_ctx_stop_modules()) expire.                       *)
THEOREM TypeCorrect == (Spec => []TypeOK) /\ (TimedSpec => []TypeOK)
<1>1. TypeInv => TypeOK
  BY DEF TypeInv
<1>2. [Next]_vars => [TimedNext]_vars
  BY DEF TimedNext
<1>3. Spec => []TypeOK
  BY InitType, NextType, <1>1, <1>2, PTL DEF Spec
<1>4. TimedSpec => []TypeOK
  BY InitType, NextType, <1>1, PTL DEF TimedSpec
<1> QED BY <1>3, <1>4

-----------------------------------------------------------------------------
(* A step of another thread: what it must not do.                          *)
LEMMA ThreadFrame ==
  ASSUME QuietInv, UNCHANGED <<main, k, orderly>>,
         Ended => main \notin {"join", "save", "shutdown", "down", "parse"},
         \A m \in Modules : NoStart(m) => NoStart(m)',
         \A m \in Modules : NoStart(m) /\ status[m] # "RUNNING" => status'[m] # "RUNNING",
         \A w \in Workers : wpc'[w] = "new" => wpc[w] = "new",
         epc' = "new" => epc = "new"
  PROVE  StillToStart' /\ Emptied' /\ StopsForGood'
<1>1. \A i \in 1..Len(Order) : Order[i] \in Modules
  BY OrderFacts
<1>2. k \in 1..Len(Order) /\ Len(Order) \in Nat
  BY OrderFacts DEF QuietInv, TypeInv, TypeOK
<1>3. StillToStart'
  <2> SUFFICES ASSUME main = "start", NEW i \in k..Len(Order)
               PROVE  NoStart(Order[i])' /\ status'[Order[i]] # "RUNNING"
    BY DEF StillToStart
  <2>1. i \in 1..Len(Order)
    BY <1>2
  <2> QED BY <1>1, <2>1 DEF QuietInv, StillToStart
<1>4. main \notin {"shutdown", "down", "parse"}
  BY DEF QuietInv, Emptied
<1>5. Emptied'
  BY <1>4 DEF Emptied, QuietInv
<1>6. StopsForGood'
  <2> SUFFICES ASSUME orderly, main \in {"stop"} \cup AfterStop
               PROVE  /\ epc' # "new" /\ \A w \in Workers : wpc'[w] # "new"
                      /\ \A m \in Modules : NoStart(m)'
                      /\ main = "stop" => \A i \in 1..(k - 1) : status'[Order[i]] # "RUNNING"
                      /\ main \in AfterStop => \A m \in Modules : status'[m] # "RUNNING"
                      /\ main \notin {"join", "save", "shutdown", "down"}
    BY DEF StopsForGood, AfterStop
  <2>1. /\ epc # "new" /\ \A w \in Workers : wpc[w] # "new"
        /\ \A m \in Modules : NoStart(m)
        /\ main = "stop" => \A i \in 1..(k - 1) : status[Order[i]] # "RUNNING"
        /\ main \in AfterStop => \A m \in Modules : status[m] # "RUNNING"
        /\ main \notin {"join", "save", "shutdown", "down"}
    BY DEF QuietInv, StopsForGood
  <2>2. \A i \in 1..(k - 1) : Order[i] \in Modules
    BY <1>1, <1>2
  <2> QED BY <2>1, <2>2
<1> QED BY <1>3, <1>5, <1>6

(* A step of a thread that neither takes an event nor starts a module.     *)
LEMMA OtherStep ==
  ASSUME QuietInv, TypeInv', UNCHANGED <<main, k, orderly>>, KeepsStarts,
         Ended => main \notin {"join", "save", "shutdown", "down", "parse"},
         \A m \in Modules : status'[m] = "RUNNING" => status[m] = "RUNNING",
         \A w \in Workers : /\ wpc'[w] = "new" => wpc[w] = "new"
                            /\ wpc'[w] = "process" => /\ wpc[w] = "process"
                                                      /\ wjob'[w] = wjob[w] /\ wev'[w] = wev[w],
         epc' = "new" => epc = "new"
  PROVE  QuietInv'
<1>1. ASSUME NEW m \in Modules PROVE Starting(m)' => Starting(m)
  BY DEF Starting
<1>2. ASSUME NEW m \in Modules PROVE NoStart(m) => NoStart(m)'
  BY <1>1 DEF NoStart, KeepsStarts
<1>3. StillToStart' /\ Emptied' /\ StopsForGood'
  BY <1>2, ThreadFrame
<1>4. OneAtATime'
  BY DEF QuietInv, OneAtATime
<1>5. StartedOnce'
  BY <1>1, <1>2 DEF QuietInv, StartedOnce, KeepsStarts
<1> QED BY <1>3, <1>4, <1>5 DEF QuietInv

(* A worker that takes the next event of a job no other worker has.        *)
LEMMA TakeQuiet ==
  ASSUME QuietInv, TypeInv', NEW w \in Workers, NEW m \in Modules, Take(w, m)
  PROVE  QuietInv'
<1> DEFINE q == events[m]
           e == Head(q).type
<1>1. /\ TypeOK /\ q \in Seq(Evs) /\ q # <<>> /\ ~Busy(m) /\ OneStartIn(q)
      /\ wpc[w] \in {"loop", "woken"}
      /\ wpc' = [wpc EXCEPT ![w] = "process"] /\ wjob' = [wjob EXCEPT ![w] = m]
      /\ wev' = [wev EXCEPT ![w] = e] /\ events' = [events EXCEPT ![m] = Tail(q)]
      /\ UNCHANGED <<main, k, orderly, status, epc>>
  BY DEF Take, Ready, QuietInv, TypeInv, TypeOK, Evs, StartedOnce, mainvars
<1>2. /\ StartIn(Tail(q)) => StartIn(q)
      /\ e = "START" => StartIn(q) /\ ~StartIn(Tail(q))
      /\ OneStartIn(Tail(q))
  BY <1>1, TailStart
<1>3. \A n \in Modules : events'[n] = IF n = m THEN Tail(q) ELSE events[n]
  BY <1>1 DEF TypeOK
<1> HIDE DEF q, e
<1>4. \A v \in Workers : /\ wpc'[v] = IF v = w THEN "process" ELSE wpc[v]
                         /\ wjob'[v] = IF v = w THEN m ELSE wjob[v]
                         /\ wev'[v] = IF v = w THEN e ELSE wev[v]
  BY <1>1 DEF TypeOK
<1>5. ASSUME NEW n \in Modules
      PROVE  Starting(n)' => Starting(n) \/ (n = m /\ e = "START")
  BY <1>4 DEF Starting
<1>6. ~Starting(m)
  BY <1>1 DEF Starting, Busy
<1>7. ASSUME NEW n \in Modules PROVE NoStart(n) => NoStart(n)'
  <2>1. CASE n = m
    BY <1>2, <1>3, <1>5, <2>1 DEF NoStart, q
  <2>2. CASE n # m
    BY <1>3, <1>5, <2>2 DEF NoStart
  <2> QED BY <2>1, <2>2
<1>8. StillToStart' /\ Emptied' /\ StopsForGood'
  <2>1. ~Ended
    BY <1>1 DEF Ended
  <2> QED BY <1>1, <1>4, <1>7, <2>1, ThreadFrame
<1>9. OneAtATime'
  BY <1>1, <1>4 DEF QuietInv, OneAtATime, Busy
<1>10. StartedOnce'
  <2> SUFFICES ASSUME NEW n \in Modules
               PROVE  /\ OneStartIn(events'[n])
                      /\ Starting(n)' => ~StartIn(events'[n])
                      /\ status'[n] = "RUNNING" => NoStart(n)'
    BY DEF StartedOnce
  <2>1. /\ OneStartIn(events[n])
        /\ Starting(n) => ~StartIn(events[n])
        /\ status[n] = "RUNNING" => NoStart(n)
    BY DEF QuietInv, StartedOnce
  <2>2. OneStartIn(events'[n])
    BY <1>2, <1>3, <2>1
  <2>3. Starting(n)' => ~StartIn(events'[n])
    BY <1>2, <1>3, <1>5, <1>6, <2>1
  <2> QED BY <1>1, <1>7, <2>1, <2>2, <2>3
<1> QED BY <1>8, <1>9, <1>10 DEF QuietInv

(* A START that has been processed is not there any more.                  *)
LEMMA StartQuiet ==
  ASSUME QuietInv, TypeInv', NEW w \in Workers, HandleStart(w)
  PROVE  QuietInv'
<1>0. PICK m \in Modules : m = wjob[w]
  BY DEF HandleStart, Handled, QuietInv, TypeInv, InHand
<1>1. /\ TypeOK /\ wpc[w] = "process" /\ wev[w] = "START" /\ wjob[w] = m
      /\ wpc' = [wpc EXCEPT ![w] = "check"] /\ wjob' = [wjob EXCEPT ![w] = NoModule]
      /\ UNCHANGED <<main, k, orderly, epc>>
  BY <1>0 DEF HandleStart, Handled, QuietInv, TypeInv, InHand, mainvars
<1>2. KeepsStarts
  BY ProcessKeeps DEF QuietInv, Process
<1>3. \A n \in Modules : status'[n] = "RUNNING" => n = m \/ status[n] = "RUNNING"
  BY <1>1 DEF HandleStart, TypeOK
<1>4. \A v \in Workers : /\ wpc'[v] = IF v = w THEN "check" ELSE wpc[v]
                         /\ v # w => wjob'[v] = wjob[v] /\ wev'[v] = wev[v]
  BY <1>1 DEF HandleStart, Handled, TypeOK
<1>5. Starting(m) /\ ~StartIn(events[m])
  BY <1>1 DEF Starting, QuietInv, StartedOnce
<1>6. ASSUME NEW n \in Modules PROVE Starting(n)' => Starting(n) /\ n # m
  BY <1>1, <1>4 DEF Starting, QuietInv, OneAtATime
<1>7. ASSUME NEW n \in Modules PROVE NoStart(n) => NoStart(n)'
  BY <1>2, <1>6 DEF NoStart, KeepsStarts
<1>8. NoStart(m)'
  BY <1>1, <1>2, <1>5, <1>6 DEF NoStart, KeepsStarts
<1>9. StillToStart' /\ Emptied' /\ StopsForGood'
  <2>1. ~Ended
    BY <1>1 DEF Ended
  <2>2. \A n \in Modules : NoStart(n) /\ status[n] # "RUNNING" => status'[n] # "RUNNING"
    BY <1>3, <1>5 DEF NoStart
  <2> QED BY <1>1, <1>4, <1>7, <2>1, <2>2, ThreadFrame
<1>10. OneAtATime'
  BY <1>4 DEF QuietInv, OneAtATime
<1>11. StartedOnce'
  <2> SUFFICES ASSUME NEW n \in Modules
               PROVE  /\ OneStartIn(events'[n])
                      /\ Starting(n)' => ~StartIn(events'[n])
                      /\ status'[n] = "RUNNING" => NoStart(n)'
    BY DEF StartedOnce
  <2> QED BY <1>2, <1>3, <1>6, <1>7, <1>8 DEF QuietInv, StartedOnce, KeepsStarts
<1> QED BY <1>9, <1>10, <1>11 DEF QuietInv

(* The steps of a worker.                                                  *)
LEMMA WorkerQuiet ==
  ASSUME QuietInv, TypeInv', NEW w \in Workers, Worker(w)
  PROVE  QuietInv'
<1>1. TypeInv /\ TypeOK
  BY DEF QuietInv, TypeInv
<1>2. CASE \E m \in Modules : Take(w, m)
  BY <1>2, TakeQuiet
<1>3. CASE HandleStart(w)
  BY <1>3, StartQuiet
<1>4. CASE /\ ~\E m \in Modules : Take(w, m)
           /\ ~HandleStart(w)
  <2>1. wpc[w] # "done" /\ ~Ended
    BY <1>4 DEF Worker, WorkerBegins, NoJob, Wake, Process, HandleStop, HandleRead, HandleData,
       Handled, CheckJobs, CheckQueues, Ended
  <2>2. UNCHANGED <<main, k, orderly, epc>>
    BY <1>4 DEF Worker, WorkerBegins, NoJob, Wake, Process, HandleStop, HandleRead, HandleData,
       Handled, CheckJobs, CheckQueues, mainvars
  <2>3. KeepsStarts
    <3>1. CASE Process(w)
      BY <1>1, <3>1, ProcessKeeps
    <3>2. CASE CheckQueues(w)
      BY <1>1, <3>2, UnchangedKeeps, RemindKeeps DEF CheckQueues
    <3>3. CASE UNCHANGED events
      BY <1>1, <3>3, UnchangedKeeps
    <3> QED BY <1>4, <3>1, <3>2, <3>3 DEF Worker, WorkerBegins, NoJob, Wake, CheckJobs, modulevars
  <2>4. \A m \in Modules : status'[m] = "RUNNING" => status[m] = "RUNNING"
    <3>1. CASE HandleStop(w)
      BY <1>1, <3>1 DEF HandleStop, TypeOK
    <3>2. CASE UNCHANGED status
      BY <3>2
    <3> QED BY <1>4, <3>1, <3>2 DEF Worker, WorkerBegins, NoJob, Wake, Process, HandleRead,
               HandleData, CheckJobs, CheckQueues, modulevars
  <2>5. /\ \E p \in WorkerStates \ {"new", "process"} : wpc' = [wpc EXCEPT ![w] = p]
        /\ \/ UNCHANGED <<wjob, wev>>
           \/ wjob' = [wjob EXCEPT ![w] = NoModule] /\ wev' = [wev EXCEPT ![w] = "NONE"]
    BY <1>4 DEF Worker, WorkerBegins, NoJob, Wake, Process, HandleStop, HandleRead, HandleData,
       Handled, CheckJobs, CheckQueues, WorkerStates
  <2>6. \A v \in Workers : /\ wpc'[v] = "new" => wpc[v] = "new"
                           /\ wpc'[v] = "process" => /\ wpc[v] = "process"
                                                     /\ wjob'[v] = wjob[v] /\ wev'[v] = wev[v]
    BY <1>1, <2>5 DEF TypeOK
  <2> QED BY <2>1, <2>2, <2>3, <2>4, <2>6, OtherStep
<1> QED BY <1>2, <1>3, <1>4

(* ... and of the event thread.                                            *)
LEMMA EventThreadQuiet ==
  ASSUME QuietInv, TypeInv', EventThread
  PROVE  QuietInv'
<1>1. KeepsStarts
  BY EventThreadType DEF QuietInv
<1>2. epc # "done" /\ ~Ended /\ epc' # "new"
  BY DEF EventThread, Ended
<1>3. UNCHANGED <<main, k, orderly, status, wpc, wjob, wev>>
  BY DEF EventThread, mainvars
<1> QED BY <1>1, <1>2, <1>3, OtherStep

-----------------------------------------------------------------------------
(* The main thread moves on, and nobody else.                              *)
LEMMA SameThreads ==
  ASSUME QuietInv, UNCHANGED <<status, events, wpc, wjob, wev>>
  PROVE  OneAtATime' /\ StartedOnce' /\ \A m \in Modules : NoStart(m)' <=> NoStart(m)
<1>1. \A m \in Modules : Starting(m)' <=> Starting(m)
  BY DEF Starting
<1>2. \A m \in Modules : NoStart(m)' <=> NoStart(m)
  BY <1>1 DEF NoStart
<1>3. OneAtATime'
  BY DEF QuietInv, OneAtATime
<1>4. StartedOnce'
  BY <1>1, <1>2 DEF QuietInv, StartedOnce
<1> QED BY <1>2, <1>3, <1>4

(* Where no thread is left, nothing is being started.                      *)
LEMMA EndedNoStart ==
  ASSUME NEW m, Ended
  PROVE  ~Starting(m)
BY DEF Ended, Starting

(* The steps of the main thread before its timeouts expire.                *)
LEMMA MainQuiet ==
  ASSUME QuietInv, TypeInv', MainStep \/ ReloadRefused \/ Sigterm \/ Sighup
  PROVE  QuietInv'
<1>1. /\ TypeOK /\ k \in 1..Len(Order) /\ Len(Order) \in Nat /\ Current \in Modules
      /\ Current = Order[k] /\ \A i \in 1..Len(Order) : Order[i] \in Modules
      /\ \A m \in Modules : \E i \in 1..Len(Order) : m = Order[i]
  BY OrderFacts DEF QuietInv, TypeInv, TypeOK, Current
<1>2. CASE Sigterm \/ Sighup
  <2>1. UNCHANGED <<main, k, orderly, status, events, wpc, wjob, wev, epc>>
    BY <1>2 DEF Sigterm, Sighup, mainvars, modulevars, threads
  <2>2. Ended' <=> Ended
    BY <2>1 DEF Ended
  <2> QED BY <2>1, <2>2, SameThreads, <1>1 DEF QuietInv, StillToStart, Emptied, StopsForGood
<1>3. CASE (LoopTest /\ terminate) \/ ReloadBegins
  <2>1. UNCHANGED <<status, events, wpc, wjob, wev, epc>>
    BY <1>3 DEF LoopTest, ReloadBegins, modulevars, threads
  <2>2. main' = "stop" /\ k' = 1 /\ orderly' = AllUp
    BY <1>3 DEF LoopTest, ReloadBegins, BeginStop
  <2>3. AllUp => \A m \in Modules : NoStart(m)
    BY DEF AllUp, QuietInv, StartedOnce
  <2>4. StopsForGood'
    <3> SUFFICES ASSUME orderly'
                 PROVE  /\ epc' # "new" /\ \A w \in Workers : wpc'[w] # "new"
                        /\ \A m \in Modules : NoStart(m)'
      BY <2>2 DEF StopsForGood, AfterStop
    <3>1. AllUp
      BY <2>2
    <3>2. epc' # "new" /\ \A w \in Workers : wpc'[w] # "new"
      BY <2>1, <3>1 DEF AllUp
    <3> QED BY <2>1, <2>3, <3>1, <3>2, SameThreads
  <2> QED BY <2>1, <2>2, <2>4, SameThreads DEF QuietInv, StillToStart, Emptied
<1>4. CASE (LoopTest /\ ~terminate) \/ NoReload \/ ReloadRefused
  <2>1. UNCHANGED <<status, events, wpc, wjob, wev, epc>> /\ main' \in {"sleep", "loop"}
    BY <1>4 DEF LoopTest, NoReload, ReloadRefused, modulevars, threads
  <2> QED BY <2>1, SameThreads DEF QuietInv, StillToStart, Emptied, StopsForGood, AfterStop
<1>5. CASE StopPost
  <2>1. KeepsStarts
    BY <1>1, <1>5, PostOther, EvFacts DEF StopPost, TypeOK, Evs
  <2>2. UNCHANGED <<main, k, orderly, status, wpc, wjob, wev, epc>> /\ main = "stop"
    BY <1>5 DEF StopPost, mainvars, threads
  <2> QED BY <2>1, <2>2, OtherStep
<1>6. CASE Stopped
  <2>1. /\ UNCHANGED <<status, events, wpc, wjob, wev, epc, orderly>>
        /\ main = "stop" /\ status[Order[k]] # "RUNNING"
        /\ \/ k < Len(Order) /\ k' = k + 1 /\ main' = "stop"
           \/ k = Len(Order) /\ k' = 1 /\ main' = "terminate"
    BY <1>1, <1>6 DEF Stopped, Advance, modulevars, threads, Current
  <2>2. orderly => \A i \in 1..k : status[Order[i]] # "RUNNING"
    BY <1>1, <2>1 DEF QuietInv, StopsForGood
  <2>3. StopsForGood'
    <3> SUFFICES ASSUME orderly
                 PROVE  /\ epc # "new" /\ \A w \in Workers : wpc[w] # "new"
                        /\ \A m \in Modules : NoStart(m)'
                        /\ main' = "stop" => \A i \in 1..(k' - 1) : status[Order[i]] # "RUNNING"
                        /\ main' = "terminate" => \A m \in Modules : status[m] # "RUNNING"
      BY <2>1 DEF StopsForGood, AfterStop
    <3>1. /\ epc # "new" /\ \A w \in Workers : wpc[w] # "new"
          /\ \A m \in Modules : NoStart(m)'
      BY <2>1, SameThreads DEF QuietInv, StopsForGood
    <3>2. main' = "stop" => \A i \in 1..(k' - 1) : status[Order[i]] # "RUNNING"
      BY <1>1, <2>1, <2>2
    <3>3. main' = "terminate" => \A m \in Modules : status[m] # "RUNNING"
      BY <1>1, <2>1, <2>2
    <3> QED BY <3>1, <3>2, <3>3
  <2> QED BY <2>1, <2>3, SameThreads DEF QuietInv, StillToStart, Emptied
<1>7. CASE Terminate
  <2>1. /\ main = "terminate" /\ main' = "wait"
        /\ UNCHANGED <<k, orderly, status, events, wjob, wev, epc>>
        /\ \A w \in Workers : wpc'[w] = IF wpc[w] = "wait" THEN "woken" ELSE wpc[w]
    BY <1>7 DEF Terminate, Broadcast, modulevars
  <2>2. \A m \in Modules : Starting(m)' <=> Starting(m)
    BY <2>1 DEF Starting
  <2>3. \A m \in Modules : NoStart(m)' <=> NoStart(m)
    BY <2>1, <2>2 DEF NoStart
  <2>4. OneAtATime'
    BY <2>1 DEF QuietInv, OneAtATime
  <2>5. StartedOnce'
    BY <2>1, <2>2, <2>3 DEF QuietInv, StartedOnce
  <2>6. StopsForGood'
    BY <2>1, <2>3 DEF QuietInv, StopsForGood, AfterStop
  <2> QED BY <2>1, <2>4, <2>5, <2>6 DEF QuietInv, StillToStart, Emptied
<1>8. CASE WaitAgain
  <2>1. /\ main = "wait" /\ UNCHANGED <<main, k, orderly, status, events, wjob, wev, epc>>
        /\ \A w \in Workers : wpc'[w] = IF wpc[w] = "wait" THEN "woken" ELSE wpc[w]
    BY <1>8 DEF WaitAgain, Broadcast, modulevars, mainvars
  <2>2. KeepsStarts
    BY <1>1, <2>1, UnchangedKeeps
  <2> QED BY <2>1, <2>2, OtherStep
<1>9. CASE WaitEnd \/ Join
  <2>1. /\ UNCHANGED <<k, orderly, status, events, wpc, wjob, wev, epc>>
        /\ \/ main = "wait" /\ ~Flagged /\ main' = "join"
           \/ main = "join" /\ main' = "save"
    BY <1>9 DEF WaitEnd, Join, modulevars, threads
  <2>2. orderly => Ended
    BY <2>1 DEF QuietInv, StopsForGood, Flagged, Ended, AfterStop
  <2>3. Ended' <=> Ended
    BY <2>1 DEF Ended
  <2>4. StopsForGood'
    BY <2>1, <2>2, <2>3, SameThreads DEF QuietInv, StopsForGood, AfterStop
  <2> QED BY <2>1, <2>4, SameThreads DEF QuietInv, StillToStart, Emptied
<1>10. CASE Save
  <2>1. /\ UNCHANGED <<k, orderly, status, events, wpc, wjob, wev, epc>>
        /\ main = "save" /\ main' = IF Ended THEN "shutdown" ELSE "undefined"
    BY <1>10 DEF Save, modulevars, threads
  <2>2. Ended' <=> Ended
    BY <2>1 DEF Ended
  <2>3. StopsForGood'
    BY <2>1, <2>2, SameThreads DEF QuietInv, StopsForGood, AfterStop
  <2>4. Emptied'
    BY <2>1, <2>2 DEF QuietInv, Emptied
  <2> QED BY <2>1, <2>3, <2>4, SameThreads DEF QuietInv, StillToStart
<1>11. CASE ShutdownModule
  <2>1. /\ main = "shutdown" /\ UNCHANGED <<orderly, wpc, wjob, wev, epc>>
        /\ status' = [status EXCEPT ![Order[k]] = "UNINITIALIZED"]
        /\ events' = [events EXCEPT ![Order[k]] = <<>>]
        /\ \/ k < Len(Order) /\ k' = k + 1 /\ main' = "shutdown"
           \/ k = Len(Order) /\ k' = 1 /\ main' = "down"
    BY <1>1, <1>11 DEF ShutdownModule, ShutdownSelf, Advance, threads
  <2>2. Ended /\ Ended' /\ \A i \in 1..(k - 1) : events[Order[i]] = <<>>
    BY <2>1 DEF QuietInv, Emptied, Ended
  <2>3. \A m \in Modules : /\ events'[m] = IF m = Order[k] THEN <<>> ELSE events[m]
                           /\ status'[m] = IF m = Order[k] THEN "UNINITIALIZED" ELSE status[m]
    BY <1>1, <2>1 DEF TypeOK
  <2>4. \A i \in 1..k : events'[Order[i]] = <<>>
    BY <1>1, <2>2, <2>3
  <2>5. Emptied'
    <3>1. main' = "shutdown" => \A i \in 1..(k' - 1) : events'[Order[i]] = <<>>
      BY <1>1, <2>1, <2>4
    <3>2. main' = "down" => \A m \in Modules : events'[m] = <<>>
      BY <1>1, <2>1, <2>4
    <3> QED BY <2>1, <2>2, <3>1, <3>2 DEF Emptied
  <2>6. \A m : ~Starting(m) /\ ~Starting(m)'
    BY <2>1, <2>2, EndedNoStart DEF Starting
  <2>7. ~StartIn(<<>>) /\ OneStartIn(<<>>)
    BY DEF StartIn, OneStartIn
  <2>8. \A m \in Modules : NoStart(m) => NoStart(m)'
    BY <2>3, <2>6, <2>7 DEF NoStart
  <2>9. StartedOnce'
    BY <2>3, <2>6, <2>7, <2>8 DEF QuietInv, StartedOnce
  <2>10. OneAtATime'
    BY <2>1 DEF QuietInv, OneAtATime
  <2>11. StopsForGood'
    BY <2>1, <2>2, <2>3, <2>8 DEF QuietInv, StopsForGood, AfterStop
  <2> QED BY <2>1, <2>5, <2>9, <2>10, <2>11 DEF QuietInv, StillToStart
<1>12. CASE Exit \/ NewContext
  <2>1. /\ UNCHANGED <<k, orderly, status, events, wpc, wjob, wev, epc>>
        /\ main = "down" /\ main' \in {"exit", "parse"}
    BY <1>12 DEF Exit, NewContext, modulevars, threads
  <2>2. Ended' <=> Ended
    BY <2>1 DEF Ended
  <2> QED BY <2>1, <2>2, SameThreads DEF QuietInv, StillToStart, StopsForGood, Emptied, AfterStop
<1>13. CASE Parse
  <2>1. /\ main = "parse" /\ main' = "start" /\ k' = 1 /\ UNCHANGED events
        /\ \A m \in Modules : status'[m] = "STOPPED"
        /\ \A w \in Workers : wpc'[w] = "new"
    BY <1>13 DEF Parse, CreateThreads
  <2>2. \A m \in Modules : events'[m] = <<>> /\ ~Starting(m)'
    BY <2>1 DEF QuietInv, Emptied, Starting
  <2>3. \A m \in Modules : NoStart(m)' /\ OneStartIn(events'[m])
    BY <2>2 DEF NoStart, StartIn, OneStartIn
  <2>4. OneAtATime'
    BY <2>1 DEF OneAtATime
  <2>5. StartedOnce'
    BY <2>2, <2>3 DEF StartedOnce
  <2>6. StillToStart'
    BY <1>1, <2>1, <2>3 DEF StillToStart
  <2> QED BY <2>1, <2>4, <2>5, <2>6 DEF QuietInv, StopsForGood, Emptied, AfterStop
<1>14. CASE StartModule
  <2> DEFINE d == Enqueue(events[Order[k]], Ev("START"))
  <2>1. /\ main = "start" /\ UNCHANGED <<orderly, status, wpc, wjob, wev, epc>>
        /\ events' = [events EXCEPT ![Order[k]] = d]
        /\ \/ k < Len(Order) /\ k' = k + 1 /\ main' = "start"
           \/ k = Len(Order) /\ k' = 1 /\ main' = "loop"
    BY <1>1, <1>14 DEF StartModule, Advance, threads
  <2>2. NoStart(Order[k]) /\ status[Order[k]] # "RUNNING"
    BY <1>1, <2>1 DEF QuietInv, StillToStart
  <2>3. OneStartIn(d)
    BY <1>1, <2>2, EnqueueStart DEF NoStart, TypeOK, Evs
  <2> HIDE DEF d
  <2>4. \A m \in Modules : events'[m] = IF m = Order[k] THEN d ELSE events[m]
    BY <1>1, <2>1 DEF TypeOK
  <2>5. \A m \in Modules : Starting(m)' <=> Starting(m)
    BY <2>1 DEF Starting
  <2>6. \A m \in Modules : m # Order[k] => (NoStart(m)' <=> NoStart(m))
    BY <2>4, <2>5 DEF NoStart
  <2>7. OneAtATime'
    BY <2>1 DEF QuietInv, OneAtATime
  <2>8. StartedOnce'
    <3> SUFFICES ASSUME NEW m \in Modules
                 PROVE  /\ OneStartIn(events'[m])
                        /\ Starting(m)' => ~StartIn(events'[m])
                        /\ status'[m] = "RUNNING" => NoStart(m)'
      BY DEF StartedOnce
    <3>1. CASE m = Order[k]
      BY <2>1, <2>2, <2>3, <2>4, <2>5, <3>1 DEF NoStart
    <3>2. CASE m # Order[k]
      BY <2>1, <2>4, <2>5, <2>6, <3>2 DEF QuietInv, StartedOnce
    <3> QED BY <3>1, <3>2
  <2>9. StillToStart'
    <3> SUFFICES ASSUME main' = "start", NEW i \in k'..Len(Order)
                 PROVE  NoStart(Order[i])' /\ status'[Order[i]] # "RUNNING"
      BY DEF StillToStart
    <3>1. i \in 1..Len(Order) /\ i \in k..Len(Order) /\ i # k
      BY <1>1, <2>1
    <3>2. Order[i] \in Modules /\ Order[i] # Order[k]
      BY <1>1, <3>1, OrderFacts
    <3>3. NoStart(Order[i]) /\ status[Order[i]] # "RUNNING"
      BY <2>1, <3>1 DEF QuietInv, StillToStart
    <3> QED BY <2>1, <2>6, <3>2, <3>3
  <2> QED BY <2>1, <2>7, <2>8, <2>9 DEF QuietInv, Emptied, StopsForGood, AfterStop
<1> QED BY <1>2, <1>3, <1>4, <1>5, <1>6, <1>7, <1>8, <1>9, <1>10, <1>11, <1>12, <1>13, <1>14
        DEF MainStep, LoopTest

(* The program as it is started.                                           *)
LEMMA InitQuiet == Init => QuietInv
<1> SUFFICES ASSUME Init PROVE QuietInv
  OBVIOUS
<1>1. \A m \in Modules : events[m] = <<Ev("START")>> /\ status[m] = "STOPPED"
  BY DEF Init
<1>2. \A w \in Workers : wpc[w] = "new"
  BY DEF Init
<1>3. OneStartIn(<<Ev("START")>>)
  BY DEF OneStartIn
<1>4. StartedOnce
  BY <1>1, <1>2, <1>3 DEF StartedOnce, Starting
<1>5. OneAtATime
  BY <1>2 DEF OneAtATime
<1> QED BY <1>4, <1>5, InitType DEF QuietInv, Init, StillToStart, Emptied, StopsForGood, AfterStop

(* No step of any thread breaks it.                                        *)
LEMMA NextQuiet == QuietInv /\ [Next]_vars => QuietInv'
<1> SUFFICES ASSUME QuietInv, [Next]_vars PROVE QuietInv'
  OBVIOUS
<1>1. TypeInv'
  BY NextType DEF QuietInv, TimedNext
<1>2. CASE UNCHANGED vars
  <2>1. UNCHANGED <<main, k, orderly, status, events, wpc, wjob, wev, epc>>
    BY <1>2 DEF vars, mainvars, modulevars, threads
  <2>2. Ended' <=> Ended
    BY <2>1 DEF Ended
  <2>3. \A i \in 1..Len(Order) : Order[i] \in Modules
    BY OrderFacts
  <2>4. k \in 1..Len(Order) /\ Len(Order) \in Nat
    BY OrderFacts DEF QuietInv, TypeInv, TypeOK
  <2> QED BY <1>1, <2>1, <2>2, <2>3, <2>4, SameThreads
          DEF QuietInv, StillToStart, Emptied, StopsForGood
<1> QED BY <1>1, <1>2, WorkerQuiet, EventThreadQuiet, MainQuiet DEF Next

(* A shutdown or a reload that began with all threads and modules up and   *)
(* in which no timeout expires: when nx_ctx_save_queues() and              *)
(* nx_ctx_shutdown_modules() are called, no thread is left and no module   *)
(* runs, wherever the threads were and whatever was in the event lists.    *)
THEOREM SavedInPeace == Spec => []QuietAtSave
<1>1. QuietInv => QuietAtSave
  BY DEF QuietInv, StopsForGood, QuietAtSave, AfterStop
<1> QED BY InitQuiet, NextQuiet, <1>1, PTL DEF Spec
=============================================================================
