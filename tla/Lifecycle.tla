----------------------------- MODULE Lifecycle -----------------------------
(***************************************************************************)
(* The main thread's side of things: nxlog_mainloop(), nxlog_shutdown(),   *)
(* nxlog_wait_threads() and nxlog_reload() (src/core/nxlog.c) with         *)
(* nx_ctx_stop_modules(), nx_ctx_shutdown_modules() and                    *)
(* nx_ctx_start_modules() (src/core/modules.c), against worker threads     *)
(* that go on processing events and decide by nxlog_data_available()       *)
(* whether they may end, and against signals that arrive at any time.      *)
(*                                                                         *)
(* The modules are im_testgen and om_null instances.  Queues are lengths,  *)
(* no longer than Cap (more is not told apart): what becomes of the        *)
(* records is Pipeline's and Restart's business.  A paused module is       *)
(* stopped like a running one and not modelled.  Which ready job a worker  *)
(* takes, and that a signalled worker wakes up, is Dispatcher's business.  *)
(* A handler may take any time: TimedSpec has the main thread's timeouts   *)
(* expire, Spec says what holds as long as they do not.                    *)
(***************************************************************************)
EXTENDS EventQueue

CONSTANTS
  Order,       \* the module instances, inputs first, as they are stopped
  Inputs,      \* those that are inputs; they feed the last module
  Workers,     \* the worker threads
  Cap,         \* bound: records in a queue
  MaxEvents,   \* bound: events in a list at which the main thread posts more
  MaxReloads   \* bound: SIGHUPs

Modules == {Order[i] : i \in 1..Len(Order)}

ASSUME LifecycleAssumption ==
  /\ Order \in Seq(Modules) /\ Order # <<>>
  /\ Inputs \subseteq Modules /\ Order[Len(Order)] \notin Inputs
  /\ \A i, j \in 1..Len(Order) : Order[i] = Order[j] => i = j
  /\ Workers # {} /\ Cap \in Nat \ {0} /\ MaxEvents \in Nat \ {0} /\ MaxReloads \in Nat

VARIABLES
  main,         \* where the main thread is
  k,            \* the module its loop is at, as an index of Order
  restarting,   \* it is in nxlog_reload() rather than in nxlog_shutdown()
  terminate,    \* nxlog->terminate_request
  reload,       \* nxlog->reload_request
  terminating,  \* nxlog->terminating
  status, events,
  queue,        \* queue[m]: the length of module->queue
  wpc,          \* where a worker is
  wjob, wev,    \* the module and the event it is processing
  wterm,        \* its local variable terminating
  epc,          \* where the event thread is
  hups,         \* SIGHUPs so far
  stale,        \* history: a SIGHUP has come since the configuration was read
  orderly       \* history: this shutdown began with all threads and modules up

mainvars   == <<main, k, restarting>>
requests   == <<terminate, reload, hups, stale>>
modulevars == <<status, events, queue>>
threads    == <<wpc, wjob, wev, wterm, epc>>
vars == <<mainvars, requests, terminating, modulevars, threads, orderly>>

Ev(type) == [type |-> type, data |-> "NULL"]
NoModule == "none"

Busy(m) == \E w \in Workers : wpc[w] = "process" /\ wjob[w] = m
Ready   == {m \in Modules : ~Busy(m) /\ events[m] # <<>>}

(* worker_threads_running[i] and event_thread_running: each thread sets    *)
(* its own when it begins to run.                                          *)
Flagged == \/ \E w \in Workers : wpc[w] \notin {"new", "done"}
           \/ epc \notin {"new", "done"}
Ended   == (\A w \in Workers : wpc[w] = "done") /\ epc = "done"

(* The program after nx_ctx_start_modules(), as it is started.             *)
Init ==
  /\ main = "loop" /\ k = 1 /\ restarting = FALSE
  /\ terminate = FALSE /\ reload = FALSE /\ terminating = FALSE
  /\ status = [m \in Modules |-> "STOPPED"]
  /\ events = [m \in Modules |-> <<Ev("START")>>]
  /\ queue  = [m \in Modules |-> 0]
  /\ wpc = [w \in Workers |-> "new"] /\ wjob = [w \in Workers |-> NoModule]
  /\ wev = [w \in Workers |-> "NONE"] /\ wterm = [w \in Workers |-> FALSE]
  /\ epc = "new"
  /\ hups = 0 /\ stale = FALSE /\ orderly = TRUE

-----------------------------------------------------------------------------
(* _got_sigterm() and _got_sighup().  A second SIGHUP in a row changes     *)
(* nothing, nor does one when the program has left its main loop.          *)
Sigterm ==
  /\ ~terminate
  /\ terminate' = TRUE
  /\ UNCHANGED <<mainvars, reload, hups, stale, terminating, modulevars, threads, orderly>>

Sighup ==
  /\ hups < MaxReloads /\ ~(reload /\ stale)
  /\ restarting \/ main \in {"loop", "sleep"}
  /\ hups' = hups + 1 /\ reload' = TRUE /\ stale' = TRUE
  /\ UNCHANGED <<mainvars, terminate, terminating, modulevars, threads, orderly>>

-----------------------------------------------------------------------------
(* nxlog_mainloop()                                                        *)

AllUp == /\ epc # "new" /\ \A w \in Workers : wpc[w] # "new"
         /\ \A m \in Modules : status[m] = "RUNNING"

BeginStop(r) == main' = "stop" /\ k' = 1 /\ restarting' = r /\ orderly' = AllUp

LoopTest ==
  /\ main = "loop"
  /\ \/ terminate /\ BeginStop(FALSE)
     \/ ~terminate /\ main' = "sleep" /\ UNCHANGED <<k, restarting, orderly>>
  /\ UNCHANGED <<requests, terminating, modulevars, threads>>

NoReload ==
  /\ main = "sleep" /\ ~reload
  /\ main' = "loop"
  /\ UNCHANGED <<k, restarting, requests, terminating, modulevars, threads, orderly>>

(* The configuration file cannot be opened: the request stays.             *)
ReloadRefused ==
  /\ main = "sleep" /\ reload
  /\ main' = "loop"
  /\ UNCHANGED <<k, restarting, requests, terminating, modulevars, threads, orderly>>

ReloadBegins ==
  /\ main = "sleep" /\ reload
  /\ BeginStop(TRUE)
  /\ UNCHANGED <<requests, terminating, modulevars, threads>>

-----------------------------------------------------------------------------
(* nx_ctx_stop_modules(), for one type of modules after the other.         *)

Current == Order[k]

(* On to the next module, or to the next part of the shutdown.             *)
Advance(after) ==
  IF k < Len(Order) THEN k' = k + 1 /\ UNCHANGED main
                    ELSE k' = 1 /\ main' = after

(* Mutant of StopPost: the main thread does not wait for the module.       *)
StopPostOnce ==
  /\ main = "stop" /\ status[Current] = "RUNNING"
  /\ events' = [events EXCEPT ![Current] = Enqueue(@, Ev("STOP"))]
  /\ Advance("terminate")
  /\ UNCHANGED <<restarting, requests, terminating, status, queue, threads, orderly>>

StopPost ==
  /\ main = "stop" /\ status[Current] = "RUNNING" /\ Len(events[Current]) < MaxEvents
  /\ events' = [events EXCEPT ![Current] = Enqueue(@, Ev("STOP"))]
  /\ UNCHANGED <<mainvars, requests, terminating, status, queue, threads, orderly>>

Stopped ==
  /\ main = "stop" /\ status[Current] # "RUNNING"
  /\ Advance("terminate")
  /\ UNCHANGED <<restarting, requests, terminating, modulevars, threads, orderly>>

(* A hundred tries were in vain: if the job does not look busy, the main   *)
(* thread stops the module itself.                                         *)
StopGiveUp ==
  /\ main = "stop" /\ status[Current] = "RUNNING"
  /\ IF Busy(Current) THEN Advance("terminate")
     ELSE main' = "stop_self" /\ UNCHANGED k
  /\ UNCHANGED <<restarting, requests, terminating, modulevars, threads, orderly>>

StopDirect ==
  /\ main = "stop_self"
  /\ status' = [status EXCEPT ![Current] = IF @ = "RUNNING" THEN "STOPPED" ELSE @]
  /\ IF k < Len(Order) THEN k' = k + 1 /\ main' = "stop"
                       ELSE k' = 1 /\ main' = "terminate"
  /\ UNCHANGED <<restarting, requests, terminating, events, queue, threads, orderly>>

-----------------------------------------------------------------------------
(* The threads are told to end, and waited for.                            *)
Broadcast == wpc' = [w \in Workers |-> IF wpc[w] = "wait" THEN "woken" ELSE wpc[w]]

Terminate ==
  /\ main = "terminate"
  /\ terminating' = TRUE /\ Broadcast /\ main' = "wait"
  /\ UNCHANGED <<k, restarting, requests, modulevars, wjob, wev, wterm, epc, orderly>>

(* Mutant of WaitAgain: the broadcast is not repeated.                     *)
WaitAgainSilent == main = "wait" /\ Flagged /\ UNCHANGED vars

WaitAgain ==
  /\ main = "wait" /\ Flagged
  /\ Broadcast
  /\ UNCHANGED <<mainvars, requests, terminating, modulevars, wjob, wev, wterm, epc, orderly>>

WaitGiveUp ==
  /\ main = "wait" /\ Flagged
  /\ main' = "save"
  /\ UNCHANGED <<k, restarting, requests, terminating, modulevars, threads, orderly>>

(* Nobody's flag is set: apr_thread_join() of the event thread.            *)
WaitEnd ==
  /\ main = "wait" /\ ~Flagged
  /\ main' = "join"
  /\ UNCHANGED <<k, restarting, requests, terminating, modulevars, threads, orderly>>

Join ==
  /\ main = "join" /\ epc = "done"
  /\ main' = "save"
  /\ UNCHANGED <<k, restarting, requests, terminating, modulevars, threads, orderly>>

(* nx_ctx_save_queues() and, in a reload, nx_config_cache_write(); the     *)
(* files are in Restart.  If a thread has not ended it works on the queues *)
(* that are being written and then on freed memory: the model ends there.  *)
Save ==
  /\ main = "save"
  /\ main' = IF Ended THEN "shutdown" ELSE "undefined"
  /\ UNCHANGED <<k, restarting, requests, terminating, modulevars, threads, orderly>>

(* nx_module_shutdown_self() stops a module that runs, removes its events  *)
(* and frees its memory.                                                   *)
ShutdownSelf(m) ==
  /\ status' = [status EXCEPT ![m] = "UNINITIALIZED"]
  /\ events' = [events EXCEPT ![m] = <<>>]

(* nx_ctx_shutdown_modules(): with the threads gone no job is busy.        *)
ShutdownModule ==
  /\ main = "shutdown"
  /\ ShutdownSelf(Current)
  /\ Advance("down")
  /\ UNCHANGED <<restarting, requests, terminating, queue, threads, orderly>>

Exit ==
  /\ main = "down" /\ ~restarting
  /\ main' = "exit"
  /\ UNCHANGED <<k, restarting, requests, terminating, modulevars, threads, orderly>>

(* nxlog_reload() goes on with a new context.                              *)
NewContext ==
  /\ main = "down" /\ restarting
  /\ main' = "parse" /\ reload' = FALSE /\ terminating' = FALSE
  /\ UNCHANGED <<k, restarting, terminate, hups, stale, modulevars, threads, orderly>>

(* nxlog_create_threads(): no thread has begun, no flag is set.  The       *)
(* number it computes is that of Workers.                                  *)
CreateThreads ==
  /\ wpc' = [w \in Workers |-> "new"] /\ wterm' = [w \in Workers |-> FALSE]
  /\ epc' = "new"
  /\ UNCHANGED <<wjob, wev>>

(* The configuration is parsed, the queues restored, the threads created.  *)
Parse ==
  /\ main = "parse"
  /\ main' = "start" /\ k' = 1 /\ stale' = FALSE
  /\ orderly' = TRUE
  /\ status' = [m \in Modules |-> "STOPPED"]
  /\ CreateThreads
  /\ UNCHANGED <<restarting, terminate, reload, hups, terminating, events, queue>>

(* Mutant of StartModule: the request is taken back at the end.            *)
StartModuleClears ==
  /\ main = "start"
  /\ events' = [events EXCEPT ![Current] = Enqueue(@, Ev("START"))]
  /\ Advance("loop")
  /\ restarting' = (k < Len(Order))
  /\ reload' = FALSE
  /\ UNCHANGED <<terminate, hups, stale, terminating, status, queue, threads, orderly>>

(* nx_ctx_start_modules()                                                  *)
StartModule ==
  /\ main = "start"
  /\ events' = [events EXCEPT ![Current] = Enqueue(@, Ev("START"))]
  /\ Advance("loop")
  /\ restarting' = (k < Len(Order))
  /\ UNCHANGED <<requests, terminating, status, queue, threads, orderly>>

-----------------------------------------------------------------------------
(* nxlog_worker_thread()                                                   *)
Running == main \notin {"exit", "undefined"}

WorkerBegins(w) ==
  /\ Running /\ wpc[w] = "new"
  /\ wpc' = [wpc EXCEPT ![w] = "loop"]
  /\ UNCHANGED <<mainvars, requests, terminating, modulevars, wjob, wev, wterm, epc, orderly>>

Take(w, m) ==
  /\ Running /\ wpc[w] \in {"loop", "woken"} /\ m \in Ready
  /\ events' = [events EXCEPT ![m] = Tail(@)]
  /\ wjob' = [wjob EXCEPT ![w] = m]
  /\ wev' = [wev EXCEPT ![w] = Head(events[m]).type]
  /\ wterm' = [wterm EXCEPT ![w] = terminating]
  /\ wpc' = [wpc EXCEPT ![w] = "process"]
  /\ UNCHANGED <<mainvars, requests, terminating, status, queue, epc, orderly>>

(* Nothing to do: the worker sleeps, without having looked whether it      *)
(* should end; it looks when it has been woken.                            *)
NoJob(w) ==
  /\ Running /\ wpc[w] \in {"loop", "woken"} /\ Ready = {}
  /\ wpc' = [wpc EXCEPT ![w] = IF @ = "loop" THEN "wait" ELSE "check"]
  /\ wterm' = [wterm EXCEPT ![w] = IF wpc[w] = "loop" THEN @ ELSE terminating]
  /\ UNCHANGED <<mainvars, requests, terminating, modulevars, wjob, wev, epc, orderly>>

(* A worker is signalled when there is work for it.                        *)
Wake(w) ==
  /\ Running /\ wpc[w] = "wait" /\ Ready # {}
  /\ wpc' = [wpc EXCEPT ![w] = "woken"]
  /\ UNCHANGED <<mainvars, requests, terminating, modulevars, wjob, wev, wterm, epc, orderly>>

-----------------------------------------------------------------------------
(* nx_event_process() for the event at hand of module m.                   *)

Handled(w, type) ==
  /\ Running /\ wpc[w] = "process" /\ wev[w] = type
  /\ wpc' = [wpc EXCEPT ![w] = "check"]
  /\ wjob' = [wjob EXCEPT ![w] = NoModule] /\ wev' = [wev EXCEPT ![w] = "NONE"]
  /\ UNCHANGED <<mainvars, requests, terminating, wterm, epc, orderly>>

(* nx_module_start_self(), with the start callback of an input.            *)
HandleStart(w) ==
  LET m == wjob[w]
      first == IF m \in Inputs THEN "READ" ELSE "DATA_AVAILABLE"
  IN  /\ Handled(w, "START")
      /\ IF status[m] # "STOPPED" THEN UNCHANGED <<status, events>>
         ELSE /\ status' = [status EXCEPT ![m] = "RUNNING"]
              /\ events' = IF m \in Inputs \/ queue[m] > 0
                           THEN [events EXCEPT ![m] = Enqueue(@, Ev(first))] ELSE events
      /\ UNCHANGED queue

HandleStop(w) ==
  /\ Handled(w, "STOP")
  /\ status' = [status EXCEPT ![wjob[w]] = IF @ = "RUNNING" THEN "STOPPED" ELSE @]
  /\ UNCHANGED <<events, queue>>

(* im_testgen_read(): it goes on for ever unless it is stopped.            *)
HandleRead(w) ==
  LET m == wjob[w]
      n == Order[Len(Order)]
  IN  /\ Handled(w, "READ")
      /\ IF status[m] # "RUNNING" THEN UNCHANGED <<events, queue>>
         ELSE /\ queue' = [queue EXCEPT ![n] = IF @ < Cap THEN @ + 1 ELSE @]
              /\ LET told == [events EXCEPT ![n] = Enqueue(@, Ev("DATA_AVAILABLE"))]
                 IN  events' = [told EXCEPT ![m] = Enqueue(@, Ev("READ"))]
      /\ UNCHANGED status

(* om_null_write()                                                         *)
HandleData(w) ==
  LET m == wjob[w]
  IN  /\ Handled(w, "DATA_AVAILABLE")
      /\ IF status[m] # "RUNNING" \/ queue[m] = 0 THEN UNCHANGED <<events, queue>>
         ELSE /\ queue' = [queue EXCEPT ![m] = @ - 1]
              /\ events' = IF queue[m] > 1 THEN [events EXCEPT ![m] = Enqueue(@, Ev("DATA_AVAILABLE"))]
                           ELSE events
      /\ UNCHANGED status

Process(w) == HandleStart(w) \/ HandleStop(w) \/ HandleRead(w) \/ HandleData(w)

-----------------------------------------------------------------------------
(* nxlog_data_available(): first the jobs, with the lock held ...          *)
DataInJobs ==
  \E m \in Modules :
     /\ status[m] # "STOPPED"
     /\ \/ Busy(m)
        \/ \E i \in 1..Len(events[m]) : events[m][i].type \in {"READ", "DATA_AVAILABLE"}

(* ... then the queues; the first module with records is reminded of them. *)
DataInQueues == {i \in 1..Len(Order) : status[Order[i]] = "RUNNING" /\ queue[Order[i]] > 0}
Remind ==
  LET i == CHOOSE i \in DataInQueues : \A j \in DataInQueues : i <= j
  IN  events' = [events EXCEPT ![Order[i]] = Enqueue(@, Ev("DATA_AVAILABLE"))]

CheckJobs(w) ==
  /\ Running /\ wpc[w] = "check"
  /\ wpc' = [wpc EXCEPT ![w] = IF wterm[w] /\ ~DataInJobs THEN "check_queues" ELSE "loop"]
  /\ wterm' = [wterm EXCEPT ![w] = FALSE]
  /\ UNCHANGED <<mainvars, requests, terminating, modulevars, wjob, wev, epc, orderly>>

CheckQueues(w) ==
  /\ Running /\ wpc[w] = "check_queues"
  /\ IF DataInQueues = {} THEN wpc' = [wpc EXCEPT ![w] = "done"] /\ UNCHANGED events
     ELSE wpc' = [wpc EXCEPT ![w] = "loop"] /\ Remind
  /\ UNCHANGED <<mainvars, requests, terminating, status, queue, wjob, wev, wterm, epc, orderly>>

(* nxlog_event_thread(): it looks after each of its sleeps.                *)
EventThread ==
  /\ Running
  /\ \/ epc = "new" /\ epc' = "sleep" /\ UNCHANGED events
     \/ epc = "sleep" /\ terminating /\ ~DataInJobs /\ epc' = "check_queues" /\ UNCHANGED events
     \/ epc = "check_queues" /\ DataInQueues = {} /\ epc' = "done" /\ UNCHANGED events
     \/ epc = "check_queues" /\ DataInQueues # {} /\ epc' = "sleep" /\ Remind
  /\ UNCHANGED <<mainvars, requests, terminating, status, queue, wpc, wjob, wev, wterm, orderly>>

-----------------------------------------------------------------------------
(* What the main thread does before its timeouts expire, and then.         *)
MainStep ==
  \/ LoopTest \/ NoReload \/ ReloadBegins \/ StopPost \/ Stopped
  \/ Terminate \/ WaitAgain \/ WaitEnd \/ Join \/ Save \/ ShutdownModule
  \/ Exit \/ NewContext \/ Parse \/ StartModule

GiveUp == StopGiveUp \/ StopDirect \/ WaitGiveUp

Worker(w) == \/ WorkerBegins(w) \/ (\E m \in Modules : Take(w, m)) \/ NoJob(w) \/ Wake(w)
             \/ Process(w) \/ CheckJobs(w) \/ CheckQueues(w)

Next == \/ Sigterm \/ Sighup \/ MainStep \/ ReloadRefused
        \/ EventThread \/ \E w \in Workers : Worker(w)

TimedNext == Next \/ GiveUp

(* Every thread is scheduled, handlers return, and the configuration file  *)
(* can be opened now and then.  A job that has events is taken in the end  *)
(* because the modules have the same priority: Dispatcher's Served.        *)
Fairness ==
  /\ WF_vars(MainStep) /\ SF_vars(ReloadBegins) /\ WF_vars(EventThread)
  /\ \A w \in Workers : WF_vars(Worker(w))
  /\ \A m \in Modules : SF_vars(\E w \in Workers : Take(w, m))

(* No handler takes so long that a timeout of the main thread expires.     *)
Spec == Init /\ [][Next]_vars /\ Fairness

(* The timeouts may expire at any time and do so in the end.               *)
TimedSpec == Init /\ [][TimedNext]_vars /\ Fairness /\ WF_vars(GiveUp)

-----------------------------------------------------------------------------
(* Type invariant.                                                         *)
TypeOK ==
  /\ main \in {"loop", "sleep", "stop", "stop_self", "terminate", "wait", "join", "save",
               "shutdown", "down", "exit", "undefined", "parse", "start"}
  /\ k \in 1..Len(Order)
  /\ restarting \in BOOLEAN /\ terminate \in BOOLEAN /\ reload \in BOOLEAN
  /\ terminating \in BOOLEAN /\ stale \in BOOLEAN /\ orderly \in BOOLEAN
  /\ status \in [Modules -> {"STOPPED", "RUNNING", "UNINITIALIZED"}]
  /\ events \in [Modules -> Seq({Ev(t) : t \in EventTypes})]
  /\ queue \in [Modules -> 0..Cap]
  /\ wpc \in [Workers -> {"new", "loop", "wait", "woken", "process", "check", "check_queues", "done"}]
  /\ wjob \in [Workers -> Modules \cup {NoModule}]
  /\ wev \in [Workers -> EventTypes \cup {"NONE"}]
  /\ wterm \in [Workers -> BOOLEAN]
  /\ epc \in {"new", "sleep", "check_queues", "done"}
  /\ hups \in 0..MaxReloads

(* nx_ctx_shutdown_modules() is called after the threads are stopped, as   *)
(* its comment says, and with no module left running, if the shutdown      *)
(* began with everything up and no timeout expired.                        *)
QuietAtSave ==
  (main \in {"save", "shutdown", "down"} /\ orderly) =>
     Ended /\ \A m \in Modules : status[m] # "RUNNING"

(* Such a shutdown needs none of its timeouts to come to an end: the       *)
(* threads end of their own accord, wherever they were when they were      *)
(* told to, asleep or on the way to sleep.                                 *)
OrderlyExit == (main = "stop" /\ orderly /\ ~restarting) ~> main = "exit"

(* A SIGHUP is never lost, even if it comes during a reload: the           *)
(* configuration is read once more after it, unless the program is to      *)
(* end or a reload began before the modules were up.                       *)
ReloadHonoured == stale ~> (~stale \/ terminate \/ ~orderly)

(* The manual page: nxlog will exit if it receives SIGTERM.                *)
Exits == terminate ~> main \in {"exit", "undefined"}
=============================================================================
