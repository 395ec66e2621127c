----------------------------- MODULE Dispatcher -----------------------------
(***************************************************************************)
(* The threads that process events: nxlog_worker_thread() and              *)
(* nxlog_event_thread() (src/core/nxlog.c), nx_ctx_next_job()              *)
(* (src/core/ctx.c) and the signalling of nx_event_to_jobqueue()           *)
(* (src/common/event.c).                                                   *)
(*                                                                         *)
(* Every step that touches a list is made with the nx lock held, so it is  *)
(* one step here.  Only job->busy is cleared without the lock, possibly in *)
(* the middle of a search; as the thread that clears it needs the lock for *)
(* whatever it does next, such a search is the same as an undivided one    *)
(* with each clearing it saw before it and each one it missed after it.    *)
(* Which events are in a list does not matter here, only how many: an      *)
(* appended event either stays, and then a worker is signalled, or it is   *)
(* de-duplicated and the list is no longer than before (EnqueueFacts in    *)
(* EventQueueProofs).                                                      *)
(*                                                                         *)
(* The model covers the running system; terminating is FALSE throughout,   *)
(* so the test at the end of the workers' loop always sends them back.     *)
(***************************************************************************)
EXTENDS Naturals, Sequences, FiniteSets

CONSTANTS
  Groups,      \* ctx->jobgroups in priority order, each the list of its jobs
  Workers,     \* the worker threads
  MaxPending,  \* bound: events in one list
  Timed,       \* the jobs of the modules that post delayed events
  MaxDelay,    \* bound: how far ahead the time of a delayed event is
  MaxLag,      \* bound: how long the event thread waits for the nx lock
  PollTimeout  \* NX_POLL_TIMEOUT, how long it waits if there is no event

Jobs     == UNION {{Groups[g][i] : i \in 1..Len(Groups[g])} : g \in 1..Len(Groups)}
GroupIds == 1..Len(Groups)

(* Every module has a job of its own, in one job group (nx_ctx_init_jobs). *)
ASSUME GroupsAssumption ==
  /\ Groups \in Seq(Seq(Jobs))
  /\ \A g \in GroupIds : Groups[g] # <<>>
  /\ \A g, h \in GroupIds : \A i \in 1..Len(Groups[g]), k \in 1..Len(Groups[h]) :
        Groups[g][i] = Groups[h][k] => g = h /\ i = k
ASSUME WorkersAssumption == IsFiniteSet(Workers) /\ Workers # {}
ASSUME PendingAssumption == MaxPending \in Nat
ASSUME TimeAssumption ==
  /\ MaxDelay \in Nat /\ MaxLag \in Nat /\ PollTimeout \in Nat
  /\ Timed \subseteq Jobs

VARIABLES
  pending,   \* pending[j]: the length of job->events
  busy,      \* busy[j]: job->busy
  last,      \* last[g]: position of jobgroup->last in the group, 0 for NULL
  delayed,   \* the jobs of the modules that have an event in ctx->events
  left,      \* left[j]: the time left until that event is due, counted from
             \* the event thread's look at the clock while it is to serve
  epc,       \* where the event thread is
  lag,       \* while it is to serve: the age of its look at the clock
  sleep,     \* what is left of its timed wait
  wpc,       \* where a worker is
  wjob,      \* the job whose event a worker is processing
  starting,  \* the modules nx_ctx_start_modules() has still to start
  bypass     \* history: bypass[j] is how many other jobs of its group were
             \* taken since job j became ready (at most the size of its
             \* group: more is not told apart)

events == <<delayed, left, epc, lag, sleep>>
vars == <<pending, busy, last, events, wpc, wjob, starting, bypass>>

NoJob == "none"

Init ==
  /\ pending  = [j \in Jobs |-> 0]
  /\ busy     = [j \in Jobs |-> FALSE]
  /\ last     = [g \in GroupIds |-> 0]
  /\ delayed  = {}
  /\ left     = [j \in Jobs |-> 0]
  /\ epc      = "look"
  /\ lag      = 0
  /\ sleep    = 0
  /\ wpc      = [w \in Workers |-> "scan"]
  /\ wjob     = [w \in Workers |-> NoJob]
  /\ starting = Jobs
  /\ bypass   = [j \in Jobs |-> 0]

Ready   == {j \in Jobs : ~busy[j] /\ pending[j] > 0}
Waiting == {w \in Workers : wpc[w] = "wait"}
Awake   == {w \in Workers : wpc[w] \in {"scan", "woken"}}

-----------------------------------------------------------------------------
(* nx_event_to_jobqueue() for one event of each job in D.  The events of   *)
(* the jobs in A stay in their lists, and each of them signals a worker.   *)
Lengths(D, A) ==
  {f \in [Jobs -> 0..MaxPending] : \A j \in Jobs :
      /\ j \in A => f[j] = pending[j] + 1
      /\ j \in D \ A => f[j] \in 1..pending[j]
      /\ j \notin D => f[j] = pending[j]}

(* Mutant of Signal: nobody is woken.                                      *)
SignalNobody(n) == n \in Nat /\ wpc' = wpc

(* apr_thread_cond_signal() n times: it wakes a worker that waits, if any. *)
Signal(n) ==
  \E S \in SUBSET Waiting :
     /\ \/ Cardinality(S) = n
        \/ S = Waiting /\ Cardinality(S) < n
     /\ wpc' = [w \in Workers |-> IF w \in S THEN "woken" ELSE wpc[w]]

ToJobqueue(D) ==
  \E A \in SUBSET D : pending' \in Lengths(D, A) /\ Signal(Cardinality(A))

-----------------------------------------------------------------------------
(* The main thread starts the modules, in any order as far as the model is *)
(* concerned.                                                              *)
StartModule(j) ==
  /\ j \in starting
  /\ starting' = starting \ {j}
  /\ ToJobqueue({j})
  /\ UNCHANGED <<busy, last, events, wjob, bypass>>

(* A condition variable may also wake a thread without a signal, and       *)
(* nx_ctx_start_modules() ends with a signal of its own.                   *)
Spurious(w) ==
  /\ wpc[w] = "wait"
  /\ wpc' = [wpc EXCEPT ![w] = "woken"]
  /\ UNCHANGED <<pending, busy, last, events, wjob, starting, bypass>>

-----------------------------------------------------------------------------
(* nx_ctx_next_job(): the groups in order, each from the job after the one *)
(* the previous search of the group began with.                            *)
Size(g) == Len(Groups[g])

(* Mutants of First: every search begins at the head of the group; the end *)
(* of the list is missed.                                                  *)
FirstIsHead(g) == IF last[g] = 0 THEN 1 ELSE 1
FirstOverrun(g) == last[g] + 1

First(g) == IF last[g] = 0 \/ last[g] = Size(g) THEN 1 ELSE last[g] + 1
Distance(g, i) == IF i >= First(g) THEN i - First(g) ELSE i + Size(g) - First(g)

(* The first ready job of group g is at position i ...                     *)
FirstReady(g, i) ==
  /\ Groups[g][i] \in Ready
  /\ \A k \in 1..Size(g) : Groups[g][k] \in Ready => Distance(g, i) <= Distance(g, k)

(* Mutant of NextJob: the groups are searched from the wrong end.          *)
NextJobBackwards(g, i) ==
  /\ FirstReady(g, i)
  /\ \A h \in (g + 1)..Len(Groups) : \A k \in 1..Size(h) : Groups[h][k] \notin Ready

(* ... and no group before g has one.                                      *)
NextJob(g, i) ==
  /\ FirstReady(g, i)
  /\ \A h \in 1..(g - 1) : \A k \in 1..Size(h) : Groups[h][k] \notin Ready

(* The groups that are searched remember where the search began.           *)
Searched(n) == last' = [g \in GroupIds |-> IF g <= n THEN First(g) ELSE last[g]]

InGroup(j, g) == \E k \in 1..Size(g) : Groups[g][k] = j

(* Mutant of Take: job->busy is not set.                                   *)
TakeUnmarked(w, g, i) ==
  LET j == Groups[g][i]
  IN  /\ NextJob(g, i)
      /\ Searched(g)
      /\ pending' = [pending EXCEPT ![j] = @ - 1]
      /\ busy' = busy
      /\ wpc' = [wpc EXCEPT ![w] = "work"]
      /\ wjob' = [wjob EXCEPT ![w] = j]
      /\ bypass' = [x \in Jobs |->
            IF x = j THEN 0
            ELSE IF x \in Ready /\ InGroup(x, g) /\ bypass[x] < Size(g)
                 THEN bypass[x] + 1 ELSE bypass[x]]
      /\ UNCHANGED <<events, starting>>

Take(w, g, i) ==
  LET j == Groups[g][i]
  IN  /\ NextJob(g, i)
      /\ Searched(g)
      /\ pending' = [pending EXCEPT ![j] = @ - 1]
      /\ busy' = [busy EXCEPT ![j] = TRUE]
      /\ wpc' = [wpc EXCEPT ![w] = "work"]
      /\ wjob' = [wjob EXCEPT ![w] = j]
      /\ bypass' = [x \in Jobs |->
            IF x = j THEN 0
            ELSE IF x \in Ready /\ InGroup(x, g) /\ bypass[x] < Size(g)
                 THEN bypass[x] + 1 ELSE bypass[x]]
      /\ UNCHANGED <<events, starting>>

(* The search finds nothing: the worker waits, or goes round once more if  *)
(* it has just been woken.                                                 *)
NoJobs(w) ==
  /\ Ready = {}
  /\ Searched(Len(Groups))
  /\ wpc' = [wpc EXCEPT ![w] = IF wpc[w] = "scan" THEN "wait" ELSE "scan"]
  /\ UNCHANGED <<pending, busy, events, wjob, starting, bypass>>

Scan(w) ==
  /\ wpc[w] \in {"scan", "woken"}
  /\ \/ \E g \in GroupIds : \E i \in 1..Size(g) : Take(w, g, i)
     \/ NoJobs(w)

-----------------------------------------------------------------------------
(* While it processes its event a worker may post events for any module,   *)
(* post a delayed one for its own, which signals event_cond, or remove     *)
(* events of its own.                                                      *)
HandlerPost(w, j) ==
  /\ wpc[w] = "work"
  /\ ToJobqueue({j})
  /\ UNCHANGED <<busy, last, events, wjob, starting, bypass>>

(* The event thread leaves its timed wait.                                 *)
Wake == epc' = "look" /\ sleep' = 0 /\ lag' = lag

(* Mutant of HandlerDelay: nx_event_add() does not signal event_cond.      *)
HandlerDelayUnsignalled(w) ==
  LET j == wjob[w]
  IN  /\ wpc[w] = "work" /\ j \in Timed \ delayed
      /\ delayed' = delayed \cup {j}
      /\ \E d \in 0..MaxDelay : left' = [left EXCEPT ![j] = d + lag]
      /\ UNCHANGED <<pending, busy, last, epc, lag, sleep, wpc, wjob, starting, bypass>>

HandlerDelay(w) ==
  LET j == wjob[w]
  IN  /\ wpc[w] = "work" /\ j \in Timed \ delayed
      /\ delayed' = delayed \cup {j}
      /\ \E d \in 0..MaxDelay : left' = [left EXCEPT ![j] = d + lag]
      /\ IF epc = "wait" THEN Wake ELSE UNCHANGED <<epc, lag, sleep>>
      /\ UNCHANGED <<pending, busy, last, wpc, wjob, starting, bypass>>

HandlerRemove(w) ==
  LET j == wjob[w]
  IN  /\ wpc[w] = "work"
      /\ \E n \in 0..pending[j] : pending' = [pending EXCEPT ![j] = n]
      /\ \/ UNCHANGED <<delayed, left>>
         \/ delayed' = delayed \ {j} /\ left' = [left EXCEPT ![j] = 0]
      /\ UNCHANGED <<busy, last, epc, lag, sleep, wpc, wjob, starting, bypass>>

(* Mutant of Finish: job->busy is not cleared.                             *)
FinishMarked(w) ==
  /\ wpc[w] = "work"
  /\ wpc' = [wpc EXCEPT ![w] = "scan"]
  /\ wjob' = [wjob EXCEPT ![w] = NoJob]
  /\ UNCHANGED <<pending, busy, last, events, starting, bypass>>

(* The event is freed and job->busy cleared, without the lock.             *)
Finish(w) ==
  /\ wpc[w] = "work"
  /\ busy' = [busy EXCEPT ![wjob[w]] = FALSE]
  /\ wpc' = [wpc EXCEPT ![w] = "scan"]
  /\ wjob' = [wjob EXCEPT ![w] = NoJob]
  /\ UNCHANGED <<pending, last, events, starting, bypass>>

-----------------------------------------------------------------------------
(* nxlog_event_thread().  A unit of time passes: the times of the events   *)
(* come nearer and the timed wait goes on; while the event thread is to    *)
(* serve, its look at the clock ages instead.                              *)
Minus(t, n) == IF t > n THEN t - n ELSE 0

Tick ==
  /\ IF epc = "serve"
     THEN lag < MaxLag /\ lag' = lag + 1 /\ UNCHANGED <<left, sleep>>
     ELSE /\ left' = [j \in Jobs |-> Minus(left[j], 1)]
          /\ sleep' = Minus(sleep, 1)
          /\ lag' = lag
  /\ UNCHANGED <<pending, busy, last, delayed, epc, wpc, wjob, starting, bypass>>

(* now = apr_time_now(), before the thread asks for the nx lock.           *)
EventLook ==
  /\ epc = "look"
  /\ epc' = "serve"
  /\ UNCHANGED <<pending, busy, last, delayed, left, lag, sleep, wpc, wjob, starting, bypass>>

(* With the lock: the events whose time had come at the look go to their   *)
(* lists; then the timed wait begins, which releases the lock.  It lasts   *)
(* as long as the earliest of the other events was ahead at the look, so   *)
(* it ends late by the age of the look; without such an event it lasts     *)
(* NX_POLL_TIMEOUT.                                                        *)
Later == {j \in delayed : left[j] > 0}

NextRun(t) ==
  \/ Later = {} /\ t = PollTimeout
  \/ (\E j \in Later : left[j] = t) /\ (\A j \in Later : t <= left[j])

(* Mutant of EventServe: the loop ends with the first event that is due,   *)
(* and the others stay behind.                                             *)
EventServeOnce ==
  /\ epc = "serve"
  /\ \E D \in SUBSET (delayed \ Later) :
       /\ Cardinality(D) = (IF delayed = Later THEN 0 ELSE 1)
       /\ ToJobqueue(D)
       /\ delayed' = delayed \ D
  /\ left' = [j \in Jobs |-> Minus(left[j], lag)]
  /\ epc' = "wait"
  /\ \E t \in 0..(MaxDelay + MaxLag + PollTimeout) : NextRun(t) /\ sleep' = t
  /\ lag' = 0
  /\ UNCHANGED <<busy, last, wjob, starting, bypass>>

EventServe ==
  /\ epc = "serve"
  /\ ToJobqueue(delayed \ Later)
  /\ delayed' = Later
  /\ left' = [j \in Jobs |-> Minus(left[j], lag)]
  /\ epc' = "wait"
  /\ \E t \in 0..(MaxDelay + MaxLag + PollTimeout) : NextRun(t) /\ sleep' = t
  /\ lag' = 0
  /\ UNCHANGED <<busy, last, wjob, starting, bypass>>

(* Mutant of EventTimeout: the wait has no timeout.                        *)
EventTimeoutNever == epc = "wait" /\ sleep = 0 /\ UNCHANGED vars

(* The timed wait is over, or ends without a signal.                       *)
EventTimeout ==
  /\ epc = "wait" /\ sleep = 0
  /\ Wake
  /\ UNCHANGED <<pending, busy, last, delayed, left, wpc, wjob, starting, bypass>>

EventSpurious ==
  /\ epc = "wait" /\ sleep > 0
  /\ Wake
  /\ UNCHANGED <<pending, busy, last, delayed, left, wpc, wjob, starting, bypass>>

EventThread == EventLook \/ EventServe \/ EventTimeout

-----------------------------------------------------------------------------
Next ==
  \/ \E j \in Jobs : StartModule(j)
  \/ \E w \in Workers : \/ Scan(w) \/ Spurious(w) \/ Finish(w)
                        \/ HandlerDelay(w) \/ HandlerRemove(w)
                        \/ \E j \in Jobs : HandlerPost(w, j)
  \/ EventThread \/ EventSpurious \/ Tick

(* The threads are scheduled, and the handling of an event ends.           *)
Fairness ==
  /\ \A w \in Workers : WF_vars(Scan(w) \/ Finish(w))
  /\ WF_vars(EventThread) /\ WF_vars(Tick)

Spec == Init /\ [][Next]_vars /\ Fairness

-----------------------------------------------------------------------------
(* Type invariant: the delayed events and the event thread, and the rest.  *)
EventsOK ==
  /\ delayed \subseteq Jobs
  /\ left \in [Jobs -> 0..(MaxDelay + MaxLag)]
  /\ epc \in {"look", "serve", "wait"}
  /\ lag \in 0..MaxLag
  /\ sleep \in 0..(MaxDelay + MaxLag + PollTimeout)

TypeOK ==
  /\ pending \in [Jobs -> 0..MaxPending]
  /\ busy \in [Jobs -> BOOLEAN]
  /\ last \in [GroupIds -> Nat]
  /\ \A g \in GroupIds : last[g] <= Size(g)
  /\ EventsOK
  /\ wpc \in [Workers -> {"scan", "wait", "woken", "work"}]
  /\ wjob \in [Workers -> Jobs \cup {NoJob}]
  /\ starting \subseteq Jobs
  /\ bypass \in [Jobs -> Nat]

(* One worker at most is at work for a job, and job->busy says whether     *)
(* there is one.                                                           *)
Exclusive ==
  /\ \A w \in Workers : wpc[w] = "work" => wjob[w] \in Jobs /\ busy[wjob[w]]
  /\ \A j \in Jobs : busy[j] => \E w \in Workers : wpc[w] = "work" /\ wjob[w] = j
  /\ \A v, w \in Workers : wpc[v] = "work" /\ wpc[w] = "work" /\ wjob[v] = wjob[w]
                           => v = w

(* No worker sleeps while there is work for it: as long as some worker     *)
(* waits unsignalled, every job that is ready has a worker of its own on   *)
(* the way to it, although signals are spent on workers that find the job  *)
(* busy and nobody is signalled when a job stops being busy.               *)
WorkConserving == Waiting # {} => Cardinality(Ready) <= Cardinality(Awake)

(* The search does not favour any job of a group, although it remembers    *)
(* where it began and not which job it found: a job that is ready is       *)
(* passed over at most once for each other job of its group.               *)
BypassBounded ==
  \A g \in GroupIds : \A i \in 1..Size(g) : bypass[Groups[g][i]] <= Size(g) - 1

(* Dispatcher keeps to the steps of the service its users rely on, for all *)
(* modules, and serves the modules of the highest priority, whatever the   *)
(* modules of the other priorities ask for (those may wait for ever).  If  *)
(* there is one priority, as by default, that is all modules.              *)
Service == INSTANCE JobService WITH
             running <- {j \in Jobs : \E w \in Workers : wpc[w] = "work" /\ wjob[w] = j}

TopJobs == {Groups[1][i] : i \in 1..Size(1)}
TopService == INSTANCE JobService WITH
                Jobs <- TopJobs, pending <- [j \in TopJobs |-> pending[j]],
                running <- {j \in TopJobs : \E w \in Workers : wpc[w] = "work" /\ wjob[w] = j}

ServiceSpec == TopService!Spec

(* The event thread never sleeps past the time of an event in ctx->events  *)
(* by more than it had to wait for the nx lock after its look at the       *)
(* clock: neither past one that was there when the wait began, also if its *)
(* time came between the look and the wait, nor past one that a handler    *)
(* added during the wait, however far ahead the one waited for is.         *)
NeverOversleeps == epc = "wait" => \A j \in delayed : sleep <= left[j] + MaxLag

(* An event whose time has come gets its module a worker, wherever the     *)
(* event thread was when the time came or the event was added: the event   *)
(* thread does not oversleep it, and then hands it to a worker.            *)
IsDue(j) == j \in delayed /\ left[j] <= lag
DelayedServed ==
  /\ []NeverOversleeps
  /\ \A j \in TopJobs : IsDue(j) ~> busy[j]
=============================================================================
