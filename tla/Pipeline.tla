------------------------------ MODULE Pipeline ------------------------------
(***************************************************************************)
(* Log records flowing along routes: input modules generate them, each     *)
(* processor and output module has a bounded log queue, and flow control   *)
(* pauses a sender whose target is full and resumes it when the target     *)
(* has drained (src/common/module.c, src/common/logqueue.c).  The modules  *)
(* at the ends and in the middle are im_testgen, om_null and pm_null.      *)
(*                                                                         *)
(* The handlers of different modules run concurrently on worker threads;   *)
(* the handlers of one module do not (its job is busy meanwhile, see       *)
(* Dispatcher).  So each module is one process: pc[m] is where its         *)
(* handler is, and a step of the model is one critical section of the      *)
(* code (the nx lock, one log queue's mutex, one module's mutex).          *)
(***************************************************************************)
EXTENDS EventQueue, SequencesExt, FiniteSetsExt

CONSTANTS
  ModuleList,    \* ctx->modules: the module instances, in configuration order
  Type,          \* Type[m]: "INPUT", "PROCESSOR" or "OUTPUT"
  Routes,        \* ctx->routes, each the sequence route->modules
  FlowControl,   \* FlowControl[m]: module->flowcontrol
  ExecDrops,     \* modules whose Exec block may call drop()
  Limit,         \* NX_LOGQUEUE_LIMIT (100 in the code)
  Batch,         \* records im_testgen makes per READ event (10 in the code)
  MaxCount       \* im_testgen's MaxCount directive

Modules    == Range(ModuleList)
Inputs     == {m \in Modules : Type[m] = "INPUT"}
Processors == {m \in Modules : Type[m] = "PROCESSOR"}
Outputs    == {m \in Modules : Type[m] = "OUTPUT"}

ASSUME TypeAssumption ==
  /\ ModuleList \in Seq(Modules)
  /\ Type \in [Modules -> {"INPUT", "PROCESSOR", "OUTPUT"}]
  /\ Routes \in Seq(Seq(Modules))
  /\ FlowControl \in [Modules -> BOOLEAN]
  /\ ExecDrops \subseteq Modules

(* Routes as the functions below expect them: inputs, then processors,     *)
(* then outputs, at least one input and one output, a processor in one     *)
(* place of one route only (the last two are enforced by nx_add_route()).  *)
Stage == [m \in Modules |-> CASE Type[m] = "INPUT"     -> 1
                              [] Type[m] = "PROCESSOR" -> 2
                              [] Type[m] = "OUTPUT"    -> 3]

ASSUME RoutesAssumption ==
  /\ \A r \in Range(Routes) :
        /\ \A i, j \in DOMAIN r : i < j => Stage[r[i]] <= Stage[r[j]]
        /\ Range(r) \cap Inputs # {} /\ Range(r) \cap Outputs # {}
  /\ \A m \in Modules : \E r \in Range(Routes) : m \in Range(r)
  /\ \A r, s \in DOMAIN Routes : \A x \in DOMAIN Routes[r], y \in DOMAIN Routes[s] :
        Routes[r][x] = Routes[s][y] /\ Routes[r][x] \in Processors => r = s /\ x = y

ASSUME BoundsAssumption ==
  Limit \in Nat \ {0} /\ Batch \in Nat \ {0} /\ MaxCount \in Nat \ {0}

-----------------------------------------------------------------------------
(* Where a module sits in its routes.                                      *)

(* The elements of s that are in S.                                        *)
Only(s, S) ==
  LET kept[n \in 0..Len(s)] ==
        IF n = 0 THEN <<>>
        ELSE IF s[n] \in S THEN Append(kept[n - 1], s[n]) ELSE kept[n - 1]
  IN  kept[Len(s)]

RoutesOf(m) == Only(Routes, {r \in Range(Routes) : m \in Range(r)})

OverRoutes(m, F(_)) == FlattenSeq([i \in DOMAIN RoutesOf(m) |-> F(RoutesOf(m)[i])])

Follows(m, n, r) == \E i, j \in DOMAIN r : i < j /\ r[i] = m /\ r[j] = n

(* The modules a record of m goes to next in route r: the following        *)
(* processor or, when there is none, all the outputs.                      *)
NextInRoute(m, r) ==
  LET later == Only(r, {p \in Processors : Follows(m, p, r)})
  IN  IF later # <<>> THEN <<Head(later)>> ELSE Only(r, Outputs)

Targets == [m \in Modules |-> OverRoutes(m, LAMBDA r : NextInRoute(m, r))]

(* The queues nx_module_can_send(m) looks at when m is a sender.  For an   *)
(* input these are all the processors and outputs of its routes: the       *)
(* "continue" after the first processor skips nothing.                     *)
Checked ==
  [m \in Modules |->
     IF m \in Inputs
     THEN OverRoutes(m, LAMBDA r : Only(r, Modules \ Inputs))
     ELSE Targets[m]]

(* The modules resume_senders(m) considers, in its order: in each route    *)
(* the preceding processor or else every input, the last one first.        *)
SendersInRoute(m, r) ==
  LET before == Only(r, {p \in Processors : m \in Range(NextInRoute(p, r))})
  IN  IF before # <<>> THEN before ELSE Reverse(Only(r, Inputs))

Senders == [m \in Modules |-> OverRoutes(m, LAMBDA r : SendersInRoute(m, r))]

(* A push that fills the queue does not notify the receiver, and an input  *)
(* that finds an output full after its own push does not either.  When     *)
(* as many senders as the queue has places push one record each before     *)
(* any of them gets to its check, nobody notifies.  With a limit of 100    *)
(* that takes 100 inputs; instances must not be smaller in proportion.     *)
ASSUME FewSenders == \A m \in Modules : Cardinality(Range(Senders[m])) < Limit

-----------------------------------------------------------------------------
VARIABLES
  status,     \* module->status
  events,     \* module->job->events
  queue,      \* module->queue->list (an input has no queue: always empty)
  needpop,    \* module->queue->needpop
  recvd,      \* module->evt_recvd
  fwd,        \* module->evt_fwd
  counter,    \* imconf->counter of an input
  readev,     \* imconf->event != NULL of an input
  pc,         \* where the handler of the module's current event is
  loc,        \* the handler's local variables
  starting,   \* the modules nx_ctx_start_modules() has still to start
  delivered,  \* history: the records an output has consumed, in order
  dropped     \* history: the records refused by or dropped in a module

vars == <<status, events, queue, needpop, recvd, fwd, counter, readev, pc,
          loc, starting, delivered, dropped>>

(* A record is known by the input that made it and its number there.       *)
Records == Inputs \X (0..MaxCount - 1)
None    == <<>>

(* rec: logdata; done: im_testgen's loop counter; t, s, k: positions in    *)
(* Targets, Senders and Checked; sent: the flag of the same name.          *)
Locals == [rec : Records \cup {None}, done : 0..Batch, t : Nat, s : Nat,
           k : Nat, sent : BOOLEAN]
Clear  == [rec |-> None, done |-> 0, t |-> 0, s |-> 0, k |-> 0, sent |-> FALSE]

Init ==
  /\ status    = [m \in Modules |-> "STOPPED"]
  /\ events    = [m \in Modules |-> <<>>]
  /\ queue     = [m \in Modules |-> <<>>]
  /\ needpop   = [m \in Modules |-> FALSE]
  /\ recvd     = [m \in Modules |-> 0]
  /\ fwd       = [m \in Modules |-> 0]
  /\ counter   = [m \in Inputs |-> 0]
  /\ readev    = [m \in Inputs |-> FALSE]
  /\ pc        = [m \in Modules |-> "idle"]
  /\ loc       = [m \in Modules |-> Clear]
  /\ starting  = ModuleList
  /\ delivered = [m \in Outputs |-> <<>>]
  /\ dropped   = [m \in Modules |-> {}]

(* nx_event_add() of an undelayed event made for module m.                 *)
Ev(type) == [type |-> type, data |-> "NULL"]
Post(m, type) == events' = [events EXCEPT ![m] = Enqueue(@, Ev(type))]

Goto(m, label) == pc' = [pc EXCEPT ![m] = label]
Finish(m)      == Goto(m, "idle") /\ loc' = [loc EXCEPT ![m] = Clear]

-----------------------------------------------------------------------------
(* The main thread: nx_ctx_start_modules() posts a START to every module.  *)
StartModule ==
  /\ starting # <<>>
  /\ starting' = Tail(starting)
  /\ Post(Head(starting), "START")
  /\ UNCHANGED <<status, queue, needpop, recvd, fwd, counter, readev, pc, loc,
                 delivered, dropped>>

(* Where the handler of an event begins, after the look at the module's    *)
(* own status that every handler starts with.  Only the module's own       *)
(* handlers write its status, so this look can share the step of Take.     *)
(* START is posted once, to a stopped module: start_self()'s branches for  *)
(* running, paused and uninitialised modules are not met here.             *)
Entry(m, type) ==
  CASE type = "START" /\ status[m] = "STOPPED" ->
         IF m \in Inputs THEN "start_cb" ELSE "start"
    [] type = "PAUSE" /\ status[m] = "RUNNING" ->
         IF m \in Inputs THEN "pause_cb" ELSE "pause"
    [] type = "RESUME" /\ status[m] = "PAUSED" ->
         IF m \in Inputs THEN "resume_cb" ELSE "resume"
    [] type = "DATA_AVAILABLE" /\ status[m] = "RUNNING" -> "peek"
    [] type = "READ" /\ status[m] = "RUNNING" -> "generate"
    [] OTHER -> "idle"

(* A worker takes the first event of an idle module (nx_ctx_next_job()),   *)
(* and im_testgen_read() forgets the pointer to its READ event.            *)
Take(m) ==
  /\ pc[m] = "idle" /\ events[m] # <<>>
  /\ events' = [events EXCEPT ![m] = Tail(@)]
  /\ Goto(m, Entry(m, Head(events[m]).type))
  /\ readev' = [i \in Inputs |-> /\ readev[i]
                                 /\ ~(i = m /\ Head(events[m]).type = "READ")]
  /\ UNCHANGED <<status, queue, needpop, recvd, fwd, counter, loc, starting,
                 delivered, dropped>>

-----------------------------------------------------------------------------
(* Status changes: nx_module_start_self(), _pause_self(), _resume_self(),  *)
(* with the start, pause and resume callbacks of im_testgen.               *)

StatusVars == <<queue, needpop, recvd, fwd, counter, loc, starting, delivered,
                dropped>>

StartCallback(m) ==
  /\ pc[m] = "start_cb"
  /\ Post(m, "READ") /\ readev' = [readev EXCEPT ![m] = TRUE]
  /\ Goto(m, "start")
  /\ UNCHANGED StatusVars /\ UNCHANGED status

StartSelf(m) ==
  /\ pc[m] = "start"
  /\ status' = [status EXCEPT ![m] = "RUNNING"]
  /\ Goto(m, "start_queued")
  /\ UNCHANGED StatusVars /\ UNCHANGED <<events, readev>>

(* Mutant of StartQueued: the saved queue is not looked at.                *)
StartQueuedForgets(m) ==
  /\ pc[m] = "start_queued"
  /\ Goto(m, "idle")
  /\ UNCHANGED StatusVars /\ UNCHANGED <<status, readev, events>>

(* Records may already be queued: restored from disk, or pushed by a       *)
(* sender that was started earlier.                                        *)
StartQueued(m) ==
  /\ pc[m] = "start_queued"
  /\ IF queue[m] # <<>> THEN Post(m, "DATA_AVAILABLE") ELSE UNCHANGED events
  /\ Goto(m, "idle")
  /\ UNCHANGED StatusVars /\ UNCHANGED <<status, readev>>

(* Mutant of PauseCallback: imconf->event is not reset.                    *)
PauseCallbackKeepsPointer(m) ==
  /\ pc[m] = "pause_cb"
  /\ events' = IF readev[m] THEN [events EXCEPT ![m] = RemoveFirst(@, Ev("READ"))]
               ELSE events
  /\ Goto(m, "pause")
  /\ UNCHANGED StatusVars /\ UNCHANGED <<status, readev>>

(* nx_event_remove() unlinks the READ event the pointer designates.        *)
PauseCallback(m) ==
  /\ pc[m] = "pause_cb"
  /\ events' = IF readev[m] THEN [events EXCEPT ![m] = RemoveFirst(@, Ev("READ"))]
               ELSE events
  /\ readev' = [readev EXCEPT ![m] = FALSE]
  /\ Goto(m, "pause")
  /\ UNCHANGED StatusVars /\ UNCHANGED status

PauseSelf(m) ==
  /\ pc[m] = "pause"
  /\ status' = [status EXCEPT ![m] = "PAUSED"]
  /\ Goto(m, "idle")
  /\ UNCHANGED StatusVars /\ UNCHANGED <<events, readev>>

(* Mutant of ResumeCallback: reading is not taken up again.                *)
ResumeCallbackIdle(m) ==
  /\ pc[m] = "resume_cb"
  /\ Goto(m, "resume")
  /\ UNCHANGED StatusVars /\ UNCHANGED <<status, events, readev>>

ResumeCallback(m) ==
  /\ pc[m] = "resume_cb"
  /\ events' = [events EXCEPT ![m] =
                  Enqueue(IF readev[m] THEN RemoveFirst(@, Ev("READ")) ELSE @,
                          Ev("READ"))]
  /\ readev' = [readev EXCEPT ![m] = TRUE]
  /\ Goto(m, "resume")
  /\ UNCHANGED StatusVars /\ UNCHANGED status

ResumeSelf(m) ==
  /\ pc[m] = "resume"
  /\ status' = [status EXCEPT ![m] = "RUNNING"]
  /\ Goto(m, IF m \in Inputs THEN "idle" ELSE "resume_queued")
  /\ UNCHANGED StatusVars /\ UNCHANGED <<events, readev>>

ResumeQueued(m) ==
  /\ pc[m] = "resume_queued"
  /\ Post(m, "DATA_AVAILABLE")
  /\ Goto(m, "idle")
  /\ UNCHANGED StatusVars /\ UNCHANGED <<status, readev>>

-----------------------------------------------------------------------------
(* DATA_AVAILABLE: pm_null_data_available() and om_null_write() both call  *)
(* nx_module_logqueue_peek(), which looks at the first record, posts a     *)
(* further DATA_AVAILABLE while the queue is not empty (the peeked record  *)
(* included) and resumes the senders whose targets have room again.        *)

DataVars == <<status, readev, counter, starting>>

Peek(m) ==
  /\ pc[m] = "peek"
  /\ needpop' = [needpop EXCEPT ![m] = @ \/ queue[m] # <<>>]
  /\ loc' = [loc EXCEPT ![m].rec = IF queue[m] = <<>> THEN None ELSE Head(queue[m])]
  /\ Goto(m, "self_notify")
  /\ UNCHANGED DataVars
  /\ UNCHANGED <<events, queue, recvd, fwd, delivered, dropped>>

(* Nobody but m removes records from m's queue, so the size that is read   *)
(* and the posting it leads to can share a step.                           *)
SelfNotify(m) ==
  /\ pc[m] = "self_notify"
  /\ IF queue[m] # <<>> THEN Post(m, "DATA_AVAILABLE") ELSE UNCHANGED events
  /\ loc' = [loc EXCEPT ![m] = [@ EXCEPT !.s = 1, !.k = 1]]
  /\ Goto(m, "check_sender")
  /\ UNCHANGED DataVars
  /\ UNCHANGED <<queue, needpop, recvd, fwd, delivered, dropped>>

(* resume_senders(): its loop, and what follows it.                        *)
Sender(m) == Senders[m][loc[m].s]

NextSender(m) ==
  IF loc[m].s < Len(Senders[m])
  THEN /\ loc' = [loc EXCEPT ![m] = [@ EXCEPT !.s = loc[m].s + 1, !.k = 1]]
       /\ Goto(m, "check_sender")
  ELSE IF loc[m].rec = None
  THEN Finish(m)
  ELSE Goto(m, "exec") /\ UNCHANGED loc

(* nx_module_can_send(sender, 0.7) reads one queue size after the other.   *)
Congested(q) == 10 * Len(queue[q]) >= 7 * Limit

CheckSender(m) ==
  /\ pc[m] = "check_sender"
  /\ \/ /\ Congested(Checked[Sender(m)][loc[m].k])
        /\ NextSender(m)
     \/ /\ ~Congested(Checked[Sender(m)][loc[m].k])
        /\ IF loc[m].k < Len(Checked[Sender(m)])
           THEN loc' = [loc EXCEPT ![m].k = @ + 1] /\ UNCHANGED pc
           ELSE Goto(m, "resume_sender") /\ UNCHANGED loc
  /\ UNCHANGED DataVars
  /\ UNCHANGED <<events, queue, needpop, recvd, fwd, delivered, dropped>>

(* Mutant of ResumeSender: only processors are woken.                      *)
ResumeSenderSkipsInputs(m) ==
  /\ pc[m] = "resume_sender"
  /\ IF Sender(m) \in Processors
     THEN Post(Sender(m), "RESUME") /\ Goto(m, "sender_status") /\ UNCHANGED loc
     ELSE NextSender(m) /\ UNCHANGED events
  /\ UNCHANGED DataVars
  /\ UNCHANGED <<queue, needpop, recvd, fwd, delivered, dropped>>

ResumeSender(m) ==
  /\ pc[m] = "resume_sender"
  /\ Post(Sender(m), "RESUME")
  /\ IF Sender(m) \in Processors
     THEN Goto(m, "sender_status") /\ UNCHANGED loc
     ELSE NextSender(m)
  /\ UNCHANGED DataVars
  /\ UNCHANGED <<queue, needpop, recvd, fwd, delivered, dropped>>

SenderStatus(m) ==
  /\ pc[m] = "sender_status"
  /\ IF status[Sender(m)] = "RUNNING"
     THEN Goto(m, "notify_sender") /\ UNCHANGED loc
     ELSE NextSender(m)
  /\ UNCHANGED DataVars
  /\ UNCHANGED <<events, queue, needpop, recvd, fwd, delivered, dropped>>

NotifySender(m) ==
  /\ pc[m] = "notify_sender"
  /\ Post(Sender(m), "DATA_AVAILABLE")
  /\ NextSender(m)
  /\ UNCHANGED DataVars
  /\ UNCHANGED <<queue, needpop, recvd, fwd, delivered, dropped>>

(* The end of nx_module_logqueue_peek(): the counters and the Exec block.  *)
Exec(m) ==
  /\ pc[m] = "exec"
  /\ recvd' = [recvd EXCEPT ![m] = @ + 1]
  /\ fwd' = [fwd EXCEPT ![m] = IF m \in Outputs THEN @ + 1 ELSE @]
  /\ Goto(m, "pop")
  /\ UNCHANGED DataVars
  /\ UNCHANGED <<events, queue, needpop, loc, delivered, dropped>>

(* Mutant of ExecDrop: a dropped record stays in the queue.                *)
ExecDropUnpopped(m) ==
  /\ pc[m] = "exec" /\ m \in ExecDrops
  /\ recvd' = [recvd EXCEPT ![m] = @ + 1]
  /\ needpop' = [needpop EXCEPT ![m] = FALSE]
  /\ dropped' = [dropped EXCEPT ![m] = @ \cup {loc[m].rec}]
  /\ Finish(m)
  /\ UNCHANGED DataVars /\ UNCHANGED <<events, fwd, delivered, queue>>

ExecDrop(m) ==
  /\ pc[m] = "exec" /\ m \in ExecDrops
  /\ recvd' = [recvd EXCEPT ![m] = @ + 1]
  /\ queue' = [queue EXCEPT ![m] = Tail(@)]
  /\ needpop' = [needpop EXCEPT ![m] = FALSE]
  /\ dropped' = [dropped EXCEPT ![m] = @ \cup {loc[m].rec}]
  /\ Finish(m)
  /\ UNCHANGED DataVars /\ UNCHANGED <<events, fwd, delivered>>

(* The handler removes the record it has peeked.  An output is done with   *)
(* it; a processor goes on to nx_module_progress_logdata().                *)
FirstTarget(m) == IF FlowControl[m] THEN "push" ELSE "size"

Pop(m) ==
  /\ pc[m] = "pop"
  /\ queue' = [queue EXCEPT ![m] = Tail(@)]
  /\ needpop' = [needpop EXCEPT ![m] = FALSE]
  /\ IF m \in Outputs
     THEN /\ delivered' = [delivered EXCEPT ![m] = Append(@, loc[m].rec)]
          /\ Finish(m)
     ELSE /\ loc' = [loc EXCEPT ![m].t = 1]
          /\ Goto(m, FirstTarget(m))
          /\ UNCHANGED delivered
  /\ UNCHANGED DataVars /\ UNCHANGED <<events, recvd, fwd, dropped>>

-----------------------------------------------------------------------------
(* READ: im_testgen_read() makes up to Batch records in a loop that does   *)
(* not look at the status again, and passes each to                        *)
(* nx_module_add_logdata_input().                                          *)

InputVars == <<status, queue, needpop, starting, delivered>>

(* The end of one round of im_testgen_read()'s loop.                       *)
NextRound(m) ==
  /\ counter' = [counter EXCEPT ![m] = @ + 1]
  /\ loc' = [loc EXCEPT ![m] = [Clear EXCEPT !.done = loc[m].done + 1]]
  /\ Goto(m, IF loc[m].done + 1 < Batch THEN "generate" ELSE "repost")

(* Mutant of Generate: one record more than MaxCount.                      *)
GenerateOneMore(m) ==
  /\ pc[m] = "generate" /\ counter[m] <= MaxCount
  /\ recvd' = [recvd EXCEPT ![m] = @ + 1]
  /\ loc' = [loc EXCEPT ![m] = [@ EXCEPT !.rec = <<m, counter[m]>>, !.t = 1]]
  /\ Goto(m, FirstTarget(m))
  /\ UNCHANGED InputVars /\ UNCHANGED <<events, fwd, counter, readev, dropped>>

Generate(m) ==
  /\ pc[m] = "generate" /\ counter[m] < MaxCount
  /\ recvd' = [recvd EXCEPT ![m] = @ + 1]
  /\ loc' = [loc EXCEPT ![m] = [@ EXCEPT !.rec = <<m, counter[m]>>, !.t = 1]]
  /\ Goto(m, FirstTarget(m))
  /\ UNCHANGED InputVars /\ UNCHANGED <<events, fwd, counter, readev, dropped>>

GenerateDrop(m) ==
  /\ pc[m] = "generate" /\ counter[m] < MaxCount /\ m \in ExecDrops
  /\ recvd' = [recvd EXCEPT ![m] = @ + 1]
  /\ dropped' = [dropped EXCEPT ![m] = @ \cup {<<m, counter[m]>>}]
  /\ NextRound(m)
  /\ UNCHANGED InputVars /\ UNCHANGED <<events, fwd, readev>>

MaxCountReached(m) ==
  /\ pc[m] = "generate" /\ counter[m] >= MaxCount
  /\ Finish(m)
  /\ UNCHANGED InputVars
  /\ UNCHANGED <<events, recvd, fwd, counter, readev, dropped>>

Repost(m) ==
  /\ pc[m] = "repost"
  /\ IF status[m] = "RUNNING"
     THEN Post(m, "READ") /\ readev' = [readev EXCEPT ![m] = TRUE]
     ELSE UNCHANGED <<events, readev>>
  /\ Finish(m)
  /\ UNCHANGED InputVars /\ UNCHANGED <<recvd, fwd, counter, dropped>>

-----------------------------------------------------------------------------
(* Handing one record to the next modules: nx_module_add_logdata_input()   *)
(* for an input, nx_module_progress_logdata() for a processor.  They       *)
(* differ in one place: after a push to an output an input looks whether   *)
(* that output can take more and then notifies it even if it has just      *)
(* paused itself; in all other cases a push is followed by either a PAUSE  *)
(* or a DATA_AVAILABLE.                                                    *)

SendVars == <<status, needpop, readev, starting, delivered, recvd>>

Target(m) == Targets[m][loc[m].t]

(* Mutant of Recheck: no second look at an output that was full.           *)
NoRecheck(m) == FALSE

Recheck(m) == m \in Inputs /\ Target(m) \in Outputs

(* Mutant of NextTarget: the record goes to the first target only.         *)
FirstTargetOnly(m, l) == loc' = [loc EXCEPT ![m] = l] /\ Goto(m, "sent")

NextTarget(m, l) ==
  IF loc[m].t < Len(Targets[m])
  THEN /\ loc' = [loc EXCEPT ![m] = [l EXCEPT !.t = @ + 1]]
       /\ Goto(m, FirstTarget(m))
  ELSE loc' = [loc EXCEPT ![m] = l] /\ Goto(m, "sent")

(* Mutants of Push: the record is put at the head of the list, or refused  *)
(* when the list is full.                                                  *)
PushAtHead(m) ==
  /\ pc[m] = "push"
  /\ queue' = [queue EXCEPT ![Target(m)] = <<loc[m].rec>> \o @]
  /\ loc' = [loc EXCEPT ![m].sent = TRUE]
  /\ Goto(m, IF Len(queue[Target(m)]) + 1 >= Limit THEN "pause_self"
             ELSE IF Recheck(m) THEN "can_send" ELSE "notify")
  /\ UNCHANGED SendVars /\ UNCHANGED <<events, fwd, counter, dropped>>

PushRefused(m) ==
  /\ pc[m] = "push"
  /\ queue' = [queue EXCEPT ![Target(m)] =
                  IF Len(@) < Limit THEN Append(@, loc[m].rec) ELSE @]
  /\ loc' = [loc EXCEPT ![m].sent = TRUE]
  /\ Goto(m, IF Len(queue[Target(m)]) + 1 >= Limit THEN "pause_self"
             ELSE IF Recheck(m) THEN "can_send" ELSE "notify")
  /\ UNCHANGED SendVars /\ UNCHANGED <<events, fwd, counter, dropped>>

Push(m) ==
  /\ pc[m] = "push"
  /\ queue' = [queue EXCEPT ![Target(m)] = Append(@, loc[m].rec)]
  /\ loc' = [loc EXCEPT ![m].sent = TRUE]
  /\ Goto(m, IF Len(queue[Target(m)]) + 1 >= Limit THEN "pause_self"
             ELSE IF Recheck(m) THEN "can_send" ELSE "notify")
  /\ UNCHANGED SendVars /\ UNCHANGED <<events, fwd, counter, dropped>>

(* Mutant of PausePosted: a full queue does not pause the sender.          *)
PauseNotPosted(m) ==
  /\ pc[m] = "pause_self"
  /\ IF Recheck(m) THEN Goto(m, "can_send") /\ UNCHANGED loc
     ELSE NextTarget(m, loc[m])
  /\ UNCHANGED SendVars /\ UNCHANGED <<events, queue, fwd, counter, dropped>>

PausePosted(m) ==
  /\ pc[m] = "pause_self"
  /\ Post(m, "PAUSE")
  /\ IF Recheck(m) THEN Goto(m, "can_send") /\ UNCHANGED loc
     ELSE NextTarget(m, loc[m])
  /\ UNCHANGED SendVars /\ UNCHANGED <<queue, fwd, counter, dropped>>

CanSend(m) ==
  /\ pc[m] = "can_send"
  /\ IF Len(queue[Target(m)]) >= Limit THEN NextTarget(m, loc[m])
     ELSE Goto(m, "notify") /\ UNCHANGED loc
  /\ UNCHANGED SendVars /\ UNCHANGED <<events, queue, fwd, counter, dropped>>

Notify(m) ==
  /\ pc[m] = "notify"
  /\ Post(Target(m), "DATA_AVAILABLE")
  /\ NextTarget(m, loc[m])
  /\ UNCHANGED SendVars /\ UNCHANGED <<queue, fwd, counter, dropped>>

(* Mutant of LookAtSize: records are pushed whatever the size.             *)
NoLookAtSize(m) ==
  /\ pc[m] = "size"
  /\ Goto(m, "push_sized")
  /\ UNCHANGED SendVars /\ UNCHANGED <<events, queue, fwd, counter, loc, dropped>>

(* Without flow control: look at the size, then push or drop.              *)
LookAtSize(m) ==
  /\ pc[m] = "size"
  /\ \/ /\ Len(queue[Target(m)]) >= Limit
        /\ dropped' = [dropped EXCEPT ![Target(m)] = @ \cup {loc[m].rec}]
        /\ Goto(m, "notify")
     \/ /\ Len(queue[Target(m)]) < Limit
        /\ Goto(m, "push_sized") /\ UNCHANGED dropped
  /\ UNCHANGED SendVars /\ UNCHANGED <<events, queue, fwd, counter, loc>>

(* Mutant of PushSized: the record is put at the head of the list.         *)
PushSizedAtHead(m) ==
  /\ pc[m] = "push_sized"
  /\ queue' = [queue EXCEPT ![Target(m)] = <<loc[m].rec>> \o @]
  /\ loc' = [loc EXCEPT ![m].sent = TRUE]
  /\ Goto(m, "notify")
  /\ UNCHANGED SendVars /\ UNCHANGED <<events, fwd, counter, dropped>>

PushSized(m) ==
  /\ pc[m] = "push_sized"
  /\ queue' = [queue EXCEPT ![Target(m)] = Append(@, loc[m].rec)]
  /\ loc' = [loc EXCEPT ![m].sent = TRUE]
  /\ Goto(m, "notify")
  /\ UNCHANGED SendVars /\ UNCHANGED <<events, fwd, counter, dropped>>

(* The record has been offered to every target: count it.                  *)
Sent(m) ==
  /\ pc[m] = "sent"
  /\ fwd' = [fwd EXCEPT ![m] = IF loc[m].sent THEN @ + 1 ELSE @]
  /\ IF m \in Inputs THEN NextRound(m) ELSE Finish(m) /\ UNCHANGED counter
  /\ UNCHANGED SendVars /\ UNCHANGED <<events, queue, dropped>>

-----------------------------------------------------------------------------
ControlStep(m) ==
  \/ StartCallback(m) \/ StartSelf(m) \/ StartQueued(m)
  \/ PauseCallback(m) \/ PauseSelf(m)
  \/ ResumeCallback(m) \/ ResumeSelf(m) \/ ResumeQueued(m)

ReceiveStep(m) ==
  \/ Peek(m) \/ SelfNotify(m)
  \/ CheckSender(m) \/ ResumeSender(m) \/ SenderStatus(m) \/ NotifySender(m)
  \/ Exec(m) \/ ExecDrop(m) \/ Pop(m)

SendStep(m) ==
  \/ Generate(m) \/ GenerateDrop(m) \/ MaxCountReached(m) \/ Repost(m)
  \/ Push(m) \/ PausePosted(m) \/ CanSend(m) \/ Notify(m)
  \/ LookAtSize(m) \/ PushSized(m) \/ Sent(m)

HandlerStep(m) == ControlStep(m) \/ ReceiveStep(m) \/ SendStep(m)

Next == StartModule \/ \E m \in Modules : Take(m) \/ HandlerStep(m)

(* The main thread goes on, a pending event is eventually taken and a      *)
(* handler that has begun goes on: there is a worker for it (Dispatcher).  *)
Fairness == /\ WF_vars(StartModule)
            /\ \A m \in Modules : WF_vars(Take(m)) /\ WF_vars(HandlerStep(m))

Spec == Init /\ [][Next]_vars /\ Fairness

-----------------------------------------------------------------------------
(* Type invariant: every component of the pipeline's state keeps its type. *)
Labels == {"idle", "start_cb", "start", "start_queued", "pause_cb", "pause",
           "resume_cb", "resume", "resume_queued", "peek", "self_notify",
           "check_sender", "resume_sender", "sender_status", "notify_sender",
           "exec", "pop", "generate", "repost", "push", "pause_self",
           "can_send", "notify", "size", "push_sized", "sent"}

TypeOK ==
  /\ status \in [Modules -> Statuses]
  /\ events \in [Modules -> Seq({Ev(t) : t \in EventTypes})]
  /\ queue \in [Modules -> Seq(Records)]
  /\ needpop \in [Modules -> BOOLEAN]
  /\ recvd \in [Modules -> Nat] /\ fwd \in [Modules -> Nat]
  /\ counter \in [Inputs -> 0..MaxCount]
  /\ readev \in [Inputs -> BOOLEAN]
  /\ pc \in [Modules -> Labels]
  /\ loc \in [Modules -> Locals]
  /\ starting \in Seq(Modules)
  /\ delivered \in [Outputs -> Seq(Records)]
  /\ dropped \in [Modules -> SUBSET Records]

-----------------------------------------------------------------------------
(* Safety.                                                                 *)

(* The record a sender still has to push to target n.                      *)
Held(m, n) ==
  LET x == CHOOSE x \in DOMAIN Targets[m] : Targets[m][x] = n
  IN  IF \/ pc[m] \in {"push", "size", "push_sized"} /\ loc[m].t <= x
         \/ pc[m] \in {"pause_self", "can_send", "notify"} /\ loc[m].t < x
      THEN <<loc[m].rec>> ELSE <<>>

(* The modules a record of input i passes on its way to o along route r.   *)
Path(i, o, r) == <<i>> \o Only(r, Processors) \o <<o>>

(* The places of path p a record passes, one after the other: the hands    *)
(* of the sender, the queue of the next module, the hands of that module,  *)
(* its next one's queue, and so on to what the output has consumed.        *)
Place(p, z) ==
  LET x == (z + 1) \div 2
  IN  IF z % 2 = 0 THEN queue[p[x + 1]]
      ELSE IF x < Len(p) THEN Held(p[x], p[x + 1]) ELSE delivered[p[x]]

Places(p) == [z \in 1..2 * Len(p) - 1 |-> Place(p, z)]

(* In L, a sequence of places, the records of i are in the order of their  *)
(* creation: a record is older than those behind it and those in earlier   *)
(* places.                                                                 *)
InOrder(i, L) ==
  \A y, z \in DOMAIN L : \A a \in DOMAIN L[y], b \in DOMAIN L[z] :
     /\ y > z \/ (y = z /\ a < b)
     /\ L[y][a][1] = i /\ L[z][b][1] = i
     => L[y][a][2] < L[z][b][2]

Present(i, L) == {n \in 0..MaxCount - 1 : \E z \in DOMAIN L : <<i, n>> \in Range(L[z])}

Sending == {"push", "size", "push_sized", "pause_self", "can_send", "notify", "sent"}

Made(i) == counter[i] + IF pc[i] \in Sending THEN 1 ELSE 0

(* No record comes to an output on two ways: an input and an output share  *)
(* no more than one route, and no module is named twice among the next     *)
(* ones of another.  (Otherwise the output gets a record once for each.)   *)
SinglePath ==
  /\ \A r, s \in Range(Routes) : \A i \in Inputs, o \in Outputs :
        {i, o} \subseteq Range(r) /\ {i, o} \subseteq Range(s) => r = s
  /\ \A m \in Modules : \A x, y \in DOMAIN Targets[m] : Targets[m][x] = Targets[m][y] => x = y

(* Along every route, every record an input made is either delivered, or   *)
(* queued, or held by one handler, exactly once and in the order of its    *)
(* creation, unless it was dropped by an Exec block or, without flow       *)
(* control, for lack of room.  (For routes as SinglePath has them.)        *)
NothingLost ==
  \A r \in Range(Routes) : \A i \in Range(r) \cap Inputs, o \in Range(r) \cap Outputs :
     LET p    == Path(i, o, r)
         gone == UNION {dropped[m] : m \in Range(p)}
     IN  /\ InOrder(i, Places(p))
         /\ Present(i, Places(p)) = {n \in 0..Made(i) - 1 : <<i, n>> \notin gone}

(* The assertions of nx_logqueue_pop(): what the handler peeked is still   *)
(* the first record when it is removed, however many pushes came between.  *)
PeekedStaysFirst ==
  \A m \in Modules : pc[m] \in {"exec", "pop"} =>
     needpop[m] /\ queue[m] # <<>> /\ Head(queue[m]) = loc[m].rec

(* A running module with queued records always has a DATA_AVAILABLE        *)
(* pending, or a sender that is about to post one: the data is never       *)
(* forgotten although the push that fills the queue does not notify.       *)
Notified ==
  \A m \in Modules \ Inputs :
     (status[m] = "RUNNING" /\ pc[m] = "idle" /\ queue[m] # <<>>) =>
        \/ Ev("DATA_AVAILABLE") \in Range(events[m])
        \/ \E s \in Modules : /\ pc[s] \in {"can_send", "notify"}
                              /\ Target(s) = m

(* im_testgen's pointer to its READ event is set exactly when that event   *)
(* is in the list, of which there is never a second: pause and resume      *)
(* never unlink an event that is gone.                                     *)
ReadPointerValid ==
  \A i \in Inputs :
     LET reads == {x \in DOMAIN events[i] : events[i][x].type = "READ"}
     IN  (readev[i] <=> reads # {}) /\ \A x, y \in reads : x = y

(* A sender is suspended only as long as a queue behind it is congested:   *)
(* when nothing is left to do nobody is paused in front of free queues.    *)
Quiescent == starting = <<>> /\ \A m \in Modules : pc[m] = "idle" /\ events[m] = <<>>

SuspendedOnlyIfFull ==
  Quiescent => \A m \in Modules : status[m] = "PAUSED" =>
                  \E q \in Range(Checked[m]) : Congested(q)

(* The queues are bounded, though not by Limit.  An input under flow       *)
(* control notices its PAUSE only after the batch at hand, and every       *)
(* module that resumes it may have decided to do so before the queue       *)
(* filled, and wake it once more.  Without flow control a sender pushes    *)
(* one record on a size that may be stale.  (For a processor under flow    *)
(* control the excess also depends on how many DATA_AVAILABLE events are   *)
(* pending when it fills the queue; no bound is claimed for it.)           *)
Resumers(i) == {m \in Modules \ Inputs : i \in Range(Senders[m])}

Excess(s) == IF FlowControl[s] THEN Batch * (1 + Cardinality(Resumers(s))) ELSE 1

OvershootBounded ==
  \A m \in Modules \ Inputs :
     (\A s \in Range(Senders[m]) : s \in Inputs \/ ~FlowControl[s]) =>
        Len(queue[m]) <= Limit - 1 + MapThenSumSet(Excess, Range(Senders[m]))

-----------------------------------------------------------------------------
(* Liveness: every record reaches every output of its routes.              *)
AllDelivered ==
  <>(\A r \in Range(Routes) : \A i \in Range(r) \cap Inputs, o \in Range(r) \cap Outputs :
        <<i, MaxCount - 1>> \in Range(delivered[o]))
=============================================================================
